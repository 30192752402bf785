---------------------------- MODULE LogRotation ----------------------------
(***************************************************************************)
(* error.log and its numbered backups (evaluation/infrastructure/          *)
(* logger.rs).  Every process that serves, stops or asks for a daemon      *)
(* opens the same log, so several writers can rotate the same files; none  *)
(* of them takes a lock.  A rotation is a row of file operations, each of  *)
(* which can fail, and a process can be killed between two of them.        *)
(*                                                                         *)
(* A file keeps its identity when it is renamed: whoever has it open goes  *)
(* on writing to it under its new name, or to no name at all.              *)
(***************************************************************************)
EXTENDS Integers, SequencesExt

CONSTANTS
  Writer,       \* processes that log
  None,         \* no file
  Sizes,        \* bytes of one write
  max_bytes, max_backups,   \* LogRotationPolicy
  MaxWritten    \* bound: writes that reach a file

\* What is not a positive number is replaced with the default.
LogRotationPolicy == [max_bytes : Nat \ {0}, max_backups : Nat \ {0}]

\* What one write leaves in a file.
Chunk == [id : Nat \ {0}, size : Sizes]

ASSUME LogAssumption ==
  /\ None \notin Int /\ None \notin Seq(Chunk)
  /\ Sizes \subseteq Nat \ {0}
  /\ [max_bytes |-> max_bytes, max_backups |-> max_backups] \in LogRotationPolicy
  /\ MaxWritten \in Nat

ASSUME WritersAssumption == IsFiniteSet(Writer)

VARIABLES
  files,    \* 0: error.log, i: error.log.i; its chunks, or None if it is not there
  writers,  \* RotatingLogWriter of each process and where its code is
  written,  \* number of chunks written so far
  shared    \* have two processes ever had the log open at the same time?

vars == <<files, writers, written, shared>>

Name == 0 .. max_backups

Stage == {"off", "idle", "remove", "shift", "stat", "move", "measure", "opening", "append"}

\* Why a writer rotates: on open, before a write that does not fit, or after one.
Reason == {"open", "before", "after"}

\* The name of the file a writer has open, or that it has none left.
Unlinked == -1

Off == [stage |-> "off", why |-> "open", file |-> None, current_size |-> 0,
        index |-> 0, incoming |-> 0]

Init ==
  /\ files = [i \in Name |-> None]
  /\ writers = [w \in Writer |-> Off]
  /\ written = 0
  /\ shared = FALSE

Total(sizes) == FoldLeft(LAMBDA sum, n : sum + n, 0, sizes)

SizeOf(chunks) == Total([k \in DOMAIN chunks |-> chunks[k].size])

\* What metadata says of error.log.
ActiveLen == IF files[0] = None THEN 0 ELSE SizeOf(files[0])

Goes(w, new) == writers' = [writers EXCEPT ![w] = new]

\* rotate: the file is closed first; then rotate_files.
Rotating(w, why, n) ==
  Goes(w, [writers[w] EXCEPT !.stage = "remove", !.why = why, !.file = None, !.incoming = n])

------------------------------------------------------------------------------
(* Opening and writing. *)

\* init: a log that is too long is rotated first.
Open(w) ==
  /\ writers[w].stage = "off"
  /\ \/ ActiveLen > max_bytes /\ Rotating(w, "open", 0)
     \/ ActiveLen <= max_bytes /\ Goes(w, [Off EXCEPT !.stage = "measure"])
  /\ shared' = (shared \/ \E v \in Writer \ {w} : writers[v].stage # "off")
  /\ UNCHANGED <<files, written>>

\* The length is read once; what other processes append later is not counted.
Measure(w) ==
  /\ writers[w].stage = "measure"
  /\ Goes(w, [writers[w] EXCEPT !.stage = "opening", !.current_size = ActiveLen])
  /\ UNCHANGED <<files, written, shared>>

\* Mutant: the log is created anew.
OpenActive_truncates(w) ==
  LET log == writers[w]
  IN /\ log.stage = "opening"
     /\ files' = [files EXCEPT ![0] = <<>>]
     /\ Goes(w, [log EXCEPT !.file = 0,
                            !.stage = IF log.why = "before" THEN "append" ELSE "idle",
                            !.current_size = IF log.why = "open" THEN @ ELSE 0])
     /\ UNCHANGED <<written, shared>>

\* open_active_log: append to the file of that name, or create it.
OpenActive(w) ==
  LET log == writers[w]
  IN /\ log.stage = "opening"
     /\ files' = [files EXCEPT ![0] = IF @ = None THEN <<>> ELSE @]
     /\ Goes(w, [log EXCEPT !.file = 0,
                            !.stage = IF log.why = "before" THEN "append" ELSE "idle",
                            !.current_size = IF log.why = "open" THEN @ ELSE 0])
     /\ UNCHANGED <<written, shared>>

\* The bytes reach the open file, whatever its name is by now.
Append1(w, n) ==
  /\ written < MaxWritten
  /\ written' = written + 1
  /\ files' = [i \in Name |-> IF i = writers[w].file
                              THEN Append(files[i], [id |-> written + 1, size |-> n])
                              ELSE files[i]]
  /\ LET size == writers[w].current_size + n
         log == [writers[w] EXCEPT !.current_size = size, !.incoming = 0]
     IN Goes(w, IF size > max_bytes
                THEN [log EXCEPT !.stage = "remove", !.why = "after", !.file = None]
                ELSE [log EXCEPT !.stage = "idle"])
  /\ shared' = shared

\* Mutant: what is about to be written is not counted.
Fits_exclusive(w, n) == writers[w].current_size <= max_bytes

Fits(w, n) == writers[w].current_size + n <= max_bytes

\* Without a file (a rotation has failed) a write that fits is refused: nothing changes.
Write(w, n) ==
  /\ writers[w].stage = "idle"
  /\ \/ Fits(w, n) /\ writers[w].file # None /\ Append1(w, n)
     \/ ~Fits(w, n) /\ Rotating(w, "before", n) /\ UNCHANGED <<files, written, shared>>

\* The write that waited for the rotation.
WriteRotated(w) == writers[w].stage = "append" /\ Append1(w, writers[w].incoming)

------------------------------------------------------------------------------
(* rotate_files, one file operation at a time. *)

\* The backups are moved from the oldest to the newest.
ShiftFrom == max_backups - 1

NextShift(i) == i - 1

AtShift(log, i) ==
  IF i \in 1 .. max_backups - 1 THEN [log EXCEPT !.stage = "shift", !.index = i]
  ELSE [log EXCEPT !.stage = "stat", !.index = 0]

\* Open files follow their names; w goes on with `new`.
Moved(to, w, new) ==
  [v \in Writer |->
     IF v = w THEN new
     ELSE IF writers[v].file \in Name THEN [writers[v] EXCEPT !.file = to[@]]
     ELSE writers[v]]

\* Mutant: the place of the oldest backup is not cleared.
RemoveOldest_skipped(w) ==
  /\ writers[w].stage = "remove"
  /\ Goes(w, AtShift(writers[w], ShiftFrom))
  /\ UNCHANGED <<files, written, shared>>

RemoveOldest(w) ==
  /\ writers[w].stage = "remove"
  /\ files' = [files EXCEPT ![max_backups] = None]
  /\ writers' = Moved([i \in Name |-> IF i = max_backups THEN Unlinked ELSE i],
                      w, AtShift(writers[w], ShiftFrom))
  /\ UNCHANGED <<written, shared>>

\* rename: whatever bears the new name is replaced.  w goes on with `new`.
Rename(i, w, new) ==
  /\ files' = [files EXCEPT ![i + 1] = files[i], ![i] = None]
  /\ writers' = Moved([j \in Name |-> IF j = i THEN i + 1 ELSE IF j = i + 1 THEN Unlinked ELSE j],
                      w, new)

Shift(w) ==
  LET i == writers[w].index
      next == AtShift(writers[w], NextShift(i))
  IN /\ writers[w].stage = "shift"
     /\ \/ files[i] = None /\ files' = files /\ Goes(w, next)
        \/ files[i] # None /\ Rename(i, w, next)
     /\ UNCHANGED <<written, shared>>

Rotated(log) == [log EXCEPT !.stage = IF log.why = "open" THEN "measure" ELSE "opening"]

\* metadata of error.log: an empty one is removed, a missing one left alone.
Stat(w) ==
  /\ writers[w].stage = "stat"
  /\ \/ ActiveLen > 0 /\ files' = files /\ Goes(w, [writers[w] EXCEPT !.stage = "move"])
     \/ /\ ActiveLen = 0
        /\ files' = [files EXCEPT ![0] = None]
        /\ writers' = Moved([j \in Name |-> IF j = 0 THEN Unlinked ELSE j],
                            w, Rotated(writers[w]))
  /\ UNCHANGED <<written, shared>>

Move(w) ==
  /\ writers[w].stage = "move"
  /\ files[0] # None
  /\ Rename(0, w, Rotated(writers[w]))
  /\ UNCHANGED <<written, shared>>

\* A file operation fails.  `open` gives up; `rotate` leaves the writer without a file; a
\* write after a rotation leaves it with the new one.
Fail(w) ==
  /\ writers[w].stage \in {"remove", "shift", "stat", "move", "opening", "append"}
  /\ Goes(w, IF writers[w].why = "open" THEN Off
             ELSE [writers[w] EXCEPT !.stage = "idle", !.index = 0, !.incoming = 0])
  /\ UNCHANGED <<files, written, shared>>

\* The process ends or is killed.
Exit(w) ==
  /\ writers[w].stage # "off"
  /\ Goes(w, Off)
  /\ UNCHANGED <<files, written, shared>>

Step(w) ==
  \/ Open(w) \/ Measure(w) \/ OpenActive(w) \/ WriteRotated(w)
  \/ \E n \in Sizes : Write(w, n)
  \/ RemoveOldest(w) \/ Shift(w) \/ Stat(w) \/ Move(w) \/ Fail(w) \/ Exit(w)

Next == \E w \in Writer : Step(w)

Spec == Init /\ [][Next]_vars

------------------------------------------------------------------------------
TypeOK ==
  /\ files \in [Name -> Seq(Chunk) \cup {None}]
  /\ writers \in [Writer -> [stage : Stage, why : Reason, file : Name \cup {Unlinked, None},
                             current_size : Nat, index : 0 .. max_backups,
                             incoming : Sizes \cup {0}]]
  /\ written \in Nat
  /\ shared \in BOOLEAN

\* All that is left of the log, oldest backup first.
Contents(i) == IF files[i] = None THEN <<>> ELSE files[i]

OldestFirst == [k \in 1 .. max_backups + 1 |-> Contents(max_backups + 1 - k)]

Kept == FlattenSeq(OldestFirst)

(***************************************************************************)
(* The log loses its oldest end only: backups and active file, read in     *)
(* order, are the last chunks written, none missing and none out of order, *)
(* whichever file operations have failed, wherever processes were killed   *)
(* and however often the log was opened again -- as long as no two         *)
(* processes have had it open at the same time.                            *)
(***************************************************************************)
KeptIsSuffix ==
  ~shared => \A k \in 1 .. Len(Kept) : Kept[k].id = written - Len(Kept) + k

(***************************************************************************)
(* No rename replaces a file: each finds its new name free, again unless   *)
(* two processes share the log.                                            *)
(***************************************************************************)
NoOverwrite ==
  ~shared => \A w \in Writer :
    /\ writers[w].stage = "shift" => files[writers[w].index + 1] = None
    /\ writers[w].stage = "move" => files[1] = None

(***************************************************************************)
(* Each writer counts its own bytes: processes that share the log keep     *)
(* error.log within the limit each, not within one limit.  (A write longer *)
(* than the limit is not counted here: it gets a file of its own from a    *)
(* writer that is alone.)                                                  *)
(***************************************************************************)
ActiveBounded ==
  Total([k \in DOMAIN Contents(0) |->
           IF Contents(0)[k].size <= max_bytes THEN Contents(0)[k].size ELSE 0])
    <= Cardinality(Writer) * max_bytes
==============================================================================
