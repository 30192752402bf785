------------------------ MODULE LogRotation_proofs -------------------------
(***************************************************************************)
(* For every number of processes and backups and every limit: rotation by  *)
(* a process that has the log to itself replaces no file and loses the     *)
(* oldest chunks only, and processes that share the log keep error.log     *)
(* within the limit each.  The first invariant says where each writer is   *)
(* in its rotation; the second, built on it, what the files hold.          *)
(***************************************************************************)
EXTENDS LogRotation, SequenceFacts

\* A record of a writer, field by field.
LogWith(stage, why, file, current_size, index, incoming) ==
  [stage |-> stage, why |-> why, file |-> file, current_size |-> current_size,
   index |-> index, incoming |-> incoming]

Is(log, stage, why, file, current_size, index, incoming) ==
  log = LogWith(stage, why, file, current_size, index, incoming)

\* Nothing is said of the size it counts, which a fold computes.
IsLog(log) ==
  /\ log = LogWith(log.stage, log.why, log.file, log.current_size, log.index, log.incoming)
  /\ log.stage \in Stage /\ log.why \in Reason
  /\ log.file \in Name \cup {Unlinked, None}
  /\ log.index \in 0 .. max_backups
  /\ log.incoming \in Sizes \cup {0}

\* The type invariant, without the sizes.
TypeInv ==
  /\ files \in [Name -> Seq(Chunk) \cup {None}]
  /\ writers = [w \in Writer |-> writers[w]]
  /\ \A w \in Writer : IsLog(writers[w])
  /\ written \in Nat
  /\ shared \in BOOLEAN

\* An open file is there under the name it has by now; a rotating process has none open.
OpenFileExists ==
  \A w \in Writer :
    /\ writers[w].file \in Name => files[writers[w].file] # None
    /\ writers[w].stage \notin {"idle", "append"} => writers[w].file = None
    /\ writers[w].stage = "append" => writers[w].file # None /\ writers[w].incoming \in Sizes

\* A rotation before a write knows what waits to be written.
WriteWaits ==
  \A w \in Writer :
    writers[w].stage \in {"remove", "shift", "stat", "move", "measure", "opening"} =>
      (writers[w].why = "before" => writers[w].incoming \in Sizes)

\* Where two processes have never had the log open, at most one has it open.
Solo ==
  ~shared => \A v, w \in Writer :
    writers[v].stage # "off" /\ writers[w].stage # "off" => v = w

(***************************************************************************)
(* As far as the rotation has come, the next name is free: that of the     *)
(* oldest backup was cleared, and each rename leaves its old name behind.  *)
(***************************************************************************)
NextNameFree ==
  \A w \in Writer :
    /\ writers[w].stage = "shift" =>
         /\ writers[w].index \in 1 .. max_backups - 1
         /\ ~shared => files[writers[w].index + 1] = None
    /\ writers[w].stage \in {"stat", "move"} => (~shared => files[1] = None)

Inv == TypeInv /\ OpenFileExists /\ WriteWaits /\ Solo /\ NextNameFree

\* The initial states satisfy the invariant.
LEMMA InitInv == Init => Inv
<1> SUFFICES ASSUME Init PROVE Inv
  OBVIOUS
<1> USE DEF Init, Off
<1>1. files \in [Name -> Seq(Chunk) \cup {None}] /\ written \in Nat /\ shared \in BOOLEAN
  OBVIOUS
<1>2. \A w \in Writer : writers[w] = Off
  OBVIOUS
<1>3. IsLog(Off)
  BY LogAssumption DEF IsLog, LogWith, Stage, Reason, LogRotationPolicy
<1>4. TypeInv
  BY <1>1, <1>2, <1>3 DEF TypeInv
<1>5. OpenFileExists /\ WriteWaits /\ Solo /\ NextNameFree
  BY <1>2, LogAssumption DEF OpenFileExists, WriteWaits, Solo, NextNameFree, Name
<1> QED
  BY <1>4, <1>5 DEF Inv

\* A step of one writer that touches no file and opens none.
LEMMA GoesInv ==
  ASSUME Inv, NEW w \in Writer, NEW new, IsLog(new), Goes(w, new),
         files' = files, written' \in Nat, shared' \in BOOLEAN,
         \/ shared' = shared /\ writers[w].stage # "off"
         \/ shared' = (shared \/ \E v \in Writer \ {w} : writers[v].stage # "off"),
         new.stage = "shift" => /\ new.index \in 1 .. max_backups - 1
                                /\ ~shared => files[new.index + 1] = None,
         new.stage = "stat" => (~shared => files[1] = None),
         new.stage = "move" => writers[w].stage = "stat",
         new.stage \notin {"idle", "append"} => new.file = None,
         new.file \in {None, writers[w].file},
         new.stage = "append" => new.file # None /\ new.incoming \in Sizes,
         new.stage \in {"remove", "shift", "stat", "move", "measure", "opening"}
           => (new.why = "before" => new.incoming \in Sizes)
  PROVE  Inv'
<1> USE DEF Inv, TypeInv, Goes
<1>0. \A v \in Writer : writers'[v] = IF v = w THEN new ELSE writers[v]
  OBVIOUS
<1>1. TypeInv'
  BY <1>0
<1>3. OpenFileExists'
  BY <1>0, LogAssumption DEF OpenFileExists, Name, Stage
<1>4. WriteWaits'
  BY <1>0 DEF WriteWaits
<1>5. Solo'
  BY <1>0 DEF Solo
<1>6. NextNameFree'
  BY <1>0 DEF NextNameFree
<1> QED
  BY <1>1, <1>3, <1>4, <1>5, <1>6

\* The records the steps build, one field after another.
LEMMA StageSet ==
  ASSUME NEW log, IsLog(log), NEW s
  PROVE  Is([log EXCEPT !.stage = s],
            s, log.why, log.file, log.current_size, log.index, log.incoming)
BY DEF IsLog, LogWith, Is

LEMMA TwoSet ==
  ASSUME NEW log, IsLog(log), NEW s, NEW n
  PROVE  /\ Is([log EXCEPT !.stage = s, !.current_size = n],
               s, log.why, log.file, n, log.index, log.incoming)
         /\ Is([log EXCEPT !.stage = s, !.index = n],
               s, log.why, log.file, log.current_size, n, log.incoming)
<1> DEFINE a == [log EXCEPT !.stage = s]
<1>1. a = LogWith(s, log.why, log.file, log.current_size, log.index, log.incoming)
  BY DEF IsLog, LogWith
<1> HIDE DEF a
<1>2. Is([a EXCEPT !.current_size = n], s, log.why, log.file, n, log.index, log.incoming)
  BY <1>1 DEF LogWith, Is
<1>3. Is([a EXCEPT !.index = n], s, log.why, log.file, log.current_size, n, log.incoming)
  BY <1>1 DEF LogWith, Is
<1> QED
  BY <1>2, <1>3 DEF a

LEMMA GiveUpSet ==
  ASSUME NEW log, IsLog(log)
  PROVE  Is([log EXCEPT !.stage = "idle", !.index = 0, !.incoming = 0],
            "idle", log.why, log.file, log.current_size, 0, 0)
<1> DEFINE a == [log EXCEPT !.stage = "idle"]
           b == [a EXCEPT !.index = 0]
<1>1. a = LogWith("idle", log.why, log.file, log.current_size, log.index, log.incoming)
  BY DEF IsLog, LogWith
<1> HIDE DEF a
<1>2. b = LogWith("idle", log.why, log.file, log.current_size, 0, log.incoming)
  BY <1>1 DEF LogWith
<1> HIDE DEF b
<1>3. Is([b EXCEPT !.incoming = 0], "idle", log.why, log.file, log.current_size, 0, 0)
  BY <1>2 DEF LogWith, Is
<1> QED
  BY <1>3 DEF a, b

LEMMA RotatingSet ==
  ASSUME NEW log, IsLog(log), NEW why, NEW n
  PROVE  Is([log EXCEPT !.stage = "remove", !.why = why, !.file = None, !.incoming = n],
            "remove", why, None, log.current_size, log.index, n)
<1> DEFINE a == [log EXCEPT !.stage = "remove"]
           b == [a EXCEPT !.why = why]
           c == [b EXCEPT !.file = None]
<1>1. a = LogWith("remove", log.why, log.file, log.current_size, log.index, log.incoming)
  BY DEF IsLog, LogWith
<1> HIDE DEF a
<1>2. b = LogWith("remove", why, log.file, log.current_size, log.index, log.incoming)
  BY <1>1 DEF LogWith
<1> HIDE DEF b
<1>3. c = LogWith("remove", why, None, log.current_size, log.index, log.incoming)
  BY <1>2 DEF LogWith
<1> HIDE DEF c
<1>4. Is([c EXCEPT !.incoming = n], "remove", why, None, log.current_size, log.index, n)
  BY <1>3 DEF LogWith, Is
<1> QED
  BY <1>4 DEF a, b, c

LEMMA AtShiftFacts ==
  ASSUME NEW log, IsLog(log), NEW i \in 0 .. max_backups - 1
  PROVE  Is(AtShift(log, i), IF i = 0 THEN "stat" ELSE "shift", log.why, log.file,
            log.current_size, i, log.incoming)
<1>1. CASE i = 0
  <2>1. AtShift(log, i) = [log EXCEPT !.stage = "stat", !.index = i]
    BY <1>1 DEF AtShift
  <2>2. Is([log EXCEPT !.stage = "stat", !.index = i], "stat", log.why, log.file,
           log.current_size, i, log.incoming)
    BY TwoSet
  <2> QED
    BY <1>1, <2>1, <2>2, Zenon
<1>2. CASE i # 0
  <2>1. AtShift(log, i) = [log EXCEPT !.stage = "shift", !.index = i]
    BY <1>2, LogAssumption DEF AtShift, LogRotationPolicy
  <2>2. Is([log EXCEPT !.stage = "shift", !.index = i], "shift", log.why, log.file,
           log.current_size, i, log.incoming)
    BY TwoSet
  <2> QED
    BY <1>2, <2>1, <2>2, Zenon
<1> QED
  BY <1>1, <1>2

LEMMA OffFacts ==
  /\ IsLog(Off) /\ Off.stage = "off" /\ Off.why = "open" /\ Off.file = None
  /\ Is([Off EXCEPT !.stage = "measure"], "measure", "open", None, 0, 0, 0)
BY LogAssumption DEF Is, IsLog, LogWith, Stage, Reason, Off, LogRotationPolicy

\* A rotation begins: on open, before a write.
LEMMA RotatingInv ==
  ASSUME Inv, NEW w \in Writer, NEW why \in Reason, NEW n \in Sizes \cup {0},
         Rotating(w, why, n), why = "before" => n \in Sizes,
         files' = files, written' \in Nat, shared' \in BOOLEAN,
         \/ shared' = shared /\ writers[w].stage # "off"
         \/ shared' = (shared \/ \E v \in Writer \ {w} : writers[v].stage # "off")
  PROVE  Inv'
<1> DEFINE log == writers[w]
           new == [log EXCEPT !.stage = "remove", !.why = why, !.file = None, !.incoming = n]
<1>1. IsLog(log)
  BY DEF Inv, TypeInv
<1>2. Goes(w, new)
  BY DEF Rotating
<1> HIDE DEF log
<1>3. Is(new, "remove", why, None, log.current_size, log.index, n)
  BY <1>1, RotatingSet
<1> HIDE DEF new
<1>4. IsLog(new) /\ new.stage = "remove" /\ new.why = why /\ new.file = None /\ new.incoming = n
  BY <1>1, <1>3 DEF Is, IsLog, LogWith, Stage
<1> QED
  BY <1>2, <1>3, <1>4, GoesInv

\* Opening the log, and the steps that read or fail.
LEMMA OpenInv == ASSUME Inv, NEW w \in Writer, Open(w) PROVE Inv'
<1> DEFINE new == [Off EXCEPT !.stage = "measure"]
<1>3. files' = files /\ written' \in Nat /\ shared' \in BOOLEAN
      /\ shared' = (shared \/ \E v \in Writer \ {w} : writers[v].stage # "off")
  BY DEF Open, Inv, TypeInv
<1>1. Is(new, "measure", "open", None, 0, 0, 0)
  BY OffFacts
<1> HIDE DEF new
<1>4. IsLog(new) /\ new.stage = "measure" /\ new.why = "open" /\ new.file = None
  BY <1>1, LogAssumption DEF Is, IsLog, LogWith, Stage, Reason, LogRotationPolicy
<1>5. CASE Goes(w, new)
  BY <1>3, <1>4, <1>5, GoesInv
<1>6. CASE Rotating(w, "open", 0)
  BY <1>3, <1>6, RotatingInv DEF Reason
<1> QED
  BY <1>5, <1>6 DEF Open, new

LEMMA MeasureInv == ASSUME Inv, NEW w \in Writer, Measure(w) PROVE Inv'
<1> DEFINE log == writers[w]
           new == [log EXCEPT !.stage = "opening", !.current_size = ActiveLen]
<1>1. /\ IsLog(log) /\ log.stage = "measure" /\ log.file = None
      /\ log.why = "before" => log.incoming \in Sizes
  BY DEF Inv, TypeInv, OpenFileExists, WriteWaits, Measure
<1>2. Goes(w, new) /\ files' = files /\ written' \in Nat /\ shared' = shared
      /\ shared' \in BOOLEAN
  BY DEF Measure, Inv, TypeInv
<1> HIDE DEF log
<1>4. Is(new, "opening", log.why, log.file, ActiveLen, log.index, log.incoming)
  BY <1>1, TwoSet
<1> HIDE DEF new
<1>3. /\ IsLog(new) /\ new.stage = "opening" /\ new.file = None
      /\ new.why = "before" => new.incoming \in Sizes
  BY <1>1, <1>4 DEF Is, IsLog, LogWith, Stage
<1> QED
  BY <1>1, <1>2, <1>3, GoesInv DEF log

LEMMA FailInv == ASSUME Inv, NEW w \in Writer, Fail(w) PROVE Inv'
<1> DEFINE log == writers[w]
           new == [log EXCEPT !.stage = "idle", !.index = 0, !.incoming = 0]
<1>1. IsLog(log) /\ log.stage # "off"
  BY DEF Inv, TypeInv, Fail
<1>2. files' = files /\ written' \in Nat /\ shared' = shared /\ shared' \in BOOLEAN
  BY DEF Fail, Inv, TypeInv
<1>3. Goes(w, Off) \/ Goes(w, new)
  BY DEF Fail
<1> HIDE DEF log
<1>7. Is(new, "idle", log.why, log.file, log.current_size, 0, 0)
  BY <1>1, GiveUpSet
<1> HIDE DEF new
<1>4. IsLog(new) /\ new.stage = "idle" /\ new.file = log.file
  BY <1>1, <1>7, LogAssumption DEF Is, IsLog, LogWith, Stage, LogRotationPolicy
<1>5. CASE Goes(w, new)
  BY <1>1, <1>2, <1>4, <1>5, GoesInv DEF log
<1>6. CASE Goes(w, Off)
  BY <1>1, <1>2, <1>6, OffFacts, GoesInv DEF log
<1> QED
  BY <1>3, <1>5, <1>6

LEMMA ExitInv == ASSUME Inv, NEW w \in Writer, Exit(w) PROVE Inv'
<1>1. files' = files /\ written' \in Nat /\ shared' = shared /\ shared' \in BOOLEAN
      /\ Goes(w, Off) /\ writers[w].stage # "off"
  BY DEF Exit, Inv, TypeInv
<1> QED
  BY <1>1, OffFacts, GoesInv

\* A step that moves files: what is open stays there, under its new name.
LEMMA MovedInv ==
  ASSUME Inv, NEW w \in Writer, NEW new, IsLog(new),
         NEW to \in [Name -> Name \cup {Unlinked}],
         writers' = Moved(to, w, new),
         files' \in [Name -> Seq(Chunk) \cup {None}], written' = written, shared' = shared,
         \A j \in Name : files[j] # None /\ to[j] \in Name => files'[to[j]] # None,
         writers[w].stage # "off", new.file = None,
         new.stage \in {"shift", "stat", "measure", "opening"},
         new.why = "before" => new.incoming \in Sizes,
         new.stage = "shift" => /\ new.index \in 1 .. max_backups - 1
                                /\ ~shared => files'[new.index + 1] = None,
         new.stage = "stat" => (~shared => files'[1] = None)
  PROVE  Inv'
<1> USE DEF Inv, TypeInv
<1>0. \A v \in Writer :
        writers'[v] = IF v = w THEN new
                      ELSE IF writers[v].file \in Name
                           THEN [writers[v] EXCEPT !.file = to[writers[v].file]]
                           ELSE writers[v]
  BY DEF Moved
<1>1. ASSUME NEW v \in Writer, v # w
      PROVE  /\ IsLog(writers'[v])
             /\ writers'[v].stage = writers[v].stage /\ writers'[v].why = writers[v].why
             /\ writers'[v].index = writers[v].index
             /\ writers'[v].incoming = writers[v].incoming
             /\ writers[v].file \in Name => writers'[v].file = to[writers[v].file]
             /\ writers[v].file \notin Name => writers'[v].file = writers[v].file
  <2> DEFINE log == writers[v]
             f == to[log.file]
  <2>1. IsLog(log)
    OBVIOUS
  <2>2. CASE log.file \in Name
    <3>1. writers'[v] = [log EXCEPT !.file = f] /\ f \in Name \cup {Unlinked, None}
      BY <1>0, <1>1, <2>2
    <3> HIDE DEF log, f
    <3>2. Is([log EXCEPT !.file = f],
             log.stage, log.why, f, log.current_size, log.index, log.incoming)
      BY <2>1 DEF IsLog, LogWith, Is
    <3>3. Is(writers'[v],
             log.stage, log.why, f, log.current_size, log.index, log.incoming)
      BY <3>1, <3>2, Zenon
    <3> QED
      BY <2>1, <2>2, <3>1, <3>3 DEF Is, IsLog, LogWith, log, f
  <2>3. CASE log.file \notin Name
    BY <1>0, <1>1, <2>1, <2>3
  <2> QED
    BY <2>2, <2>3
<1>2. writers'[w] = new
  BY <1>0
<1>3. TypeInv'
  BY <1>1, <1>2 DEF Moved
<1>4. OpenFileExists'
  <2> SUFFICES ASSUME NEW v \in Writer
               PROVE  /\ writers'[v].file \in Name => files'[writers'[v].file] # None
                      /\ writers'[v].stage \notin {"idle", "append"} => writers'[v].file = None
                      /\ writers'[v].stage = "append" =>
                           writers'[v].file # None /\ writers'[v].incoming \in Sizes
    BY DEF OpenFileExists
  <2>0. None \notin Name /\ Unlinked \notin Name /\ None # Unlinked
    BY LogAssumption DEF Name, Unlinked
  <2>1. CASE v = w
    BY <2>0, <2>1, <1>2
  <2>2. CASE v # w
    BY <2>0, <2>2, <1>1 DEF OpenFileExists
  <2> QED
    BY <2>1, <2>2
<1>5. WriteWaits'
  BY <1>1, <1>2 DEF WriteWaits
<1>6. Solo'
  BY <1>1, <1>2 DEF Solo
<1>7. NextNameFree'
  BY <1>1, <1>2 DEF NextNameFree, Solo
<1> QED
  BY <1>3, <1>4, <1>5, <1>6, <1>7

\* A name is given up: whoever has that file open goes on writing to no name.
LEMMA UnlinkInv ==
  ASSUME Inv, NEW w \in Writer, NEW new, IsLog(new), NEW i \in Name,
         writers' = Moved([j \in Name |-> IF j = i THEN Unlinked ELSE j], w, new),
         files' = [files EXCEPT ![i] = None], written' = written, shared' = shared,
         writers[w].stage # "off", new.file = None,
         new.stage \in {"shift", "stat", "measure", "opening"},
         new.why = "before" => new.incoming \in Sizes,
         new.stage = "shift" => /\ new.index \in 1 .. max_backups - 1
                                /\ ~shared => files'[new.index + 1] = None,
         new.stage = "stat" => (~shared => files'[1] = None)
  PROVE  Inv'
<1> DEFINE to == [j \in Name |-> IF j = i THEN Unlinked ELSE j]
<1>1. to \in [Name -> Name \cup {Unlinked}]
  OBVIOUS
<1>2. files' \in [Name -> Seq(Chunk) \cup {None}]
  BY DEF Inv, TypeInv
<1>3. \A j \in Name : files[j] # None /\ to[j] \in Name => files'[to[j]] # None
  BY DEF Inv, TypeInv, Name, Unlinked
<1> HIDE DEF Inv
<1>4. writers' = Moved(to, w, new)
  OBVIOUS
<1> HIDE DEF to
<1> QED
  BY <1>1, <1>2, <1>3, <1>4, MovedInv

LEMMA RenameInv ==
  ASSUME Inv, NEW w \in Writer, NEW new, IsLog(new), NEW i \in 0 .. max_backups - 1,
         Rename(i, w, new), files[i] # None, written' = written, shared' = shared,
         writers[w].stage # "off", new.file = None,
         new.stage \in {"shift", "stat", "measure", "opening"},
         new.why = "before" => new.incoming \in Sizes,
         new.stage = "shift" => new.index \in 1 .. max_backups - 1 /\ new.index + 1 = i,
         new.stage = "stat" => i = 1
  PROVE  Inv'
<1> DEFINE to == [j \in Name |-> IF j = i THEN i + 1 ELSE IF j = i + 1 THEN Unlinked ELSE j]
<1>0. i \in Name /\ i + 1 \in Name /\ Unlinked \notin Name
  BY LogAssumption DEF Name, Unlinked, LogRotationPolicy
<1>1. to \in [Name -> Name \cup {Unlinked}]
  BY <1>0
<1>2. files' = [files EXCEPT ![i + 1] = files[i], ![i] = None]
  BY DEF Rename
<1>3. files' \in [Name -> Seq(Chunk) \cup {None}] /\ files'[i] = None /\ files'[i + 1] = files[i]
      /\ \A j \in Name \ {i, i + 1} : files'[j] = files[j]
  BY <1>0, <1>2 DEF Inv, TypeInv
<1>4. \A j \in Name : files[j] # None /\ to[j] \in Name => files'[to[j]] # None
  BY <1>0, <1>3
<1>5. writers' = Moved(to, w, new)
  BY DEF Rename
<1> HIDE DEF to
<1> QED
  BY <1>1, <1>3, <1>4, <1>5, MovedInv

\* What a rotating writer knows, and how its record goes on.
LEMMA RotatingFacts ==
  ASSUME Inv, NEW w \in Writer, writers[w].stage \in {"remove", "shift", "stat", "move"}
  PROVE  /\ IsLog(writers[w]) /\ writers[w].file = None
         /\ writers[w].why = "before" => writers[w].incoming \in Sizes
BY DEF Inv, TypeInv, OpenFileExists, WriteWaits

LEMMA NextStage ==
  ASSUME NEW log, IsLog(log), log.file = None, log.why = "before" => log.incoming \in Sizes,
         NEW i \in 0 .. max_backups - 1, NEW new, new = AtShift(log, i)
  PROVE  /\ IsLog(new) /\ new.file = None /\ new.why = log.why
         /\ new.why = "before" => new.incoming \in Sizes
         /\ new.stage \in {"shift", "stat"} /\ new.index = i
         /\ new.stage = "stat" <=> i = 0
<1>1. Is(new, IF i = 0 THEN "stat" ELSE "shift", log.why, log.file, log.current_size, i,
         log.incoming)
  BY AtShiftFacts
<1> QED
  BY <1>1, LogAssumption DEF Is, IsLog, LogWith, Stage, LogRotationPolicy

LEMMA RemoveOldestInv == ASSUME Inv, NEW w \in Writer, RemoveOldest(w) PROVE Inv'
<1> DEFINE i == max_backups - 1
           new == AtShift(writers[w], i)
<1>1. i \in 0 .. max_backups - 1 /\ max_backups \in Name /\ i + 1 = max_backups
  BY LogAssumption DEF LogRotationPolicy, Name
<1>2. writers' = Moved([j \in Name |-> IF j = max_backups THEN Unlinked ELSE j], w, new)
      /\ files' = [files EXCEPT ![max_backups] = None] /\ written' = written
      /\ shared' = shared /\ writers[w].stage = "remove"
  BY DEF RemoveOldest, ShiftFrom
<1>3. files'[max_backups] = None
  BY <1>1, <1>2 DEF Inv, TypeInv
<1> HIDE DEF i, new
<1>4. /\ IsLog(new) /\ new.file = None
      /\ new.why = "before" => new.incoming \in Sizes
      /\ new.stage \in {"shift", "stat"} /\ new.index = i
      /\ new.stage = "stat" <=> i = 0
  BY <1>1, <1>2, RotatingFacts, NextStage DEF new
<1>5. new.stage = "shift" => new.index \in 1 .. max_backups - 1 /\ files'[new.index + 1] = None
  BY <1>1, <1>3, <1>4
<1>6. new.stage = "stat" => files'[1] = None
  BY <1>1, <1>3, <1>4
<1> QED
  BY <1>1, <1>2, <1>4, <1>5, <1>6, UnlinkInv

LEMMA ShiftInv == ASSUME Inv, NEW w \in Writer, Shift(w) PROVE Inv'
<1> DEFINE i == writers[w].index
           new == AtShift(writers[w], i - 1)
<1>1. /\ writers[w].stage = "shift" /\ written' = written /\ shared' = shared
      /\ \/ files[i] = None /\ files' = files /\ Goes(w, new)
         \/ files[i] # None /\ Rename(i, w, new)
  BY DEF Shift, NextShift
<1>2. i \in 1 .. max_backups - 1
  BY <1>1 DEF Inv, NextNameFree
<1>3. max_backups \in Nat
  BY LogAssumption DEF LogRotationPolicy
<1>4. written' \in Nat /\ shared' \in BOOLEAN
  BY <1>1 DEF Inv, TypeInv
<1> HIDE DEF i, new
<1>5. i - 1 \in 0 .. max_backups - 1 /\ i \in 0 .. max_backups - 1
  BY <1>2, <1>3
<1>6. /\ IsLog(new) /\ new.file = None
      /\ new.why = "before" => new.incoming \in Sizes
      /\ new.stage \in {"shift", "stat"} /\ new.index = i - 1
      /\ new.stage = "stat" <=> i - 1 = 0
  BY <1>1, <1>5, RotatingFacts, NextStage DEF new
<1>7. /\ new.stage = "shift" => new.index \in 1 .. max_backups - 1 /\ new.index + 1 = i
      /\ new.stage = "stat" => i = 1
  BY <1>2, <1>3, <1>5, <1>6
<1>8. CASE files[i] = None /\ files' = files /\ Goes(w, new)
  BY <1>1, <1>4, <1>6, <1>7, <1>8, GoesInv
<1>9. CASE files[i] # None /\ Rename(i, w, new)
  BY <1>1, <1>5, <1>6, <1>7, <1>9, RenameInv
<1> QED
  BY <1>1, <1>8, <1>9

\* After the rename: on open the length is read again, otherwise a new file is opened.
LEMMA RotatedFacts ==
  ASSUME NEW log, IsLog(log), log.file = None, log.why = "before" => log.incoming \in Sizes,
         NEW new, new = Rotated(log)
  PROVE  /\ IsLog(new) /\ new.file = None
         /\ new.why = "before" => new.incoming \in Sizes
         /\ new.stage \in {"measure", "opening"}
<1> DEFINE s == IF log.why = "open" THEN "measure" ELSE "opening"
<1>1. new = [log EXCEPT !.stage = s]
  BY DEF Rotated
<1>2. s \in {"measure", "opening"}
  OBVIOUS
<1> HIDE DEF s
<1>3. Is([log EXCEPT !.stage = s],
         s, log.why, log.file, log.current_size, log.index, log.incoming)
  BY StageSet
<1>4. Is(new, s, log.why, log.file, log.current_size, log.index, log.incoming)
  BY <1>1, <1>3, Zenon
<1> QED
  BY <1>2, <1>4 DEF Is, IsLog, LogWith, Stage

LEMMA StatInv == ASSUME Inv, NEW w \in Writer, Stat(w) PROVE Inv'
<1> DEFINE log == writers[w]
           move == [log EXCEPT !.stage = "move"]
           new == Rotated(log)
<1>1. log.stage = "stat" /\ written' = written /\ shared' = shared
  BY DEF Stat
<1>2. IsLog(log) /\ log.file = None /\ (log.why = "before" => log.incoming \in Sizes)
  BY <1>1, RotatingFacts
<1>3. written' \in Nat /\ shared' \in BOOLEAN
  BY <1>1 DEF Inv, TypeInv
<1>4. CASE files' = files /\ Goes(w, move)
  <2> HIDE DEF log
  <2>1. Is(move, "move", log.why, log.file, log.current_size, log.index, log.incoming)
    BY <1>2, StageSet
  <2> HIDE DEF move
  <2>2. IsLog(move) /\ move.stage = "move" /\ move.file = None /\ move.why = log.why
        /\ move.incoming = log.incoming
    BY <1>2, <2>1 DEF Is, IsLog, LogWith, Stage
  <2> QED
    BY <1>1, <1>2, <1>3, <1>4, <2>2, GoesInv DEF log
<1>5. CASE /\ files' = [files EXCEPT ![0] = None]
           /\ writers' = Moved([j \in Name |-> IF j = 0 THEN Unlinked ELSE j], w, new)
  <2>1. 0 \in Name
    BY LogAssumption DEF Name, LogRotationPolicy
  <2>2. /\ IsLog(new) /\ new.file = None /\ (new.why = "before" => new.incoming \in Sizes)
        /\ new.stage \in {"measure", "opening"}
    BY <1>2, RotatedFacts
  <2> HIDE DEF new
  <2> QED
    BY <1>1, <1>5, <2>1, <2>2, UnlinkInv
<1> QED
  BY <1>4, <1>5 DEF Stat

LEMMA MoveInv == ASSUME Inv, NEW w \in Writer, Move(w) PROVE Inv'
<1> DEFINE new == Rotated(writers[w])
<1>1. writers[w].stage = "move" /\ files[0] # None /\ Rename(0, w, new)
      /\ written' = written /\ shared' = shared
  BY DEF Move
<1>2. 0 \in 0 .. max_backups - 1
  BY LogAssumption DEF LogRotationPolicy
<1>3. /\ IsLog(new) /\ new.file = None /\ (new.why = "before" => new.incoming \in Sizes)
      /\ new.stage \in {"measure", "opening"}
  BY <1>1, RotatingFacts, RotatedFacts
<1> HIDE DEF new
<1> QED
  BY <1>1, <1>2, <1>3, RenameInv

\* A step that puts bytes into a file, or creates error.log: no backup appears or vanishes.
LEMMA FilledInv ==
  ASSUME Inv, NEW w \in Writer, NEW new, IsLog(new), Goes(w, new),
         files' \in [Name -> Seq(Chunk) \cup {None}], written' \in Nat, shared' = shared,
         \A j \in Name : files[j] # None => files'[j] # None,
         \A j \in Name \ {0} : files[j] = None => files'[j] = None,
         writers[w].stage # "off", new.stage \in {"append", "idle", "remove"},
         new.file \in Name => files'[new.file] # None,
         new.stage = "remove" => new.file = None,
         new.stage = "append" => new.file # None /\ new.incoming \in Sizes,
         new.stage = "remove" => (new.why = "before" => new.incoming \in Sizes)
  PROVE  Inv'
<1> USE DEF Inv, TypeInv, Goes
<1>0. \A v \in Writer : writers'[v] = IF v = w THEN new ELSE writers[v]
  OBVIOUS
<1>1. TypeInv'
  BY <1>0
<1>2. OpenFileExists'
  BY <1>0 DEF OpenFileExists
<1>3. WriteWaits'
  BY <1>0 DEF WriteWaits
<1>4. Solo'
  BY <1>0 DEF Solo
<1>5. NextNameFree'
  <2>1. 1 \in Name /\ max_backups \in Nat
    BY LogAssumption DEF Name, LogRotationPolicy
  <2>2. \A i \in 1 .. max_backups - 1 : i + 1 \in Name \ {0}
    BY <2>1 DEF Name
  <2> QED
    BY <1>0, <2>1, <2>2 DEF NextNameFree
<1> QED
  BY <1>1, <1>2, <1>3, <1>4, <1>5

LEMMA OpenedSet ==
  ASSUME NEW log, IsLog(log), NEW s, NEW n
  PROVE  Is([log EXCEPT !.file = 0, !.stage = s, !.current_size = n],
            s, log.why, 0, n, log.index, log.incoming)
<1> DEFINE a == [log EXCEPT !.file = 0]
           b == [a EXCEPT !.stage = s]
<1>1. a = LogWith(log.stage, log.why, 0, log.current_size, log.index, log.incoming)
  BY DEF IsLog, LogWith
<1> HIDE DEF a
<1>2. b = LogWith(s, log.why, 0, log.current_size, log.index, log.incoming)
  BY <1>1 DEF LogWith
<1> HIDE DEF b
<1>3. Is([b EXCEPT !.current_size = n], s, log.why, 0, n, log.index, log.incoming)
  BY <1>2 DEF LogWith, Is
<1> QED
  BY <1>3 DEF a, b

LEMMA OpenActiveInv == ASSUME Inv, NEW w \in Writer, OpenActive(w) PROVE Inv'
<1> DEFINE log == writers[w]
           s == IF log.why = "before" THEN "append" ELSE "idle"
           n == IF log.why = "open" THEN log.current_size ELSE 0
           new == [log EXCEPT !.file = 0, !.stage = s, !.current_size = n]
<1>1. log.stage = "opening" /\ written' = written /\ shared' = shared
      /\ files' = [files EXCEPT ![0] = IF files[0] = None THEN <<>> ELSE files[0]]
  BY DEF OpenActive
<1>2. Goes(w, new)
  BY DEF OpenActive
<1>3. IsLog(log) /\ (log.why = "before" => log.incoming \in Sizes)
  BY <1>1 DEF Inv, TypeInv, WriteWaits
<1>4. 0 \in Name
  BY LogAssumption DEF Name, LogRotationPolicy
<1>5. <<>> # None
  <2>1. <<>> \in Seq(Chunk)
    OBVIOUS
  <2> QED
    BY <2>1, LogAssumption
<1>6. /\ files' \in [Name -> Seq(Chunk) \cup {None}] /\ written' \in Nat
      /\ files'[0] # None
      /\ \A j \in Name : files[j] # None => files'[j] # None
      /\ \A j \in Name \ {0} : files[j] = None => files'[j] = None
  BY <1>1, <1>4, <1>5 DEF Inv, TypeInv
<1>7. /\ s \in {"append", "idle"}
      /\ s = "append" => log.why = "before"
  OBVIOUS
<1>8. log.stage # "off"
  BY <1>1
<1> HIDE DEF s, n, log
<1>9. Is(new, s, log.why, 0, n, log.index, log.incoming)
  BY <1>3, OpenedSet
<1> HIDE DEF new
<1>10. /\ IsLog(new) /\ new.file = 0 /\ new.stage = s /\ new.why = log.why
       /\ new.incoming = log.incoming
  BY <1>3, <1>4, <1>7, <1>9 DEF Is, IsLog, LogWith, Stage
<1>11. 0 # None
  BY LogAssumption
<1> QED
  BY <1>1, <1>2, <1>3, <1>6, <1>7, <1>8, <1>10, <1>11, FilledInv DEF log

LEMMA CountedSet ==
  ASSUME NEW log, IsLog(log), NEW n
  PROVE  /\ Is([[log EXCEPT !.current_size = n, !.incoming = 0] EXCEPT !.stage = "idle"],
               "idle", log.why, log.file, n, log.index, 0)
         /\ Is([[log EXCEPT !.current_size = n, !.incoming = 0]
                  EXCEPT !.stage = "remove", !.why = "after", !.file = None],
               "remove", "after", None, n, log.index, 0)
<1> DEFINE a == [log EXCEPT !.current_size = n]
           b == [a EXCEPT !.incoming = 0]
           c == [b EXCEPT !.stage = "remove"]
           d == [c EXCEPT !.why = "after"]
<1>1. a = LogWith(log.stage, log.why, log.file, n, log.index, log.incoming)
  BY DEF IsLog, LogWith
<1> HIDE DEF a
<1>2. b = LogWith(log.stage, log.why, log.file, n, log.index, 0)
  BY <1>1 DEF LogWith
<1> HIDE DEF b
<1>3. Is([b EXCEPT !.stage = "idle"], "idle", log.why, log.file, n, log.index, 0)
  BY <1>2 DEF LogWith, Is
<1>4. c = LogWith("remove", log.why, log.file, n, log.index, 0)
  BY <1>2 DEF LogWith
<1> HIDE DEF c
<1>5. d = LogWith("remove", "after", log.file, n, log.index, 0)
  BY <1>4 DEF LogWith
<1> HIDE DEF d
<1>6. Is([d EXCEPT !.file = None], "remove", "after", None, n, log.index, 0)
  BY <1>5 DEF LogWith, Is
<1> QED
  BY <1>3, <1>6 DEF a, b, c, d

LEMMA AppendInv ==
  ASSUME Inv, NEW w \in Writer, NEW n \in Sizes, Append1(w, n),
         writers[w].stage # "off", writers[w].file # None
  PROVE  Inv'
<1> DEFINE log == writers[w]
           size == log.current_size + n
           chunk == [id |-> written + 1, size |-> n]
           counted == [log EXCEPT !.current_size = size, !.incoming = 0]
           idle == [counted EXCEPT !.stage = "idle"]
           rot == [counted EXCEPT !.stage = "remove", !.why = "after", !.file = None]
<1>1. /\ written' = written + 1 /\ shared' = shared
      /\ files' = [i \in Name |-> IF i = log.file THEN Append(files[i], chunk) ELSE files[i]]
      /\ Goes(w, idle) \/ Goes(w, rot)
  BY DEF Append1
<1>2. IsLog(log) /\ (log.file \in Name => files[log.file] # None)
  BY DEF Inv, TypeInv, OpenFileExists
<1>3. chunk \in Chunk
  BY DEF Chunk, Inv, TypeInv
<1> HIDE DEF chunk, log, size
<1>4. \A j \in Name : j = log.file => /\ Append(files[j], chunk) \in Seq(Chunk)
                                      /\ Append(files[j], chunk) # None
  <2> SUFFICES ASSUME NEW j \in Name, j = log.file
               PROVE  Append(files[j], chunk) \in Seq(Chunk)
    BY LogAssumption
  <2>1. files[j] \in Seq(Chunk)
    BY <1>2 DEF Inv, TypeInv
  <2> HIDE DEF Inv
  <2> QED
    BY <1>3, <2>1
<1>5. /\ files' \in [Name -> Seq(Chunk) \cup {None}] /\ written' \in Nat
      /\ \A j \in Name : files[j] # None => files'[j] # None
      /\ \A j \in Name : files[j] = None => files'[j] = None
      /\ log.file \in Name => files'[log.file] # None
  BY <1>1, <1>2, <1>4 DEF Inv, TypeInv
<1>6. Is(idle, "idle", log.why, log.file, size, log.index, 0)
      /\ Is(rot, "remove", "after", None, size, log.index, 0)
  BY <1>2, CountedSet
<1> HIDE DEF idle, rot
<1>7. /\ IsLog(idle) /\ idle.stage = "idle" /\ idle.file = log.file
      /\ IsLog(rot) /\ rot.stage = "remove" /\ rot.file = None /\ rot.why = "after"
  BY <1>2, <1>6 DEF Is, IsLog, LogWith, Stage, Reason
<1>8. None \notin Name
  BY LogAssumption DEF Name
<1>9. CASE Goes(w, idle)
  BY <1>1, <1>5, <1>7, <1>9, FilledInv
<1>10. CASE Goes(w, rot)
  BY <1>1, <1>5, <1>7, <1>8, <1>10, FilledInv
<1> QED
  BY <1>1, <1>9, <1>10

LEMMA WriteInv == ASSUME Inv, NEW w \in Writer, NEW n \in Sizes, Write(w, n) PROVE Inv'
<1>1. writers[w].stage = "idle"
  BY DEF Write
<1>2. CASE writers[w].file # None /\ Append1(w, n)
  BY <1>1, <1>2, AppendInv
<1>3. CASE Rotating(w, "before", n) /\ UNCHANGED <<files, written, shared>>
  <2>1. files' = files /\ written' \in Nat /\ shared' = shared /\ shared' \in BOOLEAN
    BY <1>3 DEF Inv, TypeInv
  <2>2. "before" \in Reason /\ n \in Sizes \cup {0}
    BY DEF Reason
  <2> QED
    BY <1>1, <1>3, <2>1, <2>2, RotatingInv
<1> QED
  BY <1>2, <1>3 DEF Write

LEMMA WriteRotatedInv == ASSUME Inv, NEW w \in Writer, WriteRotated(w) PROVE Inv'
<1>1. writers[w].stage = "append" /\ Append1(w, writers[w].incoming)
  BY DEF WriteRotated
<1>2. writers[w].file # None /\ writers[w].incoming \in Sizes
  BY <1>1 DEF Inv, OpenFileExists
<1> QED
  BY <1>1, <1>2, AppendInv

\* Every step of every process preserves the invariant.
LEMMA NextInv == Inv /\ [Next]_vars => Inv'
<1> SUFFICES ASSUME Inv, [Next]_vars PROVE Inv'
  OBVIOUS
<1>1. CASE Next
  <2>1. PICK w \in Writer : Step(w)
    BY <1>1 DEF Next
  <2> QED
    BY <2>1, OpenInv, MeasureInv, OpenActiveInv, WriteRotatedInv, WriteInv, RemoveOldestInv,
       ShiftInv, StatInv, MoveInv, FailInv, ExitInv DEF Step
<1>2. CASE UNCHANGED vars
  BY <1>2 DEF vars, Inv, TypeInv, OpenFileExists, WriteWaits, Solo, NextNameFree
<1> QED
  BY <1>1, <1>2

\* The invariant holds in every reachable state.
THEOREM InvHolds == Spec => []Inv
BY InitInv, NextInv, PTL DEF Spec

(***************************************************************************)
(* A process that has had the log to itself never renames a file over      *)
(* another (rotate_files clears the oldest place and moves from the oldest *)
(* to the newest), whatever failed or was killed before.                   *)
(***************************************************************************)
THEOREM NoOverwriteHolds == Spec => []NoOverwrite
<1>1. Inv => NoOverwrite
  BY DEF Inv, NextNameFree, NoOverwrite
<1> QED
  BY <1>1, InvHolds, PTL

(***************************************************************************)
(* Where two processes have never had the log open together, at most one   *)
(* has it open; and what a process writes to is a file that is there, or   *)
(* one that has lost its name, never a name without a file.                *)
(***************************************************************************)
THEOREM OpenFilesHold == Spec => [](Solo /\ OpenFileExists)
<1>1. Inv => Solo /\ OpenFileExists
  BY DEF Inv
<1> QED
  BY <1>1, InvHolds, PTL

------------------------------------------------------------------------------
(* Totals. *)

\* S has the totals of the beginnings of the list.
Sums(S, sizes) ==
  /\ S \in [0 .. Len(sizes) -> Nat]
  /\ S[0] = 0
  /\ \A i \in 1 .. Len(sizes) : S[i] = S[i - 1] + sizes[i]

\* Total folds + over the list from the left.
LEMMA TotalFold ==
  ASSUME NEW sizes \in Seq(Nat)
  PROVE  \E S : Sums(S, sizes) /\ Total(sizes) = S[Len(sizes)]
<1> DEFINE n == Len(sizes)
           apply == [i \in 1 .. n |-> [sum \in Nat |-> sum + sizes[i]]]
           Solves(f) == f = [s \in SUBSET DOMAIN sizes |->
                               IF s = {} THEN 0 ELSE f[s \ {Max(s)}] + sizes[Max(s)]]
<1>1. n \in Nat /\ DOMAIN sizes = 1 .. n /\ \A i \in 1 .. n : sizes[i] \in Nat
  OBVIOUS
<1> HIDE DEF n
<1>2. apply \in [1 .. n -> [Nat -> Nat]]
  <2>1. \A i \in 1 .. n, sum \in Nat : sum + sizes[i] \in Nat
    BY <1>1
  <2> QED
    BY <2>1
<1>3. PICK f \in [SUBSET (1 .. n) -> Nat] : SolvesFold(f, n, 0, apply)
  <2> HIDE DEF apply
  <2> QED
    BY <1>1, <1>2, FoldExists
<1>4. Solves(f)
  <2>1. \A s \in SUBSET (1 .. n) : s # {} =>
          apply[Max(s)][f[s \ {Max(s)}]] = f[s \ {Max(s)}] + sizes[Max(s)]
    <3>1. \A s \in SUBSET (1 .. n) : s # {} =>
            Max(s) \in 1 .. n /\ f[s \ {Max(s)}] \in Nat
      BY <1>1, PrefixFacts
    <3> QED
      BY <3>1
  <2> HIDE DEF apply
  <2>2. f = [s \in SUBSET (1 .. n) |->
               IF s = {} THEN 0 ELSE f[s \ {Max(s)}] + sizes[Max(s)]]
    BY <1>3, <2>1 DEF SolvesFold
  <2> QED
    BY <2>2, <1>1
<1> DEFINE F == CHOOSE g : Solves(g)
<1>5. Solves(F)
  <2> HIDE DEF Solves
  <2> QED
    BY <1>4
<1>6. Total(sizes) = F[DOMAIN sizes]
  BY DEF Total, FoldLeft, MapThenFoldSet
<1> HIDE DEF F
<1> DEFINE S == [i \in 0 .. n |-> F[1 .. i]]
<1>7. S[0] = 0
  BY <1>1, <1>5, PrefixFacts
<1>8. ASSUME NEW i \in 1 .. n PROVE S[i] = S[i - 1] + sizes[i]
  <2>1. S[i] = F[1 .. i] /\ S[i - 1] = F[1 .. (i - 1)]
    BY <1>1
  <2>2. /\ 1 .. i \in SUBSET (1 .. n) /\ 1 .. i # {}
        /\ Max(1 .. i) = i /\ (1 .. i) \ {i} = 1 .. (i - 1)
    BY <1>1, PrefixFacts
  <2>3. F[1 .. i] = F[(1 .. i) \ {Max(1 .. i)}] + sizes[Max(1 .. i)]
    BY <1>1, <1>5, <2>2
  <2> QED
    BY <2>1, <2>2, <2>3
<1>9. Total(sizes) = S[n]
  BY <1>1, <1>6
<1>10. S = [i \in 0 .. n |-> S[i]]
  OBVIOUS
<1> HIDE DEF S
<1>11. \A i \in 0 .. n : S[i] \in Nat
  <2> DEFINE T == {i \in 0 .. n : S[i] \in Nat}
  <2>1. 0 \in T
    BY <1>1, <1>7
  <2>2. ASSUME NEW i \in 1 .. n, i - 1 \in T PROVE i \in T
    BY <1>1, <1>8, <2>2
  <2>3. \A i \in 0 .. n : i \in T
    <3> HIDE DEF T
    <3> QED
      BY <1>1, <2>1, <2>2, InductionTo
  <2> QED
    BY <2>3
<1>12. S \in [0 .. n -> Nat]
  BY <1>10, <1>11
<1> QED
  BY <1>7, <1>8, <1>9, <1>12 DEF Sums, n

\* Item by item smaller, smaller in total.
LEMMA TotalMonotone ==
  ASSUME NEW s \in Seq(Nat), NEW t \in Seq(Nat), Len(s) = Len(t),
         \A i \in 1 .. Len(s) : s[i] <= t[i]
  PROVE  Total(s) \in Nat /\ Total(t) \in Nat /\ Total(s) <= Total(t)
<1> DEFINE n == Len(s)
<1>1. n \in Nat /\ n = Len(t) /\ \A i \in 1 .. n : s[i] \in Nat /\ t[i] \in Nat
  OBVIOUS
<1>2. PICK S : Sums(S, s) /\ Total(s) = S[n]
  BY TotalFold
<1>3. PICK T : Sums(T, t) /\ Total(t) = T[n]
  BY <1>1, TotalFold
<1>4. /\ S[0] = 0 /\ T[0] = 0
      /\ \A i \in 0 .. n : S[i] \in Nat /\ T[i] \in Nat
      /\ \A i \in 1 .. n : S[i] = S[i - 1] + s[i] /\ T[i] = T[i - 1] + t[i]
  BY <1>1, <1>2, <1>3 DEF Sums
<1> DEFINE I == {i \in 0 .. n : S[i] <= T[i]}
<1>5. 0 \in I
  BY <1>1, <1>4
<1>6. ASSUME NEW i \in 1 .. n, i - 1 \in I PROVE i \in I
  <2>1. i - 1 \in 0 .. n /\ i \in 0 .. n /\ s[i] <= t[i] /\ S[i - 1] <= T[i - 1]
    BY <1>1, <1>6
  <2>2. /\ S[i] = S[i - 1] + s[i] /\ T[i] = T[i - 1] + t[i]
        /\ S[i - 1] \in Nat /\ T[i - 1] \in Nat /\ s[i] \in Nat /\ t[i] \in Nat
    BY <1>1, <1>4, <2>1
  <2>3. S[i] <= T[i]
    BY <2>1, <2>2
  <2> QED
    BY <2>1, <2>3
<1>7. \A i \in 0 .. n : i \in I
  <2> HIDE DEF I, n
  <2> QED
    BY <1>1, <1>5, <1>6, InductionTo
<1>8. n \in 0 .. n
  BY <1>1
<1> QED
  BY <1>2, <1>3, <1>4, <1>7, <1>8

\* One item more.
LEMMA TotalAppend ==
  ASSUME NEW s \in Seq(Nat), NEW x \in Nat
  PROVE  Total(Append(s, x)) = Total(s) + x
<1> DEFINE n == Len(s)
           t == Append(s, x)
<1>1. /\ n \in Nat /\ t \in Seq(Nat) /\ Len(t) = n + 1 /\ t[n + 1] = x
      /\ \A i \in 1 .. n : t[i] = s[i] /\ i \in 1 .. n + 1
      /\ n + 1 \in 1 .. n + 1 /\ (n + 1) - 1 = n
  OBVIOUS
<1> HIDE DEF t
<1>2. PICK S : Sums(S, s) /\ Total(s) = S[n]
  BY TotalFold
<1>3. PICK T : Sums(T, t) /\ Total(t) = T[n + 1]
  BY <1>1, TotalFold
<1> HIDE DEF n
<1>4. /\ S[0] = 0 /\ T[0] = 0 /\ T[n + 1] = T[n] + x
      /\ \A i \in 1 .. n : S[i] = S[i - 1] + s[i] /\ T[i] = T[i - 1] + s[i]
  BY <1>1, <1>2, <1>3 DEF Sums, n
<1> DEFINE I == {i \in 0 .. n : S[i] = T[i]}
<1>5. 0 \in I
  BY <1>1, <1>4
<1>6. ASSUME NEW i \in 1 .. n, i - 1 \in I PROVE i \in I
  BY <1>1, <1>4, <1>6
<1>7. \A i \in 0 .. n : i \in I
  <2> HIDE DEF I
  <2> QED
    BY <1>1, <1>5, <1>6, InductionTo
<1>8. S[n] = T[n]
  <2>1. n \in 0 .. n
    BY <1>1
  <2>2. n \in I
    <3> HIDE DEF I
    <3> QED
      BY <1>7, <2>1
  <2> QED
    BY <2>2
<1> QED
  BY <1>2, <1>3, <1>4, <1>8 DEF t

LEMMA TotalEmpty == Total(<< >>) = 0
<1>1. << >> \in Seq(Nat) /\ Len(<< >>) = 0
  OBVIOUS
<1>2. PICK S : Sums(S, << >>) /\ Total(<< >>) = S[0]
  BY <1>1, TotalFold
<1> QED
  BY <1>2 DEF Sums

------------------------------------------------------------------------------
(* What is left of the log. *)

\* e[i] is the number of the last chunk of file i, or of the next older one
\* where that is empty: the files, read in order, end with the last chunk.
Ends(e) ==
  /\ e \in [0 .. max_backups + 1 -> Int]
  /\ e[0] = written
  /\ \A i \in Name :
       /\ e[i + 1] = e[i] - Len(Contents(i))
       /\ \A k \in 1 .. Len(Contents(i)) : Contents(i)[k].id = e[i + 1] + k

\* A process that has the log to itself writes to error.log.
OnActive == ~shared => \A w \in Writer : writers[w].file \in {0, None}

Gapless == ~shared => \E e : Ends(e)

\* What is kept of files without gaps has none.
LEMMA KeptGapless ==
  ASSUME TypeInv, NEW e, Ends(e)
  PROVE  \A k \in 1 .. Len(Kept) : Kept[k].id = written - Len(Kept) + k
<1> DEFINE n == max_backups + 1
           seqs == OldestFirst
<1>1. n \in Nat \ {0} /\ max_backups \in Nat
  BY LogAssumption DEF LogRotationPolicy
<1>2. \A i \in Name : Contents(i) \in Seq(Chunk)
  BY DEF TypeInv, Contents
<1>3. \A k \in 1 .. n : n - k \in Name
  BY <1>1 DEF Name
<1>4. seqs \in [1 .. n -> Seq(Chunk)]
  BY <1>1, <1>2, <1>3 DEF OldestFirst
<1>5. Kept = FlattenSeq(seqs)
  BY DEF Kept
<1>6. \A k \in 1 .. n : seqs[k] = Contents(n - k)
  BY <1>1 DEF OldestFirst
<1> HIDE DEF seqs
<1>7. PICK F \in [0 .. n -> Seq(Chunk)] : Flattens(F, seqs, n)
  <2> DEFINE m == n
  <2>1. m \in Nat \ {0} /\ seqs \in [1 .. m -> Seq(Chunk)]
    BY <1>1, <1>4
  <2> HIDE DEF m
  <2>2. \E F \in [0 .. m -> Seq(Chunk)] : Flattens(F, seqs, m)
    BY <2>1, FlattenFold
  <2> QED
    BY <2>2 DEF m
<1>8. /\ F[0] = << >> /\ Kept = F[n]
      /\ \A i \in 1 .. n : F[i] = F[i - 1] \o seqs[i]
  BY <1>5, <1>7 DEF Flattens
<1>9. /\ \A i \in 0 .. n : e[i] \in Int
      /\ \A i \in Name : e[i + 1] = e[i] - Len(Contents(i))
      /\ \A i \in Name : \A k \in 1 .. Len(Contents(i)) : Contents(i)[k].id = e[i + 1] + k
  BY DEF Ends
<1> DEFINE Good(i) == /\ Len(F[i]) = e[n - i] - e[n]
                      /\ \A k \in 1 .. Len(F[i]) : F[i][k].id = e[n] + k
           T == {i \in 0 .. n : Good(i)}
<1>10. 0 \in T
  <2>1. n - 0 = n /\ n \in 0 .. n /\ 0 \in 0 .. n
    BY <1>1
  <2>2. e[n - 0] - e[n] = 0
    BY <1>9, <2>1
  <2>3. Len(F[0]) = 0 /\ 1 .. 0 = {}
    BY <1>8
  <2> QED
    BY <2>1, <2>2, <2>3
<1>11. ASSUME NEW i \in 1 .. n, i - 1 \in T PROVE i \in T
  <2> DEFINE c == Contents(n - i)
             s == F[i - 1]
  <2>1. /\ i \in 0 .. n /\ n - i \in Name /\ n - (i - 1) = (n - i) + 1 /\ i - 1 \in 0 .. n
        /\ n - i \in 0 .. n /\ n - (i - 1) \in 0 .. n /\ n \in 0 .. n
    BY <1>1 DEF Name
  <2>2. F[i] = s \o c /\ s \in Seq(Chunk) /\ c \in Seq(Chunk)
    BY <1>2, <1>6, <1>7, <1>8, <2>1
  <2>3. /\ e[n - i] \in Int /\ e[n - (i - 1)] \in Int /\ e[n] \in Int
        /\ e[n - (i - 1)] = e[n - i] - Len(c)
        /\ \A k \in 1 .. Len(c) : c[k].id = e[n - (i - 1)] + k
    BY <1>9, <2>1
  <2>4. /\ Len(s) = e[n - (i - 1)] - e[n]
        /\ \A k \in 1 .. Len(s) : s[k].id = e[n] + k
    BY <1>11
  <2> HIDE DEF c, s, n
  <2>5. /\ Len(F[i]) = Len(s) + Len(c) /\ Len(s) \in Nat /\ Len(c) \in Nat
        /\ \A k \in 1 .. Len(s) + Len(c) :
             F[i][k] = IF k <= Len(s) THEN s[k] ELSE c[k - Len(s)]
    BY <2>2
  <2>6. Len(F[i]) = e[n - i] - e[n]
    BY <2>3, <2>4, <2>5
  <2>7. ASSUME NEW k \in 1 .. Len(F[i]) PROVE F[i][k].id = e[n] + k
    <3>1. k \in 1 .. Len(s) + Len(c)
      BY <2>5
    <3>2. CASE k <= Len(s)
      <4>1. k \in 1 .. Len(s)
        BY <2>5, <3>1, <3>2
      <4> QED
        BY <2>4, <2>5, <3>1, <3>2, <4>1
    <3>3. CASE ~ (k <= Len(s))
      <4>1. k - Len(s) \in 1 .. Len(c)
        BY <2>5, <3>1, <3>3
      <4>2. F[i][k].id = e[n - (i - 1)] + (k - Len(s))
        BY <2>3, <2>5, <3>1, <3>3, <4>1
      <4>3. k \in Int /\ Len(s) \in Nat /\ e[n - (i - 1)] \in Int /\ e[n] \in Int
        BY <2>3, <2>5, <3>1
      <4>4. e[n - (i - 1)] = e[n] + Len(s)
        BY <2>4, <4>3
      <4> QED
        BY <4>2, <4>3, <4>4
    <3> QED
      BY <3>2, <3>3
  <2> QED
    BY <2>1, <2>6, <2>7
<1>12. \A i \in 0 .. n : i \in T
  <2> DEFINE m == n
  <2>1. m \in Nat /\ 0 \in T /\ \A i \in 1 .. m : i - 1 \in T => i \in T
    BY <1>1, <1>10, <1>11
  <2> HIDE DEF T, m
  <2>2. \A i \in 0 .. m : i \in T
    BY <2>1, InductionTo
  <2> QED
    BY <2>2 DEF m
<1>13. Good(n)
  <2>1. n \in 0 .. n
    BY <1>1
  <2>2. n \in T
    <3> HIDE DEF T
    <3> QED
      BY <1>12, <2>1
  <2> QED
    BY <2>2
<1>14. n - n = 0 /\ 0 \in 0 .. n /\ n \in 0 .. n
  BY <1>1
<1>15. Len(Kept) = written - e[n] /\ written \in Int /\ e[n] \in Int
  BY <1>8, <1>9, <1>13, <1>14 DEF Ends, TypeInv
<1> HIDE DEF n, T
<1> QED
  BY <1>8, <1>13, <1>15

------------------------------------------------------------------------------
(* What the steps do to the files and to what the writers count. *)

\* The bytes a writer counts are a number: none before the write that waited for a
\* rotation.  The length is read on open only.
Sized ==
  \A w \in Writer :
    /\ writers[w].current_size \in Nat
    /\ writers[w].stage = "append" => writers[w].current_size = 0
    /\ writers[w].stage = "measure" => writers[w].why = "open"

\* The writer's record after the step.
Becomes(w, stage, why, file, size) ==
  /\ writers'[w].stage = stage /\ writers'[w].why = why
  /\ writers'[w].file = file /\ writers'[w].current_size = size

\* The others' records are as they were.
OthersStay(w) == \A v \in Writer \ {w} : writers'[v] = writers[v]

\* A step that touches no file and opens none.
Quiet(w) ==
  /\ files' = files /\ written' = written /\ (~shared' => ~shared)
  /\ OthersStay(w)
  /\ writers'[w].stage \notin {"opening", "append"}
  /\ writers'[w].stage = "measure" => writers'[w].why = "open"
  /\ writers'[w].current_size \in {0, writers[w].current_size}
  /\ \/ writers'[w].file = None
     \/ writers'[w].file = writers[w].file /\ writers'[w].current_size = writers[w].current_size

\* A step that moves files: the others' open files follow their names.
Shifts(w, to) ==
  /\ written' = written /\ shared' = shared
  /\ \A v \in Writer \ {w} :
       /\ writers'[v].stage = writers[v].stage /\ writers'[v].why = writers[v].why
       /\ writers'[v].current_size = writers[v].current_size
       /\ writers'[v].file = IF writers[v].file \in Name THEN to[writers[v].file]
                             ELSE writers[v].file
  /\ writers[w].stage # "off" /\ writers'[w].file = None
  /\ writers'[w].stage \in {"shift", "stat", "measure", "opening"}
  /\ writers'[w].stage = "measure" => writers'[w].why = "open"
  /\ writers'[w].current_size = writers[w].current_size

\* The length of error.log is read, on open.
Measures(w) ==
  /\ writers[w].stage = "measure" /\ UNCHANGED <<files, written, shared>>
  /\ OthersStay(w) /\ Becomes(w, "opening", writers[w].why, None, ActiveLen)

\* error.log is opened, or created.
Opens(w) ==
  /\ writers[w].stage = "opening" /\ UNCHANGED <<written, shared>>
  /\ files' = [files EXCEPT ![0] = IF files[0] = None THEN <<>> ELSE files[0]]
  /\ OthersStay(w)
  /\ Becomes(w, IF writers[w].why = "before" THEN "append" ELSE "idle", writers[w].why, 0,
             IF writers[w].why = "open" THEN writers[w].current_size ELSE 0)

\* The bytes of one write reach the open file.
Appends(w, n) ==
  /\ written' = written + 1 /\ shared' = shared
  /\ files' = [i \in Name |->
                 IF i = writers[w].file
                 THEN Append(files[i], [id |-> written + 1, size |-> n]) ELSE files[i]]
  /\ OthersStay(w)
  /\ IF writers[w].current_size + n > max_bytes
     THEN Becomes(w, "remove", "after", None, writers[w].current_size + n)
     ELSE Becomes(w, "idle", writers[w].why, writers[w].file, writers[w].current_size + n)

\* The file i loses its name: the oldest backup, or an empty error.log.
Unlinks(w, i) ==
  /\ i \in {0, max_backups} /\ files' = [files EXCEPT ![i] = None]
  /\ i = 0 => ActiveLen = 0
  /\ i # 0 => writers'[w].stage \in {"shift", "stat"}
  /\ Shifts(w, [j \in Name |-> IF j = i THEN Unlinked ELSE j])

\* The file i becomes the file i + 1.
Renames(w, i) ==
  /\ i \in 0 .. max_backups - 1 /\ files[i] # None
  /\ files' = [files EXCEPT ![i + 1] = files[i], ![i] = None]
  /\ ~shared => files[i + 1] = None
  /\ i # 0 => writers'[w].stage \in {"shift", "stat"}
  /\ Shifts(w, [j \in Name |-> IF j = i THEN i + 1 ELSE IF j = i + 1 THEN Unlinked ELSE j])

\* A step of one writer, from the record it leaves behind.
LEMMA GoesFacts ==
  ASSUME TypeInv, NEW w \in Writer, NEW new, Goes(w, new)
  PROVE  writers'[w] = new /\ OthersStay(w)
BY DEF TypeInv, Goes, OthersStay

LEMMA MovedFacts ==
  ASSUME TypeInv, NEW w \in Writer, NEW new, NEW to, writers' = Moved(to, w, new),
         written' = written, shared' = shared, writers[w].stage # "off",
         new.file = None, new.stage \in {"shift", "stat", "measure", "opening"},
         new.stage = "measure" => new.why = "open",
         new.current_size = writers[w].current_size
  PROVE  Shifts(w, to)
<1>1. writers'[w] = new
  BY DEF Moved
<1>2. ASSUME NEW v \in Writer \ {w}
      PROVE  /\ writers'[v].stage = writers[v].stage /\ writers'[v].why = writers[v].why
             /\ writers'[v].current_size = writers[v].current_size
             /\ writers'[v].file = IF writers[v].file \in Name THEN to[writers[v].file]
                                   ELSE writers[v].file
  <2> DEFINE log == writers[v]
             f == to[log.file]
  <2>1. IsLog(log)
    BY DEF TypeInv
  <2>2. writers'[v] = IF log.file \in Name THEN [log EXCEPT !.file = f] ELSE log
    BY DEF Moved
  <2> HIDE DEF log, f
  <2>3. Is([log EXCEPT !.file = f],
           log.stage, log.why, f, log.current_size, log.index, log.incoming)
    BY <2>1 DEF IsLog, LogWith, Is
  <2>4. CASE log.file \in Name
    <3>1. Is(writers'[v], log.stage, log.why, f, log.current_size, log.index, log.incoming)
      BY <2>2, <2>3, <2>4, Zenon
    <3> QED
      BY <2>4, <3>1 DEF Is, LogWith, log, f
  <2>5. CASE log.file \notin Name
    BY <2>2, <2>5 DEF log
  <2> QED
    BY <2>4, <2>5
<1> QED
  BY <1>1, <1>2 DEF Shifts

\* Where a rotation begins.
LEMMA RotatingQuiet ==
  ASSUME Inv, NEW w \in Writer, NEW why, NEW n, Rotating(w, why, n),
         files' = files, written' = written, ~shared' => ~shared
  PROVE  Quiet(w)
<1> DEFINE log == writers[w]
           new == [log EXCEPT !.stage = "remove", !.why = why, !.file = None, !.incoming = n]
<1>1. IsLog(log) /\ Goes(w, new)
  BY DEF Rotating, Inv, TypeInv
<1>2. writers'[w] = new /\ OthersStay(w)
  BY <1>1, GoesFacts DEF Inv
<1> HIDE DEF log
<1>3. Is(new, "remove", why, None, log.current_size, log.index, n)
  BY <1>1, RotatingSet
<1> HIDE DEF new
<1> QED
  BY <1>2, <1>3 DEF Is, LogWith, Quiet, log

LEMMA OpenQuiet == ASSUME Inv, NEW w \in Writer, Open(w) PROVE Quiet(w)
<1> DEFINE new == [Off EXCEPT !.stage = "measure"]
<1>1. files' = files /\ written' = written /\ (~shared' => ~shared)
  BY DEF Open, Inv, TypeInv
<1>2. CASE Goes(w, new)
  <2>1. writers'[w] = new /\ OthersStay(w)
    BY <1>2, GoesFacts DEF Inv
  <2> HIDE DEF new
  <2>2. Is(new, "measure", "open", None, 0, 0, 0)
    BY OffFacts DEF new
  <2> QED
    BY <1>1, <2>1, <2>2 DEF Is, LogWith, Quiet
<1>3. CASE Rotating(w, "open", 0)
  BY <1>1, <1>3, RotatingQuiet
<1> QED
  BY <1>2, <1>3 DEF Open

LEMMA OffQuiet ==
  ASSUME Inv, NEW w \in Writer, Goes(w, Off), UNCHANGED <<files, written, shared>>
  PROVE  Quiet(w)
<1>1. writers'[w] = Off /\ OthersStay(w)
  BY GoesFacts DEF Inv
<1> QED
  BY <1>1 DEF Off, Quiet

LEMMA FailQuiet == ASSUME Inv, NEW w \in Writer, Fail(w) PROVE Quiet(w)
<1> DEFINE log == writers[w]
           new == [log EXCEPT !.stage = "idle", !.index = 0, !.incoming = 0]
<1>1. IsLog(log) /\ UNCHANGED <<files, written, shared>> /\ (Goes(w, Off) \/ Goes(w, new))
  BY DEF Inv, TypeInv, Fail
<1>2. CASE Goes(w, new)
  <2>1. writers'[w] = new /\ OthersStay(w)
    BY <1>2, GoesFacts DEF Inv
  <2> HIDE DEF log
  <2>2. Is(new, "idle", log.why, log.file, log.current_size, 0, 0)
    BY <1>1, GiveUpSet
  <2> HIDE DEF new
  <2> QED
    BY <1>1, <2>1, <2>2 DEF Is, LogWith, Quiet, log
<1>3. CASE Goes(w, Off)
  BY <1>1, <1>3, OffQuiet
<1> QED
  BY <1>1, <1>2, <1>3

\* The length is read.
LEMMA MeasureFacts == ASSUME Inv, NEW w \in Writer, Measure(w) PROVE Measures(w)
<1> DEFINE log == writers[w]
           new == [log EXCEPT !.stage = "opening", !.current_size = ActiveLen]
<1>1. IsLog(log) /\ log.stage = "measure" /\ log.file = None /\ Goes(w, new)
      /\ UNCHANGED <<files, written, shared>>
  BY DEF Inv, TypeInv, OpenFileExists, Measure
<1>2. writers'[w] = new /\ OthersStay(w)
  BY <1>1, GoesFacts DEF Inv
<1> HIDE DEF log
<1>3. Is(new, "opening", log.why, log.file, ActiveLen, log.index, log.incoming)
  BY <1>1, TwoSet
<1> HIDE DEF new
<1> QED
  BY <1>1, <1>2, <1>3 DEF Is, LogWith, Becomes, Measures, log

\* error.log is opened, or created.
LEMMA OpenActiveFacts == ASSUME Inv, NEW w \in Writer, OpenActive(w) PROVE Opens(w)
<1> DEFINE log == writers[w]
           s == IF log.why = "before" THEN "append" ELSE "idle"
           n == IF log.why = "open" THEN log.current_size ELSE 0
           new == [log EXCEPT !.file = 0, !.stage = s, !.current_size = n]
<1>1. IsLog(log) /\ log.stage = "opening" /\ UNCHANGED <<written, shared>>
  BY DEF Inv, TypeInv, OpenActive
<1>2. files' = [files EXCEPT ![0] = IF files[0] = None THEN <<>> ELSE files[0]]
  BY DEF OpenActive
<1>3. Goes(w, new)
  BY DEF OpenActive
<1>4. writers'[w] = new /\ OthersStay(w)
  BY <1>3, GoesFacts DEF Inv
<1> HIDE DEF s, n, log
<1>5. Is(new, s, log.why, 0, n, log.index, log.incoming)
  BY <1>1, OpenedSet
<1> HIDE DEF new
<1>6. Becomes(w, s, log.why, 0, n)
  BY <1>4, <1>5 DEF Is, LogWith, Becomes
<1> QED
  BY <1>1, <1>2, <1>4, <1>6 DEF Opens, log, s, n

\* The bytes of one write reach the open file.
LEMMA AppendFacts ==
  ASSUME Inv, NEW w \in Writer, NEW n, Append1(w, n)
  PROVE  Appends(w, n)
<1> DEFINE log == writers[w]
           size == log.current_size + n
           counted == [log EXCEPT !.current_size = size, !.incoming = 0]
           idle == [counted EXCEPT !.stage = "idle"]
           rot == [counted EXCEPT !.stage = "remove", !.why = "after", !.file = None]
<1>1. /\ written' = written + 1 /\ shared' = shared
      /\ files' = [i \in Name |->
                     IF i = writers[w].file
                     THEN Append(files[i], [id |-> written + 1, size |-> n]) ELSE files[i]]
  BY DEF Append1
<1>2. Goes(w, IF size > max_bytes THEN rot ELSE idle)
  BY DEF Append1
<1>3. IsLog(log)
  BY DEF Inv, TypeInv
<1>4. writers'[w] = (IF size > max_bytes THEN rot ELSE idle) /\ OthersStay(w)
  BY <1>2, GoesFacts DEF Inv
<1> HIDE DEF log, size
<1>5. Is(idle, "idle", log.why, log.file, size, log.index, 0)
      /\ Is(rot, "remove", "after", None, size, log.index, 0)
  BY <1>3, CountedSet
<1> HIDE DEF idle, rot
<1>6. CASE size > max_bytes
  <2>1. Becomes(w, "remove", "after", None, size)
    BY <1>4, <1>5, <1>6 DEF Is, LogWith, Becomes
  <2> QED
    BY <1>1, <1>4, <1>6, <2>1 DEF Appends, log, size
<1>7. CASE ~ (size > max_bytes)
  <2>1. Becomes(w, "idle", log.why, log.file, size)
    BY <1>4, <1>5, <1>7 DEF Is, LogWith, Becomes
  <2> QED
    BY <1>1, <1>4, <1>7, <2>1 DEF Appends, log, size
<1> QED
  BY <1>6, <1>7

\* The next stage of a rotation, as the writer's record has it.
LEMMA NextStageSize ==
  ASSUME NEW log, IsLog(log), NEW i \in 0 .. max_backups - 1
  PROVE  /\ AtShift(log, i).stage \in {"shift", "stat"} /\ AtShift(log, i).file = log.file
         /\ AtShift(log, i).current_size = log.current_size
<1> DEFINE new == AtShift(log, i)
<1>1. Is(new, IF i = 0 THEN "stat" ELSE "shift", log.why, log.file, log.current_size, i,
         log.incoming)
  BY AtShiftFacts
<1> HIDE DEF new
<1>2. /\ new.stage \in {"shift", "stat"} /\ new.file = log.file
      /\ new.current_size = log.current_size
  BY <1>1 DEF Is, LogWith
<1> QED
  BY <1>2 DEF new

LEMMA RotatedSize ==
  ASSUME NEW log, IsLog(log)
  PROVE  /\ Rotated(log).stage = IF log.why = "open" THEN "measure" ELSE "opening"
         /\ Rotated(log).why = log.why /\ Rotated(log).file = log.file
         /\ Rotated(log).current_size = log.current_size
<1> DEFINE new == Rotated(log)
           s == IF log.why = "open" THEN "measure" ELSE "opening"
<1>1. new = [log EXCEPT !.stage = s]
  BY DEF Rotated
<1> HIDE DEF new, s
<1>2. Is([log EXCEPT !.stage = s],
         s, log.why, log.file, log.current_size, log.index, log.incoming)
  BY StageSet
<1>3. Is(new, s, log.why, log.file, log.current_size, log.index, log.incoming)
  BY <1>1, <1>2, Zenon
<1>4. /\ new.stage = s /\ new.why = log.why /\ new.file = log.file
      /\ new.current_size = log.current_size
  BY <1>3 DEF Is, LogWith
<1> QED
  BY <1>4 DEF new, s

LEMMA RemoveOldestFacts ==
  ASSUME Inv, NEW w \in Writer, RemoveOldest(w)
  PROVE  Unlinks(w, max_backups)
<1> DEFINE log == writers[w]
           i == max_backups - 1
           new == AtShift(log, i)
           to == [j \in Name |-> IF j = max_backups THEN Unlinked ELSE j]
<1>1. i \in 0 .. max_backups - 1 /\ max_backups # 0
  BY LogAssumption DEF LogRotationPolicy
<1>2. /\ writers' = Moved(to, w, new) /\ files' = [files EXCEPT ![max_backups] = None]
      /\ written' = written /\ shared' = shared /\ log.stage = "remove"
  BY DEF RemoveOldest, ShiftFrom
<1>3. IsLog(log) /\ log.file = None /\ TypeInv
  BY <1>2, RotatingFacts DEF Inv
<1> HIDE DEF log, i
<1>4. /\ new.stage \in {"shift", "stat"} /\ new.file = None
      /\ new.current_size = log.current_size
  BY <1>1, <1>3, NextStageSize
<1> HIDE DEF new, to
<1>5. Shifts(w, to) /\ writers'[w] = new
  BY <1>2, <1>3, <1>4, MovedFacts DEF log, Moved
<1> QED
  BY <1>1, <1>2, <1>4, <1>5 DEF Unlinks, to

\* A rename, from the record it leaves behind.
LEMMA RenameFacts ==
  ASSUME Inv, NEW w \in Writer, NEW i \in 0 .. max_backups - 1, NEW new, Rename(i, w, new),
         files[i] # None, written' = written, shared' = shared, writers[w].stage # "off",
         new.file = None, new.stage \in {"shift", "stat", "measure", "opening"},
         new.stage = "measure" => new.why = "open",
         new.current_size = writers[w].current_size,
         ~shared => files[i + 1] = None,
         i # 0 => new.stage \in {"shift", "stat"}
  PROVE  Renames(w, i)
<1> DEFINE to == [j \in Name |-> IF j = i THEN i + 1 ELSE IF j = i + 1 THEN Unlinked ELSE j]
<1>1. writers' = Moved(to, w, new) /\ TypeInv
  BY DEF Rename, Inv
<1>2. files' = [files EXCEPT ![i + 1] = files[i], ![i] = None]
  BY DEF Rename
<1> HIDE DEF to
<1>3. Shifts(w, to) /\ writers'[w] = new
  BY <1>1, MovedFacts DEF Moved
<1> QED
  BY <1>2, <1>3 DEF Renames, to

LEMMA ShiftFacts ==
  ASSUME Inv, NEW w \in Writer, Shift(w)
  PROVE  Quiet(w) \/ \E i \in 0 .. max_backups - 1 : Renames(w, i)
<1> DEFINE log == writers[w]
           i == log.index
           new == AtShift(log, i - 1)
<1>1. /\ log.stage = "shift" /\ written' = written /\ shared' = shared
      /\ \/ files[i] = None /\ files' = files /\ Goes(w, new)
         \/ files[i] # None /\ Rename(i, w, new)
  BY DEF Shift, NextShift
<1>2. i \in 1 .. max_backups - 1 /\ (~shared => files[i + 1] = None)
  BY <1>1 DEF Inv, NextNameFree
<1>3. IsLog(log) /\ log.file = None /\ TypeInv
  BY <1>1, RotatingFacts DEF Inv
<1>4. /\ i - 1 \in 0 .. max_backups - 1 /\ i \in 0 .. max_backups - 1 /\ i # 0
  BY <1>2, LogAssumption DEF LogRotationPolicy
<1> HIDE DEF log, i
<1>5. /\ new.stage \in {"shift", "stat"} /\ new.file = None
      /\ new.current_size = log.current_size
  BY <1>3, <1>4, NextStageSize
<1> HIDE DEF new
<1>6. CASE files[i] = None /\ files' = files /\ Goes(w, new)
  <2>1. writers'[w] = new /\ OthersStay(w)
    BY <1>3, <1>6, GoesFacts
  <2> QED
    BY <1>1, <1>5, <1>6, <2>1 DEF Quiet, log
<1>7. CASE files[i] # None /\ Rename(i, w, new)
  BY <1>1, <1>2, <1>4, <1>5, <1>7, RenameFacts DEF log
<1> QED
  BY <1>1, <1>6, <1>7

LEMMA MoveFacts == ASSUME Inv, NEW w \in Writer, Move(w) PROVE Renames(w, 0)
<1> DEFINE log == writers[w]
           new == Rotated(log)
<1>1. log.stage = "move" /\ files[0] # None /\ Rename(0, w, new)
      /\ written' = written /\ shared' = shared
  BY DEF Move
<1>2. 0 \in 0 .. max_backups - 1
  BY LogAssumption DEF LogRotationPolicy
<1>3. IsLog(log) /\ log.file = None /\ (~shared => files[0 + 1] = None)
  BY <1>1, RotatingFacts DEF Inv, NextNameFree
<1> HIDE DEF log
<1>4. /\ new.stage = IF log.why = "open" THEN "measure" ELSE "opening"
      /\ new.why = log.why /\ new.file = None /\ new.current_size = log.current_size
  BY <1>3, RotatedSize
<1> HIDE DEF new
<1> QED
  BY <1>1, <1>2, <1>3, <1>4, RenameFacts DEF log

LEMMA StatFacts ==
  ASSUME Inv, NEW w \in Writer, Stat(w)
  PROVE  Quiet(w) \/ Unlinks(w, 0)
<1> DEFINE log == writers[w]
           move == [log EXCEPT !.stage = "move"]
           new == Rotated(log)
           to == [j \in Name |-> IF j = 0 THEN Unlinked ELSE j]
<1>1. log.stage = "stat" /\ written' = written /\ shared' = shared
  BY DEF Stat
<1>2. IsLog(log) /\ log.file = None /\ TypeInv
  BY <1>1, RotatingFacts DEF Inv
<1>3. CASE files' = files /\ Goes(w, move)
  <2>1. writers'[w] = move /\ OthersStay(w)
    BY <1>2, <1>3, GoesFacts
  <2> HIDE DEF log
  <2>2. Is(move, "move", log.why, log.file, log.current_size, log.index, log.incoming)
    BY <1>2, StageSet
  <2> HIDE DEF move
  <2> QED
    BY <1>1, <1>2, <1>3, <2>1, <2>2 DEF Is, LogWith, Quiet, log
<1>4. CASE /\ ActiveLen = 0 /\ files' = [files EXCEPT ![0] = None]
           /\ writers' = Moved(to, w, new)
  <2> HIDE DEF log
  <2>1. /\ new.stage = IF log.why = "open" THEN "measure" ELSE "opening"
        /\ new.why = log.why /\ new.file = None /\ new.current_size = log.current_size
    BY <1>2, RotatedSize
  <2> HIDE DEF new, to
  <2>2. Shifts(w, to)
    BY <1>1, <1>2, <1>4, <2>1, MovedFacts DEF log
  <2> QED
    BY <1>4, <2>2 DEF Unlinks, to
<1> QED
  BY <1>3, <1>4 DEF Stat

\* All that a step can do to the log.
LEMMA StepFacts ==
  ASSUME Inv, Sized, NEW w \in Writer, Step(w)
  PROVE  \/ Quiet(w) \/ Measures(w) \/ Opens(w)
         \/ \E n \in Sizes :
              /\ Appends(w, n) /\ writers[w].file # None
              /\ writers[w].stage \in {"idle", "append"}
              /\ n <= max_bytes => writers[w].current_size + n <= max_bytes
         \/ \E i \in {0, max_backups} : Unlinks(w, i)
         \/ \E i \in 0 .. max_backups - 1 : Renames(w, i)
<1>1. CASE Exit(w)
  <2>1. Quiet(w)
    BY <1>1, OffQuiet DEF Exit
  <2> QED
    BY <2>1
<1>2. CASE \E n \in Sizes : Write(w, n)
  <2>1. PICK n \in Sizes : Write(w, n)
    BY <1>2
  <2>2. CASE Fits(w, n) /\ writers[w].file # None /\ Append1(w, n)
    <3>1. Appends(w, n)
      BY <2>2, AppendFacts
    <3>2. writers[w].stage = "idle" /\ writers[w].current_size + n <= max_bytes
      BY <2>1, <2>2 DEF Write, Fits
    <3> QED
      BY <2>2, <3>1, <3>2
  <2>3. CASE Rotating(w, "before", n) /\ UNCHANGED <<files, written, shared>>
    <3>1. Quiet(w)
      BY <2>3, RotatingQuiet
    <3> QED
      BY <3>1
  <2> QED
    BY <2>1, <2>2, <2>3 DEF Write
<1>3. CASE WriteRotated(w)
  <2> DEFINE n == writers[w].incoming
  <2>1. writers[w].stage = "append" /\ Append1(w, n)
    BY <1>3 DEF WriteRotated
  <2>2. n \in Sizes /\ writers[w].file # None /\ writers[w].current_size = 0 /\ n \in Nat
    BY <2>1, LogAssumption DEF Inv, OpenFileExists, Sized
  <2> HIDE DEF n
  <2>3. Appends(w, n)
    BY <2>1, AppendFacts
  <2>4. n <= max_bytes => writers[w].current_size + n <= max_bytes
    BY <2>2, LogAssumption DEF LogRotationPolicy
  <2> QED
    BY <2>1, <2>2, <2>3, <2>4
<1>4. CASE RemoveOldest(w)
  BY <1>4, RemoveOldestFacts
<1>5. CASE Open(w) \/ Measure(w) \/ OpenActive(w) \/ Fail(w)
  BY <1>5, OpenQuiet, MeasureFacts, OpenActiveFacts, FailQuiet
<1>6. CASE Shift(w)
  BY <1>6, ShiftFacts
<1>7. CASE Stat(w)
  BY <1>7, StatFacts
<1>8. CASE Move(w)
  <2>1. 0 \in 0 .. max_backups - 1
    BY LogAssumption DEF LogRotationPolicy
  <2> QED
    BY <1>8, <2>1, MoveFacts
<1> QED
  BY <1>1, <1>2, <1>3, <1>4, <1>5, <1>6, <1>7, <1>8 DEF Step

------------------------------------------------------------------------------
(* The log of a process that has it to itself. *)

LEMMA NameFacts ==
  /\ max_backups \in Nat \ {0} /\ max_bytes \in Nat \ {0} /\ 0 \in Name /\ max_backups \in Name
  /\ None \notin Name /\ Unlinked \notin Name /\ None # Unlinked /\ None # 0
BY LogAssumption DEF LogRotationPolicy, Name, Unlinked

(***************************************************************************)
(* How many bytes a file holds, and how many of them come from writes      *)
(* within the limit.                                                       *)
(***************************************************************************)
SizesOf(chunks) == [k \in DOMAIN chunks |-> chunks[k].size]

SmallOf(chunks) ==
  [k \in DOMAIN chunks |-> IF chunks[k].size <= max_bytes THEN chunks[k].size ELSE 0]

Small == Total(SmallOf(Contents(0)))

LEMMA ChunkSizes ==
  ASSUME NEW c \in Seq(Chunk)
  PROVE  /\ SizesOf(c) \in Seq(Nat) /\ SmallOf(c) \in Seq(Nat)
         /\ Len(SizesOf(c)) = Len(c) /\ Len(SmallOf(c)) = Len(c)
         /\ \A k \in 1 .. Len(c) : /\ c[k].size \in Nat \ {0} /\ SizesOf(c)[k] = c[k].size
                                 /\ SmallOf(c)[k] <= SizesOf(c)[k]
<1> DEFINE n == Len(c)
<1>1. n \in Nat /\ DOMAIN c = 1 .. n /\ \A k \in 1 .. n : c[k] \in Chunk
  OBVIOUS
<1>2. \A k \in 1 .. n : c[k].size \in Nat \ {0}
  BY <1>1, LogAssumption DEF Chunk
<1> HIDE DEF n
<1>3. SizesOf(c) \in [1 .. n -> Nat] /\ SmallOf(c) \in [1 .. n -> Nat]
  BY <1>1, <1>2 DEF SizesOf, SmallOf
<1>4. SizesOf(c) \in Seq(Nat) /\ SmallOf(c) \in Seq(Nat)
      /\ Len(SizesOf(c)) = n /\ Len(SmallOf(c)) = n
  BY <1>1, <1>3
<1>5. \A k \in 1 .. n : SizesOf(c)[k] = c[k].size /\ SmallOf(c)[k] <= SizesOf(c)[k]
  BY <1>1, <1>2 DEF SizesOf, SmallOf
<1> QED
  BY <1>2, <1>4, <1>5 DEF n

LEMMA SmallWithin ==
  ASSUME NEW c \in Seq(Chunk)
  PROVE  SizeOf(c) \in Nat /\ Total(SmallOf(c)) \in Nat /\ Total(SmallOf(c)) <= SizeOf(c)
<1>1. /\ SizesOf(c) \in Seq(Nat) /\ SmallOf(c) \in Seq(Nat)
      /\ Len(SizesOf(c)) = Len(c) /\ Len(SmallOf(c)) = Len(c)
      /\ \A k \in 1 .. Len(c) : SmallOf(c)[k] <= SizesOf(c)[k]
  BY ChunkSizes
<1>2. SizeOf(c) = Total(SizesOf(c))
  BY DEF SizeOf, SizesOf
<1> QED
  BY <1>1, <1>2, TotalMonotone

\* A file of no bytes holds no chunk.
LEMMA EmptySize == ASSUME NEW c \in Seq(Chunk), SizeOf(c) = 0 PROVE c = << >>
<1> SUFFICES ASSUME Len(c) # 0 PROVE FALSE
  OBVIOUS
<1> DEFINE s == SizesOf(c)
           n == Len(c)
<1>1. /\ s \in Seq(Nat) /\ Len(s) = n /\ n \in Nat \ {0}
      /\ \A k \in 1 .. n : c[k].size \in Nat \ {0} /\ s[k] = c[k].size
  BY ChunkSizes
<1>2. Total(s) = 0
  BY DEF SizeOf, SizesOf
<1> HIDE DEF s
<1>3. PICK S : Sums(S, s) /\ Total(s) = S[n]
  BY <1>1, TotalFold
<1> HIDE DEF n
<1>4. n \in 1 .. n /\ n - 1 \in 0 .. n
  BY <1>1
<1>5. S[n] = S[n - 1] + s[n] /\ S[n - 1] \in Nat /\ s[n] \in Nat \ {0}
  BY <1>1, <1>3, <1>4 DEF Sums
<1> QED
  BY <1>2, <1>3, <1>5

LEMMA SmallAppend ==
  ASSUME NEW c \in Seq(Chunk), NEW x \in Chunk
  PROVE  Total(SmallOf(Append(c, x)))
           = Total(SmallOf(c)) + (IF x.size <= max_bytes THEN x.size ELSE 0)
<1> DEFINE n == Len(c)
           ax == Append(c, x)
           y == IF x.size <= max_bytes THEN x.size ELSE 0
           s == SmallOf(c)
           t == SmallOf(ax)
<1>1. /\ n \in Nat /\ DOMAIN c = 1 .. n /\ ax \in Seq(Chunk) /\ Len(ax) = n + 1
      /\ DOMAIN ax = 1 .. n + 1 /\ ax[n + 1] = x
      /\ \A k \in 1 .. n : ax[k] = c[k]
  OBVIOUS
<1> HIDE DEF ax
<1>2. s \in Seq(Nat) /\ Len(s) = n /\ t \in Seq(Nat) /\ Len(t) = n + 1
  BY <1>1, ChunkSizes
<1>3. y \in Nat
  BY LogAssumption DEF Chunk
<1>4. /\ \A k \in 1 .. n : s[k] = IF c[k].size <= max_bytes THEN c[k].size ELSE 0
      /\ \A k \in 1 .. n + 1 : t[k] = IF ax[k].size <= max_bytes THEN ax[k].size ELSE 0
  BY <1>1 DEF SmallOf
<1>5. t[n + 1] = y /\ \A k \in 1 .. n : t[k] = s[k]
  <2>1. n + 1 \in 1 .. n + 1 /\ \A k \in 1 .. n : k \in 1 .. n + 1
    BY <1>1
  <2> QED
    BY <1>1, <1>4, <2>1
<1> HIDE DEF s, t, y, n
<1>6. t = Append(s, y)
  BY <1>1, <1>2, <1>3, <1>5
<1>7. Total(t) = Total(s) + y
  BY <1>2, <1>3, <1>6, TotalAppend
<1> QED
  BY <1>7 DEF s, t, y, ax

LEMMA ActiveFacts ==
  ASSUME TypeInv
  PROVE  /\ ActiveLen \in Nat /\ Small \in Nat /\ Small <= ActiveLen
         /\ files[0] = None => Small = 0
<1>1. files[0] = None \/ files[0] \in Seq(Chunk)
  BY NameFacts DEF TypeInv
<1>2. CASE files[0] = None
  <2>1. SmallOf(<< >>) = << >>
    BY DEF SmallOf
  <2> QED
    BY <1>2, <2>1, TotalEmpty DEF ActiveLen, Small, Contents
<1>3. CASE files[0] # None
  BY <1>1, <1>3, SmallWithin DEF ActiveLen, Small, Contents
<1> QED
  BY <1>2, <1>3

LEMMA SizedStep ==
  ASSUME Inv, Sized, NEW w \in Writer, Step(w)
  PROVE  Sized'
<1> SUFFICES ASSUME NEW v \in Writer
             PROVE  /\ writers'[v].current_size \in Nat
                    /\ writers'[v].stage = "append" => writers'[v].current_size = 0
                    /\ writers'[v].stage = "measure" => writers'[v].why = "open"
  BY DEF Sized
<1>0. /\ writers[v].current_size \in Nat
      /\ writers[v].stage = "append" => writers[v].current_size = 0
      /\ writers[v].stage = "measure" => writers[v].why = "open"
      /\ writers[w].current_size \in Nat /\ ActiveLen \in Nat
  BY ActiveFacts DEF Sized, Inv
<1>1. CASE Quiet(w)
  BY <1>0, <1>1 DEF Quiet, OthersStay
<1>2. CASE Measures(w)
  BY <1>0, <1>2 DEF Measures, Becomes, OthersStay
<1>3. CASE Opens(w)
  BY <1>0, <1>3 DEF Opens, Becomes, OthersStay
<1>4. ASSUME NEW n \in Sizes, Appends(w, n)
      PROVE  /\ writers'[v].current_size \in Nat
             /\ writers'[v].stage = "append" => writers'[v].current_size = 0
             /\ writers'[v].stage = "measure" => writers'[v].why = "open"
  <2>1. n \in Nat
    BY LogAssumption
  <2> QED
    BY <1>0, <1>4, <2>1 DEF Appends, Becomes, OthersStay
<1>5. ASSUME NEW to, Shifts(w, to)
      PROVE  /\ writers'[v].current_size \in Nat
             /\ writers'[v].stage = "append" => writers'[v].current_size = 0
             /\ writers'[v].stage = "measure" => writers'[v].why = "open"
  BY <1>0, <1>5 DEF Shifts
<1> QED
  BY <1>1, <1>2, <1>3, <1>4, <1>5, StepFacts DEF Unlinks, Renames

LEMMA OnActiveStep ==
  ASSUME Inv, Sized, OnActive, NEW w \in Writer, Step(w)
  PROVE  OnActive'
<1> SUFFICES ASSUME ~shared', NEW v \in Writer PROVE writers'[v].file \in {0, None}
  BY DEF OnActive
<1>1. CASE Quiet(w)
  BY <1>1 DEF Quiet, OthersStay, OnActive
<1>2. CASE Measures(w)
  BY <1>2 DEF Measures, Becomes, OthersStay, OnActive
<1>3. CASE Opens(w)
  BY <1>3 DEF Opens, Becomes, OthersStay, OnActive
<1>4. ASSUME NEW n \in Sizes, Appends(w, n) PROVE writers'[v].file \in {0, None}
  BY <1>4 DEF Appends, Becomes, OthersStay, OnActive
<1>5. ASSUME NEW to, Shifts(w, to) PROVE writers'[v].file \in {0, None}
  <2>1. CASE v = w
    BY <1>5, <2>1 DEF Shifts
  <2>2. CASE v # w
    <3>1. ~shared /\ writers[w].stage # "off"
      BY <1>5 DEF Shifts
    <3>2. writers[v].stage = "off"
      BY <2>2, <3>1 DEF Inv, Solo
    <3>3. writers[v].file = None
      BY <3>2 DEF Inv, OpenFileExists
    <3> QED
      BY <1>5, <2>2, <3>3, NameFacts DEF Shifts
  <2> QED
    BY <2>1, <2>2
<1> QED
  BY <1>1, <1>2, <1>3, <1>4, <1>5, StepFacts DEF Unlinks, Renames

\* The files hold the same chunks: the ends are where they were.
LEMMA SameEnds ==
  ASSUME NEW e, Ends(e), written' = written, \A i \in Name : Contents(i)' = Contents(i)
  PROVE  Ends(e)'
BY DEF Ends

LEMMA AppendEnds ==
  ASSUME TypeInv, NEW e, Ends(e), NEW n \in Sizes, written' = written + 1, files[0] # None,
         files' = [i \in Name |->
                     IF i = 0 THEN Append(files[i], [id |-> written + 1, size |-> n])
                     ELSE files[i]]
  PROVE  \E d : Ends(d)'
<1>0. PICK m : m = written + 1
  OBVIOUS
<1> DEFINE chunk == [id |-> m, size |-> n]
           d == [e EXCEPT ![0] = m]
           c == files[0]
<1>1. max_backups \in Nat /\ 0 \in Name /\ written \in Nat
      /\ \A i \in Name : i \in 0 .. max_backups + 1 /\ i + 1 \in 0 .. max_backups + 1 /\ i + 1 # 0
  BY NameFacts DEF Name, TypeInv
<1>2. chunk \in Chunk /\ chunk.id = m
  BY <1>0, <1>1 DEF Chunk
<1>10. c \in Seq(Chunk)
  BY <1>1 DEF TypeInv
<1>3. /\ e \in [0 .. max_backups + 1 -> Int] /\ e[0] = written
      /\ \A i \in Name :
           /\ e[i + 1] = e[i] - Len(Contents(i))
           /\ \A k \in 1 .. Len(Contents(i)) : Contents(i)[k].id = e[i + 1] + k
  BY DEF Ends
<1>4. /\ d \in [0 .. max_backups + 1 -> Int] /\ d[0] = m
      /\ \A i \in 0 .. max_backups + 1 : i # 0 => d[i] = e[i]
  BY <1>0, <1>1, <1>3
<1>5. Contents(0) = c /\ Contents(0)' = Append(c, chunk)
  <2>1. Append(c, chunk) \in Seq(Chunk) /\ files'[0] = Append(c, chunk)
    BY <1>0, <1>1, <1>2, <1>10
  <2>2. files'[0] # None
    BY <2>1, LogAssumption
  <2> QED
    BY <2>1, <2>2 DEF Contents
<1>6. \A i \in Name \ {0} : Contents(i)' = Contents(i)
  BY DEF Contents
<1> HIDE DEF d, chunk, c
<1>7. /\ Len(Append(c, chunk)) = Len(c) + 1 /\ Len(c) \in Nat
      /\ \A k \in 1 .. Len(c) : Append(c, chunk)[k] = c[k]
      /\ Append(c, chunk)[Len(c) + 1] = chunk
  BY <1>2, <1>10
<1>8. ASSUME NEW i \in Name
      PROVE  /\ d[i + 1] = d[i] - Len(Contents(i)')
             /\ \A k \in 1 .. Len(Contents(i)') : Contents(i)'[k].id = d[i + 1] + k
  <2>1. CASE i # 0
    <3>1. d[i] = e[i] /\ d[i + 1] = e[i + 1] /\ Contents(i)' = Contents(i)
      BY <1>1, <1>4, <1>6, <2>1
    <3> QED
      BY <1>3, <3>1
  <2>2. CASE i = 0
    <3>0. 0 + 1 \in 0 .. max_backups + 1 /\ 0 + 1 # 0
      BY <1>1
    <3>1. e[0 + 1] = written - Len(c) /\ d[0 + 1] = e[0 + 1] /\ e[0 + 1] \in Int
          /\ \A k \in 1 .. Len(c) : c[k].id = e[0 + 1] + k
      BY <1>1, <1>3, <1>4, <1>5, <3>0
    <3> DEFINE a == e[0 + 1]
               ac == Append(c, chunk)
    <3>2. d[0 + 1] = d[0] - Len(ac)
      BY <1>0, <1>1, <1>4, <1>7, <3>1
    <3>4. a = written - Len(c) /\ a \in Int /\ \A k \in 1 .. Len(c) : c[k].id = a + k
      BY <3>1
    <3> HIDE DEF a
    <3>3. ASSUME NEW k \in 1 .. Len(ac) PROVE ac[k].id = a + k
      <4>1. k \in 1 .. Len(c) \/ k = Len(c) + 1
        BY <1>7
      <4>2. CASE k \in 1 .. Len(c)
        BY <1>7, <3>4, <4>2
      <4>3. CASE k = Len(c) + 1
        BY <1>0, <1>1, <1>2, <1>7, <3>4, <4>3
      <4> QED
        BY <4>1, <4>2, <4>3
    <3> QED
      BY <1>5, <2>2, <3>1, <3>2, <3>3 DEF a
  <2> QED
    BY <2>1, <2>2
<1>9. Ends(d)'
  BY <1>0, <1>4, <1>8 DEF Ends
<1> QED
  BY <1>9

\* The oldest file goes: the ends of the others are where they were.
LEMMA UnlinkEnds ==
  ASSUME TypeInv, NEW e, Ends(e), written' = written,
         files' = [files EXCEPT ![max_backups] = None]
  PROVE  \E d : Ends(d)'
<1> DEFINE d == [e EXCEPT ![max_backups + 1] = e[max_backups]]
<1>1. max_backups \in Nat /\ max_backups \in Name
      /\ \A i \in Name : i \in 0 .. max_backups + 1 /\ i + 1 \in 0 .. max_backups + 1
                         /\ i # max_backups + 1 /\ (i + 1 = max_backups + 1 <=> i = max_backups)
  BY NameFacts DEF Name
<1>2. /\ e \in [0 .. max_backups + 1 -> Int] /\ e[0] = written
      /\ \A i \in Name :
           /\ e[i + 1] = e[i] - Len(Contents(i))
           /\ \A k \in 1 .. Len(Contents(i)) : Contents(i)[k].id = e[i + 1] + k
  BY DEF Ends
<1>3. /\ d \in [0 .. max_backups + 1 -> Int] /\ d[0] = written
      /\ d[max_backups + 1] = e[max_backups] /\ e[max_backups] \in Int
      /\ \A i \in 0 .. max_backups + 1 : i # max_backups + 1 => d[i] = e[i]
  BY <1>1, <1>2
<1>4. Contents(max_backups)' = << >> /\ \A i \in Name \ {max_backups} : Contents(i)' = Contents(i)
  BY <1>1 DEF Contents, TypeInv
<1>5. Len(<< >>) = 0 /\ 1 .. 0 = {}
  OBVIOUS
<1> HIDE DEF d
<1>6. ASSUME NEW i \in Name
      PROVE  /\ d[i + 1] = d[i] - Len(Contents(i)')
             /\ \A k \in 1 .. Len(Contents(i)') : Contents(i)'[k].id = d[i + 1] + k
  <2>1. CASE i # max_backups
    <3>1. i + 1 # max_backups + 1 /\ d[i] = e[i] /\ d[i + 1] = e[i + 1]
      BY <1>1, <1>3, <2>1
    <3> QED
      BY <1>2, <1>4, <2>1, <3>1
  <2>2. CASE i = max_backups
    BY <1>1, <1>3, <1>4, <1>5, <2>2
  <2> QED
    BY <2>1, <2>2
<1>7. Ends(d)'
  BY <1>3, <1>6 DEF Ends
<1> QED
  BY <1>7

\* A file takes the next name, which is free.
LEMMA RenameEnds ==
  ASSUME TypeInv, NEW e, Ends(e), written' = written, NEW i \in 0 .. max_backups - 1,
         files[i + 1] = None,
         files' = [files EXCEPT ![i + 1] = files[i], ![i] = None]
  PROVE  \E d : Ends(d)'
<1> DEFINE d == [e EXCEPT ![i + 1] = e[i]]
<1>1. max_backups \in Nat /\ i \in Name /\ i + 1 \in Name /\ (i + 1) + 1 \in 0 .. max_backups + 1
      /\ i + 1 # i /\ (i + 1) + 1 # i + 1 /\ i + 1 # 0
      /\ i \in 0 .. max_backups + 1 /\ i + 1 \in 0 .. max_backups + 1
  BY NameFacts DEF Name
<1>2. /\ e \in [0 .. max_backups + 1 -> Int] /\ e[0] = written
      /\ \A j \in Name :
           /\ e[j + 1] = e[j] - Len(Contents(j))
           /\ \A k \in 1 .. Len(Contents(j)) : Contents(j)[k].id = e[j + 1] + k
  BY DEF Ends
<1>3. /\ d \in [0 .. max_backups + 1 -> Int] /\ d[0] = written
      /\ d[i + 1] = e[i] /\ e[i] \in Int
      /\ \A j \in 0 .. max_backups + 1 : j # i + 1 => d[j] = e[j]
  BY <1>1, <1>2
<1>4. /\ Contents(i + 1) = << >> /\ Contents(i)' = << >> /\ Contents(i + 1)' = Contents(i)
      /\ \A j \in Name \ {i, i + 1} : Contents(j)' = Contents(j)
  BY <1>1 DEF Contents, TypeInv
<1>5. Len(<< >>) = 0 /\ 1 .. 0 = {}
  OBVIOUS
<1>6. /\ e[i + 1] = e[i] - Len(Contents(i)) /\ e[(i + 1) + 1] = e[i + 1] /\ e[i + 1] \in Int
      /\ \A k \in 1 .. Len(Contents(i)) : Contents(i)[k].id = e[i + 1] + k
  BY <1>1, <1>2, <1>4, <1>5
<1> HIDE DEF d
<1>7. ASSUME NEW j \in Name
      PROVE  /\ d[j + 1] = d[j] - Len(Contents(j)')
             /\ \A k \in 1 .. Len(Contents(j)') : Contents(j)'[k].id = d[j + 1] + k
  <2>1. CASE j = i
    BY <1>1, <1>3, <1>4, <1>5, <2>1
  <2>2. CASE j = i + 1
    <3>1. d[j + 1] = e[i + 1] /\ d[j] = e[i]
      BY <1>1, <1>3, <1>6, <2>2
    <3> QED
      BY <1>4, <1>6, <2>2, <3>1
  <2>3. CASE j # i /\ j # i + 1
    <3>1. j \in 0 .. max_backups + 1 /\ j + 1 \in 0 .. max_backups + 1 /\ j + 1 # i + 1
      BY <1>1, <2>3 DEF Name
    <3>2. d[j] = e[j] /\ d[j + 1] = e[j + 1] /\ Contents(j)' = Contents(j)
      BY <1>3, <1>4, <2>3, <3>1
    <3> QED
      BY <1>2, <3>2
  <2> QED
    BY <2>1, <2>2, <2>3
<1>8. Ends(d)'
  BY <1>3, <1>7 DEF Ends
<1> QED
  BY <1>8

LEMMA GaplessStep ==
  ASSUME Inv, Sized, OnActive, Gapless, NEW w \in Writer, Step(w)
  PROVE  Gapless'
<1>1. TypeInv /\ TypeInv'
  BY NextInv DEF Inv, Next
<1>2. CASE Quiet(w) \/ Measures(w)
  BY <1>2, SameEnds DEF Quiet, Measures, Gapless, Contents
<1>3. CASE Opens(w)
  <2>1. \A i \in Name : Contents(i)' = Contents(i)
    <3>1. << >> # None
      <4>1. << >> \in Seq(Chunk)
        OBVIOUS
      <4> QED
        BY <4>1, LogAssumption
    <3> QED
      BY <1>1, <1>3, <3>1, NameFacts DEF Opens, Contents, TypeInv
  <2> QED
    BY <1>3, <2>1, SameEnds DEF Opens, Gapless
<1>4. ASSUME NEW n \in Sizes, Appends(w, n), writers[w].file # None
      PROVE  Gapless'
  <2> SUFFICES ASSUME ~shared' PROVE \E d : Ends(d)'
    BY DEF Gapless
  <2>1. ~shared /\ writers[w].file = 0
    BY <1>4 DEF Appends, OnActive
  <2>2. files[0] # None
    BY <2>1, NameFacts DEF Inv, OpenFileExists
  <2>3. PICK e : Ends(e)
    BY <2>1 DEF Gapless
  <2> QED
    BY <1>1, <1>4, <2>1, <2>2, <2>3, AppendEnds DEF Appends
<1>5. ASSUME Unlinks(w, max_backups) PROVE Gapless'
  BY <1>1, <1>5, UnlinkEnds DEF Unlinks, Shifts, Gapless
<1>6. ASSUME Unlinks(w, 0) PROVE Gapless'
  <2>1. ActiveLen = 0
    BY <1>6 DEF Unlinks
  <2>2. Contents(0) = << >>
    BY <1>1, <2>1, NameFacts, EmptySize DEF ActiveLen, Contents, TypeInv
  <2>3. \A i \in Name : Contents(i)' = Contents(i)
    BY <1>1, <1>6, <2>2, NameFacts DEF Unlinks, Contents, TypeInv
  <2> QED
    BY <1>6, <2>3, SameEnds DEF Unlinks, Shifts, Gapless
<1>7. ASSUME NEW i \in 0 .. max_backups - 1, Renames(w, i) PROVE Gapless'
  <2> SUFFICES ASSUME ~shared' PROVE \E d : Ends(d)'
    BY DEF Gapless
  <2>1. ~shared /\ written' = written
    BY <1>7 DEF Renames, Shifts
  <2>2. PICK e : Ends(e)
    BY <2>1 DEF Gapless
  <2> QED
    BY <1>1, <1>7, <2>1, <2>2, RenameEnds DEF Renames
<1> QED
  BY <1>2, <1>3, <1>4, <1>5, <1>6, <1>7, StepFacts

------------------------------------------------------------------------------
(* The limit of each process. *)

\* Bytes that w may still add to error.log before it looks at the file again.
Room(w) ==
  LET log == writers[w]
      left == IF log.current_size < max_bytes THEN max_bytes - log.current_size ELSE 0
  IN IF log.file = 0 THEN left
     ELSE IF log.stage # "opening" THEN 0
     ELSE IF log.why = "open" THEN left ELSE max_bytes

(***************************************************************************)
(* Each byte of error.log that comes from a write within the limit has a   *)
(* place <<w, j>> of its own, among the max_bytes places of the process    *)
(* that wrote it -- or, where that one is long gone, of the one that last  *)
(* found the file so long; and w has room left for the places it has not   *)
(* taken.                                                                  *)
(***************************************************************************)
Places(S) ==
  /\ S \in SUBSET (Writer \X (1 .. max_bytes))
  /\ \A v \in Writer, j \in 1 .. max_bytes : <<v, j>> \in S => j + Room(v) <= max_bytes
  /\ Small <= Cardinality(S)

Counted == \E S : Places(S)

LEMMA RoomType ==
  ASSUME NEW w \in Writer, writers[w].current_size \in Nat
  PROVE  Room(w) \in 0 .. max_bytes
BY NameFacts DEF Room

\* Where there is less room, and no more in the file, the places remain.
LEMMA SamePlaces ==
  ASSUME Sized, Sized', NEW S, Places(S), Small' = Small, \A v \in Writer : Room(v)' <= Room(v)
  PROVE  Places(S)'
<1>1. \A v \in Writer : Room(v) \in Int /\ Room(v)' \in Int
  <2>1. \A v \in Writer : Room(v) \in 0 .. max_bytes
    BY RoomType DEF Sized
  <2>2. \A v \in Writer : Room(v)' \in 0 .. max_bytes
    BY NameFacts, Sized' DEF Room, Sized
  <2> QED
    BY <2>1, <2>2
<1>2. max_bytes \in Nat
  BY NameFacts
<1>3. ASSUME NEW v \in Writer, NEW j \in 1 .. max_bytes, <<v, j>> \in S
      PROVE  j + Room(v)' <= max_bytes
  <2>1. j + Room(v) <= max_bytes /\ Room(v)' <= Room(v)
    BY <1>3 DEF Places
  <2> QED
    BY <1>1, <1>2, <2>1
<1> QED
  BY <1>3 DEF Places

\* Where error.log is gone no place is needed.
LEMMA NoPlaces == ASSUME Small' = 0 PROVE Counted'
<1>1. Places({})'
  BY FS_EmptySet DEF Places
<1> QED
  BY <1>1 DEF Counted

\* The n places of one process after its first a.
Row(w, a, n) == {w} \X (a + 1 .. a + n)

LEMMA RowSize ==
  ASSUME NEW w, NEW a \in Nat, NEW n \in Nat
  PROVE  IsFiniteSet(Row(w, a, n)) /\ Cardinality(Row(w, a, n)) = n
<1>1. IsFiniteSet({w}) /\ Cardinality({w}) = 1
  BY FS_Singleton
<1>2. IsFiniteSet(a + 1 .. a + n) /\ Cardinality(a + 1 .. a + n) = n
  <2>1. a + 1 \in Int /\ a + n \in Int
    OBVIOUS
  <2>2. /\ IsFiniteSet(a + 1 .. a + n)
        /\ Cardinality(a + 1 .. a + n)
             = IF a + 1 > a + n THEN 0 ELSE (a + n) - (a + 1) + 1
    BY <2>1, FS_Interval
  <2> QED
    BY <2>2
<1> DEFINE A == {w}
           B == a + 1 .. a + n
<1>3. IsFiniteSet(A) /\ IsFiniteSet(B) /\ Cardinality(A) = 1 /\ Cardinality(B) = n
  BY <1>1, <1>2
<1> HIDE DEF A, B
<1>4. IsFiniteSet(A \X B) /\ Cardinality(A \X B) = Cardinality(A) * Cardinality(B)
  BY <1>3, FS_Product
<1>5. Cardinality(A \X B) = n
  BY <1>3, <1>4
<1> QED
  BY <1>4, <1>5 DEF Row, A, B

LEMMA AllPlaces ==
  /\ IsFiniteSet(Writer \X (1 .. max_bytes))
  /\ Cardinality(Writer \X (1 .. max_bytes)) = Cardinality(Writer) * max_bytes
<1> DEFINE B == 1 .. max_bytes
<1>1. IsFiniteSet(B) /\ Cardinality(B) = max_bytes
  BY NameFacts, FS_Interval
<1> HIDE DEF B
<1>2. IsFiniteSet(Writer \X B) /\ Cardinality(Writer \X B) = Cardinality(Writer) * Cardinality(B)
  BY <1>1, WritersAssumption, FS_Product
<1> QED
  BY <1>1, <1>2 DEF B

LEMMA QuietCounted ==
  ASSUME Inv, Sized, Sized', Counted, NEW w \in Writer, Quiet(w)
  PROVE  Counted'
<1>1. Small' = Small
  BY DEF Quiet, Small, Contents
<1>2. ASSUME NEW v \in Writer PROVE Room(v)' <= Room(v)
  <2>1. Room(v) \in 0 .. max_bytes
    BY RoomType DEF Sized
  <2>2. CASE v # w
    <3>1. Room(v)' = Room(v)
      BY <2>2 DEF Quiet, OthersStay, Room
    <3> QED
      BY <2>1, <3>1, NameFacts
  <2>3. CASE v = w
    <3>1. writers'[w].stage # "opening"
      BY DEF Quiet
    <3>2. CASE writers'[w].file = None
      <4>1. Room(w)' = 0
        BY <3>1, <3>2, NameFacts DEF Room
      <4> QED
        BY <2>1, <2>3, <4>1, NameFacts
    <3>3. CASE /\ writers'[w].file = writers[w].file
               /\ writers'[w].current_size = writers[w].current_size
      <4>1. Room(w)' = Room(w) \/ Room(w)' = 0
        BY <3>1, <3>3 DEF Room
      <4> QED
        BY <2>1, <2>3, <4>1, NameFacts
    <3> QED
      BY <3>2, <3>3 DEF Quiet
  <2> QED
    BY <2>2, <2>3
<1>3. PICK S : Places(S)
  BY DEF Counted
<1> QED
  BY <1>1, <1>2, <1>3, SamePlaces DEF Counted

\* Opening the file that the writer has measured, or that it has just rotated away.
LEMMA OpensCounted ==
  ASSUME Inv, Sized, Sized', Counted, NEW w \in Writer, Opens(w)
  PROVE  Counted'
<1>1. Small' = Small
  <2>1. << >> # None
    <3>1. << >> \in Seq(Chunk)
      OBVIOUS
    <3> QED
      BY <3>1, LogAssumption
  <2>2. Contents(0)' = Contents(0)
    BY <2>1, NameFacts DEF Opens, Contents, Inv, TypeInv
  <2> QED
    BY <2>2 DEF Small
<1>2. ASSUME NEW v \in Writer PROVE Room(v)' <= Room(v)
  <2>1. Room(v) \in 0 .. max_bytes
    BY RoomType DEF Sized
  <2>2. CASE v # w
    <3>1. Room(v)' = Room(v)
      BY <2>2 DEF Opens, OthersStay, Room
    <3> QED
      BY <2>1, <3>1, NameFacts
  <2>3. CASE v = w
    <3>1. writers[w].stage = "opening" /\ writers[w].file = None
      BY DEF Opens, Inv, OpenFileExists
    <3>2. /\ writers'[w].file = 0
          /\ writers'[w].current_size = IF writers[w].why = "open" THEN writers[w].current_size ELSE 0
      BY DEF Opens, Becomes
    <3>3. Room(w)' = Room(w)
      BY <3>1, <3>2, NameFacts DEF Room
    <3> QED
      BY <2>1, <2>3, <3>3, NameFacts
  <2> QED
    BY <2>2, <2>3
<1>3. PICK S : Places(S)
  BY DEF Counted
<1> QED
  BY <1>1, <1>2, <1>3, SamePlaces DEF Counted

\* A file that is read to be within the limit is all the reader's.
LEMMA MeasuresCounted ==
  ASSUME Inv, Sized, Sized', Counted, NEW w \in Writer, Measures(w)
  PROVE  Counted'
<1>1. Small' = Small /\ Small \in Nat /\ ActiveLen \in Nat /\ Small <= ActiveLen
  BY ActiveFacts DEF Measures, Small, Contents, Inv
<1>2. /\ writers'[w].file = None /\ writers'[w].stage = "opening" /\ writers'[w].why = "open"
      /\ writers'[w].current_size = ActiveLen
  BY DEF Measures, Becomes, Sized
<1>3. Room(w)' = IF ActiveLen < max_bytes THEN max_bytes - ActiveLen ELSE 0
  BY <1>2, NameFacts DEF Room
<1>4. CASE ActiveLen <= max_bytes
  <2>0. PICK T : T = Row(w, 0, Small)
    OBVIOUS
  <2>1. Cardinality(T) = Small
    <3>1. 0 \in Nat /\ Small \in Nat
      BY <1>1
    <3> QED
      BY <2>0, <3>1, RowSize
  <2>2. T \in SUBSET (Writer \X (1 .. max_bytes))
    BY <1>1, <1>4, <2>0, NameFacts DEF Row
  <2>3. ASSUME NEW v \in Writer, NEW j \in 1 .. max_bytes, <<v, j>> \in T
        PROVE  j + Room(v)' <= max_bytes
    <3>1. v = w /\ j <= Small
      BY <1>1, <2>0, <2>3 DEF Row
    <3>2. j \in Nat /\ j <= ActiveLen /\ max_bytes \in Nat
      BY <1>1, <3>1, NameFacts
    <3>3. Room(w)' = max_bytes - ActiveLen
      BY <1>1, <1>3, <1>4, NameFacts
    <3> QED
      BY <1>1, <3>1, <3>2, <3>3
  <2>4. Places(T)'
    BY <1>1, <2>1, <2>2, <2>3 DEF Places
  <2> QED
    BY <2>4 DEF Counted
<1>5. CASE ~ (ActiveLen <= max_bytes)
  <2>1. ASSUME NEW v \in Writer PROVE Room(v)' <= Room(v)
    <3>1. Room(v) \in 0 .. max_bytes
      BY RoomType DEF Sized
    <3>2. CASE v # w
      <4>1. Room(v)' = Room(v)
        BY <3>2 DEF Measures, OthersStay, Room
      <4> QED
        BY <3>1, <4>1, NameFacts
    <3>3. CASE v = w
      <4>1. Room(w)' = 0
        BY <1>1, <1>3, <1>5, NameFacts
      <4> QED
        BY <3>1, <3>3, <4>1, NameFacts
    <3> QED
      BY <3>2, <3>3
  <2>2. PICK S : Places(S)
    BY DEF Counted
  <2> QED
    BY <1>1, <2>1, <2>2, SamePlaces DEF Counted
<1> QED
  BY <1>4, <1>5

\* A write to a file that is no longer error.log, or one longer than the limit.
LEMMA OtherAppendCounted ==
  ASSUME Inv, Sized, Sized', Counted, NEW w \in Writer, NEW n \in Sizes, Appends(w, n),
         Small' = Small, writers[w].stage # "opening"
  PROVE  Counted'
<1>1. ASSUME NEW v \in Writer PROVE Room(v)' <= Room(v)
  <2>1. Room(v) \in 0 .. max_bytes
    BY RoomType DEF Sized
  <2>2. CASE v # w
    <3>1. Room(v)' = Room(v)
      BY <2>2 DEF Appends, OthersStay, Room
    <3> QED
      BY <2>1, <3>1, NameFacts
  <2>3. CASE v = w
    <3>1. n \in Nat /\ max_bytes \in Nat /\ writers[w].current_size \in Nat /\ None # 0
      BY LogAssumption, NameFacts DEF Sized
    <3>2. /\ writers'[w].stage # "opening" /\ writers'[w].file \in {None, writers[w].file}
          /\ writers'[w].current_size = writers[w].current_size + n
      BY DEF Appends, Becomes
    <3>3. CASE writers'[w].file = 0
      <4>1. writers[w].file = 0
        BY <3>1, <3>2, <3>3
      <4> QED
        BY <2>3, <3>1, <3>2, <3>3, <4>1 DEF Room
    <3>4. CASE writers'[w].file # 0
      <4>1. Room(w)' = 0
        BY <3>2, <3>4 DEF Room
      <4> QED
        BY <2>1, <2>3, <4>1, NameFacts
    <3> QED
      BY <3>3, <3>4
  <2> QED
    BY <2>2, <2>3
<1>2. PICK S : Places(S)
  BY DEF Counted
<1> QED
  BY <1>1, <1>2, SamePlaces DEF Counted

\* A write to error.log takes the writer's next places.
LEMMA AppendsCounted ==
  ASSUME Inv, Sized, Sized', Counted, NEW w \in Writer, NEW n \in Sizes, Appends(w, n),
         writers[w].file # None, writers[w].stage \in {"idle", "append"},
         n <= max_bytes => writers[w].current_size + n <= max_bytes
  PROVE  Counted'
<1> DEFINE c == writers[w].current_size
           x == [id |-> written + 1, size |-> n]
<1>1. n \in Nat \ {0} /\ max_bytes \in Nat /\ c \in Nat /\ written \in Nat
      /\ Small \in Nat /\ TypeInv
  BY LogAssumption, NameFacts, ActiveFacts DEF Sized, Inv, TypeInv
<1>2. CASE writers[w].file # 0
  <2>1. files'[0] = files[0]
    BY <1>2, NameFacts DEF Appends
  <2>2. Small' = Small
    BY <2>1 DEF Small, Contents
  <2> QED
    BY <2>2, OtherAppendCounted
<1>3. CASE writers[w].file = 0
  <2>7. files[0] \in Seq(Chunk)
    BY <1>3, NameFacts DEF Inv, TypeInv, OpenFileExists
  <2>8. x \in Chunk /\ x.size = n
    BY <1>1 DEF Chunk
  <2>1. files[0] \in Seq(Chunk) /\ x \in Chunk /\ x.size = n
    BY <2>7, <2>8
  <2>2. files'[0] = Append(files[0], x) /\ Append(files[0], x) \in Seq(Chunk)
    BY <1>3, <2>1, NameFacts DEF Appends
  <2> HIDE DEF x
  <2>3. Contents(0) = files[0] /\ Contents(0)' = Append(files[0], x)
    BY <2>1, <2>2, LogAssumption DEF Contents
  <2>4. Small' = Small + (IF n <= max_bytes THEN n ELSE 0)
    <3>1. Total(SmallOf(Append(files[0], x)))
            = Total(SmallOf(files[0])) + (IF x.size <= max_bytes THEN x.size ELSE 0)
      BY <2>1, SmallAppend
    <3>2. Small' = Total(SmallOf(Contents(0)'))
      BY DEF Small, SmallOf
    <3> QED
      BY <2>1, <2>3, <3>1, <3>2 DEF Small
  <2>5. CASE ~ (n <= max_bytes)
    BY <1>1, <2>4, <2>5, OtherAppendCounted
  <2>6. CASE n <= max_bytes
    <3>1. c + n <= max_bytes
      BY <2>6
    <3>2. PICK S : Places(S)
      BY DEF Counted
    <3>3. PICK k : k = c
      OBVIOUS
    <3> DEFINE R == Row(w, k, n)
               T == S \cup R
    <3>4. S \in SUBSET (Writer \X (1 .. max_bytes)) /\ IsFiniteSet(S)
      BY <3>2, AllPlaces, FS_Subset DEF Places
    <3>5. IsFiniteSet(R) /\ Cardinality(R) = n
      <4>1. k \in Nat /\ n \in Nat
        BY <1>1, <3>3
      <4> QED
        BY <4>1, RowSize
    <3>6. R \in SUBSET (Writer \X (1 .. max_bytes))
      BY <1>1, <3>1, <3>3 DEF Row
    <3>7. Room(w) = max_bytes - c
      BY <1>1, <1>3, <3>1 DEF Room
    <3>8. S \cap R = {}
      <4> SUFFICES ASSUME NEW j \in k + 1 .. k + n, <<w, j>> \in S PROVE FALSE
        BY <3>4 DEF Row
      <4>1. j \in 1 .. max_bytes
        BY <3>4
      <4>2. j + Room(w) <= max_bytes
        BY <3>2, <4>1 DEF Places
      <4> QED
        BY <1>1, <3>3, <3>7, <4>1, <4>2
    <3>9. Cardinality(T) = Cardinality(S) + n
      <4>1. Cardinality(S) \in Nat /\ Cardinality({}) = 0
        BY <3>4, FS_CardinalityType, FS_EmptySet
      <4> HIDE DEF R
      <4>2. Cardinality(S \cup R) = Cardinality(S) + Cardinality(R) - Cardinality(S \cap R)
        BY <3>4, <3>5, FS_Union
      <4> QED
        BY <1>1, <3>5, <3>8, <4>1, <4>2
    <3>10. Small' <= Cardinality(T)
      <4>1. Cardinality(S) \in Nat /\ Small <= Cardinality(S)
        BY <3>2, <3>4, FS_CardinalityType DEF Places
      <4> QED
        BY <1>1, <2>4, <2>6, <3>9, <4>1
    <3>11. /\ writers'[w].file = 0 /\ writers'[w].stage = "idle"
           /\ writers'[w].current_size = c + n
      BY <1>1, <1>3, <3>1 DEF Appends, Becomes
    <3>12. Room(w)' = max_bytes - (c + n)
      BY <1>1, <3>1, <3>11 DEF Room
    <3>13. ASSUME NEW v \in Writer, NEW j \in 1 .. max_bytes, <<v, j>> \in T
           PROVE  j + Room(v)' <= max_bytes
      <4>1. CASE v # w
        <5>1. Room(v)' = Room(v)
          BY <4>1 DEF Appends, OthersStay, Room
        <5>2. <<v, j>> \in S
          BY <3>13, <4>1 DEF Row
        <5> QED
          BY <3>2, <5>1, <5>2 DEF Places
      <4>2. CASE v = w
        <5>1. j <= c + n
          <6>1. CASE <<v, j>> \in S
            <7>1. j + Room(w) <= max_bytes
              BY <3>2, <4>2, <6>1 DEF Places
            <7> QED
              BY <1>1, <3>7, <7>1
          <6>2. CASE <<v, j>> \in R
            BY <1>1, <3>3, <6>2 DEF Row
          <6> QED
            BY <3>13, <6>1, <6>2
        <5> QED
          BY <1>1, <3>12, <4>2, <5>1
      <4> QED
        BY <4>1, <4>2
    <3>14. T \in SUBSET (Writer \X (1 .. max_bytes))
      BY <3>4, <3>6
    <3> HIDE DEF T, R
    <3>15. PICK U : U = T
      OBVIOUS
    <3>16. Places(U)'
      BY <3>10, <3>13, <3>14, <3>15 DEF Places
    <3> QED
      BY <3>16 DEF Counted
  <2> QED
    BY <2>5, <2>6
<1> QED
  BY <1>2, <1>3

\* A rotation by another name than error.log's: nobody gets more room.
LEMMA ShiftsRoom ==
  ASSUME Inv, Sized, NEW w \in Writer, NEW to, Shifts(w, to),
         writers'[w].stage \in {"shift", "stat"},
         \A j \in Name : to[j] = 0 => j = 0
  PROVE  \A v \in Writer : Room(v)' <= Room(v)
<1> SUFFICES ASSUME NEW v \in Writer PROVE Room(v)' <= Room(v)
  OBVIOUS
<1>1. Room(v) \in 0 .. max_bytes
  BY RoomType DEF Sized
<1>2. CASE v = w
  <2>1. Room(w)' = 0
    BY NameFacts DEF Shifts, Room
  <2> QED
    BY <1>1, <1>2, <2>1, NameFacts
<1>3. CASE v # w
  <2>1. /\ writers'[v].stage = writers[v].stage /\ writers'[v].why = writers[v].why
        /\ writers'[v].current_size = writers[v].current_size
        /\ writers'[v].file = 0 => writers[v].file = 0
    BY <1>3 DEF Shifts
  <2>2. CASE writers'[v].file = 0
    <3>1. Room(v)' = Room(v)
      BY <2>1, <2>2 DEF Room
    <3> QED
      BY <1>1, <3>1, NameFacts
  <2>3. CASE writers'[v].file # 0 /\ writers[v].file # 0
    <3>1. Room(v)' = Room(v)
      BY <2>1, <2>3 DEF Room
    <3> QED
      BY <1>1, <3>1, NameFacts
  <2>4. CASE writers'[v].file # 0 /\ writers[v].file = 0
    <3>1. writers[v].stage # "opening"
      BY <2>4, NameFacts DEF Inv, OpenFileExists
    <3>2. Room(v)' = 0
      BY <2>1, <2>4, <3>1 DEF Room
    <3> QED
      BY <1>1, <3>2, NameFacts
  <2> QED
    BY <2>2, <2>3, <2>4
<1> QED
  BY <1>2, <1>3

LEMMA UnlinksCounted ==
  ASSUME Inv, Inv', Sized, Sized', Counted, NEW w \in Writer, NEW i \in {0, max_backups},
         Unlinks(w, i)
  PROVE  Counted'
<1> DEFINE to == [j \in Name |-> IF j = i THEN Unlinked ELSE j]
<1>0. i \in Name /\ files' = [files EXCEPT ![i] = None] /\ Shifts(w, to)
  BY NameFacts DEF Unlinks
<1>1. CASE i = 0
  <2>1. files'[0] = None
    BY <1>0, <1>1 DEF Inv, TypeInv
  <2>2. Contents(0)' = << >>
    BY <2>1 DEF Contents
  <2>3. SmallOf(<< >>) = << >>
    BY DEF SmallOf
  <2>4. Small' = Total(SmallOf(Contents(0)'))
    BY DEF Small, SmallOf
  <2>5. Small' = 0
    BY <2>2, <2>3, <2>4, TotalEmpty
  <2> QED
    BY <2>5, NoPlaces
<1>2. CASE i # 0
  <2>1. files'[0] = files[0]
    BY <1>0, <1>2, NameFacts DEF Inv, TypeInv
  <2>2. Small' = Small
    BY <2>1 DEF Small, Contents
  <2>3. writers'[w].stage \in {"shift", "stat"}
    BY <1>2 DEF Unlinks
  <2>4. \A j \in Name : to[j] = 0 => j = 0
    BY NameFacts
  <2> HIDE DEF to
  <2>5. \A v \in Writer : Room(v)' <= Room(v)
    BY <1>0, <2>3, <2>4, ShiftsRoom
  <2>6. PICK S : Places(S)
    BY DEF Counted
  <2> QED
    BY <2>2, <2>5, <2>6, SamePlaces DEF Counted
<1> QED
  BY <1>1, <1>2

LEMMA RenamesCounted ==
  ASSUME Inv, Inv', Sized, Sized', Counted, NEW w \in Writer, NEW i \in 0 .. max_backups - 1,
         Renames(w, i)
  PROVE  Counted'
<1> DEFINE to == [j \in Name |-> IF j = i THEN i + 1 ELSE IF j = i + 1 THEN Unlinked ELSE j]
<1>0. /\ i \in Name /\ i + 1 \in Name /\ i + 1 # 0 /\ i + 1 # i
      /\ files' = [files EXCEPT ![i + 1] = files[i], ![i] = None] /\ Shifts(w, to)
  BY NameFacts DEF Renames, Name
<1>1. CASE i = 0
  <2>1. files'[0] = None
    BY <1>0, <1>1 DEF Inv, TypeInv
  <2>2. Contents(0)' = << >>
    BY <2>1 DEF Contents
  <2>3. SmallOf(<< >>) = << >>
    BY DEF SmallOf
  <2>4. Small' = Total(SmallOf(Contents(0)'))
    BY DEF Small, SmallOf
  <2>5. Small' = 0
    BY <2>2, <2>3, <2>4, TotalEmpty
  <2> QED
    BY <2>5, NoPlaces
<1>2. CASE i # 0
  <2>1. files'[0] = files[0]
    BY <1>0, <1>2, NameFacts DEF Inv, TypeInv
  <2>2. Small' = Small
    BY <2>1 DEF Small, Contents
  <2>3. writers'[w].stage \in {"shift", "stat"}
    BY <1>2 DEF Renames
  <2>4. \A j \in Name : to[j] = 0 => j = 0
    BY <1>0, NameFacts DEF Unlinked
  <2> HIDE DEF to
  <2>5. \A v \in Writer : Room(v)' <= Room(v)
    BY <1>0, <2>3, <2>4, ShiftsRoom
  <2>6. PICK S : Places(S)
    BY DEF Counted
  <2> QED
    BY <2>2, <2>5, <2>6, SamePlaces DEF Counted
<1> QED
  BY <1>1, <1>2

------------------------------------------------------------------------------
(* The invariant of the files, and the theorems. *)

LogInv == Inv /\ Sized /\ OnActive /\ Gapless /\ Counted

LEMMA InitLogInv == Init => LogInv
<1> SUFFICES ASSUME Init PROVE LogInv
  OBVIOUS
<1>1. Inv
  BY InitInv
<1>2. \A w \in Writer : writers[w] = Off
  BY DEF Init
<1>3. Sized /\ OnActive
  BY <1>2 DEF Off, Sized, OnActive
<1>4. \A i \in Name : Contents(i) = << >>
  BY DEF Init, Contents
<1>5. Ends([j \in 0 .. max_backups + 1 |-> 0])
  <2> DEFINE e == [j \in 0 .. max_backups + 1 |-> 0]
  <2>1. e \in [0 .. max_backups + 1 -> Int] /\ \A j \in 0 .. max_backups + 1 : e[j] = 0
    OBVIOUS
  <2>2. \A i \in Name : i \in 0 .. max_backups + 1 /\ i + 1 \in 0 .. max_backups + 1
    BY NameFacts DEF Name
  <2>3. e[0] = written
    BY <2>1, NameFacts DEF Init
  <2>4. Len(<< >>) = 0 /\ 1 .. 0 = {}
    OBVIOUS
  <2> HIDE DEF e
  <2>5. \A i \in Name : /\ e[i + 1] = e[i] - Len(Contents(i))
                        /\ \A k \in 1 .. Len(Contents(i)) : Contents(i)[k].id = e[i + 1] + k
    BY <1>4, <2>1, <2>2, <2>4
  <2> QED
    BY <2>1, <2>3, <2>5 DEF Ends, e
<1>6. Small = 0
  <2>1. SmallOf(<< >>) = << >>
    BY DEF SmallOf
  <2> QED
    BY <1>4, <2>1, NameFacts, TotalEmpty DEF Small
<1>7. Places({})
  BY <1>6, FS_EmptySet DEF Places
<1> QED
  BY <1>1, <1>3, <1>5, <1>7 DEF LogInv, Gapless, Counted

LEMMA StepLogInv ==
  ASSUME LogInv, NEW w \in Writer, Step(w)
  PROVE  LogInv'
<1>1. Inv /\ Sized /\ OnActive /\ Gapless /\ Counted
  BY DEF LogInv
<1>2. Inv'
  BY <1>1, NextInv DEF Next
<1>3. Sized' /\ OnActive' /\ Gapless'
  BY <1>1, SizedStep, OnActiveStep, GaplessStep
<1>4. Counted'
  BY <1>1, <1>2, <1>3, StepFacts, QuietCounted, MeasuresCounted, OpensCounted, AppendsCounted,
     UnlinksCounted, RenamesCounted
<1> QED
  BY <1>2, <1>3, <1>4 DEF LogInv

\* What the writers know and what the files hold, in every reachable state.
THEOREM LogInvHolds == Spec => []LogInv
<1>1. Init => LogInv
  BY InitLogInv
<1>2. LogInv /\ [Next]_vars => LogInv'
  <2> SUFFICES ASSUME LogInv, [Next]_vars PROVE LogInv'
    OBVIOUS
  <2>1. CASE Next
    BY <2>1, StepLogInv DEF Next
  <2>2. CASE UNCHANGED vars
    <3>1. Inv'
      BY <2>2, NextInv DEF LogInv
    <3>2. /\ files' = files /\ writers' = writers /\ written' = written /\ shared' = shared
      BY <2>2 DEF vars
    <3>3. Sized' /\ OnActive'
      BY <3>2 DEF LogInv, Sized, OnActive
    <3>4. Gapless'
      BY <3>2, SameEnds DEF LogInv, Gapless, Contents
    <3>5. Small' = Small /\ \A v \in Writer : Room(v)' = Room(v)
      BY <3>2 DEF Small, Contents, Room
    <3>6. Counted'
      BY <3>5 DEF LogInv, Counted, Places
    <3> QED
      BY <3>1, <3>3, <3>4, <3>6 DEF LogInv
  <2> QED
    BY <2>1, <2>2
<1> QED
  BY <1>1, <1>2, PTL DEF Spec

\* Files, writers and their counters are of their types: what a writer counts is a number.
THEOREM LogTypeOK == Spec => []TypeOK
<1>1. LogInv => TypeOK
  <2> SUFFICES ASSUME LogInv PROVE TypeOK
    OBVIOUS
  <2>1. TypeInv /\ Sized
    BY DEF LogInv, Inv
  <2>2. ASSUME NEW w \in Writer
        PROVE  writers[w] \in [stage : Stage, why : Reason, file : Name \cup {Unlinked, None},
                               current_size : Nat, index : 0 .. max_backups,
                               incoming : Sizes \cup {0}]
    <3>1. IsLog(writers[w]) /\ writers[w].current_size \in Nat
      BY <2>1 DEF TypeInv, Sized
    <3> QED
      BY <3>1 DEF IsLog, LogWith
  <2> QED
    BY <2>1, <2>2 DEF TypeOK, TypeInv
<1> QED
  BY <1>1, LogInvHolds, PTL

(***************************************************************************)
(* The log loses its oldest end only: the files of a process that has had  *)
(* the log to itself, read from the oldest backup to error.log, hold the   *)
(* last chunks written without a gap, whichever file operation failed and  *)
(* wherever the process was killed, for any number of backups.             *)
(***************************************************************************)
THEOREM KeptHolds == Spec => []KeptIsSuffix
<1>1. LogInv => KeptIsSuffix
  BY KeptGapless DEF LogInv, Inv, Gapless, KeptIsSuffix
<1> QED
  BY <1>1, LogInvHolds, PTL

(***************************************************************************)
(* However many processes share the log, each of them adds at most the     *)
(* limit to error.log before it rotates: the file never holds more than    *)
(* one limit for each of them.                                             *)
(***************************************************************************)
THEOREM LimitHolds == Spec => []ActiveBounded
<1>1. LogInv => ActiveBounded
  <2> SUFFICES ASSUME LogInv PROVE ActiveBounded
    OBVIOUS
  <2>1. PICK S : Places(S)
    BY DEF LogInv, Counted
  <2>2. /\ Small \in Nat /\ Small <= Cardinality(S)
        /\ S \in SUBSET (Writer \X (1 .. max_bytes))
    BY <2>1, ActiveFacts DEF Places, LogInv, Inv
  <2>3. /\ IsFiniteSet(S)
        /\ Cardinality(S) <= Cardinality(Writer \X (1 .. max_bytes))
    BY <2>2, AllPlaces, FS_Subset
  <2>4. Cardinality(S) \in Nat /\ Cardinality(Writer \X (1 .. max_bytes)) \in Nat
    BY <2>3, AllPlaces, FS_CardinalityType
  <2>5. Small <= Cardinality(Writer \X (1 .. max_bytes))
    BY <2>2, <2>3, <2>4
  <2>6. Small <= Cardinality(Writer) * max_bytes
    BY <2>5, AllPlaces
  <2> QED
    BY <2>6 DEF ActiveBounded, Small, SmallOf
<1> QED
  BY <1>1, LogInvHolds, PTL
=============================================================================
