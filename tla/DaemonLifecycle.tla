--------------------------- MODULE DaemonLifecycle ---------------------------
(***************************************************************************)
(* How daemons come and go.  Daemons of all versions share one lock file;  *)
(* each version has a pid file and a socket file of its own, which         *)
(* starting daemons, ending daemons, `daemon stop` and the clean-up task   *)
(* of other versions remove by their path, whoever they belong to.  Every  *)
(* access to a file is a step of its own.                                  *)
(*                                                                         *)
(* A file holds the process that wrote or bound it, Stale once that        *)
(* process is gone, or None when there is no such file.                    *)
(***************************************************************************)
CONSTANTS
  Proc,      \* processes that can run a daemon; a process that is gone can start anew
  Client,    \* `daemon stop` commands
  Version,   \* versions of the program
  Faults,    \* what can go wrong: a subset of AllFaults
  None,      \* no file, no process
  Stale      \* a process that is gone

AllFaults == {"bind fails", "signal", "accept fails", "crash", "socket lost"}

ASSUME LifecycleAssumption ==
  /\ Faults \subseteq AllFaults
  /\ None \notin Proc \cup {Stale} /\ Stale \notin Proc
  /\ Proc \cap Client = {}
  /\ Version # {}

\* Who asks a daemon to stop: the command, or the clean-up task of a daemon.
Agent == Client \cup Proc

VARIABLES
  daemon,    \* each process: its stage, its version, its CancellationToken
  lock,      \* who holds daemon.lock
  pidfile, socket,   \* the files of each version
  agent,     \* what each agent is about to do
  request,   \* the Stop request of each agent: the daemon, and what its task is about to do
  asked      \* history: versions whose daemon somebody has set out to stop

vars == <<daemon, lock, pidfile, socket, agent, request, asked>>
files == <<lock, pidfile, socket>>

Holding == {"check", "rm_stale", "rm_sock", "bind", "publish"}
Accepted == {"serve", "close_sock", "close_pid"}   \* connection tasks may run
Running == {"publish"} \cup Accepted
Stage == {"gone", "lock"} \cup Holding \cup Running

Daemon == [stage : Stage, ver : Version, cancelled : BOOLEAN]
Waiting == {"wait", "term", "wait_term"}
AgentStage ==
  Waiting \cup {"idle", "list", "next", "connect", "await", "failed", "rm_gone", "rm_sock",
                "rm_pid"}
\* Nobody waits for a process without knowing which.
AgentState ==
  {s \in [at : AgentStage, ver : Version, pid : Proc \cup {None, Stale}, todo : SUBSET Version] :
     s.at \in Waiting => s.pid # None}
NoRequest == [to |-> None, at |-> "none"]
Request == {NoRequest} \cup [to : Proc, at : {"queued", "rm_sock", "rm_pid", "sleep"}]

AnyVersion == CHOOSE v \in Version : TRUE
Idle == [at |-> "idle", ver |-> AnyVersion, pid |-> None, todo |-> {}]
NoDaemon == [stage |-> "gone", ver |-> AnyVersion, cancelled |-> FALSE]

Init ==
  /\ daemon = [p \in Proc |-> NoDaemon]
  /\ lock = None
  /\ pidfile = [v \in Version |-> None]
  /\ socket = [v \in Version |-> None]
  /\ agent = [a \in Agent |-> Idle]
  /\ request = [a \in Agent |-> NoRequest]
  /\ asked = {}

is_alive(x) == x \in Proc
At(p, s) == daemon[p].stage = s
Enter(p, s) == daemon' = [daemon EXCEPT ![p].stage = s]
Remove(file, v) == [file EXCEPT ![v] = None]

-----------------------------------------------------------------------------
(* The end of a process. *)

Forget(p, x) == IF x = p THEN Stale ELSE x

\* Those who wait for an answer of p get an error; `daemon stop` turns to
\* the pid, the clean-up task does not care.
Unanswered(a) == [agent[a] EXCEPT !.at = IF a \in Client THEN "failed" ELSE "wait"]

AgentAfter(a, p) ==
  IF a = p THEN Idle
  ELSE LET s == IF agent[a].at = "await" /\ request[a].to = p
                THEN Unanswered(a) ELSE agent[a]
       IN [s EXCEPT !.pid = Forget(p, s.pid)]

\* Everything that p's end changes but the files.
Ends(p) ==
  /\ daemon' = [daemon EXCEPT ![p] = NoDaemon]
  /\ lock' = IF lock = p THEN None ELSE lock
  /\ agent' = [a \in Agent |-> AgentAfter(a, p)]
  /\ request' = [a \in Agent |-> IF request[a].to = p THEN NoRequest ELSE request[a]]
  /\ UNCHANGED asked

\* The files of p stay behind.
Dies(p) ==
  /\ Ends(p)
  /\ pidfile' = [v \in Version |-> Forget(p, pidfile[v])]
  /\ socket' = [v \in Version |-> Forget(p, socket[v])]

-----------------------------------------------------------------------------
(* Starting: socket_listener::bind, under daemon.lock. *)

\* `daemon start`, or a prompt that gets no answer in time.
Start(p, v) ==
  /\ At(p, "gone")
  /\ request[p] = NoRequest
  /\ daemon' = [daemon EXCEPT ![p] = [stage |-> "lock", ver |-> v, cancelled |-> FALSE]]
  /\ UNCHANGED <<files, agent, request, asked>>

\* Mutant: starts are not serialised.
TakeLock_unlocked(p) ==
  /\ At(p, "lock")
  /\ lock' = p
  /\ Enter(p, "check")
  /\ UNCHANGED <<pidfile, socket, agent, request, asked>>

TakeLock(p) ==
  /\ At(p, "lock")
  /\ lock = None
  /\ lock' = p
  /\ Enter(p, "check")
  /\ UNCHANGED <<pidfile, socket, agent, request, asked>>

\* A pid file that names a live process: AlreadyRunning.
Refused(p) ==
  /\ At(p, "check")
  /\ is_alive(pidfile[daemon[p].ver])
  /\ Dies(p)

\* Mutant: a process that may not be signalled counts as dead.
CheckPid_unsure(p) ==
  /\ At(p, "check")
  /\ Enter(p, IF pidfile[daemon[p].ver] = None THEN "rm_sock" ELSE "rm_stale")
  /\ UNCHANGED <<files, agent, request, asked>>

CheckPid(p) ==
  /\ At(p, "check")
  /\ ~is_alive(pidfile[daemon[p].ver])
  /\ Enter(p, IF pidfile[daemon[p].ver] = None THEN "rm_sock" ELSE "rm_stale")
  /\ UNCHANGED <<files, agent, request, asked>>

RemoveStalePid(p) ==
  /\ At(p, "rm_stale")
  /\ pidfile' = Remove(pidfile, daemon[p].ver)
  /\ Enter(p, "rm_sock")
  /\ UNCHANGED <<lock, socket, agent, request, asked>>

RemoveStaleSocket(p) ==
  /\ At(p, "rm_sock")
  /\ socket' = Remove(socket, daemon[p].ver)
  /\ Enter(p, "bind")
  /\ UNCHANGED <<lock, pidfile, agent, request, asked>>

Bind(p) ==
  /\ At(p, "bind")
  /\ socket[daemon[p].ver] = None
  /\ socket' = [socket EXCEPT ![daemon[p].ver] = p]
  /\ Enter(p, "publish")
  /\ UNCHANGED <<lock, pidfile, agent, request, asked>>

\* The end of bind writes the pid file and gives the lock back; then run
\* starts the clean-up task and the accept loop.
Publish(p) ==
  /\ At(p, "publish")
  /\ pidfile' = [pidfile EXCEPT ![daemon[p].ver] = p]
  /\ lock' = None
  /\ Enter(p, "serve")
  /\ agent' = [agent EXCEPT ![p] = [Idle EXCEPT !.at = "list"]]
  /\ UNCHANGED <<socket, request, asked>>

\* bind fails, or set_permissions fails and the new socket is removed.
BindFails(p) ==
  \/ At(p, "bind") /\ Dies(p)
  \/ /\ At(p, "publish")
     /\ Ends(p)
     /\ socket' = Remove(socket, daemon[p].ver)
     /\ UNCHANGED pidfile

-----------------------------------------------------------------------------
(* A serving daemon. *)

\* Mutant: a command that knows no pid waits for it all the same.
HandleStop_waits(a) ==
  /\ request[a].at = "queued"
  /\ daemon[request[a].to].stage \in Accepted
  /\ request' = [request EXCEPT ![a].at = "rm_sock"]
  /\ agent' = IF agent[a].at # "await" THEN agent
              ELSE [agent EXCEPT ![a].at = "wait"]
  /\ UNCHANGED <<daemon, files, asked>>

\* The connection task of a Stop request answers it, even while run winds
\* down; what follows an answer is decided by the agent: a clean-up task
\* waits, a command waits if it has read a pid before.
HandleStop(a) ==
  /\ request[a].at = "queued"
  /\ daemon[request[a].to].stage \in Accepted
  /\ request' = [request EXCEPT ![a].at = "rm_sock"]
  /\ agent' = IF agent[a].at # "await" THEN agent
              ELSE [agent EXCEPT ![a] = IF a \in Client /\ agent[a].pid = None
                                        THEN Idle ELSE [@ EXCEPT !.at = "wait"]]
  /\ UNCHANGED <<daemon, files, asked>>

\* restart::cleanup by that task: first the socket ...
StopRemovesSocket(a) ==
  /\ request[a].at = "rm_sock"
  /\ socket' = Remove(socket, daemon[request[a].to].ver)
  /\ request' = [request EXCEPT ![a].at = "rm_pid"]
  /\ UNCHANGED <<daemon, lock, pidfile, agent, asked>>

\* ... then the pid file; then it sleeps for 50 ms.
StopRemovesPid(a) ==
  /\ request[a].at = "rm_pid"
  /\ pidfile' = Remove(pidfile, daemon[request[a].to].ver)
  /\ request' = [request EXCEPT ![a].at = "sleep"]
  /\ UNCHANGED <<daemon, lock, socket, agent, asked>>

\* Mutant: the accept loop is not told.
StopExits_silently(a) ==
  /\ request[a].at = "sleep"
  /\ request' = [request EXCEPT ![a] = NoRequest]
  /\ UNCHANGED <<daemon, files, agent, asked>>

\* The accept loop is told to return, and if it has not done so before the
\* process ends without a second clean-up.
StopExits(a) ==
  LET p == request[a].to IN
  /\ request[a].at = "sleep"
  /\ \/ At(p, "serve") /\ Dies(p)
     \/ /\ ~At(p, "serve")
        /\ request' = [request EXCEPT ![a] = NoRequest]
        /\ UNCHANGED <<daemon, files, agent, asked>>

\* Mutant: a daemon whose pid file is still there stays.
NoticeSocketGone_unless_pid(p) ==
  /\ pidfile[daemon[p].ver] = None
  /\ At(p, "serve")
  /\ socket[daemon[p].ver] = None
  /\ ~daemon[p].cancelled
  /\ daemon' = [daemon EXCEPT ![p].cancelled = TRUE]
  /\ UNCHANGED <<files, agent, request, asked>>

\* Mutant: the watcher cancels a token of its own.
NoticeSocketGone_alone(p) ==
  /\ At(p, "serve")
  /\ socket[daemon[p].ver] = None
  /\ UNCHANGED vars

\* socket_watcher: it only looks whether there is a file.
NoticeSocketGone(p) ==
  /\ At(p, "serve")
  /\ socket[daemon[p].ver] = None
  /\ ~daemon[p].cancelled
  /\ daemon' = [daemon EXCEPT ![p].cancelled = TRUE]
  /\ UNCHANGED <<files, agent, request, asked>>

\* The accept loop sees the cancellation.
WindDown(p) ==
  /\ At(p, "serve")
  /\ daemon[p].cancelled
  /\ Enter(p, "close_sock")
  /\ UNCHANGED <<files, agent, request, asked>>

\* restart::cleanup at the end of run.
CloseSocket(p) ==
  /\ At(p, "close_sock")
  /\ socket' = Remove(socket, daemon[p].ver)
  /\ Enter(p, "close_pid")
  /\ UNCHANGED <<lock, pidfile, agent, request, asked>>

ClosePid(p) ==
  /\ At(p, "close_pid")
  /\ Ends(p)
  /\ pidfile' = [v \in Version |-> Forget(p, Remove(pidfile, daemon[p].ver)[v])]
  /\ socket' = [v \in Version |-> Forget(p, socket[v])]

-----------------------------------------------------------------------------
(* What happens to it from outside. *)

\* SIGTERM or SIGINT.  Before the handlers are installed it is a Crash;
\* a daemon that winds down already does not mind.
Signalled(p) == [daemon EXCEPT ![p].cancelled = @ \/ At(p, "serve")]

Signal(p) ==
  /\ At(p, "serve") /\ ~daemon[p].cancelled
  /\ daemon' = Signalled(p)
  /\ UNCHANGED <<files, agent, request, asked>>

\* accept fails: run winds down as if it were cancelled.
AcceptError(p) ==
  /\ At(p, "serve")
  /\ Enter(p, "close_sock")
  /\ UNCHANGED <<files, agent, request, asked>>

\* A crash, a SIGKILL, or the launcher that waits no longer for `ready`.
Crash(p) == ~At(p, "gone") /\ Dies(p)

\* Somebody empties the temporary directory.
LoseSocket(v) ==
  /\ socket[v] # None
  /\ socket' = Remove(socket, v)
  /\ UNCHANGED <<daemon, lock, pidfile, agent, request, asked>>

-----------------------------------------------------------------------------
(* Agents: `daemon stop` (DaemonLifecycle::stop) and the clean-up task     *)
(* (restart::cleanup_old_versions).                                        *)

Goes(a, s) == agent' = [agent EXCEPT ![a] = s]

\* The pid that a command remembers: running_pid.
PidIfAlive(v) == IF is_alive(pidfile[v]) THEN pidfile[v] ELSE None

StopBegin(c, v) ==
  /\ agent[c].at = "idle" /\ request[c] = NoRequest
  /\ Goes(c, [at |-> "connect", ver |-> v, pid |-> PidIfAlive(v), todo |-> {}])
  /\ asked' = asked \cup {v}
  /\ UNCHANGED <<daemon, files, request>>

\* The task lists the pid files of other versions once.
CleanList(p) ==
  /\ agent[p].at = "list"
  /\ Goes(p, [at |-> "next", ver |-> AnyVersion, pid |-> None,
              todo |-> {v \in Version \ {daemon[p].ver} : pidfile[v] # None}])
  /\ UNCHANGED <<daemon, files, request, asked>>

\* A live pid is sent Stop; the files of a dead one are removed.
CleanNext(p) ==
  /\ agent[p].at = "next"
  /\ UNCHANGED <<daemon, files, request>>
  /\ \/ /\ agent[p].todo = {}
        /\ Goes(p, Idle)
        /\ UNCHANGED asked
     \/ \E v \in agent[p].todo :
          /\ Goes(p, [at |-> IF is_alive(pidfile[v]) THEN "connect" ELSE "rm_sock",
                      ver |-> v, pid |-> PidIfAlive(v), todo |-> agent[p].todo \ {v}])
          /\ asked' = asked \cup {v}

\* The socket file leads to whoever has bound it last, if that lives.
Connect(a) ==
  LET q == socket[agent[a].ver] IN
  /\ agent[a].at = "connect"
  /\ request[a] = NoRequest
  /\ \/ /\ is_alive(q)
        /\ request' = [request EXCEPT ![a] = [to |-> q, at |-> "queued"]]
        /\ Goes(a, [agent[a] EXCEPT !.at = "await"])
     \/ /\ ~is_alive(q)
        /\ Goes(a, Unanswered(a))
        /\ UNCHANGED request
  /\ UNCHANGED <<daemon, files, asked>>

\* 500 ms without an answer; the request stays where it is.
AnswerLate(a) ==
  /\ agent[a].at = "await"
  /\ Goes(a, Unanswered(a))
  /\ UNCHANGED <<daemon, files, request, asked>>

\* Without an answer the command goes by the pid.
Fallback(c) ==
  LET pid == IF agent[c].pid # None THEN agent[c].pid ELSE pidfile[agent[c].ver] IN
  /\ agent[c].at = "failed"
  /\ Goes(c, IF pid = None THEN Idle
             ELSE [agent[c] EXCEPT !.pid = pid,
                                   !.at = IF is_alive(pid) THEN "term" ELSE "rm_gone"])
  /\ UNCHANGED <<daemon, files, request, asked>>

\* SIGTERM; a process that is gone can not be signalled, and the command ends.
Terminate(c) ==
  LET pid == agent[c].pid IN
  /\ agent[c].at = "term"
  /\ daemon' = IF is_alive(pid) THEN Signalled(pid) ELSE daemon
  /\ Goes(c, IF is_alive(pid) THEN [agent[c] EXCEPT !.at = "wait_term"] ELSE Idle)
  /\ UNCHANGED <<files, request, asked>>

\* wait_until_gone: the process is gone, so the pid file is removed next.
FoundGone(a) ==
  /\ agent[a].at \in {"wait", "wait_term"} /\ ~is_alive(agent[a].pid)
  /\ Goes(a, [agent[a] EXCEPT !.at = "rm_gone"])
  /\ UNCHANGED <<daemon, files, request, asked>>

\* wait_until_gone gives up.
WaitTooLong(a) ==
  /\ agent[a].at \in {"wait", "wait_term"} /\ is_alive(agent[a].pid)
  /\ Goes(a, IF agent[a].at = "wait_term" THEN Idle
             ELSE [agent[a] EXCEPT !.at = IF a \in Client THEN "term" ELSE "rm_sock"])
  /\ UNCHANGED <<daemon, files, request, asked>>

\* Removed by its path, whatever it says by now.
RemoveGonePid(a) ==
  /\ agent[a].at = "rm_gone"
  /\ pidfile' = Remove(pidfile, agent[a].ver)
  /\ Goes(a, IF a \in Client THEN Idle ELSE [agent[a] EXCEPT !.at = "rm_sock"])
  /\ UNCHANGED <<daemon, lock, socket, request, asked>>

CleanSocket(p) ==
  /\ agent[p].at = "rm_sock"
  /\ socket' = Remove(socket, agent[p].ver)
  /\ Goes(p, [agent[p] EXCEPT !.at = "rm_pid"])
  /\ UNCHANGED <<daemon, lock, pidfile, request, asked>>

CleanPid(p) ==
  /\ agent[p].at = "rm_pid"
  /\ pidfile' = Remove(pidfile, agent[p].ver)
  /\ Goes(p, [agent[p] EXCEPT !.at = "next"])
  /\ UNCHANGED <<daemon, lock, socket, request, asked>>

-----------------------------------------------------------------------------
Starting(p) ==
  TakeLock(p) \/ Refused(p) \/ CheckPid(p) \/ RemoveStalePid(p)
    \/ RemoveStaleSocket(p) \/ Bind(p) \/ Publish(p)

Ending(p) == NoticeSocketGone(p) \/ WindDown(p) \/ CloseSocket(p) \/ ClosePid(p)

Stopping(a) ==
  HandleStop(a) \/ StopRemovesSocket(a) \/ StopRemovesPid(a) \/ StopExits(a)

Acting(a) == Connect(a) \/ FoundGone(a) \/ WaitTooLong(a) \/ RemoveGonePid(a)
CommandStep(c) == Acting(c) \/ Fallback(c) \/ Terminate(c)
CleanStep(p) == Acting(p) \/ CleanList(p) \/ CleanNext(p) \/ CleanSocket(p) \/ CleanPid(p)
DaemonStep(p) == Starting(p) \/ Ending(p) \/ CleanStep(p)

\* What disturbs a daemon from outside.
Fault(f) ==
  /\ f \in Faults
  /\ \/ f = "bind fails" /\ \E p \in Proc : BindFails(p)
     \/ f = "signal" /\ \E p \in Proc : Signal(p)
     \/ f = "accept fails" /\ \E p \in Proc : AcceptError(p)
     \/ f = "crash" /\ \E p \in Proc : Crash(p)
     \/ f = "socket lost" /\ \E v \in Version : LoseSocket(v)

Disturb ==
  \/ \E f \in Faults : Fault(f)
  \/ \E c \in Client, v \in Version : StopBegin(c, v)

Next ==
  \/ \E p \in Proc, v \in Version : Start(p, v)
  \/ \E p \in Proc : DaemonStep(p)
  \/ \E c \in Client : CommandStep(c)
  \/ \E a \in Agent : Stopping(a) \/ AnswerLate(a)
  \/ Disturb

Spec == Init /\ [][Next]_vars

\* A prompt whose connect fails spawns a daemon of its version.
PromptStarts(v) == ~is_alive(socket[v]) /\ \E p \in Proc : Start(p, v)

Fairness ==
  /\ \A p \in Proc : WF_vars(DaemonStep(p))
  /\ \A c \in Client : WF_vars(CommandStep(c))
  /\ \A a \in Agent : WF_vars(Stopping(a))
  /\ \A v \in Version : WF_vars(PromptStarts(v))

FairSpec == Spec /\ Fairness

-----------------------------------------------------------------------------
TypeOK ==
  /\ daemon \in [Proc -> Daemon]
  /\ lock \in Proc \cup {None}
  /\ pidfile \in [Version -> Proc \cup {None, Stale}]
  /\ socket \in [Version -> Proc \cup {None, Stale}]
  /\ agent \in [Agent -> AgentState]
  /\ request \in [Agent -> Request]
  /\ asked \in SUBSET Version

(***************************************************************************)
(* The pid file and the socket never name different processes: whoever     *)
(* `daemon status` and SIGTERM mean is the one that answers.  The lock and *)
(* the order of removals in bind see to it, however many files are removed *)
(* under a daemon.                                                         *)
(***************************************************************************)
PidMatchesSocket ==
  \A v \in Version :
    pidfile[v] # None /\ socket[v] # None => pidfile[v] = socket[v]

(***************************************************************************)
(* Concurrent starts, crashes, signals, a lost socket: as long as nobody   *)
(* has set out to stop a version's daemon, one process at most has bound   *)
(* its socket and not ended, and its pid file stays.                       *)
(***************************************************************************)
OneDaemon ==
  \A v \in Version \ asked : \A p, q \in Proc :
    /\ daemon[p].ver = v /\ daemon[q].ver = v
    /\ daemon[p].stage \in Running /\ daemon[q].stage \in Running
    => /\ p = q
       /\ ~At(p, "publish") => pidfile[v] = p

\* A daemon that has received a Stop request ends.
StopEndsDaemon ==
  \A p \in Proc : (\E a \in Agent : request[a].to = p) ~> At(p, "gone")

(***************************************************************************)
(* paths.rs: a daemon stops those of other versions.  One whose pid its    *)
(* clean-up task has found alive ends, unless the daemon that cleans up    *)
(* ends before: two that start at once stop each other.                    *)
(***************************************************************************)
OtherVersionEnds ==
  \A p, q \in Proc :
    agent[p].at = "connect" /\ agent[p].pid = q ~> At(q, "gone") \/ At(p, "gone")

Answers(v) == is_alive(socket[v]) /\ At(socket[v], "serve")

(***************************************************************************)
(* Once nothing disturbs them any more, the prompts of a version get a     *)
(* daemon that answers, whatever files and orphans are left over.          *)
(***************************************************************************)
PromptsAreServed ==
  <>[][~Disturb]_vars => \A v \in Version : <>[]Answers(v)

(***************************************************************************)
(* lifecycle.rs #8: while a daemon runs, `daemon start` fails with "already*)
(* running".  So a start that reads the pid file while a daemon answers    *)
(* that nobody has asked to stop goes no further.                          *)
(***************************************************************************)
StartRefused ==
  [][\A p, q \in Proc :
       /\ CheckPid(p)
       /\ socket[daemon[p].ver] = q /\ At(q, "serve") /\ ~daemon[q].cancelled
       => \E a \in Agent : request[a].to = q]_vars
=============================================================================
