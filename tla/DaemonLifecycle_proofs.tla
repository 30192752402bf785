------------------------ MODULE DaemonLifecycle_proofs ------------------------
(***************************************************************************)
(* The safety of DaemonLifecycle for any number of processes, commands and *)
(* versions and any set of faults.                                         *)
(*                                                                         *)
(* The steps are sorted by what they do to the files: those that at most   *)
(* remove files (Removal), the end of a process (Death), and the steps of  *)
(* bind.  Files of a version that nobody has set out to stop are removed   *)
(* only by their owner's end and by bind, which AskedInv establishes.      *)
(***************************************************************************)
EXTENDS DaemonLifecycle, TLAPS

\* A clean-up task that waits for an answer has found a pid alive.
AgentsKnowPid ==
  \A p \in Proc : agent[p].at \in {"connect", "await"} => agent[p].pid # None

\* bind works under the lock.
LockHeld ==
  \A p \in Proc : daemon[p].stage \in Holding => lock = p

\* What bind knows of the pid file stays true while it holds the lock.
PidCleared ==
  \A p \in Proc :
    /\ At(p, "rm_stale") => pidfile[daemon[p].ver] \notin Proc
    /\ daemon[p].stage \in {"rm_sock", "bind", "publish"} => pidfile[daemon[p].ver] = None

\* Nobody else binds between Bind and Publish.
SocketUnclaimed ==
  \A p \in Proc : At(p, "publish") => socket[daemon[p].ver] \in {None, p}

\* A live process that a file names is of that version and has come that far.
PidOwner ==
  \A v \in Version, p \in Proc :
    pidfile[v] = p => daemon[p].ver = v /\ daemon[p].stage \in Accepted

SocketOwner ==
  \A v \in Version, p \in Proc :
    socket[v] = p => daemon[p].ver = v /\ daemon[p].stage \in Running

FileInv ==
  LockHeld /\ PidCleared /\ SocketUnclaimed /\ PidOwner /\ SocketOwner /\ PidMatchesSocket

\* Agents that act on a version have been counted, and so has the daemon
\* that handles a Stop request.
AgentsAsked ==
  \A a \in Agent : agent[a].at \notin {"idle", "list", "next"} => agent[a].ver \in asked

RequestsAsked ==
  \A a \in Agent :
    request[a].at # "none" =>
      /\ request[a].to \in Proc
      /\ ~At(request[a].to, "gone")
      /\ daemon[request[a].to].ver \in asked

AskedInv == AgentsAsked /\ RequestsAsked

LInv == TypeOK /\ AgentsKnowPid /\ FileInv /\ AskedInv

-----------------------------------------------------------------------------
(* Types. *)

LEMMA Constants ==
  /\ AnyVersion \in Version
  /\ NoDaemon \in Daemon
  /\ Idle \in AgentState /\ Idle.at = "idle" /\ Idle.pid = None /\ Idle.todo = {}
  /\ NoRequest \in Request /\ NoRequest.at = "none" /\ NoRequest.to = None
<1>1. AnyVersion \in Version
  BY LifecycleAssumption DEF AnyVersion
<1> QED
  BY <1>1
  DEF NoDaemon, Idle, NoRequest, Daemon, Stage, Request, AgentState, AgentStage, Waiting

LEMMA TypeInit == Init => TypeOK /\ AgentsKnowPid
<1> SUFFICES ASSUME Init PROVE TypeOK /\ AgentsKnowPid
  OBVIOUS
<1>1. TypeOK
  BY Constants DEF Init, TypeOK
<1>2. \A p \in Proc : agent[p] = Idle
  BY DEF Init, Agent
<1>3. AgentsKnowPid
  BY <1>2, Constants DEF AgentsKnowPid
<1> QED
  BY <1>1, <1>3

\* What agents become.
LEMMA AgentMoves ==
  ASSUME NEW s \in AgentState, NEW x \in AgentStage, x \in Waiting => s.pid # None
  PROVE  /\ [s EXCEPT !.at = x] \in AgentState
         /\ [s EXCEPT !.at = x].at = x
         /\ [s EXCEPT !.at = x].pid = s.pid
         /\ [s EXCEPT !.at = x].ver = s.ver
  BY DEF AgentState

LEMMA AgentLearns ==
  ASSUME NEW s \in AgentState, NEW x \in AgentStage, NEW pid \in Proc \cup {None, Stale},
         x \in Waiting => pid # None
  PROVE  /\ [s EXCEPT !.pid = pid, !.at = x] \in AgentState
         /\ [s EXCEPT !.pid = pid, !.at = x].at = x
         /\ [s EXCEPT !.pid = pid, !.at = x].ver = s.ver
  BY DEF AgentState

LEMMA AgentNew ==
  ASSUME NEW x \in AgentStage, NEW v \in Version, NEW pid \in Proc \cup {None, Stale},
         NEW todo \in SUBSET Version, x \in Waiting => pid # None
  PROVE  [at |-> x, ver |-> v, pid |-> pid, todo |-> todo] \in AgentState
  BY DEF AgentState

LEMMA GoesTyped ==
  ASSUME TypeOK, NEW a \in Agent, NEW s \in AgentState, Goes(a, s),
         AgentsKnowPid, a \in Proc /\ s.at \in {"connect", "await"} => s.pid # None
  PROVE  agent' \in [Agent -> AgentState] /\ AgentsKnowPid'
<1>1. agent' = [agent EXCEPT ![a] = s] /\ agent \in [Agent -> AgentState]
  BY DEF Goes, TypeOK
<1>2. agent' \in [Agent -> AgentState]
  BY <1>1
<1>3. AgentsKnowPid'
  BY <1>1 DEF AgentsKnowPid, Agent
<1> QED
  BY <1>2, <1>3

\* A process that ends is Stale to everybody.
LEMMA ForgetTyped ==
  ASSUME NEW p \in Proc, NEW x \in Proc \cup {None, Stale}
  PROVE  /\ Forget(p, x) \in Proc \cup {None, Stale}
         /\ Forget(p, x) # p
         /\ Forget(p, x) = None <=> x = None
         /\ Forget(p, x) \in {x, Stale}
  BY LifecycleAssumption DEF Forget

LEMMA UnansweredTyped ==
  ASSUME NEW a \in Agent, agent[a] \in AgentState, a \notin Client => agent[a].pid # None
  PROVE  /\ Unanswered(a) \in AgentState
         /\ Unanswered(a).at = IF a \in Client THEN "failed" ELSE "wait"
         /\ Unanswered(a).ver = agent[a].ver
         /\ Unanswered(a).pid = agent[a].pid
<1> DEFINE x == IF a \in Client THEN "failed" ELSE "wait"
<1>1. x \in AgentStage /\ (x \in Waiting => agent[a].pid # None)
  BY DEF AgentStage, Waiting
<1>2. Unanswered(a) = [agent[a] EXCEPT !.at = x]
  BY DEF Unanswered
<1> HIDE DEF x
<1>3. /\ Unanswered(a) \in AgentState /\ Unanswered(a).at = x
      /\ Unanswered(a).ver = agent[a].ver /\ Unanswered(a).pid = agent[a].pid
  BY <1>1, <1>2, AgentMoves
<1> QED
  BY <1>3 DEF x

LEMMA AgentAfterTyped ==
  ASSUME TypeOK, AgentsKnowPid, NEW p \in Proc, NEW a \in Agent
  PROVE  /\ AgentAfter(a, p) \in AgentState
         /\ AgentAfter(a, p) = Idle
            \/ /\ AgentAfter(a, p).ver = agent[a].ver
               /\ \/ AgentAfter(a, p).at = agent[a].at
                  \/ agent[a].at = "await"
               /\ AgentAfter(a, p).pid = None <=> agent[a].pid = None
<1> DEFINE s == IF agent[a].at = "await" /\ request[a].to = p THEN Unanswered(a) ELSE agent[a]
<1>1. agent[a] \in AgentState
  BY DEF TypeOK
<1>2. /\ s \in AgentState /\ s.ver = agent[a].ver /\ s.pid = agent[a].pid
      /\ s.at = agent[a].at \/ agent[a].at = "await"
  <2>1. CASE agent[a].at = "await" /\ request[a].to = p
    <3>1. a \notin Client => agent[a].pid # None
      BY <2>1 DEF AgentsKnowPid, Agent
    <3> QED
      BY <1>1, <2>1, <3>1, UnansweredTyped
  <2>2. CASE ~(agent[a].at = "await" /\ request[a].to = p)
    BY <1>1, <2>2
  <2> QED
    BY <2>1, <2>2
<1>3. s.pid \in Proc \cup {None, Stale}
  BY <1>2 DEF AgentState
<1>4. /\ [s EXCEPT !.pid = Forget(p, s.pid)] \in AgentState
      /\ [s EXCEPT !.pid = Forget(p, s.pid)].ver = s.ver
      /\ [s EXCEPT !.pid = Forget(p, s.pid)].at = s.at
      /\ [s EXCEPT !.pid = Forget(p, s.pid)].pid = Forget(p, s.pid)
  BY <1>2, <1>3, ForgetTyped DEF AgentState
<1>5. AgentAfter(a, p) = IF a = p THEN Idle ELSE [s EXCEPT !.pid = Forget(p, s.pid)]
  BY DEF AgentAfter
<1> HIDE DEF s
<1>6. Forget(p, s.pid) = None <=> agent[a].pid = None
  BY <1>2, <1>3, ForgetTyped
<1>7. CASE a = p
  BY <1>5, <1>7, Constants
<1>8. CASE a # p
  BY <1>2, <1>4, <1>5, <1>6, <1>8
<1> QED
  BY <1>7, <1>8

LEMMA EndsTyped ==
  ASSUME TypeOK, AgentsKnowPid, NEW p \in Proc, Ends(p),
         pidfile' \in [Version -> Proc \cup {None, Stale}],
         socket' \in [Version -> Proc \cup {None, Stale}]
  PROVE  TypeOK' /\ AgentsKnowPid'
<1>1. daemon' \in [Proc -> Daemon] /\ lock' \in Proc \cup {None} /\ asked' \in SUBSET Version
  BY Constants DEF TypeOK, Ends
<1>2. request' \in [Agent -> Request]
  BY Constants DEF TypeOK, Ends
<1>3. agent' = [a \in Agent |-> AgentAfter(a, p)]
  BY DEF Ends
<1>4. agent' \in [Agent -> AgentState]
  BY <1>3, AgentAfterTyped
<1>5. AgentsKnowPid'
  <2> SUFFICES ASSUME NEW q \in Proc, agent'[q].at \in {"connect", "await"}
               PROVE  agent'[q].pid # None
    BY DEF AgentsKnowPid
  <2>1. q \in Agent /\ agent'[q] = AgentAfter(q, p)
    BY <1>3 DEF Agent
  <2>2. AgentAfter(q, p) # Idle
    BY <2>1, Constants
  <2>3. agent[q].at \in {"connect", "await"}
    BY <2>1, <2>2, AgentAfterTyped
  <2> QED
    BY <2>1, <2>2, <2>3, AgentAfterTyped DEF AgentsKnowPid
<1> QED
  BY <1>1, <1>2, <1>4, <1>5 DEF TypeOK

LEMMA DiesTyped ==
  ASSUME TypeOK, AgentsKnowPid, NEW p \in Proc, Dies(p)
  PROVE  TypeOK' /\ AgentsKnowPid'
<1>1. /\ pidfile' \in [Version -> Proc \cup {None, Stale}]
      /\ socket' \in [Version -> Proc \cup {None, Stale}]
  BY ForgetTyped DEF Dies, TypeOK
<1> QED
  BY <1>1, EndsTyped DEF Dies

LEMMA StartingTyped ==
  ASSUME TypeOK, AgentsKnowPid, NEW p \in Proc,
         \/ \E v \in Version : Start(p, v)
         \/ TakeLock(p) \/ CheckPid(p) \/ RemoveStalePid(p) \/ RemoveStaleSocket(p)
         \/ Bind(p) \/ Publish(p)
  PROVE  TypeOK' /\ AgentsKnowPid'
<1>1. ASSUME NEW v \in Version, Start(p, v) PROVE TypeOK' /\ AgentsKnowPid'
  BY <1>1 DEF Start, TypeOK, AgentsKnowPid, files, Daemon, Stage
<1>2. CASE TakeLock(p)
  BY <1>2 DEF TakeLock, Enter, TypeOK, AgentsKnowPid, files, Daemon, Stage, Holding
<1>3. CASE CheckPid(p)
  BY <1>3 DEF CheckPid, Enter, TypeOK, AgentsKnowPid, files, Daemon, Stage, Holding
<1>4. CASE RemoveStalePid(p)
  BY <1>4 DEF RemoveStalePid, Remove, Enter, TypeOK, AgentsKnowPid, Daemon, Stage, Holding
<1>5. CASE RemoveStaleSocket(p)
  BY <1>5 DEF RemoveStaleSocket, Remove, Enter, TypeOK, AgentsKnowPid, Daemon, Stage, Holding
<1>6. CASE Bind(p)
  BY <1>6 DEF Bind, Enter, TypeOK, AgentsKnowPid, Daemon, Stage, Holding
<1>7. CASE Publish(p)
  <2> DEFINE s == [Idle EXCEPT !.at = "list"]
  <2>1. s \in AgentState /\ s.at = "list"
    BY Constants, AgentMoves DEF AgentStage, Waiting
  <2>2. Goes(p, s)
    BY <1>7 DEF Publish, Goes
  <2>3. agent' \in [Agent -> AgentState] /\ AgentsKnowPid'
    <3> HIDE DEF s
    <3> QED
      BY <2>1, <2>2, GoesTyped DEF Agent
  <2> QED
    BY <1>7, <2>3 DEF Publish, Enter, TypeOK, Daemon, Stage, Running, Accepted
<1> QED
  BY <1>1, <1>2, <1>3, <1>4, <1>5, <1>6, <1>7

LEMMA EndingTyped ==
  ASSUME TypeOK, AgentsKnowPid, NEW p \in Proc,
         \/ NoticeSocketGone(p) \/ WindDown(p) \/ CloseSocket(p) \/ ClosePid(p)
         \/ Refused(p) \/ BindFails(p) \/ Signal(p) \/ AcceptError(p) \/ Crash(p)
  PROVE  TypeOK' /\ AgentsKnowPid'
<1>1. CASE NoticeSocketGone(p)
  BY <1>1 DEF NoticeSocketGone, TypeOK, AgentsKnowPid, files, Daemon
<1>2. CASE WindDown(p)
  BY <1>2 DEF WindDown, Enter, TypeOK, AgentsKnowPid, files, Daemon, Stage, Running, Accepted
<1>3. CASE CloseSocket(p)
  BY <1>3 DEF CloseSocket, Remove, Enter, TypeOK, AgentsKnowPid, Daemon, Stage, Running, Accepted
<1>4. CASE ClosePid(p)
  <2>1. Remove(pidfile, daemon[p].ver) \in [Version -> Proc \cup {None, Stale}]
    BY DEF Remove, TypeOK
  <2>2. /\ pidfile' \in [Version -> Proc \cup {None, Stale}]
        /\ socket' \in [Version -> Proc \cup {None, Stale}]
    BY <1>4, <2>1, ForgetTyped DEF ClosePid, TypeOK
  <2> QED
    BY <1>4, <2>2, EndsTyped DEF ClosePid
<1>5. CASE Refused(p)
  BY <1>5, DiesTyped DEF Refused
<1>6. CASE BindFails(p)
  <2>1. CASE Dies(p)
    BY <2>1, DiesTyped
  <2>2. CASE Ends(p) /\ socket' = Remove(socket, daemon[p].ver) /\ UNCHANGED pidfile
    <3>1. /\ pidfile' \in [Version -> Proc \cup {None, Stale}]
          /\ socket' \in [Version -> Proc \cup {None, Stale}]
      BY <2>2 DEF Remove, TypeOK
    <3> QED
      BY <2>2, <3>1, EndsTyped
  <2> QED
    BY <1>6, <2>1, <2>2 DEF BindFails
<1>7. CASE Signal(p)
  BY <1>7 DEF Signal, Signalled, At, TypeOK, AgentsKnowPid, files, Daemon
<1>8. CASE AcceptError(p)
  BY <1>8 DEF AcceptError, Enter, TypeOK, AgentsKnowPid, files, Daemon, Stage, Running, Accepted
<1>9. CASE Crash(p)
  BY <1>9, DiesTyped DEF Crash
<1> QED
  BY <1>1, <1>2, <1>3, <1>4, <1>5, <1>6, <1>7, <1>8, <1>9

LEMMA RequestPending ==
  ASSUME NEW r \in Request, r.at # "none"
  PROVE  /\ r.to \in Proc
         /\ \A x \in {"rm_sock", "rm_pid", "sleep"} :
              [r EXCEPT !.at = x] \in Request /\ [r EXCEPT !.at = x].to = r.to
  BY Constants DEF Request

LEMMA StoppingTyped ==
  ASSUME TypeOK, AgentsKnowPid, NEW a \in Agent, Stopping(a)
  PROVE  TypeOK' /\ AgentsKnowPid'
<1>0. agent[a] \in AgentState /\ request[a] \in Request
  BY DEF TypeOK
<1>1. CASE HandleStop(a)
  <2>0. request' \in [Agent -> Request]
    <3>1. request[a].at # "none" /\ request' = [request EXCEPT ![a] = [request[a] EXCEPT !.at = "rm_sock"]]
      BY <1>1 DEF HandleStop
    <3> QED
      BY <1>0, <3>1, RequestPending DEF TypeOK
  <2>1. CASE agent[a].at # "await"
    BY <1>1, <2>0, <2>1 DEF HandleStop, TypeOK, AgentsKnowPid, files
  <2>2. CASE agent[a].at = "await"
    <3> DEFINE s == IF a \in Client /\ agent[a].pid = None
                    THEN Idle ELSE [agent[a] EXCEPT !.at = "wait"]
    <3>1. ASSUME ~(a \in Client /\ agent[a].pid = None)
          PROVE  agent[a].pid # None
      BY <2>2, <3>1 DEF AgentsKnowPid, Agent
    <3>2. s \in AgentState /\ s.at \in {"idle", "wait"}
      BY <1>0, <3>1, Constants, AgentMoves DEF AgentStage, Waiting
    <3>3. Goes(a, s)
      BY <1>1, <2>2 DEF HandleStop, Goes
    <3> HIDE DEF s
    <3>4. agent' \in [Agent -> AgentState] /\ AgentsKnowPid'
      BY <3>2, <3>3, GoesTyped
    <3> QED
      BY <1>1, <2>0, <3>4 DEF HandleStop, TypeOK, files
  <2> QED
    BY <2>1, <2>2
<1>2. CASE StopRemovesSocket(a)
  <2>1. request[a].at # "none" /\ request' = [request EXCEPT ![a] = [request[a] EXCEPT !.at = "rm_pid"]]
    BY <1>2 DEF StopRemovesSocket
  <2>2. request' \in [Agent -> Request]
    BY <1>0, <2>1, RequestPending DEF TypeOK
  <2> QED
    BY <1>2, <2>2 DEF StopRemovesSocket, Remove, TypeOK, AgentsKnowPid
<1>3. CASE StopRemovesPid(a)
  <2>1. request[a].at # "none" /\ request' = [request EXCEPT ![a] = [request[a] EXCEPT !.at = "sleep"]]
    BY <1>3 DEF StopRemovesPid
  <2>2. request' \in [Agent -> Request]
    BY <1>0, <2>1, RequestPending DEF TypeOK
  <2> QED
    BY <1>3, <2>2 DEF StopRemovesPid, Remove, TypeOK, AgentsKnowPid
<1>4. CASE StopExits(a)
  <2>1. request[a].to \in Proc
    BY <1>0, <1>4, RequestPending DEF StopExits
  <2>2. CASE At(request[a].to, "serve") /\ Dies(request[a].to)
    BY <2>1, <2>2, DiesTyped
  <2>3. CASE request' = [request EXCEPT ![a] = NoRequest] /\ UNCHANGED <<daemon, files, agent, asked>>
    BY <2>3, Constants DEF TypeOK, AgentsKnowPid, files
  <2> QED
    BY <1>4, <2>2, <2>3 DEF StopExits
<1> QED
  BY <1>1, <1>2, <1>3, <1>4 DEF Stopping

LEMMA AgentTyped ==
  ASSUME TypeOK, AgentsKnowPid, NEW a \in Agent,
         \/ Acting(a) \/ AnswerLate(a)
         \/ a \in Client /\ (Fallback(a) \/ Terminate(a) \/ \E v \in Version : StopBegin(a, v))
         \/ a \in Proc /\ CleanStep(a)
  PROVE  TypeOK' /\ AgentsKnowPid'
<1>0. /\ agent[a] \in AgentState /\ agent[a].ver \in Version
      /\ agent[a].at \in Waiting => agent[a].pid # None
      /\ agent[a].pid \in Proc \cup {None, Stale}
      /\ a \in Client => a \notin Proc
      /\ agent[a].todo \in SUBSET Version
  BY LifecycleAssumption DEF TypeOK, AgentState
<1>1. CASE Connect(a)
  <2>1. a \notin Client => agent[a].pid # None
    BY <1>1 DEF Connect, AgentsKnowPid, Agent
  <2>2. CASE is_alive(socket[agent[a].ver])
    <3> DEFINE s == [agent[a] EXCEPT !.at = "await"]
    <3>1. s \in AgentState /\ s.pid = agent[a].pid
      BY <1>0, AgentMoves DEF AgentStage, Waiting
    <3>2. Goes(a, s) /\ (a \in Proc => agent[a].pid # None)
      BY <1>0, <1>1, <2>1, <2>2 DEF Connect, Agent
    <3> HIDE DEF s
    <3>3. agent' \in [Agent -> AgentState] /\ AgentsKnowPid'
      BY <3>1, <3>2, GoesTyped
    <3>4. request' \in [Agent -> Request]
      BY <1>1, <2>2 DEF Connect, TypeOK, Request, is_alive
    <3> QED
      BY <1>1, <3>3, <3>4 DEF Connect, TypeOK, files
  <2>3. CASE ~is_alive(socket[agent[a].ver])
    <3>1. Goes(a, Unanswered(a)) /\ UNCHANGED request
      BY <1>1, <2>3 DEF Connect
    <3>2. agent' \in [Agent -> AgentState] /\ AgentsKnowPid'
      BY <1>0, <2>1, <3>1, UnansweredTyped, GoesTyped
    <3> QED
      BY <1>1, <3>1, <3>2 DEF Connect, TypeOK, files
  <2> QED
    BY <2>2, <2>3
<1>2. CASE FoundGone(a)
  <2> DEFINE s == [agent[a] EXCEPT !.at = "rm_gone"]
  <2>1. s \in AgentState /\ s.at = "rm_gone" /\ Goes(a, s)
    BY <1>0, <1>2, AgentMoves DEF FoundGone, AgentStage, Waiting
  <2> HIDE DEF s
  <2>2. agent' \in [Agent -> AgentState] /\ AgentsKnowPid'
    BY <2>1, GoesTyped
  <2> QED
    BY <1>2, <2>2 DEF FoundGone, TypeOK, files
<1>3. CASE WaitTooLong(a)
  <2> DEFINE x == IF a \in Client THEN "term" ELSE "rm_sock"
             s == IF agent[a].at = "wait_term" THEN Idle ELSE [agent[a] EXCEPT !.at = x]
  <2>1. x \in {"term", "rm_sock"} /\ Goes(a, s) /\ agent[a].pid # None
    BY <1>0, <1>3 DEF WaitTooLong, Waiting
  <2> HIDE DEF x
  <2>2. s \in AgentState /\ s.at \in {"idle", "term", "rm_sock"}
    BY <1>0, <2>1, Constants, AgentMoves DEF AgentStage, Waiting
  <2> HIDE DEF s
  <2>3. agent' \in [Agent -> AgentState] /\ AgentsKnowPid'
    BY <2>1, <2>2, GoesTyped
  <2> QED
    BY <1>3, <2>3 DEF WaitTooLong, TypeOK, files
<1>4. CASE RemoveGonePid(a)
  <2> DEFINE s == IF a \in Client THEN Idle ELSE [agent[a] EXCEPT !.at = "rm_sock"]
  <2>1. s \in AgentState /\ s.at \in {"idle", "rm_sock"} /\ Goes(a, s)
    BY <1>0, <1>4, Constants, AgentMoves DEF RemoveGonePid, AgentStage, Waiting
  <2> HIDE DEF s
  <2>2. agent' \in [Agent -> AgentState] /\ AgentsKnowPid'
    BY <2>1, GoesTyped
  <2> QED
    BY <1>4, <2>2 DEF RemoveGonePid, Remove, TypeOK
<1>5. CASE AnswerLate(a)
  <2>1. a \notin Client => agent[a].pid # None
    BY <1>5 DEF AnswerLate, AgentsKnowPid, Agent
  <2>2. Goes(a, Unanswered(a))
    BY <1>5 DEF AnswerLate
  <2>3. agent' \in [Agent -> AgentState] /\ AgentsKnowPid'
    BY <1>0, <2>1, <2>2, UnansweredTyped, GoesTyped
  <2> QED
    BY <1>5, <2>3 DEF AnswerLate, TypeOK, files
<1>6. CASE a \in Client /\ Fallback(a)
  <2> DEFINE pid == IF agent[a].pid # None THEN agent[a].pid ELSE pidfile[agent[a].ver]
             x == IF is_alive(pid) THEN "term" ELSE "rm_gone"
             s == IF pid = None THEN Idle ELSE [agent[a] EXCEPT !.pid = pid, !.at = x]
  <2>1. pid \in Proc \cup {None, Stale} /\ x \in AgentStage /\ Goes(a, s)
    BY <1>0, <1>6 DEF Fallback, TypeOK, AgentStage, Waiting
  <2> HIDE DEF pid, x
  <2>2. s \in AgentState
    BY <1>0, <2>1, Constants, AgentLearns
  <2> HIDE DEF s
  <2>3. agent' \in [Agent -> AgentState] /\ AgentsKnowPid'
    BY <1>0, <1>6, <2>1, <2>2, GoesTyped
  <2> QED
    BY <1>6, <2>3 DEF Fallback, TypeOK, files
<1>7. CASE a \in Client /\ Terminate(a)
  <2> DEFINE s == IF is_alive(agent[a].pid) THEN [agent[a] EXCEPT !.at = "wait_term"] ELSE Idle
  <2>1. s \in AgentState /\ Goes(a, s)
    BY <1>0, <1>7, Constants, AgentMoves DEF Terminate, AgentStage, Waiting
  <2> HIDE DEF s
  <2>2. agent' \in [Agent -> AgentState] /\ AgentsKnowPid'
    BY <1>0, <1>7, <2>1, GoesTyped
  <2>3. daemon' \in [Proc -> Daemon]
    BY <1>7 DEF Terminate, Signalled, At, is_alive, TypeOK, Daemon
  <2> QED
    BY <1>7, <2>2, <2>3 DEF Terminate, TypeOK, files
<1>8. ASSUME NEW v \in Version, a \in Client, StopBegin(a, v)
      PROVE  TypeOK' /\ AgentsKnowPid'
  <2> DEFINE s == [at |-> "connect", ver |-> v, pid |-> PidIfAlive(v), todo |-> {}]
  <2>1. PidIfAlive(v) \in Proc \cup {None, Stale}
    BY DEF PidIfAlive, is_alive
  <2>2. "connect" \in AgentStage /\ "connect" \notin Waiting /\ {} \in SUBSET Version
    BY DEF AgentStage, Waiting
  <2>3. s \in AgentState /\ Goes(a, s)
    BY <1>8, <2>1, <2>2, AgentNew DEF StopBegin
  <2> HIDE DEF s
  <2>4. agent' \in [Agent -> AgentState] /\ AgentsKnowPid'
    BY <1>0, <1>8, <2>3, GoesTyped
  <2> QED
    BY <1>8, <2>4 DEF StopBegin, TypeOK, files
<1>9. CASE a \in Proc /\ CleanList(a)
  <2> DEFINE todo == {v \in Version \ {daemon[a].ver} : pidfile[v] # None}
             s == [at |-> "next", ver |-> AnyVersion, pid |-> None, todo |-> todo]
  <2>1. todo \in SUBSET Version /\ "next" \in AgentStage /\ "next" \notin Waiting
    BY DEF AgentStage, Waiting
  <2> HIDE DEF todo
  <2>2. s \in AgentState /\ s.at = "next"
    BY <2>1, Constants, AgentNew
  <2>3. Goes(a, s)
    BY <1>9 DEF CleanList, todo
  <2> HIDE DEF s
  <2>4. agent' \in [Agent -> AgentState] /\ AgentsKnowPid'
    BY <2>2, <2>3, GoesTyped
  <2> QED
    BY <1>9, <2>4 DEF CleanList, TypeOK, files
<1>10. CASE a \in Proc /\ CleanNext(a)
  <2>1. CASE Goes(a, Idle) /\ UNCHANGED asked
    <3>1. agent' \in [Agent -> AgentState] /\ AgentsKnowPid'
      BY <2>1, Constants, GoesTyped
    <3> QED
      BY <1>10, <2>1, <3>1 DEF CleanNext, TypeOK, files
  <2>2. ASSUME NEW v \in Version,
               Goes(a, [at |-> IF is_alive(pidfile[v]) THEN "connect" ELSE "rm_sock",
                        ver |-> v, pid |-> PidIfAlive(v), todo |-> agent[a].todo \ {v}]),
               asked' = asked \cup {v}
        PROVE  TypeOK' /\ AgentsKnowPid'
    <3> DEFINE x == IF is_alive(pidfile[v]) THEN "connect" ELSE "rm_sock"
               s == [at |-> x, ver |-> v, pid |-> PidIfAlive(v), todo |-> agent[a].todo \ {v}]
    <3>1. /\ PidIfAlive(v) \in Proc \cup {None, Stale}
          /\ is_alive(pidfile[v]) => PidIfAlive(v) # None
      BY LifecycleAssumption DEF PidIfAlive, is_alive
    <3>2. x \in AgentStage /\ x \notin Waiting
      BY DEF AgentStage, Waiting
    <3>3. s.at = "connect" => s.pid # None
      BY <3>1
    <3>4. s.at # "await"
      OBVIOUS
    <3> HIDE DEF x
    <3>5. s \in AgentState
      BY <1>0, <3>1, <3>2, AgentNew
    <3>6. Goes(a, s)
      BY <2>2 DEF x
    <3> HIDE DEF s
    <3>7. agent' \in [Agent -> AgentState] /\ AgentsKnowPid'
      BY <3>3, <3>4, <3>5, <3>6, GoesTyped
    <3> QED
      BY <1>10, <2>2, <3>7 DEF CleanNext, TypeOK, files
  <2> QED
    BY <1>0, <1>10, <2>1, <2>2 DEF CleanNext
<1>11. CASE a \in Proc /\ CleanSocket(a)
  <2> DEFINE s == [agent[a] EXCEPT !.at = "rm_pid"]
  <2>1. s \in AgentState /\ s.at = "rm_pid" /\ Goes(a, s)
    BY <1>0, <1>11, AgentMoves DEF CleanSocket, AgentStage, Waiting
  <2> HIDE DEF s
  <2>2. agent' \in [Agent -> AgentState] /\ AgentsKnowPid'
    BY <2>1, GoesTyped
  <2> QED
    BY <1>11, <2>2 DEF CleanSocket, Remove, TypeOK
<1>12. CASE a \in Proc /\ CleanPid(a)
  <2> DEFINE s == [agent[a] EXCEPT !.at = "next"]
  <2>1. s \in AgentState /\ s.at = "next" /\ Goes(a, s)
    BY <1>0, <1>12, AgentMoves DEF CleanPid, AgentStage, Waiting
  <2> HIDE DEF s
  <2>2. agent' \in [Agent -> AgentState] /\ AgentsKnowPid'
    BY <2>1, GoesTyped
  <2> QED
    BY <1>12, <2>2 DEF CleanPid, Remove, TypeOK
<1> QED
  BY <1>1, <1>2, <1>3, <1>4, <1>5, <1>6, <1>7, <1>8, <1>9, <1>10, <1>11, <1>12
  DEF Acting, CleanStep

LEMMA TypeStep == TypeOK /\ AgentsKnowPid /\ [Next]_vars => TypeOK' /\ AgentsKnowPid'
<1> SUFFICES ASSUME TypeOK, AgentsKnowPid, [Next]_vars
             PROVE  TypeOK' /\ AgentsKnowPid'
  OBVIOUS
<1>0. Client \subseteq Agent /\ Proc \subseteq Agent
  BY DEF Agent
<1>1. ASSUME NEW p \in Proc, NEW v \in Version, Start(p, v) PROVE TypeOK' /\ AgentsKnowPid'
  BY <1>1, StartingTyped
<1>2. ASSUME NEW p \in Proc, DaemonStep(p) PROVE TypeOK' /\ AgentsKnowPid'
  <2>1. CASE Starting(p)
    BY <2>1, StartingTyped, EndingTyped DEF Starting
  <2>2. CASE Ending(p)
    BY <2>2, EndingTyped DEF Ending
  <2>3. CASE CleanStep(p)
    BY <1>0, <2>3, AgentTyped
  <2> QED
    BY <1>2, <2>1, <2>2, <2>3 DEF DaemonStep
<1>3. ASSUME NEW c \in Client, CommandStep(c) PROVE TypeOK' /\ AgentsKnowPid'
  BY <1>0, <1>3, AgentTyped DEF CommandStep
<1>4. ASSUME NEW a \in Agent, Stopping(a) \/ AnswerLate(a) PROVE TypeOK' /\ AgentsKnowPid'
  BY <1>4, StoppingTyped, AgentTyped
<1>5. ASSUME NEW c \in Client, NEW v \in Version, StopBegin(c, v) PROVE TypeOK' /\ AgentsKnowPid'
  BY <1>0, <1>5, AgentTyped
<1>6. ASSUME NEW f \in Faults, Fault(f) PROVE TypeOK' /\ AgentsKnowPid'
  <2>1. CASE \E p \in Proc : BindFails(p) \/ Signal(p) \/ AcceptError(p) \/ Crash(p)
    BY <2>1, EndingTyped
  <2>2. ASSUME NEW v \in Version, LoseSocket(v) PROVE TypeOK' /\ AgentsKnowPid'
    BY <2>2 DEF LoseSocket, Remove, TypeOK, AgentsKnowPid
  <2> QED
    BY <1>6, <2>1, <2>2 DEF Fault
<1>7. CASE UNCHANGED vars
  BY <1>7 DEF vars, TypeOK, AgentsKnowPid
<1> QED
  BY <1>1, <1>2, <1>3, <1>4, <1>5, <1>6, <1>7 DEF Next, Disturb

-----------------------------------------------------------------------------
(* Who has been asked. *)

\* Daemons keep their version and do not end.
KeepsDaemons ==
  \A p \in Proc : ~At(p, "gone") => daemon'[p].ver = daemon[p].ver /\ ~At(p, "gone")'

LEMMA RequestsKept ==
  ASSUME RequestsAsked, KeepsDaemons, asked \subseteq asked',
         \A a \in Agent : request'[a].at # "none" =>
                            request[a].at # "none" /\ request'[a].to = request[a].to
  PROVE  RequestsAsked'
  BY DEF RequestsAsked, KeepsDaemons, At

LEMMA AgentGoes ==
  ASSUME TypeOK, AgentsAsked, asked \subseteq asked', NEW a \in Agent, NEW s, Goes(a, s),
         s.at \in {"idle", "list", "next"} \/ s.ver \in asked'
  PROVE  AgentsAsked'
  BY DEF TypeOK, AgentsAsked, Goes

LEMMA EndsAsked ==
  ASSUME LInv, NEW p \in Proc, Ends(p)
  PROVE  AskedInv'
<1>1. AgentsAsked'
  <2> SUFFICES ASSUME NEW a \in Agent, agent'[a].at \notin {"idle", "list", "next"}
               PROVE  agent'[a].ver \in asked'
    BY DEF AgentsAsked
  <2>1. agent'[a] = AgentAfter(a, p) /\ asked' = asked
    BY DEF Ends
  <2>2. AgentAfter(a, p) # Idle
    BY <2>1, Constants
  <2>3. /\ AgentAfter(a, p).ver = agent[a].ver
        /\ AgentAfter(a, p).at = agent[a].at \/ agent[a].at = "await"
    BY <2>2, AgentAfterTyped DEF LInv
  <2> QED
    BY <2>1, <2>3 DEF LInv, AskedInv, AgentsAsked
<1>2. RequestsAsked'
  BY Constants DEF LInv, TypeOK, AskedInv, RequestsAsked, Ends, At
<1> QED
  BY <1>1, <1>2 DEF AskedInv

LEMMA DaemonAsked ==
  ASSUME LInv, UNCHANGED <<agent, request, asked>>, KeepsDaemons
  PROVE  AskedInv'
<1>1. AgentsAsked'
  BY DEF LInv, AskedInv, AgentsAsked
<1>2. RequestsAsked'
  BY RequestsKept DEF LInv, AskedInv
<1> QED
  BY <1>1, <1>2 DEF AskedInv

LEMMA StartingAsked ==
  ASSUME LInv, NEW p \in Proc,
         \/ \E v \in Version : Start(p, v)
         \/ TakeLock(p) \/ CheckPid(p) \/ RemoveStalePid(p) \/ RemoveStaleSocket(p)
         \/ Bind(p) \/ Publish(p)
  PROVE  AskedInv'
<1>0. KeepsDaemons /\ UNCHANGED <<request, asked>>
  BY DEF Start, TakeLock, CheckPid, RemoveStalePid, RemoveStaleSocket, Bind, Publish, Enter,
         At, files, KeepsDaemons, LInv, TypeOK, Daemon
<1>1. CASE UNCHANGED agent
  BY <1>0, <1>1, DaemonAsked
<1>2. CASE Publish(p)
  <2> DEFINE s == [Idle EXCEPT !.at = "list"]
  <2>1. s.at = "list"
    BY Constants, AgentMoves DEF AgentStage, Waiting
  <2>2. Goes(p, s)
    BY <1>2 DEF Publish, Goes
  <2> HIDE DEF s
  <2>3. AgentsAsked'
    BY <1>0, <2>1, <2>2, AgentGoes DEF LInv, AskedInv, Agent
  <2>4. RequestsAsked'
    BY <1>0, RequestsKept DEF LInv, AskedInv
  <2> QED
    BY <2>3, <2>4 DEF AskedInv
<1> QED
  BY <1>1, <1>2 DEF Start, TakeLock, CheckPid, RemoveStalePid, RemoveStaleSocket, Bind

LEMMA RunningAsked ==
  ASSUME LInv, NEW p \in Proc,
         NoticeSocketGone(p) \/ WindDown(p) \/ CloseSocket(p) \/ Signal(p) \/ AcceptError(p)
  PROVE  AskedInv'
<1>0. daemon \in [Proc -> Daemon] /\ ~At(p, "gone")
  BY DEF LInv, TypeOK, NoticeSocketGone, WindDown, CloseSocket, Signal, AcceptError, At
<1>1. KeepsDaemons /\ UNCHANGED <<agent, request, asked>>
  <2>1. CASE NoticeSocketGone(p)
    BY <1>0, <2>1 DEF NoticeSocketGone, KeepsDaemons, At, Daemon
  <2>2. CASE WindDown(p) \/ CloseSocket(p) \/ AcceptError(p)
    BY <1>0, <2>2 DEF WindDown, CloseSocket, AcceptError, Enter, KeepsDaemons, At, Daemon
  <2>3. CASE Signal(p)
    BY <1>0, <2>3 DEF Signal, Signalled, KeepsDaemons, At, Daemon
  <2> QED
    BY <2>1, <2>2, <2>3
<1> QED
  BY <1>1, DaemonAsked

LEMMA StoppingAsked ==
  ASSUME LInv, NEW a \in Agent, Stopping(a)
  PROVE  AskedInv'
<1>0. TypeOK /\ agent[a] \in AgentState /\ request[a] \in Request
  BY DEF LInv, TypeOK
<1>1. CASE StopExits(a)
  <2>1. request[a].to \in Proc
    BY <1>0, <1>1, RequestPending DEF StopExits
  <2>2. CASE Dies(request[a].to)
    BY <2>1, <2>2, EndsAsked DEF Dies
  <2>3. CASE request' = [request EXCEPT ![a] = NoRequest] /\ UNCHANGED <<daemon, files, agent, asked>>
    <3>1. KeepsDaemons /\ asked \subseteq asked'
      BY <2>3 DEF KeepsDaemons, At
    <3>2. AgentsAsked'
      BY <2>3 DEF LInv, AskedInv, AgentsAsked
    <3>3. RequestsAsked'
      BY <1>0, <2>3, <3>1, RequestsKept, Constants DEF LInv, TypeOK, AskedInv
    <3> QED
      BY <3>2, <3>3 DEF AskedInv
  <2> QED
    BY <1>1, <2>2, <2>3 DEF StopExits
<1>2. CASE HandleStop(a) \/ StopRemovesSocket(a) \/ StopRemovesPid(a)
  <2>1. /\ request[a].at # "none" /\ UNCHANGED <<daemon, asked>>
        /\ \E x \in {"rm_sock", "rm_pid", "sleep"} :
             request' = [request EXCEPT ![a] = [request[a] EXCEPT !.at = x]]
    BY <1>2 DEF HandleStop, StopRemovesSocket, StopRemovesPid
  <2>2. \A b \in Agent : request'[b].at # "none" =>
                           request[b].at # "none" /\ request'[b].to = request[b].to
    BY <1>0, <2>1, RequestPending DEF TypeOK
  <2>3. KeepsDaemons /\ asked \subseteq asked'
    BY <2>1 DEF KeepsDaemons, At
  <2>4. RequestsAsked'
    BY <2>2, <2>3, RequestsKept DEF LInv, AskedInv
  <2>5. AgentsAsked'
    <3>1. CASE UNCHANGED agent
      BY <2>1, <3>1 DEF LInv, AskedInv, AgentsAsked
    <3>2. CASE HandleStop(a) /\ agent[a].at = "await"
      <4> DEFINE s == IF a \in Client /\ agent[a].pid = None
                      THEN Idle ELSE [agent[a] EXCEPT !.at = "wait"]
      <4>1. agent[a].ver \in asked
        BY <3>2 DEF LInv, AskedInv, AgentsAsked
      <4>2. a \in Client \/ agent[a].pid # None
        BY <3>2 DEF LInv, AgentsKnowPid, Agent
      <4>3. s.at = "idle" \/ s.ver = agent[a].ver
        BY <1>0, <4>2, Constants, AgentMoves DEF AgentStage
      <4>4. Goes(a, s)
        BY <3>2 DEF HandleStop, Goes
      <4> HIDE DEF s
      <4> QED
        BY <2>1, <4>1, <4>3, <4>4, AgentGoes DEF LInv, AskedInv
    <3> QED
      BY <1>2, <3>1, <3>2 DEF HandleStop, StopRemovesSocket, StopRemovesPid
  <2> QED
    BY <2>4, <2>5 DEF AskedInv
<1> QED
  BY <1>1, <1>2 DEF Stopping

LEMMA AgentAsked ==
  ASSUME LInv, NEW a \in Agent,
         \/ Acting(a) \/ AnswerLate(a)
         \/ a \in Client /\ (Fallback(a) \/ Terminate(a) \/ \E v \in Version : StopBegin(a, v))
         \/ a \in Proc /\ CleanStep(a)
  PROVE  AskedInv'
<1>0. /\ TypeOK /\ AgentsAsked /\ RequestsAsked /\ agent[a] \in AgentState
      /\ agent[a].at \notin {"idle", "list", "next"} => agent[a].ver \in asked
  BY DEF LInv, TypeOK, AskedInv, AgentsAsked
<1>1. CASE CleanNext(a)
  <2>1. KeepsDaemons /\ asked \subseteq asked' /\ UNCHANGED request
    BY <1>1 DEF CleanNext, KeepsDaemons, At
  <2>2. PICK s : Goes(a, s) /\ (s.at = "idle" \/ s.ver \in asked')
    <3>1. CASE Goes(a, Idle)
      BY <3>1, Constants
    <3>2. ASSUME NEW v \in Version, asked' = asked \cup {v},
                 Goes(a, [at |-> IF is_alive(pidfile[v]) THEN "connect" ELSE "rm_sock",
                          ver |-> v, pid |-> PidIfAlive(v), todo |-> agent[a].todo \ {v}])
          PROVE  \E s : Goes(a, s) /\ s.ver \in asked'
      <4> DEFINE s == [at |-> IF is_alive(pidfile[v]) THEN "connect" ELSE "rm_sock",
                       ver |-> v, pid |-> PidIfAlive(v), todo |-> agent[a].todo \ {v}]
      <4>1. Goes(a, s) /\ s.ver = v
        BY <3>2
      <4> HIDE DEF s
      <4> QED
        BY <3>2, <4>1
    <3>3. \A v \in agent[a].todo : v \in Version
      BY <1>0 DEF AgentState
    <3> QED
      BY <1>1, <3>1, <3>2, <3>3 DEF CleanNext
  <2>3. AgentsAsked'
    BY <1>0, <2>1, <2>2, AgentGoes
  <2>4. RequestsAsked'
    BY <1>0, <2>1, RequestsKept
  <2> QED
    BY <2>3, <2>4 DEF AskedInv
<1>2. ASSUME NEW v \in Version, StopBegin(a, v) PROVE AskedInv'
  <2> DEFINE s == [at |-> "connect", ver |-> v, pid |-> PidIfAlive(v), todo |-> {}]
  <2>1. KeepsDaemons /\ asked \subseteq asked' /\ UNCHANGED request /\ v \in asked'
    BY <1>2 DEF StopBegin, KeepsDaemons, At
  <2>2. Goes(a, s) /\ s.ver = v
    BY <1>2 DEF StopBegin
  <2> HIDE DEF s
  <2>3. AgentsAsked'
    BY <1>0, <2>1, <2>2, AgentGoes
  <2>4. RequestsAsked'
    BY <1>0, <2>1, RequestsKept
  <2> QED
    BY <2>3, <2>4 DEF AskedInv
<1>3. CASE CleanList(a)
  <2> DEFINE s == [at |-> "next", ver |-> AnyVersion, pid |-> None,
                   todo |-> {v \in Version \ {daemon[a].ver} : pidfile[v] # None}]
  <2>1. KeepsDaemons /\ asked \subseteq asked' /\ UNCHANGED request
    BY <1>3 DEF CleanList, KeepsDaemons, At
  <2>2. Goes(a, s) /\ s.at = "next"
    BY <1>3 DEF CleanList
  <2> HIDE DEF s
  <2>3. AgentsAsked'
    BY <1>0, <2>1, <2>2, AgentGoes
  <2>4. RequestsAsked'
    BY <1>0, <2>1, RequestsKept
  <2> QED
    BY <2>3, <2>4 DEF AskedInv
<1>4. CASE \/ Connect(a) \/ FoundGone(a) \/ WaitTooLong(a) \/ RemoveGonePid(a) \/ AnswerLate(a)
           \/ Fallback(a) \/ Terminate(a) \/ CleanSocket(a) \/ CleanPid(a)
  <2>1. agent[a].at \notin {"idle", "list", "next"} /\ UNCHANGED asked /\ agent[a].ver \in asked
    BY <1>0, <1>4
    DEF Connect, FoundGone, WaitTooLong, RemoveGonePid, AnswerLate, Fallback, Terminate,
        CleanSocket, CleanPid
  <2>2. PICK s : Goes(a, s) /\ (s.at \in {"idle", "next"} \/ s.ver = agent[a].ver)
    <3>1. \A x : [agent[a] EXCEPT !.at = x].ver = agent[a].ver
      BY <1>0 DEF AgentState
    <3>2. \A x, y : [agent[a] EXCEPT !.pid = y, !.at = x].ver = agent[a].ver
      BY <1>0 DEF AgentState
    <3>3. Unanswered(a).ver = agent[a].ver
      BY <3>1 DEF Unanswered
    <3>4. CASE Connect(a) \/ AnswerLate(a)
      BY <3>1, <3>3, <3>4 DEF Connect, AnswerLate
    <3>5. CASE FoundGone(a) \/ WaitTooLong(a) \/ RemoveGonePid(a)
      BY <3>1, <3>5, Constants DEF FoundGone, WaitTooLong, RemoveGonePid
    <3>6. CASE Fallback(a)
      BY <3>2, <3>6, Constants DEF Fallback
    <3>7. CASE Terminate(a) \/ CleanSocket(a) \/ CleanPid(a)
      BY <3>1, <3>7, Constants DEF Terminate, CleanSocket, CleanPid
    <3> QED
      BY <1>4, <3>4, <3>5, <3>6, <3>7
  <2>3. AgentsAsked'
    BY <1>0, <2>1, <2>2, AgentGoes
  <2>4. KeepsDaemons
    BY <1>0, <1>4
    DEF Connect, FoundGone, WaitTooLong, RemoveGonePid, AnswerLate, Fallback, Terminate,
        Signalled, CleanSocket, CleanPid, KeepsDaemons, At, TypeOK, Daemon
  <2>5. CASE UNCHANGED request
    BY <1>0, <2>1, <2>3, <2>4, <2>5, RequestsKept DEF AskedInv
  <2>6. CASE Connect(a) /\ is_alive(socket[agent[a].ver])
    <3> DEFINE q == socket[agent[a].ver]
    <3>1. /\ q \in Proc /\ daemon[q].ver = agent[a].ver /\ ~At(q, "gone") /\ UNCHANGED daemon
          /\ request' = [request EXCEPT ![a] = [to |-> q, at |-> "queued"]]
      BY <1>0, <2>6
      DEF Connect, is_alive, LInv, FileInv, SocketOwner, AgentState, Running, Accepted, At
    <3> HIDE DEF q
    <3>2. RequestsAsked'
      BY <1>0, <2>1, <3>1 DEF TypeOK, RequestsAsked, At
    <3> QED
      BY <2>3, <3>2 DEF AskedInv
  <2> QED
    BY <1>4, <2>5, <2>6
    DEF Connect, FoundGone, WaitTooLong, RemoveGonePid, AnswerLate, Fallback, Terminate,
        CleanSocket, CleanPid
<1> QED
  BY <1>1, <1>2, <1>3, <1>4 DEF Acting, CleanStep

LEMMA AskedStep == LInv /\ [Next]_vars => AskedInv'
<1> SUFFICES ASSUME LInv, [Next]_vars PROVE AskedInv'
  OBVIOUS
<1>0. Client \subseteq Agent /\ Proc \subseteq Agent
  BY DEF Agent
<1>1. ASSUME NEW p \in Proc, NEW v \in Version, Start(p, v) PROVE AskedInv'
  BY <1>1, StartingAsked
<1>2. ASSUME NEW p \in Proc, DaemonStep(p) PROVE AskedInv'
  <2>1. CASE Refused(p) \/ ClosePid(p)
    BY <2>1, EndsAsked DEF Refused, Dies, ClosePid
  <2>2. CASE Starting(p) /\ ~Refused(p)
    BY <2>2, StartingAsked DEF Starting
  <2>3. CASE Ending(p) /\ ~ClosePid(p)
    BY <2>3, RunningAsked DEF Ending
  <2>4. CASE CleanStep(p)
    BY <1>0, <2>4, AgentAsked
  <2> QED
    BY <1>2, <2>1, <2>2, <2>3, <2>4 DEF DaemonStep
<1>3. ASSUME NEW c \in Client, CommandStep(c) PROVE AskedInv'
  BY <1>0, <1>3, AgentAsked DEF CommandStep
<1>4. ASSUME NEW a \in Agent, Stopping(a) \/ AnswerLate(a) PROVE AskedInv'
  BY <1>4, StoppingAsked, AgentAsked
<1>5. ASSUME NEW c \in Client, NEW v \in Version, StopBegin(c, v) PROVE AskedInv'
  BY <1>0, <1>5, AgentAsked
<1>6. ASSUME NEW f \in Faults, Fault(f) PROVE AskedInv'
  <2>1. CASE \E p \in Proc : BindFails(p) \/ Crash(p)
    BY <2>1, EndsAsked DEF BindFails, Crash, Dies
  <2>2. CASE \E p \in Proc : Signal(p) \/ AcceptError(p)
    BY <2>2, RunningAsked
  <2>3. ASSUME NEW v \in Version, LoseSocket(v) PROVE AskedInv'
    BY <2>3, DaemonAsked DEF LoseSocket, KeepsDaemons, At
  <2> QED
    BY <1>6, <2>1, <2>2, <2>3 DEF Fault
<1>7. CASE UNCHANGED vars
  BY <1>7, DaemonAsked DEF vars, KeepsDaemons, At
<1> QED
  BY <1>1, <1>2, <1>3, <1>4, <1>5, <1>6, <1>7 DEF Next, Disturb

-----------------------------------------------------------------------------
(* The files. *)

\* Files are removed at most, pid files only of versions that were asked;
\* serving daemons may begin to end.
Removal ==
  /\ \A p \in Proc :
       /\ daemon'[p].ver = daemon[p].ver
       /\ \/ daemon'[p].stage = daemon[p].stage
          \/ daemon[p].stage \in Accepted /\ daemon'[p].stage \in Accepted
  /\ lock' = lock
  /\ \A v \in Version :
       /\ pidfile'[v] = pidfile[v] \/ (pidfile'[v] = None /\ v \in asked)
       /\ socket'[v] \in {socket[v], None}
  /\ asked \subseteq asked'

\* A process ends, and may take the files of its version with it.
Death(p) ==
  /\ daemon' = [daemon EXCEPT ![p] = NoDaemon]
  /\ lock' = IF lock = p THEN None ELSE lock
  /\ \A v \in Version :
       /\ pidfile'[v] \in {None, Forget(p, pidfile[v])}
       /\ socket'[v] \in {None, Forget(p, socket[v])}
       /\ \/ pidfile'[v] = Forget(p, pidfile[v])
          \/ daemon[p].ver = v /\ daemon[p].stage \in Running
  /\ asked' = asked

LEMMA DiesShape ==
  ASSUME TypeOK, NEW p \in Proc, Dies(p)
  PROVE  Death(p)
  BY DEF Dies, Ends, Death

LEMMA DaemonShape ==
  ASSUME LInv, NEW p \in Proc, DaemonStep(p), ~CleanStep(p)
  PROVE  \/ Removal \/ Death(p)
         \/ TakeLock(p) \/ CheckPid(p) \/ RemoveStalePid(p) \/ RemoveStaleSocket(p)
         \/ Bind(p) \/ Publish(p)
<1>0. TypeOK
  BY DEF LInv
<1>1. CASE Refused(p)
  BY <1>0, <1>1, DiesShape DEF Refused
<1>2. CASE NoticeSocketGone(p)
  <2>1. \A q \in Proc : daemon'[q].ver = daemon[q].ver /\ daemon'[q].stage = daemon[q].stage
    BY <1>0, <1>2 DEF NoticeSocketGone, TypeOK, Daemon
  <2> QED
    BY <1>2, <2>1 DEF NoticeSocketGone, files, Removal
<1>3. CASE WindDown(p) \/ CloseSocket(p)
  <2>1. \A q \in Proc :
          /\ daemon'[q].ver = daemon[q].ver
          /\ \/ daemon'[q].stage = daemon[q].stage
             \/ daemon[q].stage \in Accepted /\ daemon'[q].stage \in Accepted
    BY <1>0, <1>3 DEF WindDown, CloseSocket, Enter, At, TypeOK, Daemon, Accepted
  <2>2. \A v \in Version : socket'[v] \in {socket[v], None}
    BY <1>0, <1>3 DEF WindDown, CloseSocket, Remove, files, TypeOK
  <2> QED
    BY <1>3, <2>1, <2>2 DEF WindDown, CloseSocket, files, Removal
<1>4. CASE ClosePid(p)
  <2>1. \A v \in Version :
          Remove(pidfile, daemon[p].ver)[v] = IF v = daemon[p].ver THEN None ELSE pidfile[v]
    BY <1>0 DEF Remove, TypeOK
  <2>2. Forget(p, None) = None
    BY LifecycleAssumption DEF Forget
  <2>3. daemon[p].stage \in Running
    BY <1>4 DEF ClosePid, At, Running, Accepted
  <2> QED
    BY <1>4, <2>1, <2>2, <2>3 DEF ClosePid, Ends, Death
<1> QED
  BY <1>1, <1>2, <1>3, <1>4 DEF DaemonStep, Starting, Ending

LEMMA StoppingShape ==
  ASSUME LInv, NEW a \in Agent, Stopping(a)
  PROVE  Removal \/ \E p \in Proc : Death(p)
<1>0. TypeOK /\ request[a] \in Request
  BY DEF LInv, TypeOK
<1>1. /\ request[a].at # "none"
      /\ request[a].to \in Proc
      /\ daemon[request[a].to].ver \in asked
  BY DEF Stopping, HandleStop, StopRemovesSocket, StopRemovesPid, StopExits, LInv, AskedInv,
         RequestsAsked
<1>2. CASE StopExits(a)
  <2>1. CASE Dies(request[a].to)
    BY <1>0, <1>1, <2>1, DiesShape
  <2>2. CASE UNCHANGED <<daemon, files, agent, asked>>
    BY <2>2 DEF Removal, files
  <2> QED
    BY <1>2, <2>1, <2>2 DEF StopExits
<1>3. CASE HandleStop(a)
  BY <1>3 DEF HandleStop, Removal, files
<1>4. CASE StopRemovesSocket(a)
  BY <1>0, <1>4 DEF StopRemovesSocket, Remove, Removal, TypeOK
<1>5. CASE StopRemovesPid(a)
  BY <1>0, <1>1, <1>5 DEF StopRemovesPid, Remove, Removal, TypeOK
<1> QED
  BY <1>2, <1>3, <1>4, <1>5 DEF Stopping

LEMMA AgentShape ==
  ASSUME LInv, NEW a \in Agent,
         \/ Acting(a) \/ AnswerLate(a)
         \/ a \in Client /\ (Fallback(a) \/ Terminate(a) \/ \E v \in Version : StopBegin(a, v))
         \/ a \in Proc /\ CleanStep(a)
  PROVE  Removal
<1>0. /\ TypeOK
      /\ agent[a].at \notin {"idle", "list", "next"} => agent[a].ver \in asked
  BY DEF LInv, AskedInv, AgentsAsked
<1>1. CASE \/ Connect(a) \/ FoundGone(a) \/ WaitTooLong(a) \/ AnswerLate(a) \/ Fallback(a)
           \/ CleanList(a) \/ CleanNext(a) \/ \E v \in Version : StopBegin(a, v)
  <2>1. UNCHANGED <<daemon, files>> /\ asked \subseteq asked'
    BY <1>1
    DEF Connect, FoundGone, WaitTooLong, AnswerLate, Fallback, CleanList, CleanNext, StopBegin
  <2> QED
    BY <2>1 DEF Removal, files
<1>2. CASE RemoveGonePid(a)
  BY <1>0, <1>2 DEF RemoveGonePid, Remove, Removal, TypeOK
<1>3. CASE CleanSocket(a)
  BY <1>0, <1>3 DEF CleanSocket, Remove, Removal, TypeOK
<1>4. CASE CleanPid(a)
  BY <1>0, <1>4 DEF CleanPid, Remove, Removal, TypeOK
<1>5. CASE Terminate(a)
  <2>1. \A q \in Proc : daemon'[q].ver = daemon[q].ver /\ daemon'[q].stage = daemon[q].stage
    BY <1>0, <1>5 DEF Terminate, Signalled, TypeOK, Daemon
  <2> QED
    BY <1>5, <2>1 DEF Terminate, files, Removal
<1> QED
  BY <1>1, <1>2, <1>3, <1>4, <1>5 DEF Acting, CleanStep

LEMMA FaultShape ==
  ASSUME LInv, NEW f \in Faults, Fault(f)
  PROVE  Removal \/ \E p \in Proc : Death(p)
<1>0. TypeOK
  BY DEF LInv
<1>1. ASSUME NEW p \in Proc, BindFails(p) PROVE Death(p)
  <2>1. CASE Dies(p)
    BY <1>0, <2>1, DiesShape
  <2>2. CASE /\ At(p, "publish") /\ Ends(p)
             /\ socket' = Remove(socket, daemon[p].ver) /\ UNCHANGED pidfile
    <3>1. \A v \in Version : pidfile[v] # p
      BY <2>2 DEF At, LInv, FileInv, PidOwner, Accepted
    <3>2. \A v \in Version : socket[v] = p => v = daemon[p].ver
      BY DEF LInv, FileInv, SocketOwner
    <3>3. \A v \in Version :
            Remove(socket, daemon[p].ver)[v] = IF v = daemon[p].ver THEN None ELSE socket[v]
      BY <1>0 DEF Remove, TypeOK
    <3> QED
      BY <2>2, <3>1, <3>2, <3>3 DEF Ends, Death, Forget
  <2> QED
    BY <1>1, <2>1, <2>2 DEF BindFails
<1>2. ASSUME NEW p \in Proc, Crash(p) PROVE Death(p)
  BY <1>0, <1>2, DiesShape DEF Crash
<1>3. ASSUME NEW p \in Proc, Signal(p) PROVE Removal
  <2>1. \A q \in Proc : daemon'[q].ver = daemon[q].ver /\ daemon'[q].stage = daemon[q].stage
    BY <1>0, <1>3 DEF Signal, Signalled, TypeOK, Daemon
  <2> QED
    BY <1>3, <2>1 DEF Signal, files, Removal
<1>4. ASSUME NEW p \in Proc, AcceptError(p) PROVE Removal
  <2>1. \A q \in Proc :
          /\ daemon'[q].ver = daemon[q].ver
          /\ \/ daemon'[q].stage = daemon[q].stage
             \/ daemon[q].stage \in Accepted /\ daemon'[q].stage \in Accepted
    BY <1>0, <1>4 DEF AcceptError, Enter, At, TypeOK, Daemon, Accepted
  <2> QED
    BY <1>4, <2>1 DEF AcceptError, files, Removal
<1>5. ASSUME NEW v \in Version, LoseSocket(v) PROVE Removal
  BY <1>0, <1>5 DEF LoseSocket, Remove, Removal, TypeOK
<1> QED
  BY <1>1, <1>2, <1>3, <1>4, <1>5 DEF Fault

LEMMA StepShape ==
  ASSUME LInv, Next
  PROVE  \/ Removal
         \/ \E p \in Proc :
              \/ Death(p) \/ \E v \in Version : Start(p, v)
              \/ TakeLock(p) \/ CheckPid(p) \/ RemoveStalePid(p) \/ RemoveStaleSocket(p)
              \/ Bind(p) \/ Publish(p)
<1>0. Client \subseteq Agent /\ Proc \subseteq Agent
  BY DEF Agent
<1>1. ASSUME NEW p \in Proc, DaemonStep(p)
      PROVE  \/ Removal \/ Death(p)
             \/ TakeLock(p) \/ CheckPid(p) \/ RemoveStalePid(p) \/ RemoveStaleSocket(p)
             \/ Bind(p) \/ Publish(p)
  <2>1. CASE CleanStep(p)
    BY <1>0, <2>1, AgentShape
  <2>2. CASE ~CleanStep(p)
    BY <1>1, <2>2, DaemonShape
  <2> QED
    BY <2>1, <2>2
<1>2. ASSUME NEW c \in Client, CommandStep(c) \/ \E v \in Version : StopBegin(c, v) PROVE Removal
  BY <1>0, <1>2, AgentShape DEF CommandStep
<1>3. ASSUME NEW a \in Agent, Stopping(a) \/ AnswerLate(a)
      PROVE  Removal \/ \E p \in Proc : Death(p)
  BY <1>3, StoppingShape, AgentShape
<1>4. ASSUME NEW f \in Faults, Fault(f) PROVE Removal \/ \E p \in Proc : Death(p)
  BY <1>4, FaultShape
<1> QED
  BY <1>1, <1>2, <1>3, <1>4 DEF Next, Disturb

\* FileInv and OneDaemon, step by step.
LEMMA Unlocked ==
  ASSUME FileInv, NEW p \in Proc, lock = p \/ lock = None, NEW q \in Proc, q # p
  PROVE  daemon[q].stage \notin Holding
  BY LifecycleAssumption DEF FileInv, LockHeld

LEMMA RemovalStep ==
  ASSUME LInv, OneDaemon, Removal
  PROVE  FileInv' /\ OneDaemon'
<1>0. TypeOK /\ FileInv
  BY DEF LInv
<1>1. \A p \in Proc :
        /\ daemon'[p].ver = daemon[p].ver /\ daemon[p].ver \in Version
        /\ daemon'[p].stage \in Holding => daemon'[p].stage = daemon[p].stage
        /\ daemon'[p].stage \in Accepted <=> daemon[p].stage \in Accepted
        /\ daemon'[p].stage \in Running <=> daemon[p].stage \in Running
        /\ At(p, "publish")' <=> At(p, "publish")
        /\ At(p, "rm_stale")' => At(p, "rm_stale")
  BY <1>0 DEF Removal, TypeOK, Daemon, Holding, Running, Accepted, At
<1>2. LockHeld'
  BY <1>0, <1>1 DEF FileInv, LockHeld, Removal
<1>3. PidCleared'
  BY <1>0, <1>1, LifecycleAssumption DEF FileInv, PidCleared, Removal, Holding
<1>4. SocketUnclaimed'
  BY <1>0, <1>1 DEF FileInv, SocketUnclaimed, Removal
<1>5. PidOwner'
  BY <1>0, <1>1, LifecycleAssumption DEF FileInv, PidOwner, Removal
<1>6. SocketOwner'
  BY <1>0, <1>1, LifecycleAssumption DEF FileInv, SocketOwner, Removal
<1>7. PidMatchesSocket'
  BY <1>0 DEF FileInv, PidMatchesSocket, Removal
<1>8. OneDaemon'
  <2> SUFFICES ASSUME NEW v \in Version \ asked', NEW p \in Proc, NEW q \in Proc,
                      daemon'[p].ver = v, daemon'[q].ver = v,
                      daemon'[p].stage \in Running, daemon'[q].stage \in Running
               PROVE  p = q /\ (~At(p, "publish")' => pidfile'[v] = p)
    BY DEF OneDaemon
  <2>1. v \in Version \ asked /\ pidfile'[v] = pidfile[v]
    BY DEF Removal
  <2> QED
    BY <1>1, <2>1 DEF OneDaemon
<1> QED
  BY <1>2, <1>3, <1>4, <1>5, <1>6, <1>7, <1>8 DEF FileInv

LEMMA DeathStep ==
  ASSUME LInv, OneDaemon, NEW p \in Proc, Death(p)
  PROVE  FileInv' /\ OneDaemon'
<1>0. TypeOK /\ FileInv
  BY DEF LInv
<1>1. daemon'[p].stage = "gone" /\ \A q \in Proc \ {p} : daemon'[q] = daemon[q]
  BY <1>0 DEF Death, TypeOK, NoDaemon
<1>2. "gone" \notin Holding /\ "gone" \notin Running /\ "gone" \notin Accepted
  BY DEF Holding, Running, Accepted
<1>3. \A v \in Version :
        /\ pidfile[v] \in Proc \cup {None, Stale} /\ socket[v] \in Proc \cup {None, Stale}
        /\ pidfile'[v] \in {None, Stale, pidfile[v]} /\ pidfile'[v] # p
        /\ socket'[v] \in {None, Stale, socket[v]} /\ socket'[v] # p
        /\ pidfile[v] = None => pidfile'[v] = None
        /\ socket[v] = None => socket'[v] = None
        /\ pidfile[v] # p => pidfile'[v] \in {None, pidfile[v]}
        /\ socket[v] # p => socket'[v] \in {None, socket[v]}
        /\ pidfile[v] = p => pidfile'[v] \in {None, Stale}
        /\ socket[v] = p => socket'[v] \in {None, Stale}
  BY <1>0, LifecycleAssumption DEF Death, Forget, TypeOK
<1>4. LockHeld'
  BY <1>0, <1>1, <1>2 DEF FileInv, LockHeld, Death
<1>5. \A q \in Proc \ {p} : daemon[q].ver \in Version
  BY <1>0 DEF TypeOK, Daemon
<1>6. PidCleared'
  <2> SUFFICES ASSUME NEW q \in Proc, q # p
               PROVE  /\ At(q, "rm_stale")' => pidfile'[daemon'[q].ver] \notin Proc
                      /\ daemon'[q].stage \in {"rm_sock", "bind", "publish"} =>
                           pidfile'[daemon'[q].ver] = None
    BY <1>1 DEF PidCleared, At
  <2> QED
    BY <1>0, <1>1, <1>3, <1>5, LifecycleAssumption DEF FileInv, PidCleared, At
<1>7. SocketUnclaimed'
  <2> SUFFICES ASSUME NEW q \in Proc, q # p, At(q, "publish")'
               PROVE  socket'[daemon'[q].ver] \in {None, q}
    BY <1>1 DEF SocketUnclaimed, At
  <2>1. socket[daemon[q].ver] \in {None, q}
    BY <1>0, <1>1 DEF FileInv, SocketUnclaimed, At
  <2> QED
    BY <1>1, <1>3, <1>5, <2>1
<1>8. PidOwner'
  BY <1>0, <1>1, <1>3, LifecycleAssumption DEF FileInv, PidOwner
<1>9. SocketOwner'
  BY <1>0, <1>1, <1>3, LifecycleAssumption DEF FileInv, SocketOwner
<1>10. PidMatchesSocket'
  BY <1>0, <1>3 DEF FileInv, PidMatchesSocket
<1>11. OneDaemon'
  <2> SUFFICES ASSUME NEW v \in Version \ asked', NEW q \in Proc, NEW r \in Proc,
                      daemon'[q].ver = v, daemon'[r].ver = v,
                      daemon'[q].stage \in Running, daemon'[r].stage \in Running
               PROVE  q = r /\ (~At(q, "publish")' => pidfile'[v] = q)
    BY DEF OneDaemon
  <2>1. q # p /\ r # p /\ v \in Version \ asked
    BY <1>1, <1>2 DEF Death
  <2>2. q = r /\ (~At(q, "publish") => pidfile[v] = q)
    BY <1>1, <2>1 DEF OneDaemon
  <2>3. ~(daemon[p].ver = v /\ daemon[p].stage \in Running)
    BY <1>1, <2>1 DEF OneDaemon
  <2>4. pidfile'[v] = Forget(p, pidfile[v])
    BY <2>1, <2>3 DEF Death
  <2> QED
    BY <1>1, <2>1, <2>2, <2>4 DEF Forget, At
<1> QED
  BY <1>4, <1>6, <1>7, <1>8, <1>9, <1>10, <1>11 DEF FileInv

\* What the steps of bind have in common: p moves on, the others stay.
MovesTo(p, x) ==
  /\ daemon'[p].stage = x /\ daemon'[p].ver = daemon[p].ver
  /\ \A q \in Proc \ {p} : daemon'[q] = daemon[q]
  /\ asked' = asked

LEMMA EnterMoves ==
  ASSUME TypeOK, NEW p \in Proc, NEW x, Enter(p, x), asked' = asked
  PROVE  MovesTo(p, x)
  BY DEF Enter, MovesTo, TypeOK, Daemon

LEMMA StartStep ==
  ASSUME LInv, OneDaemon, NEW p \in Proc, NEW v \in Version, Start(p, v)
  PROVE  FileInv' /\ OneDaemon'
<1>0. TypeOK /\ FileInv
  BY DEF LInv
<1>1. /\ daemon[p].stage = "gone" /\ daemon'[p].stage = "lock"
      /\ \A q \in Proc \ {p} : daemon'[q] = daemon[q]
      /\ UNCHANGED <<lock, pidfile, socket, asked>>
  BY <1>0 DEF Start, At, TypeOK, files
<1>2. \A x \in {"gone", "lock"} : x \notin Holding /\ x \notin Running /\ x \notin Accepted
  BY DEF Holding, Running, Accepted
<1>3. FileInv'
  BY <1>0, <1>1, <1>2
  DEF FileInv, LockHeld, PidCleared, SocketUnclaimed, PidOwner, SocketOwner,
      PidMatchesSocket, At
<1>4. OneDaemon'
  BY <1>1, <1>2 DEF OneDaemon, At
<1> QED
  BY <1>3, <1>4

LEMMA TakeLockStep ==
  ASSUME LInv, OneDaemon, NEW p \in Proc, TakeLock(p)
  PROVE  FileInv' /\ OneDaemon'
<1>0. TypeOK /\ FileInv
  BY DEF LInv
<1>1. /\ MovesTo(p, "check") /\ daemon[p].stage = "lock" /\ lock' = p
      /\ UNCHANGED <<pidfile, socket>>
      /\ \A q \in Proc \ {p} : daemon[q].stage \notin Holding
  BY <1>0, EnterMoves, Unlocked DEF TakeLock, At
<1>2. \A x \in {"lock", "check"} : x \notin Running /\ x \notin Accepted
  BY DEF Running, Accepted
<1>3. FileInv'
  BY <1>0, <1>1, <1>2
  DEF MovesTo, FileInv, LockHeld, PidCleared, SocketUnclaimed, PidOwner, SocketOwner,
      PidMatchesSocket, At
<1>4. OneDaemon'
  BY <1>1, <1>2 DEF MovesTo, OneDaemon, At
<1> QED
  BY <1>3, <1>4

LEMMA CheckPidStep ==
  ASSUME LInv, OneDaemon, NEW p \in Proc, CheckPid(p)
  PROVE  FileInv' /\ OneDaemon'
<1>0. TypeOK /\ FileInv
  BY DEF LInv
<1> DEFINE x == IF pidfile[daemon[p].ver] = None THEN "rm_sock" ELSE "rm_stale"
<1>1. /\ MovesTo(p, x) /\ daemon[p].stage = "check"
      /\ UNCHANGED <<lock, pidfile, socket>>
      /\ pidfile[daemon[p].ver] \notin Proc
      /\ x = "rm_stale" \/ (x = "rm_sock" /\ pidfile[daemon[p].ver] = None)
  BY <1>0, EnterMoves DEF CheckPid, At, is_alive, files
<1> HIDE DEF x
<1>2. /\ \A y \in {"check", "rm_sock", "rm_stale"} : y \notin Running /\ y \notin Accepted
      /\ "check" \in Holding
  BY DEF Running, Accepted, Holding
<1>3. FileInv'
  BY <1>0, <1>1, <1>2
  DEF MovesTo, FileInv, LockHeld, PidCleared, SocketUnclaimed, PidOwner, SocketOwner,
      PidMatchesSocket, At
<1>4. OneDaemon'
  BY <1>1, <1>2 DEF MovesTo, OneDaemon, At
<1> QED
  BY <1>3, <1>4

LEMMA RemoveStaleStep ==
  ASSUME LInv, OneDaemon, NEW p \in Proc, RemoveStalePid(p) \/ RemoveStaleSocket(p)
  PROVE  FileInv' /\ OneDaemon'
<1>0. TypeOK /\ FileInv
  BY DEF LInv
<1>1. /\ MovesTo(p, "rm_sock") \/ MovesTo(p, "bind")
      /\ daemon[p].stage \in {"rm_stale", "rm_sock"}
      /\ lock' = lock
  BY <1>0, EnterMoves DEF RemoveStalePid, RemoveStaleSocket, At
<1>2. /\ daemon[p].ver \in Version
      /\ \A v \in Version :
           /\ pidfile'[v] = pidfile[v] \/ (v = daemon[p].ver /\ pidfile'[v] = None)
           /\ socket'[v] \in {socket[v], None}
      /\ pidfile[daemon[p].ver] \notin Proc
      /\ pidfile'[daemon[p].ver] = None
  <2>1. daemon[p].ver \in Version
    BY <1>0 DEF TypeOK, Daemon
  <2>2. pidfile[daemon[p].ver] \notin Proc
    BY <1>0, <1>1, LifecycleAssumption DEF FileInv, PidCleared, At
  <2>3. CASE RemoveStalePid(p)
    BY <1>0, <2>1, <2>2, <2>3 DEF RemoveStalePid, Remove, TypeOK
  <2>4. CASE RemoveStaleSocket(p)
    <3>1. pidfile' = pidfile /\ pidfile[daemon[p].ver] = None
      BY <1>0, <2>4 DEF RemoveStaleSocket, FileInv, PidCleared, At
    <3>2. \A v \in Version : socket'[v] \in {socket[v], None}
      BY <1>0, <2>4 DEF RemoveStaleSocket, Remove, TypeOK
    <3> QED
      BY <2>1, <2>2, <3>1, <3>2
  <2> QED
    BY <2>3, <2>4
<1>3. /\ \A y \in {"bind", "rm_sock", "rm_stale"} : y \notin Running /\ y \notin Accepted
      /\ "rm_stale" \in Holding /\ "rm_sock" \in Holding
  BY DEF Running, Accepted, Holding
<1>4. \A q \in Proc : daemon[q].ver \in Version /\ daemon'[q].ver = daemon[q].ver
  BY <1>0, <1>1 DEF MovesTo, TypeOK, Daemon
<1>5. LockHeld'
  BY <1>0, <1>1, <1>3 DEF MovesTo, FileInv, LockHeld
<1>6. PidCleared'
  BY <1>0, <1>1, <1>2, <1>4, LifecycleAssumption DEF MovesTo, FileInv, PidCleared, At
<1>7. SocketUnclaimed'
  BY <1>0, <1>1, <1>2, <1>4 DEF MovesTo, FileInv, SocketUnclaimed, At
<1>8. PidOwner'
  BY <1>0, <1>1, <1>2, <1>3, <1>4, LifecycleAssumption DEF MovesTo, FileInv, PidOwner
<1>9. SocketOwner'
  BY <1>0, <1>1, <1>2, <1>3, <1>4, LifecycleAssumption DEF MovesTo, FileInv, SocketOwner
<1>10. PidMatchesSocket'
  BY <1>0, <1>2 DEF FileInv, PidMatchesSocket
<1>11. OneDaemon'
  <2> SUFFICES ASSUME NEW v \in Version \ asked', NEW q \in Proc, NEW r \in Proc,
                      daemon'[q].ver = v, daemon'[r].ver = v,
                      daemon'[q].stage \in Running, daemon'[r].stage \in Running
               PROVE  q = r /\ (~At(q, "publish")' => pidfile'[v] = q)
    BY DEF OneDaemon
  <2>1. /\ q # p /\ r # p /\ v \in Version \ asked
        /\ daemon'[q] = daemon[q] /\ daemon'[r] = daemon[r]
    BY <1>1, <1>3 DEF MovesTo
  <2>2. q = r /\ (~At(q, "publish") => pidfile[v] = q)
    BY <2>1 DEF OneDaemon
  <2>3. daemon[q].stage \notin Holding
    BY <1>0, <1>1, <1>3, <2>1 DEF FileInv, LockHeld
  <2>4. pidfile[v] = q
    BY <2>2, <2>3 DEF At, Holding
  <2> QED
    BY <1>2, <2>1, <2>2, <2>4
<1> QED
  BY <1>5, <1>6, <1>7, <1>8, <1>9, <1>10, <1>11 DEF FileInv

LEMMA BindStep ==
  ASSUME LInv, OneDaemon, NEW p \in Proc, Bind(p)
  PROVE  FileInv' /\ OneDaemon'
<1>0. TypeOK /\ FileInv
  BY DEF LInv
<1>1. /\ MovesTo(p, "publish") /\ daemon[p].stage = "bind" /\ UNCHANGED <<lock, pidfile>>
      /\ daemon[p].ver \in Version /\ pidfile[daemon[p].ver] = None
      /\ \A v \in Version : socket'[v] = IF v = daemon[p].ver THEN p ELSE socket[v]
  BY <1>0, EnterMoves DEF Bind, At, FileInv, PidCleared, TypeOK, Daemon
<1>2. /\ "bind" \notin Running /\ "bind" \notin Accepted /\ "publish" \in Running
      /\ "bind" \in Holding /\ "publish" \in Holding
  BY DEF Running, Accepted, Holding
<1>3. \A q \in Proc \ {p} : daemon[q].stage \notin Holding
  BY <1>0, <1>1, <1>2, Unlocked DEF FileInv, LockHeld
<1>4. \A q \in Proc : daemon[q].ver \in Version /\ daemon'[q].ver = daemon[q].ver
  BY <1>0, <1>1 DEF MovesTo, TypeOK, Daemon
<1>5. LockHeld'
  BY <1>0, <1>1, <1>2 DEF MovesTo, FileInv, LockHeld
<1>6. PidCleared'
  BY <1>0, <1>1, <1>4 DEF MovesTo, FileInv, PidCleared, At
<1>7. SocketUnclaimed'
  BY <1>1, <1>2, <1>3, <1>4 DEF MovesTo, SocketUnclaimed, At
<1>8. PidOwner'
  BY <1>0, <1>1, <1>2 DEF MovesTo, FileInv, PidOwner
<1>9. SocketOwner'
  BY <1>0, <1>1, <1>2 DEF MovesTo, FileInv, SocketOwner
<1>10. PidMatchesSocket'
  BY <1>0, <1>1 DEF FileInv, PidMatchesSocket
<1>11. OneDaemon'
  <2> SUFFICES ASSUME NEW v \in Version \ asked', NEW q \in Proc, NEW r \in Proc,
                      daemon'[q].ver = v, daemon'[r].ver = v,
                      daemon'[q].stage \in Running, daemon'[r].stage \in Running
               PROVE  q = r /\ (~At(q, "publish")' => pidfile'[v] = q)
    BY DEF OneDaemon
  <2>1. v \in Version \ asked
    BY <1>1 DEF MovesTo
  <2>2. ASSUME NEW s \in Proc, s # p, daemon'[s].ver = v, daemon'[s].stage \in Running
        PROVE  pidfile[v] = s
    <3>1. daemon[s].ver = v /\ daemon[s].stage \in Running /\ ~At(s, "publish")
      BY <1>1, <1>2, <1>3, <2>2 DEF MovesTo, At
    <3> QED
      BY <2>1, <3>1 DEF OneDaemon
  <2>3. CASE daemon[p].ver = v
    <3>1. q = p /\ r = p
      BY <1>1, <2>2, <2>3, LifecycleAssumption
    <3> QED
      BY <1>1, <3>1 DEF MovesTo, At
  <2>4. CASE daemon[p].ver # v
    <3>1. q # p /\ r # p
      BY <1>4, <2>4
    <3> QED
      BY <1>1, <2>2, <3>1
  <2> QED
    BY <2>3, <2>4
<1> QED
  BY <1>5, <1>6, <1>7, <1>8, <1>9, <1>10, <1>11 DEF FileInv

LEMMA PublishStep ==
  ASSUME LInv, OneDaemon, NEW p \in Proc, Publish(p)
  PROVE  FileInv' /\ OneDaemon'
<1>0. TypeOK /\ FileInv
  BY DEF LInv
<1>1. /\ MovesTo(p, "serve") /\ daemon[p].stage = "publish" /\ socket' = socket /\ lock' = None
      /\ daemon[p].ver \in Version /\ socket[daemon[p].ver] \in {None, p}
      /\ \A v \in Version : pidfile'[v] = IF v = daemon[p].ver THEN p ELSE pidfile[v]
  BY <1>0, EnterMoves DEF Publish, At, FileInv, SocketUnclaimed, TypeOK, Daemon
<1>2. /\ "publish" \in Running /\ "serve" \in Running /\ "serve" \in Accepted
      /\ "publish" \in Holding /\ "serve" \notin Holding
  BY DEF Running, Accepted, Holding
<1>3. \A q \in Proc \ {p} : daemon[q].stage \notin Holding
  BY <1>0, <1>1, <1>2, Unlocked DEF FileInv, LockHeld
<1>4. \A q \in Proc : daemon[q].ver \in Version /\ daemon'[q].ver = daemon[q].ver
  BY <1>0, <1>1 DEF MovesTo, TypeOK, Daemon
<1>5. LockHeld'
  BY <1>1, <1>2, <1>3 DEF MovesTo, LockHeld
<1>6. PidCleared' /\ SocketUnclaimed'
  <2>1. \A q \in Proc :
          daemon'[q].stage \notin Holding
    BY <1>1, <1>2, <1>3 DEF MovesTo
  <2> QED
    BY <2>1 DEF PidCleared, SocketUnclaimed, At, Holding
<1>7. PidOwner'
  BY <1>0, <1>1, <1>2 DEF MovesTo, FileInv, PidOwner
<1>8. SocketOwner'
  BY <1>0, <1>1, <1>2 DEF MovesTo, FileInv, SocketOwner
<1>9. PidMatchesSocket'
  BY <1>0, <1>1 DEF FileInv, PidMatchesSocket
<1>10. OneDaemon'
  <2> SUFFICES ASSUME NEW v \in Version \ asked', NEW q \in Proc, NEW r \in Proc,
                      daemon'[q].ver = v, daemon'[r].ver = v,
                      daemon'[q].stage \in Running, daemon'[r].stage \in Running
               PROVE  q = r /\ (~At(q, "publish")' => pidfile'[v] = q)
    BY DEF OneDaemon
  <2>1. v \in Version \ asked
    BY <1>1 DEF MovesTo
  <2>2. \A s \in Proc : daemon'[s].stage \in Running => daemon[s].stage \in Running
    BY <1>1, <1>2 DEF MovesTo
  <2>3. q = r /\ (~At(q, "publish") => pidfile[v] = q)
    BY <1>4, <2>1, <2>2 DEF OneDaemon
  <2>4. CASE q = p
    BY <1>1, <1>4, <2>3, <2>4
  <2>5. CASE q # p
    <3>1. ~At(q, "publish")
      BY <1>2, <1>3, <2>5 DEF At
    <3>2. daemon[p].ver # v
      BY <1>1, <1>2, <1>4, <2>1, <2>2, <2>5 DEF OneDaemon
    <3> QED
      BY <1>1, <2>3, <3>1, <3>2
  <2> QED
    BY <2>4, <2>5
<1> QED
  BY <1>5, <1>6, <1>7, <1>8, <1>9, <1>10 DEF FileInv

LEMMA FileInit == Init => FileInv /\ AskedInv /\ OneDaemon
<1> SUFFICES ASSUME Init PROVE FileInv /\ AskedInv /\ OneDaemon
  OBVIOUS
<1>1. /\ \A p \in Proc : daemon[p].stage = "gone"
      /\ \A v \in Version : pidfile[v] = None /\ socket[v] = None
      /\ \A a \in Agent : agent[a].at = "idle" /\ request[a].at = "none"
  BY Constants DEF Init, NoDaemon
<1>2. "gone" \notin Holding /\ "gone" \notin Running /\ "gone" \notin Accepted
  BY DEF Holding, Running, Accepted
<1>3. FileInv
  BY <1>1, <1>2, LifecycleAssumption
  DEF FileInv, LockHeld, PidCleared, SocketUnclaimed, PidOwner, SocketOwner,
      PidMatchesSocket, At
<1>4. AskedInv
  BY <1>1 DEF AskedInv, AgentsAsked, RequestsAsked
<1>5. OneDaemon
  BY <1>1, <1>2 DEF OneDaemon
<1> QED
  BY <1>3, <1>4, <1>5

LEMMA FileStep == LInv /\ OneDaemon /\ [Next]_vars => FileInv' /\ OneDaemon'
<1> SUFFICES ASSUME LInv, OneDaemon, [Next]_vars PROVE FileInv' /\ OneDaemon'
  OBVIOUS
<1>1. CASE Next
  BY <1>1, StepShape, RemovalStep, DeathStep, StartStep, TakeLockStep, CheckPidStep,
     RemoveStaleStep, BindStep, PublishStep
<1>2. CASE UNCHANGED vars
  <2>1. Removal
    BY <1>2 DEF Removal, vars
  <2> QED
    BY <2>1, RemovalStep
<1> QED
  BY <1>1, <1>2

-----------------------------------------------------------------------------
(* The theorems. *)

LEMMA Inductive == Spec => [](LInv /\ OneDaemon)
<1>1. Init => LInv /\ OneDaemon
  BY TypeInit, FileInit DEF LInv
<1>2. LInv /\ OneDaemon /\ [Next]_vars => LInv' /\ OneDaemon'
  <2>1. LInv => TypeOK /\ AgentsKnowPid
    BY DEF LInv
  <2> QED
    BY <2>1, TypeStep, AskedStep, FileStep DEF LInv
<1> QED
  BY <1>1, <1>2, PTL DEF Spec

(***************************************************************************)
(* Every variable keeps its type: no agent waits for a process that it     *)
(* does not know (daemon_lifecycle.rs, restart.rs).                        *)
(***************************************************************************)
THEOREM LifecycleTypes == Spec => []TypeOK
<1>1. LInv => TypeOK
  BY DEF LInv
<1> QED
  BY <1>1, Inductive, PTL

(***************************************************************************)
(* However many processes start, crash, stop and clean up after each       *)
(* other, the pid file and the socket of a version never name different    *)
(* processes (socket_listener.rs, bind_with).                              *)
(***************************************************************************)
THEOREM FilesAgree == Spec => []PidMatchesSocket
<1>1. LInv => PidMatchesSocket
  BY DEF LInv, FileInv
<1> QED
  BY <1>1, Inductive, PTL

(***************************************************************************)
(* As long as nobody has set out to stop a version's daemon, one process   *)
(* at most runs it and its pid file stays, whatever fails                  *)
(* (socket_listener.rs, bind_with; daemon_server.rs, run).                 *)
(***************************************************************************)
THEOREM OneDaemonAtATime == Spec => []OneDaemon
<1> QED
  BY Inductive, PTL
=============================================================================
