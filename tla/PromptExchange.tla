--------------------------- MODULE PromptExchange ---------------------------
(***************************************************************************)
(* One question and its answer, from the prompt through the socket, the    *)
(* connection's task and the command channel to the actor and back; and    *)
(* what travels the same way: the watch view, the scheduler's tick and the *)
(* Update of a refresh.  The cache is reduced to what this module is       *)
(* about: one entry, what it shows and whether it is marked as being       *)
(* refreshed.  RefreshCycle has the rest of it.                            *)
(***************************************************************************)
EXTENDS Integers, SequencesExt

CONSTANTS
  Prompt,     \* runs of merge-ready-prompt that can be there at a time
  Watch,      \* runs of `merge-ready watch`
  Refresh,    \* the client that sends the Update of a refresh
  Scheduler,  \* the task that ticks
  Version,    \* what a refresh can make the entry show
  Loading,    \* "? loading"
  Nothing,    \* no answer
  Length,     \* reads that the answer with a version takes, newline included
  MAX_RESPONSE_BYTES,    \* reads after which a prompt stops reading
  COMMAND_CHANNEL_SIZE,
  RESPONSE_TIMEOUT_MS    \* in steps of the clock; READ_TIMEOUT_MS is the same

Client == Prompt \cup Watch

Requester == Client \cup {Refresh}

Shown == Version \cup {Loading}

ASSUME ExchangeAssumption ==
  /\ Prompt \cap Watch = {} /\ Refresh \notin Client /\ Scheduler \notin Requester
  /\ Nothing \notin Shown
  \* At least the text and the newline.
  /\ Length \in [Shown -> Nat \ {0, 1}]
  /\ MAX_RESPONSE_BYTES \in Nat \ {0}
  /\ COMMAND_CHANNEL_SIZE \in Nat \ {0}
  /\ RESPONSE_TIMEOUT_MS \in Nat

VARIABLES
  up,          \* does a daemon run?
  shown,       \* what its entry shows
  refreshing,  \* is the entry marked as being refreshed?
  channel,     \* the actor's command channel
  senders,     \* tasks that wait for a place in it, in order
  conn,        \* the connection of each requester, as the daemon's task sees it
  client,      \* each prompt and watch view
  fetch,       \* the refresh: none, running, or its Update sent
  ticker       \* the scheduler: its stage and the effect it holds

vars == <<up, shown, refreshing, channel, senders, conn, client, fetch, ticker>>

\* request: the line has been written; open: the client still listens; reply: what the
\* actor answered; effect: SpawnRefresh is still to be drained.
Conn ==
  [stage : {"none", "backlog", "accepted", "waiting", "writing", "closed"},
   request : BOOLEAN, open : BOOLEAN, reply : Shown \cup {Nothing}, effect : BOOLEAN, sent : Nat]

ClientState ==
  [stage : {"idle", "connected", "reading", "done", "quit"},
   left : 0 .. RESPONSE_TIMEOUT_MS, got : Nat, output : Shown \cup {Nothing}]

NoConn == [stage |-> "none", request |-> FALSE, open |-> FALSE, reply |-> Nothing, effect |-> FALSE, sent |-> 0]

IdleClient == [stage |-> "idle", left |-> 0, got |-> 0, output |-> Nothing]

Init ==
  /\ up = FALSE /\ shown = Loading /\ refreshing = FALSE
  /\ channel = <<>> /\ senders = <<>>
  /\ conn = [c \in Requester |-> NoConn]
  /\ client = [c \in Client |-> IdleClient]
  /\ fetch = "none"
  /\ ticker = [stage |-> "idle", effect |-> FALSE]

daemonVars == <<up, shown, refreshing>>

queueVars == <<channel, senders>>

SetConn(c, new) == conn' = [conn EXCEPT ![c] = new]

SetClient(c, new) == client' = [client EXCEPT ![c] = new]

------------------------------------------------------------------------------
(* The command channel and the actor. *)

\* mpsc: a full channel makes its senders wait, in order.
Send(t) ==
  IF Len(channel) < COMMAND_CHANNEL_SIZE /\ senders = <<>>
  THEN channel' = Append(channel, t) /\ senders' = senders
  ELSE senders' = Append(senders, t) /\ channel' = channel

\* Mutant: the newest waiting sender gets the place.
Receive_newest ==
  /\ channel # <<>>
  /\ channel' = IF senders = <<>> THEN Tail(channel) ELSE Append(Tail(channel), Last(senders))
  /\ senders' = IF senders = <<>> THEN <<>> ELSE Front(senders)

\* A command is taken; its place goes to whoever has waited longest.
Receive ==
  /\ channel # <<>>
  /\ channel' = IF senders = <<>> THEN Tail(channel) ELSE Append(Tail(channel), Head(senders))
  /\ senders' = IF senders = <<>> THEN <<>> ELSE Tail(senders)

\* The entry is due (for a prompt: stale), and nobody refreshes it yet.
MarksRefresh(due) == due /\ ~refreshing

\* Query: answer what there is; a stale entry is marked and the effect handed back.
HandleQuery(c) ==
  /\ \E stale \in BOOLEAN :
       /\ shown = Loading => stale
       /\ refreshing' = (refreshing \/ stale)
       /\ SetConn(c, [conn[c] EXCEPT !.stage = "writing", !.reply = shown,
                                     !.effect = MarksRefresh(stale)])
  /\ UNCHANGED <<shown, client, fetch, ticker>>

HandleEntries(c) ==
  /\ SetConn(c, [conn[c] EXCEPT !.stage = "writing", !.reply = shown])
  /\ UNCHANGED <<shown, refreshing, client, fetch, ticker>>

\* Update; nobody looks at its answer, so its connection ends here.
HandleUpdate ==
  /\ shown' \in Version
  /\ refreshing' = FALSE
  /\ SetConn(Refresh, NoConn)
  /\ fetch' = "none"
  /\ UNCHANGED <<client, ticker>>

\* Only an entry that has been fetched is due; before that its first refresh is on its way.
HandleTick ==
  /\ \E due \in BOOLEAN :
       /\ due => shown # Loading
       /\ refreshing' = (refreshing \/ due)
       /\ ticker' = [stage |-> "drain", effect |-> MarksRefresh(due)]
  /\ UNCHANGED <<shown, conn, client, fetch>>

handle_command ==
  /\ up /\ Receive
  /\ LET t == Head(channel)
     IN \/ t \in Prompt /\ HandleQuery(t)
        \/ t \in Watch /\ HandleEntries(t)
        \/ t = Refresh /\ HandleUpdate
        \/ t = Scheduler /\ HandleTick
  /\ up' = up

------------------------------------------------------------------------------
(* connection::handle, one task per connection. *)

\* The accept loop spawns the task.
Accept(c) ==
  /\ conn[c].stage = "backlog" /\ SetConn(c, [conn[c] EXCEPT !.stage = "accepted"])
  /\ UNCHANGED <<daemonVars, queueVars, client, fetch, ticker>>

\* A whole line is sent to the actor; a client that is gone before it has written is not served.
ReadRequest(c) ==
  /\ conn[c].stage = "accepted"
  /\ \/ conn[c].request /\ Send(c) /\ SetConn(c, [conn[c] EXCEPT !.stage = "waiting"])
     \/ /\ ~conn[c].request /\ ~conn[c].open
        /\ SetConn(c, NoConn) /\ UNCHANGED queueVars
  /\ UNCHANGED <<daemonVars, client, fetch, ticker>>

\* Mutant: each piece is of what the entry shows by then.
WriteAnswer_rereads(c) ==
  /\ conn[c].stage = "writing" /\ conn[c].open
  /\ conn[c].sent < Length[conn[c].reply]
  /\ SetConn(c, [conn[c] EXCEPT !.sent = @ + 1, !.reply = shown])
  /\ UNCHANGED <<daemonVars, queueVars, client, fetch, ticker>>

\* write_all, piece by piece.
WriteAnswer(c) ==
  /\ conn[c].stage = "writing" /\ conn[c].open
  /\ conn[c].sent < Length[conn[c].reply]
  /\ SetConn(c, [conn[c] EXCEPT !.sent = @ + 1])
  /\ UNCHANGED <<daemonVars, queueVars, client, fetch, ticker>>

Closed(c) == IF conn[c].open THEN [conn[c] EXCEPT !.stage = "closed", !.effect = FALSE] ELSE NoConn

\* Mutant: a client that is gone ends the task.
Finish_with_client(c) ==
  /\ conn[c].stage = "writing"
  /\ conn[c].open => conn[c].sent = Length[conn[c].reply]
  /\ SetConn(c, Closed(c))
  /\ fetch' = IF conn[c].effect /\ conn[c].open THEN "running" ELSE fetch
  /\ UNCHANGED <<daemonVars, queueVars, client, ticker>>

\* All is written, or the client is gone, which is no reason to stop: the effect is drained.
Finish(c) ==
  /\ conn[c].stage = "writing"
  /\ conn[c].open => conn[c].sent = Length[conn[c].reply]
  /\ SetConn(c, Closed(c))
  /\ fetch' = IF conn[c].effect THEN "running" ELSE fetch
  /\ UNCHANGED <<daemonVars, queueVars, client, ticker>>

------------------------------------------------------------------------------
(* The scheduler and the refresh. *)

\* A tick; those that fall due while this one waits for its answer are skipped.
Tick ==
  /\ up /\ ticker.stage = "idle"
  /\ Send(Scheduler)
  /\ ticker' = [ticker EXCEPT !.stage = "waiting"]
  /\ UNCHANGED <<daemonVars, conn, client, fetch>>

DrainTick ==
  /\ ticker.stage = "drain"
  /\ ticker' = [stage |-> "idle", effect |-> FALSE]
  /\ fetch' = IF ticker.effect THEN "running" ELSE fetch
  /\ UNCHANGED <<daemonVars, queueVars, conn, client>>

\* The refresh has its result and connects to its own daemon.
SendUpdate ==
  /\ fetch = "running"
  /\ fetch' = "sent"
  /\ SetConn(Refresh, [NoConn EXCEPT !.stage = "backlog", !.request = TRUE])
  /\ UNCHANGED <<daemonVars, queueVars, client, ticker>>

------------------------------------------------------------------------------
(* Prompts and watch views. *)

\* The client is done; its connection may not be.  A watch view that got nothing ends.
Ends(c, output) ==
  /\ SetClient(c, [IdleClient EXCEPT
       !.stage = IF c \in Watch /\ output = Nothing THEN "quit" ELSE "done", !.output = output])
  /\ SetConn(c, IF conn[c].stage \in {"none", "closed"} THEN NoConn
                ELSE [conn[c] EXCEPT !.open = FALSE])
  /\ UNCHANGED <<daemonVars, queueVars, fetch, ticker>>

Connect(c) ==
  /\ client[c].stage = "idle" /\ up
  /\ SetClient(c, [client[c] EXCEPT !.stage = "connected"])
  /\ SetConn(c, [NoConn EXCEPT !.stage = "backlog", !.open = TRUE])
  /\ UNCHANGED <<daemonVars, queueVars, fetch, ticker>>

CannotConnect(c) == client[c].stage = "idle" /\ ~up /\ Ends(c, Nothing)

\* The request is written; the time for the answer starts now.
WriteRequest(c) ==
  /\ client[c].stage = "connected" /\ conn[c].stage # "closed"
  /\ SetClient(c, [client[c] EXCEPT !.stage = "reading", !.left = RESPONSE_TIMEOUT_MS])
  /\ SetConn(c, [conn[c] EXCEPT !.request = TRUE])
  /\ UNCHANGED <<daemonVars, queueVars, fetch, ticker>>

CannotWrite(c) ==
  client[c].stage = "connected" /\ conn[c].stage = "closed" /\ Ends(c, Nothing)

\* A prompt stops at the cap, a watch view has none.
Capped(c, n) == IF c \in Prompt /\ n > MAX_RESPONSE_BYTES THEN MAX_RESPONSE_BYTES ELSE n

WholeLine(c, n) == n = Length[conn[c].reply]

\* read_response: what is there is read, up to the newline or the cap.
Read(c) ==
  /\ client[c].stage = "reading" /\ client[c].left > 0
  /\ \E upto \in client[c].got + 1 .. conn[c].sent :
       LET n == Capped(c, upto)
       IN \/ WholeLine(c, n) /\ Ends(c, conn[c].reply)
          \/ ~WholeLine(c, n) /\ c \in Prompt /\ n = MAX_RESPONSE_BYTES /\ Ends(c, Nothing)
          \/ /\ ~WholeLine(c, n) /\ ~(c \in Prompt /\ n = MAX_RESPONSE_BYTES)
             /\ SetClient(c, [client[c] EXCEPT !.got = n])
             /\ UNCHANGED <<daemonVars, queueVars, conn, fetch, ticker>>

\* The end of the stream: what was read is decoded, and only the newline may be missing.
ReadEof(c) ==
  /\ client[c].stage = "reading" /\ client[c].left > 0
  /\ conn[c].stage = "closed" /\ client[c].got = conn[c].sent
  /\ Ends(c, IF conn[c].sent > 0 /\ conn[c].sent = Length[conn[c].reply] - 1
             THEN conn[c].reply ELSE Nothing)

DeadlinePasses(c) ==
  client[c].stage = "reading" /\ client[c].left = 0 /\ Ends(c, Nothing)

\* The shell draws the next prompt, the watch view its next frame.
Again(c) ==
  /\ client[c].stage = "done" /\ conn[c].stage = "none"
  /\ SetClient(c, IdleClient)
  /\ UNCHANGED <<daemonVars, queueVars, conn, fetch, ticker>>

\* A signal ends the watch view between two frames.
Interrupt(c) ==
  /\ c \in Watch /\ client[c].stage = "done"
  /\ SetClient(c, [client[c] EXCEPT !.stage = "quit"])
  /\ UNCHANGED <<daemonVars, queueVars, conn, fetch, ticker>>

------------------------------------------------------------------------------
(* The daemon's life, and time. *)

Start ==
  /\ ~up /\ up' = TRUE
  /\ UNCHANGED <<shown, refreshing, queueVars, conn, client, fetch, ticker>>

\* Everything the daemon had is gone; what it wrote can still be read.
Exit ==
  /\ up /\ up' = FALSE
  /\ shown' = Loading /\ refreshing' = FALSE
  /\ channel' = <<>> /\ senders' = <<>>
  /\ conn' = [c \in Requester |->
       IF c \in Client /\ conn[c].open /\ conn[c].stage # "none"
       THEN [conn[c] EXCEPT !.stage = "closed", !.effect = FALSE] ELSE NoConn]
  /\ fetch' = "none"
  /\ ticker' = [stage |-> "idle", effect |-> FALSE]
  /\ UNCHANGED client

\* Mutant: the time starts with the first piece of the answer.
Waits_for_more(c) == client[c].stage = "reading" /\ client[c].left > 0 /\ client[c].got > 0

Waits(c) == client[c].stage = "reading" /\ client[c].left > 0

Advance ==
  /\ \E c \in Client : Waits(c)
  /\ client' = [c \in Client |-> IF Waits(c) THEN [client[c] EXCEPT !.left = @ - 1]
                                 ELSE client[c]]
  /\ UNCHANGED <<daemonVars, queueVars, conn, fetch, ticker>>

ConnStep(c) == Accept(c) \/ ReadRequest(c) \/ WriteAnswer(c) \/ Finish(c)

ClientStep(c) ==
  \/ WriteRequest(c) \/ CannotWrite(c) \/ Read(c) \/ ReadEof(c) \/ DeadlinePasses(c)

Next ==
  \/ handle_command
  \/ \E c \in Requester : ConnStep(c)
  \/ \E c \in Client :
       Connect(c) \/ CannotConnect(c) \/ ClientStep(c) \/ Again(c) \/ Interrupt(c)
  \/ Tick \/ DrainTick \/ SendUpdate
  \/ Start \/ Exit \/ Advance

Spec == Init /\ [][Next]_vars

\* The actor handles commands, clients are scheduled, time passes.  Nothing is asked of the
\* connections' tasks: a daemon may accept late, answer in pieces, or hang.
Fairness ==
  /\ WF_vars(handle_command) /\ WF_vars(Advance)
  /\ \A c \in Client : WF_vars(ClientStep(c))

FairSpec == Spec /\ Fairness

------------------------------------------------------------------------------
TypeOK ==
  /\ up \in BOOLEAN /\ shown \in Shown /\ refreshing \in BOOLEAN
  /\ channel \in Seq(Requester \cup {Scheduler}) /\ Len(channel) <= COMMAND_CHANNEL_SIZE
  /\ senders \in Seq(Requester \cup {Scheduler})
  /\ conn \in [Requester -> Conn]
  /\ client \in [Client -> ClientState]
  /\ fetch \in {"none", "running", "sent"}
  /\ ticker \in [stage : {"idle", "waiting", "drain"}, effect : BOOLEAN]

\* Whoever carries the refresh the mark stands for.
Carriers ==
  {c \in Client : conn[c].effect} \cup {t \in {Scheduler} : ticker.effect}
    \cup {r \in {Refresh} : fetch # "none"}

(***************************************************************************)
(* Marking an entry and starting its refresh are far apart: the actor      *)
(* marks it, and a connection or the scheduler, tasks of their own, start  *)
(* the refresh.  Even so the mark has exactly one refresh behind it, not   *)
(* none, though the prompt may have given up and gone, and not two.        *)
(***************************************************************************)
MarkIsCarried == Cardinality(Carriers) = IF refreshing THEN 1 ELSE 0

(***************************************************************************)
(* PromptService: what a prompt prints, or a watch view draws, is what the *)
(* store showed at one moment since it asked, whole, however the answer    *)
(* was cut into reads; or it is nothing.                                   *)
(***************************************************************************)
phase ==
  [c \in Client |->
     CASE client[c].stage = "idle" -> "idle"
       [] client[c].stage \in {"done", "quit"} -> "done"
       [] client[c].stage \in {"connected", "reading"} ->
            IF conn[c].reply = Nothing THEN "asked" ELSE "served"]

served ==
  [c \in Client |-> IF phase[c] = "served" THEN conn[c].reply ELSE client[c].output]

Service ==
  INSTANCE PromptService
  WITH Version <- Shown, shown <- (IF up THEN shown ELSE Nothing), answer <- served

ServiceSpec == Service!Spec

(***************************************************************************)
(* A prompt returns, whatever the daemon does: hangs, answers slowly, in   *)
(* pieces, without end, or dies.                                           *)
(***************************************************************************)
PromptReturns ==
  \A c \in Client : client[c].stage = "connected" ~> client[c].stage \in {"done", "quit"}

(***************************************************************************)
(* The scheduler gets its turn however many prompts ask, also when the     *)
(* channel is full: waiting senders are served in order.                   *)
(***************************************************************************)
TickServed == ticker.stage = "waiting" ~> ticker.stage # "waiting"
==============================================================================
