------------------------ MODULE PromptExchange_proofs ------------------------
(***************************************************************************)
(* For every number of prompts and watch views, every size of the command  *)
(* channel and every length of an answer: the mark of an entry has exactly *)
(* one refresh behind it, and PromptExchange implements PromptService.     *)
(***************************************************************************)
EXTENDS PromptExchange, FiniteSetTheorems, SequenceTheorems, TLAPS

Task == Requester \cup {Scheduler}

\* A place in the channel, or in the line before it.
Queued(t) ==
  \/ \E i \in 1 .. Len(channel) : channel[i] = t
  \/ \E i \in 1 .. Len(senders) : senders[i] = t

\* Nobody is queued twice.
Once ==
  /\ \A i, j \in 1 .. Len(channel) : channel[i] = channel[j] => i = j
  /\ \A i, j \in 1 .. Len(senders) : senders[i] = senders[j] => i = j
  /\ \A i \in 1 .. Len(channel), j \in 1 .. Len(senders) : channel[i] # senders[j]

\* Whoever is queued waits for the actor.
WaitsForActor(t) ==
  IF t \in Requester THEN conn[t].stage = "waiting" ELSE ticker.stage = "waiting"

LineInv == Once /\ \A t \in Task : Queued(t) => WaitsForActor(t)

\* A client and its connection agree.
ConnOK(k, p) ==
  /\ k.effect => k.stage = "writing"
  /\ k.stage \in {"none", "backlog", "accepted", "waiting"} => k.reply = Nothing
  /\ k.stage = "writing" \/ k.sent > 0 => k.reply # Nothing
  /\ p.stage = "idle" => k.stage = "none"
  /\ p.stage \in {"connected", "reading"} => k.open /\ k.stage # "none"
  /\ p.stage \in {"idle", "connected", "reading"} => p.output = Nothing

ConnInv == \A c \in Client : ConnOK(conn[c], client[c])

\* The connection of an Update is never answered, and there is one only after the fetch.
RefreshInv ==
  /\ conn[Refresh].stage \in {"none", "backlog", "accepted", "waiting"}
  /\ conn[Refresh].stage # "none" => fetch = "sent" /\ conn[Refresh].request

TickerInv == ticker.effect => ticker.stage = "drain"

Carries(t) ==
  IF t \in Client THEN conn[t].effect
  ELSE IF t = Scheduler THEN ticker.effect ELSE fetch # "none"

\* At most one task carries a refresh, and one does if and only if the entry is marked.
CarriedInv ==
  /\ refreshing <=> \E t \in Task : Carries(t)
  /\ \A t, u \in Task : Carries(t) /\ Carries(u) => t = u

Inv == TypeOK /\ LineInv /\ ConnInv /\ RefreshInv /\ TickerInv /\ CarriedInv

USE DEF Client, Requester

------------------------------------------------------------------------------
(* The line before the actor. *)

\* A new sender is the only one the line gains.
LEMMA SendFacts ==
  ASSUME TypeOK, Once, NEW t \in Task, ~Queued(t), Send(t)
  PROVE  /\ channel' \in Seq(Task) /\ Len(channel') <= COMMAND_CHANNEL_SIZE
         /\ senders' \in Seq(Task)
         /\ Once'
         /\ \A u : Queued(u)' => Queued(u) \/ u = t
<1>1. channel \in Seq(Task) /\ senders \in Seq(Task) /\ Len(channel) <= COMMAND_CHANNEL_SIZE
      /\ COMMAND_CHANNEL_SIZE \in Nat
  BY ExchangeAssumption DEF TypeOK, Task
<1>2. CASE Len(channel) < COMMAND_CHANNEL_SIZE /\ senders = <<>>
  <2>1. channel' = Append(channel, t) /\ senders' = senders
    BY <1>2 DEF Send
  <2>2. /\ channel' \in Seq(Task) /\ Len(channel') = Len(channel) + 1
        /\ \A i \in 1 .. Len(channel) : channel'[i] = channel[i]
        /\ channel'[Len(channel) + 1] = t
    BY <1>1, <2>1, AppendProperties
  <2> QED
    BY <1>1, <1>2, <2>1, <2>2 DEF Once, Queued
<1>3. CASE ~(Len(channel) < COMMAND_CHANNEL_SIZE /\ senders = <<>>)
  <2>1. senders' = Append(senders, t) /\ channel' = channel
    BY <1>3 DEF Send
  <2>2. /\ senders' \in Seq(Task) /\ Len(senders') = Len(senders) + 1
        /\ \A i \in 1 .. Len(senders) : senders'[i] = senders[i]
        /\ senders'[Len(senders) + 1] = t
    BY <1>1, <2>1, AppendProperties
  <2> QED
    BY <1>1, <2>1, <2>2 DEF Once, Queued
<1> QED
  BY <1>2, <1>3

\* Whoever is received leaves the line, and nobody joins it.
LEMMA ReceiveFacts ==
  ASSUME TypeOK, Once, Receive
  PROVE  /\ channel' \in Seq(Task) /\ Len(channel') <= COMMAND_CHANNEL_SIZE
         /\ senders' \in Seq(Task)
         /\ Head(channel) \in Task /\ Queued(Head(channel))
         /\ Once'
         /\ \A u : Queued(u)' => Queued(u) /\ u # Head(channel)
<1> DEFINE t == Head(channel)
           m == Len(channel)
           n == Len(senders)
<1>1. channel \in Seq(Task) /\ senders \in Seq(Task) /\ m <= COMMAND_CHANNEL_SIZE
      /\ COMMAND_CHANNEL_SIZE \in Nat /\ channel # <<>>
  BY ExchangeAssumption DEF TypeOK, Task, Receive
<1>2. /\ t \in Task /\ t = channel[1] /\ m \in Nat /\ m >= 1 /\ n \in Nat
      /\ Tail(channel) \in Seq(Task) /\ Len(Tail(channel)) = m - 1
      /\ \A i \in 1 .. m - 1 : Tail(channel)[i] = channel[i + 1]
  BY <1>1, HeadTailProperties
<1>3. /\ \A i, j \in 1 .. m : channel[i] = channel[j] => i = j
      /\ \A i, j \in 1 .. n : senders[i] = senders[j] => i = j
      /\ \A i \in 1 .. m, j \in 1 .. n : channel[i] # senders[j]
  BY DEF Once
<1>4. \A u : Queued(u) <=> \/ \E i \in 1 .. m : channel[i] = u
                           \/ \E i \in 1 .. n : senders[i] = u
  BY DEF Queued
\* What is in the channel by now was further back; what is before it, too.
<1>5. /\ channel' \in Seq(Task) /\ Len(channel') <= m
      /\ senders' \in Seq(Task)
      /\ \A i \in 1 .. Len(channel') :
           \/ i + 1 \in 1 .. m /\ channel'[i] = channel[i + 1]
           \/ i = m /\ 1 \in 1 .. n /\ channel'[i] = senders[1]
      /\ \A i \in 1 .. Len(senders') : i + 1 \in 1 .. n /\ senders'[i] = senders[i + 1]
  <2>1. CASE senders = <<>>
    <3>1. channel' = Tail(channel) /\ senders' = <<>>
      BY <2>1 DEF Receive
    <3> HIDE DEF m, n
    <3> QED
      BY <1>2, <3>1
  <2>2. CASE senders # <<>>
    <3>1. channel' = Append(Tail(channel), Head(senders)) /\ senders' = Tail(senders)
      BY <2>2 DEF Receive
    <3>2. /\ Head(senders) \in Task /\ Head(senders) = senders[1] /\ n >= 1
          /\ senders' \in Seq(Task) /\ Len(senders') = n - 1
          /\ \A i \in 1 .. n - 1 : senders'[i] = senders[i + 1]
      BY <1>1, <2>2, <3>1, HeadTailProperties
    <3> HIDE DEF m, n
    <3>3. /\ channel' \in Seq(Task) /\ Len(channel') = m
          /\ \A i \in 1 .. m - 1 : channel'[i] = channel[i + 1]
          /\ channel'[m] = senders[1]
      <4>1. /\ channel' \in Seq(Task) /\ Len(channel') = (m - 1) + 1
            /\ \A i \in 1 .. m - 1 : channel'[i] = Tail(channel)[i]
            /\ channel'[(m - 1) + 1] = senders[1]
        BY <1>2, <3>1, <3>2, AppendProperties
      <4> QED
        BY <1>2, <4>1
    <3> QED
      BY <1>2, <3>2, <3>3
  <2> QED
    BY <2>1, <2>2
<1> DEFINE m2 == Len(channel')
           n2 == Len(senders')
<1>6. m2 \in Nat /\ n2 \in Nat
  BY <1>5
<1> HIDE DEF m, n, t
<1>7. Once'
  <2> HIDE DEF m2, n2
  <2>1. \A i, j \in 1 .. m2 : channel'[i] = channel'[j] => i = j
    <3> SUFFICES ASSUME NEW i \in 1 .. m2, NEW j \in 1 .. m2, channel'[i] = channel'[j]
                 PROVE  i = j
      OBVIOUS
    <3> QED
      BY <1>2, <1>3, <1>5, <1>6 DEF m2
  <2>2. \A i, j \in 1 .. n2 : senders'[i] = senders'[j] => i = j
    <3> SUFFICES ASSUME NEW i \in 1 .. n2, NEW j \in 1 .. n2, senders'[i] = senders'[j]
                 PROVE  i = j
      OBVIOUS
    <3> QED
      BY <1>2, <1>3, <1>5, <1>6 DEF n2
  <2>3. \A i \in 1 .. m2, j \in 1 .. n2 : channel'[i] # senders'[j]
    <3> SUFFICES ASSUME NEW i \in 1 .. m2, NEW j \in 1 .. n2
                 PROVE  channel'[i] # senders'[j]
      OBVIOUS
    <3>1. j + 1 \in 1 .. n /\ senders'[j] = senders[j + 1] /\ j + 1 # 1
      BY <1>5, <1>6 DEF n2
    <3> QED
      BY <1>2, <1>3, <1>5, <1>6, <3>1 DEF m2
  <2> QED
    BY <2>1, <2>2, <2>3 DEF Once, m2, n2
<1>8. \A u : Queued(u)' <=> \/ \E i \in 1 .. m2 : channel'[i] = u
                            \/ \E i \in 1 .. n2 : senders'[i] = u
  BY DEF Queued
<1>9. \A u : Queued(u)' => Queued(u) /\ u # t
  <2>1. 1 \in 1 .. m
    BY <1>2
  <2>2. \A i \in 1 .. m2 : channel'[i] # t
    <3> SUFFICES ASSUME NEW i \in 1 .. m2 PROVE channel'[i] # t
      OBVIOUS
    <3>1. CASE i + 1 \in 1 .. m /\ channel'[i] = channel[i + 1]
      BY <1>2, <1>3, <1>6, <2>1, <3>1
    <3>2. CASE 1 \in 1 .. n /\ channel'[i] = senders[1]
      BY <1>2, <1>3, <2>1, <3>2
    <3> QED
      BY <1>5, <3>1, <3>2 DEF m2
  <2>3. \A i \in 1 .. n2 : senders'[i] # t
    BY <1>2, <1>3, <1>5, <2>1 DEF n2
  <2> QED
    BY <1>4, <1>5, <1>8, <2>2, <2>3 DEF m2, n2
<1>11. Queued(t)
  <2>1. 1 \in 1 .. m
    BY <1>2
  <2> QED
    BY <1>2, <1>4, <2>1
<1>10. m2 <= COMMAND_CHANNEL_SIZE
  BY <1>1, <1>2, <1>5, <1>6
<1> QED
  BY <1>2, <1>5, <1>7, <1>9, <1>10, <1>11 DEF t

------------------------------------------------------------------------------
(* The records the steps build. *)

ConnIs(k, stage, request, open, reply, effect, sent) ==
  /\ k \in Conn
  /\ k.stage = stage /\ k.request = request /\ k.open = open
  /\ k.reply = reply /\ k.effect = effect /\ k.sent = sent

LEMMA ConnFacts ==
  ASSUME NEW k \in Conn
  PROVE  /\ ConnIs([k EXCEPT !.stage = "accepted"],
                   "accepted", k.request, k.open, k.reply, k.effect, k.sent)
         /\ ConnIs([k EXCEPT !.stage = "waiting"],
                   "waiting", k.request, k.open, k.reply, k.effect, k.sent)
         /\ ConnIs([k EXCEPT !.sent = k.sent + 1],
                   k.stage, k.request, k.open, k.reply, k.effect, k.sent + 1)
         /\ ConnIs([k EXCEPT !.stage = "closed", !.effect = FALSE],
                   "closed", k.request, k.open, k.reply, FALSE, k.sent)
         /\ ConnIs([k EXCEPT !.open = FALSE],
                   k.stage, k.request, FALSE, k.reply, k.effect, k.sent)
         /\ ConnIs([k EXCEPT !.request = TRUE],
                   k.stage, TRUE, k.open, k.reply, k.effect, k.sent)
<1>1. ConnIs([k EXCEPT !.stage = "accepted"],
       "accepted", k.request, k.open, k.reply, k.effect, k.sent)
  BY DEF ConnIs, Conn
<1>2. ConnIs([k EXCEPT !.stage = "waiting"],
       "waiting", k.request, k.open, k.reply, k.effect, k.sent)
  BY DEF ConnIs, Conn
<1>3. ConnIs([k EXCEPT !.sent = k.sent + 1],
       k.stage, k.request, k.open, k.reply, k.effect, k.sent + 1)
  BY DEF ConnIs, Conn
<1>4. ConnIs([k EXCEPT !.stage = "closed", !.effect = FALSE],
       "closed", k.request, k.open, k.reply, FALSE, k.sent)
  BY DEF ConnIs, Conn
<1>5. ConnIs([k EXCEPT !.open = FALSE], k.stage, k.request, FALSE, k.reply, k.effect, k.sent)
  BY DEF ConnIs, Conn
<1>6. ConnIs([k EXCEPT !.request = TRUE], k.stage, TRUE, k.open, k.reply, k.effect, k.sent)
  BY DEF ConnIs, Conn
<1> QED
  BY <1>1, <1>2, <1>3, <1>4, <1>5, <1>6

LEMMA ReplyFacts ==
  ASSUME NEW k \in Conn, NEW v \in Shown, NEW e \in BOOLEAN
  PROVE  /\ ConnIs([k EXCEPT !.stage = "writing", !.reply = v, !.effect = e],
                   "writing", k.request, k.open, v, e, k.sent)
         /\ ConnIs([k EXCEPT !.stage = "writing", !.reply = v],
                   "writing", k.request, k.open, v, k.effect, k.sent)
<1>1. ConnIs([k EXCEPT !.stage = "writing", !.reply = v, !.effect = e],
       "writing", k.request, k.open, v, e, k.sent)
  BY DEF ConnIs, Conn
<1>2. ConnIs([k EXCEPT !.stage = "writing", !.reply = v],
       "writing", k.request, k.open, v, k.effect, k.sent)
  BY DEF ConnIs, Conn
<1> QED
  BY <1>1, <1>2

LEMMA NoConnFacts ==
  /\ ConnIs(NoConn, "none", FALSE, FALSE, Nothing, FALSE, 0)
  /\ ConnIs([NoConn EXCEPT !.stage = "backlog", !.request = TRUE],
            "backlog", TRUE, FALSE, Nothing, FALSE, 0)
  /\ ConnIs([NoConn EXCEPT !.stage = "backlog", !.open = TRUE],
            "backlog", FALSE, TRUE, Nothing, FALSE, 0)
BY DEF ConnIs, Conn, NoConn

ClientIs(p, stage, left, got, output) ==
  /\ p \in ClientState
  /\ p.stage = stage /\ p.left = left /\ p.got = got /\ p.output = output

LEMMA ClientFacts ==
  ASSUME NEW p \in ClientState
  PROVE  /\ ClientIs([p EXCEPT !.stage = "connected"], "connected", p.left, p.got, p.output)
         /\ ClientIs([p EXCEPT !.stage = "reading", !.left = RESPONSE_TIMEOUT_MS],
                     "reading", RESPONSE_TIMEOUT_MS, p.got, p.output)
         /\ ClientIs([p EXCEPT !.stage = "quit"], "quit", p.left, p.got, p.output)
         /\ p.left > 0 =>
              ClientIs([p EXCEPT !.left = p.left - 1], p.stage, p.left - 1, p.got, p.output)
         /\ \A n \in Nat :
              ClientIs([p EXCEPT !.got = n], p.stage, p.left, n, p.output)
<1>1. ClientIs([p EXCEPT !.stage = "connected"], "connected", p.left, p.got, p.output)
  BY ExchangeAssumption DEF ClientIs, ClientState
<1>2. ClientIs([p EXCEPT !.stage = "reading", !.left = RESPONSE_TIMEOUT_MS],
       "reading", RESPONSE_TIMEOUT_MS, p.got, p.output)
  <2> DEFINE a == [p EXCEPT !.stage = "reading"]
  <2>1. ClientIs(a, "reading", p.left, p.got, p.output)
    BY DEF ClientIs, ClientState
  <2>2. RESPONSE_TIMEOUT_MS \in 0 .. RESPONSE_TIMEOUT_MS
    BY ExchangeAssumption
  <2> HIDE DEF a
  <2>3. ClientIs([a EXCEPT !.left = RESPONSE_TIMEOUT_MS],
                 "reading", RESPONSE_TIMEOUT_MS, p.got, p.output)
    BY <2>1, <2>2 DEF ClientIs, ClientState
  <2> QED
    BY <2>3 DEF a
<1>3. ClientIs([p EXCEPT !.stage = "quit"], "quit", p.left, p.got, p.output)
  BY ExchangeAssumption DEF ClientIs, ClientState
<1>4. p.left > 0 =>
       ClientIs([p EXCEPT !.left = p.left - 1], p.stage, p.left - 1, p.got, p.output)
  BY ExchangeAssumption DEF ClientIs, ClientState
<1>5. \A n \in Nat : ClientIs([p EXCEPT !.got = n], p.stage, p.left, n, p.output)
  BY ExchangeAssumption DEF ClientIs, ClientState
<1> QED
  BY <1>1, <1>2, <1>3, <1>4, <1>5

LEMMA IdleFacts == ClientIs(IdleClient, "idle", 0, 0, Nothing)
BY ExchangeAssumption DEF ClientIs, ClientState, IdleClient

LEMMA DoneFacts ==
  ASSUME NEW v \in Shown \cup {Nothing}, NEW s \in {"done", "quit"}
  PROVE  ClientIs([IdleClient EXCEPT !.stage = s, !.output = v], s, 0, 0, v)
<1> DEFINE a == [IdleClient EXCEPT !.stage = s]
<1>1. IdleClient \in ClientState /\ IdleClient.left = 0 /\ IdleClient.got = 0
      /\ IdleClient.output = Nothing
  BY IdleFacts DEF ClientIs
<1>2. ClientIs(a, s, 0, 0, Nothing)
  BY <1>1 DEF ClientIs, ClientState
<1> HIDE DEF a
<1>3. ClientIs([a EXCEPT !.output = v], s, 0, 0, v)
  BY <1>2 DEF ClientIs, ClientState
<1> QED
  BY <1>3 DEF a

------------------------------------------------------------------------------
(* What most steps leave as it is. *)

\* Nobody joins the line, and whoever waits goes on waiting.
LEMMA LineKept ==
  ASSUME LineInv, UNCHANGED queueVars,
         \A t \in Task : WaitsForActor(t) => WaitsForActor(t)'
  PROVE  LineInv'
<1>1. Once'
  BY DEF LineInv, Once, queueVars
<1>2. \A t : Queued(t)' <=> Queued(t)
  BY DEF Queued, queueVars
<1> QED
  BY <1>1, <1>2 DEF LineInv

LEMMA CarriedKept ==
  ASSUME CarriedInv, refreshing' = refreshing, \A t \in Task : Carries(t)' <=> Carries(t)
  PROVE  CarriedInv'
BY DEF CarriedInv

\* A step of a client and its connection, or of a connection, that hands no effect on.
LEMMA ConnStepInv ==
  ASSUME Inv, NEW c \in Requester, NEW k \in Conn, SetConn(c, k),
         client' \in [Client -> ClientState],
         \A d \in Client : d # c => client'[d] = client[d],
         UNCHANGED <<daemonVars, queueVars, fetch, ticker>>,
         conn[c].stage = "waiting" => k.stage = "waiting",
         c \in Client => ConnOK(k, client'[c]) /\ k.effect = conn[c].effect,
         c = Refresh => /\ k.stage \in {"none", "backlog", "accepted", "waiting"}
                        /\ k.stage # "none" => fetch = "sent" /\ k.request
  PROVE  Inv'
<1>1. TypeOK'
  BY DEF Inv, TypeOK, SetConn, daemonVars, queueVars
<1>2. /\ conn'[c] = k
      /\ \A d \in Requester : d # c => conn'[d] = conn[d]
  BY DEF Inv, TypeOK, SetConn
<1>3. Refresh \notin Client /\ Scheduler \notin Requester
  BY ExchangeAssumption
<1>4. LineInv'
  <2>1. \A t \in Task : WaitsForActor(t) => WaitsForActor(t)'
    BY <1>2 DEF WaitsForActor
  <2> QED
    BY <2>1, LineKept DEF Inv
<1>5. ConnInv'
  BY <1>2 DEF Inv, ConnInv, ConnOK
<1>6. RefreshInv' /\ TickerInv'
  BY <1>2 DEF Inv, RefreshInv, TickerInv
<1>7. CarriedInv'
  <2>1. \A t \in Task : Carries(t)' <=> Carries(t)
    BY <1>2, <1>3 DEF Carries
  <2> QED
    BY <2>1, CarriedKept DEF Inv, daemonVars
<1> QED
  BY <1>1, <1>4, <1>5, <1>6, <1>7 DEF Inv

\* A step of clients alone.
LEMMA ClientStepInv ==
  ASSUME Inv, UNCHANGED <<daemonVars, queueVars, conn, fetch, ticker>>,
         client' \in [Client -> ClientState],
         \A c \in Client : ConnOK(conn[c], client'[c])
  PROVE  Inv'
<1>1. TypeOK'
  BY DEF Inv, TypeOK, daemonVars, queueVars
<1>2. LineInv'
  BY LineKept DEF Inv, WaitsForActor
<1>3. ConnInv' /\ RefreshInv' /\ TickerInv'
  BY DEF Inv, ConnInv, RefreshInv, TickerInv
<1>4. CarriedInv'
  BY CarriedKept DEF Inv, Carries, daemonVars
<1> QED
  BY <1>1, <1>2, <1>3, <1>4 DEF Inv

\* A step that changes neither connections nor clients.
LEMMA TaskStepInv ==
  ASSUME Inv, UNCHANGED <<conn, client>>, TypeOK', LineInv', RefreshInv', TickerInv', CarriedInv'
  PROVE  Inv'
BY DEF Inv, ConnInv

\* What the invariant says of a requester.
LEMMA RequesterFacts ==
  ASSUME Inv, NEW c \in Requester
  PROVE  /\ conn[c] \in Conn
         /\ c \in Client => client[c] \in ClientState /\ ConnOK(conn[c], client[c])
         /\ c \in Client => c # Refresh /\ c # Scheduler
         /\ c \notin Client => c = Refresh
BY ExchangeAssumption DEF Inv, TypeOK, ConnInv

------------------------------------------------------------------------------
(* Clients. *)

LEMMA EndsInv ==
  ASSUME Inv, NEW c \in Client, NEW output \in Shown \cup {Nothing}, Ends(c, output)
  PROVE  Inv'
<1> DEFINE s == IF c \in Watch /\ output = Nothing THEN "quit" ELSE "done"
           p == [IdleClient EXCEPT !.stage = s, !.output = output]
           gone == [conn[c] EXCEPT !.open = FALSE]
           k == IF conn[c].stage \in {"none", "closed"} THEN NoConn ELSE gone
<1>1. SetClient(c, p) /\ SetConn(c, k) /\ UNCHANGED <<daemonVars, queueVars, fetch, ticker>>
  BY DEF Ends
<1>2. conn[c] \in Conn /\ ConnOK(conn[c], client[c]) /\ c # Refresh
  BY RequesterFacts
<1>3. ClientIs(p, s, 0, 0, output)
  BY DoneFacts
<1>4. /\ ConnIs(NoConn, "none", FALSE, FALSE, Nothing, FALSE, 0)
      /\ ConnIs(gone, conn[c].stage, conn[c].request, FALSE, conn[c].reply, conn[c].effect,
                conn[c].sent)
  BY <1>2, NoConnFacts, ConnFacts
<1>5. s \in {"done", "quit"}
  OBVIOUS
<1> HIDE DEF s, p, gone
<1>6. k \in Conn /\ ConnOK(k, p) /\ k.effect = conn[c].effect
      /\ (conn[c].stage = "waiting" => k.stage = "waiting")
  <2>1. CASE conn[c].stage \in {"none", "closed"}
    BY <1>2, <1>3, <1>4, <1>5, <2>1 DEF ConnIs, ClientIs, ConnOK, Conn
  <2>2. CASE conn[c].stage \notin {"none", "closed"}
    BY <1>2, <1>3, <1>4, <1>5, <2>2 DEF ConnIs, ClientIs, ConnOK
  <2> QED
    BY <2>1, <2>2
<1>7. /\ client' \in [Client -> ClientState] /\ client'[c] = p
      /\ \A d \in Client : d # c => client'[d] = client[d]
  BY <1>1, <1>3 DEF SetClient, Inv, TypeOK, ClientIs
<1> HIDE DEF k
<1> QED
  BY <1>1, <1>2, <1>6, <1>7, ConnStepInv

LEMMA ConnectInv == ASSUME Inv, NEW c \in Client, Connect(c) PROVE Inv'
<1> DEFINE p == [client[c] EXCEPT !.stage = "connected"]
           k == [NoConn EXCEPT !.stage = "backlog", !.open = TRUE]
<1>1. SetClient(c, p) /\ SetConn(c, k) /\ client[c].stage = "idle"
      /\ UNCHANGED <<daemonVars, queueVars, fetch, ticker>>
  BY DEF Connect
<1>2. client[c] \in ClientState /\ ConnOK(conn[c], client[c]) /\ c # Refresh
  BY RequesterFacts
<1>3. ClientIs(p, "connected", client[c].left, client[c].got, client[c].output)
  BY <1>2, ClientFacts
<1>4. ConnIs(k, "backlog", FALSE, TRUE, Nothing, FALSE, 0)
  BY NoConnFacts
<1> HIDE DEF p, k
<1>5. k \in Conn /\ ConnOK(k, p) /\ k.effect = conn[c].effect /\ conn[c].stage = "none"
  BY <1>1, <1>2, <1>3, <1>4, RequesterFacts DEF ConnIs, ClientIs, ConnOK, Conn
<1>6. /\ client' \in [Client -> ClientState] /\ client'[c] = p
      /\ \A d \in Client : d # c => client'[d] = client[d]
  BY <1>1, <1>3 DEF SetClient, Inv, TypeOK, ClientIs
<1> QED
  BY <1>1, <1>2, <1>5, <1>6, ConnStepInv

LEMMA WriteRequestInv == ASSUME Inv, NEW c \in Client, WriteRequest(c) PROVE Inv'
<1> DEFINE p == [client[c] EXCEPT !.stage = "reading", !.left = RESPONSE_TIMEOUT_MS]
           k == [conn[c] EXCEPT !.request = TRUE]
<1>1. SetClient(c, p) /\ SetConn(c, k) /\ client[c].stage = "connected"
      /\ UNCHANGED <<daemonVars, queueVars, fetch, ticker>>
  BY DEF WriteRequest
<1>2. conn[c] \in Conn /\ client[c] \in ClientState /\ ConnOK(conn[c], client[c]) /\ c # Refresh
  BY RequesterFacts
<1>3. ClientIs(p, "reading", RESPONSE_TIMEOUT_MS, client[c].got, client[c].output)
  BY <1>2, ClientFacts
<1>4. ConnIs(k, conn[c].stage, TRUE, conn[c].open, conn[c].reply, conn[c].effect, conn[c].sent)
  BY <1>2, ConnFacts
<1> HIDE DEF p, k
<1>5. k \in Conn /\ ConnOK(k, p) /\ k.effect = conn[c].effect /\ k.stage = conn[c].stage
  BY <1>1, <1>2, <1>3, <1>4 DEF ConnIs, ClientIs, ConnOK
<1>6. /\ client' \in [Client -> ClientState] /\ client'[c] = p
      /\ \A d \in Client : d # c => client'[d] = client[d]
  BY <1>1, <1>3 DEF SetClient, Inv, TypeOK, ClientIs
<1> QED
  BY <1>1, <1>2, <1>5, <1>6, ConnStepInv

\* A step of one client that touches nothing else.
LEMMA OneClientInv ==
  ASSUME Inv, NEW c \in Client, NEW p \in ClientState, SetClient(c, p),
         UNCHANGED <<daemonVars, queueVars, conn, fetch, ticker>>, ConnOK(conn[c], p)
  PROVE  Inv'
<1>1. client' \in [Client -> ClientState] /\ client'[c] = p
      /\ \A d \in Client : d # c => client'[d] = client[d]
  BY DEF SetClient, Inv, TypeOK
<1>2. \A d \in Client : ConnOK(conn[d], client'[d])
  BY <1>1 DEF Inv, ConnInv
<1> QED
  BY <1>1, <1>2, ClientStepInv

LEMMA AgainInv == ASSUME Inv, NEW c \in Client, Again(c) PROVE Inv'
<1>1. SetClient(c, IdleClient) /\ conn[c].stage = "none"
      /\ UNCHANGED <<daemonVars, queueVars, conn, fetch, ticker>>
  BY DEF Again
<1>2. ClientIs(IdleClient, "idle", 0, 0, Nothing)
  BY IdleFacts
<1>3. IdleClient \in ClientState /\ ConnOK(conn[c], IdleClient)
  BY <1>1, <1>2, RequesterFacts DEF ClientIs, ConnOK
<1> QED
  BY <1>1, <1>3, OneClientInv

LEMMA InterruptInv == ASSUME Inv, NEW c \in Client, Interrupt(c) PROVE Inv'
<1> DEFINE p == [client[c] EXCEPT !.stage = "quit"]
<1>1. SetClient(c, p) /\ UNCHANGED <<daemonVars, queueVars, conn, fetch, ticker>>
  BY DEF Interrupt
<1>2. client[c] \in ClientState /\ ConnOK(conn[c], client[c])
  BY RequesterFacts
<1>3. ClientIs(p, "quit", client[c].left, client[c].got, client[c].output)
  BY <1>2, ClientFacts
<1> HIDE DEF p
<1>4. p \in ClientState /\ ConnOK(conn[c], p)
  BY <1>2, <1>3 DEF ClientIs, ConnOK
<1> QED
  BY <1>1, <1>4, OneClientInv

LEMMA ReadInv == ASSUME Inv, NEW c \in Client, Read(c) PROVE Inv'
<1>1. PICK upto \in client[c].got + 1 .. conn[c].sent :
        LET n == Capped(c, upto)
        IN \/ WholeLine(c, n) /\ Ends(c, conn[c].reply)
           \/ ~WholeLine(c, n) /\ c \in Prompt /\ n = MAX_RESPONSE_BYTES /\ Ends(c, Nothing)
           \/ /\ ~WholeLine(c, n) /\ ~(c \in Prompt /\ n = MAX_RESPONSE_BYTES)
              /\ SetClient(c, [client[c] EXCEPT !.got = n])
              /\ UNCHANGED <<daemonVars, queueVars, conn, fetch, ticker>>
  BY DEF Read
<1> DEFINE n == Capped(c, upto)
           p == [client[c] EXCEPT !.got = n]
<1>2. conn[c] \in Conn /\ client[c] \in ClientState /\ ConnOK(conn[c], client[c])
  BY RequesterFacts
<1>3. conn[c].reply \in Shown \cup {Nothing}
  BY <1>2 DEF Conn
<1>4. CASE Ends(c, conn[c].reply)
  BY <1>3, <1>4, EndsInv
<1>5. CASE Ends(c, Nothing)
  BY <1>5, EndsInv
<1>6. CASE SetClient(c, p) /\ UNCHANGED <<daemonVars, queueVars, conn, fetch, ticker>>
  <2>1. n \in Nat
    BY <1>2, ExchangeAssumption DEF Capped, ClientState, Conn
  <2> HIDE DEF n
  <2>2. ClientIs(p, client[c].stage, client[c].left, n, client[c].output)
    BY <1>2, <2>1, ClientFacts
  <2> HIDE DEF p
  <2>3. p \in ClientState /\ ConnOK(conn[c], p)
    BY <1>2, <2>2 DEF ClientIs, ConnOK
  <2> QED
    BY <1>6, <2>3, OneClientInv
<1> QED
  BY <1>1, <1>4, <1>5, <1>6

LEMMA ReadEofInv == ASSUME Inv, NEW c \in Client, ReadEof(c) PROVE Inv'
<1>1. conn[c].reply \in Shown \cup {Nothing}
  BY RequesterFacts DEF Conn
<1>2. Ends(c, conn[c].reply) \/ Ends(c, Nothing)
  BY DEF ReadEof
<1> QED
  BY <1>1, <1>2, EndsInv

LEMMA GivesUpInv ==
  ASSUME Inv, NEW c \in Client, CannotConnect(c) \/ CannotWrite(c) \/ DeadlinePasses(c)
  PROVE  Inv'
<1>1. Ends(c, Nothing)
  BY DEF CannotConnect, CannotWrite, DeadlinePasses
<1> QED
  BY <1>1, EndsInv

LEMMA AdvanceInv == ASSUME Inv, Advance PROVE Inv'
<1>1. /\ UNCHANGED <<daemonVars, queueVars, conn, fetch, ticker>>
      /\ client' = [c \in Client |-> IF Waits(c) THEN [client[c] EXCEPT !.left = client[c].left - 1]
                                     ELSE client[c]]
  BY DEF Advance
<1>2. ASSUME NEW c \in Client PROVE client'[c] \in ClientState /\ ConnOK(conn[c], client'[c])
  <2>1. client[c] \in ClientState /\ ConnOK(conn[c], client[c])
    BY RequesterFacts
  <2>2. CASE Waits(c)
    <3> DEFINE p == [client[c] EXCEPT !.left = client[c].left - 1]
    <3>1. client'[c] = p
      BY <1>1, <2>2
    <3>2. ClientIs(p, client[c].stage, client[c].left - 1, client[c].got, client[c].output)
      BY <2>1, <2>2, ClientFacts DEF Waits
    <3> HIDE DEF p
    <3> QED
      BY <2>1, <3>1, <3>2 DEF ClientIs, ConnOK
  <2>3. CASE ~Waits(c)
    BY <1>1, <2>1, <2>3
  <2> QED
    BY <2>2, <2>3
<1>3. client' \in [Client -> ClientState]
  BY <1>1, <1>2
<1> QED
  BY <1>1, <1>2, <1>3, ClientStepInv

------------------------------------------------------------------------------
(* The tasks of the connections. *)

LEMMA AcceptInv == ASSUME Inv, NEW c \in Requester, Accept(c) PROVE Inv'
<1> DEFINE k == [conn[c] EXCEPT !.stage = "accepted"]
<1>1. SetConn(c, k) /\ conn[c].stage = "backlog" /\ client' = client
      /\ UNCHANGED <<daemonVars, queueVars, fetch, ticker>>
  BY DEF Accept
<1>2. /\ conn[c] \in Conn
      /\ c \in Client => ConnOK(conn[c], client[c]) /\ c # Refresh
  BY RequesterFacts
<1>3. ConnIs(k, "accepted", conn[c].request, conn[c].open, conn[c].reply, conn[c].effect,
             conn[c].sent)
  BY <1>2, ConnFacts
<1> HIDE DEF k
<1>4. k \in Conn /\ (c \in Client => ConnOK(k, client[c]) /\ k.effect = conn[c].effect)
  BY <1>1, <1>2, <1>3 DEF ConnIs, ConnOK
<1>5. c = Refresh => k.stage = "accepted" /\ fetch = "sent" /\ k.request
  BY <1>1, <1>3 DEF Inv, RefreshInv, ConnIs
<1>6. client' \in [Client -> ClientState]
  BY <1>1 DEF Inv, TypeOK
<1> QED
  BY <1>1, <1>2, <1>4, <1>5, <1>6, ConnStepInv

LEMMA ReadRequestInv == ASSUME Inv, NEW c \in Requester, ReadRequest(c) PROVE Inv'
<1> DEFINE k == [conn[c] EXCEPT !.stage = "waiting"]
<1>1. conn[c].stage = "accepted" /\ client' = client
      /\ UNCHANGED <<daemonVars, fetch, ticker>>
  BY DEF ReadRequest
<1>2. /\ conn[c] \in Conn
      /\ c \in Client => ConnOK(conn[c], client[c]) /\ c # Refresh
  BY RequesterFacts
<1>3. ConnIs(k, "waiting", conn[c].request, conn[c].open, conn[c].reply, conn[c].effect,
             conn[c].sent)
  BY <1>2, ConnFacts
<1>4. client' \in [Client -> ClientState]
  BY <1>1 DEF Inv, TypeOK
<1>5. CASE ~conn[c].request /\ ~conn[c].open /\ SetConn(c, NoConn) /\ UNCHANGED queueVars
  <2>1. c # Refresh
    BY <1>1, <1>5 DEF Inv, RefreshInv
  <2>2. c \in Client
    BY <2>1, RequesterFacts
  <2>3. NoConn \in Conn /\ ConnOK(NoConn, client[c]) /\ NoConn.effect = conn[c].effect
    BY <1>1, <1>2, <1>5, <2>2, NoConnFacts DEF ConnIs, ConnOK, Conn
  <2> QED
    BY <1>1, <1>4, <1>5, <2>1, <2>2, <2>3, ConnStepInv
<1>6. CASE conn[c].request /\ Send(c) /\ SetConn(c, k)
  <2> HIDE DEF k
  <2>1. c \in Task /\ Scheduler \notin Requester /\ Refresh \notin Client
    BY ExchangeAssumption DEF Task
  <2>2. ~Queued(c)
    BY <1>1, <2>1 DEF Inv, LineInv, WaitsForActor
  <2>3. /\ channel' \in Seq(Task) /\ Len(channel') <= COMMAND_CHANNEL_SIZE
        /\ senders' \in Seq(Task)
        /\ Once'
        /\ \A u : Queued(u)' => Queued(u) \/ u = c
    BY <1>6, <2>1, <2>2, SendFacts DEF Inv, LineInv
  <2>4. /\ k \in Conn /\ conn'[c] = k
        /\ \A d \in Requester : d # c => conn'[d] = conn[d]
    BY <1>3, <1>6 DEF ConnIs, SetConn, Inv, TypeOK
  <2>5. TypeOK'
    BY <1>1, <1>6, <2>3, <2>4 DEF Inv, TypeOK, SetConn, daemonVars, Task
  <2>6. LineInv'
    <3>1. \A t \in Task : WaitsForActor(t) \/ t = c => WaitsForActor(t)'
      BY <1>1, <1>3, <2>1, <2>4 DEF WaitsForActor, ConnIs
    <3> QED
      BY <2>3, <3>1 DEF Inv, LineInv
  <2>7. ConnInv'
    <3>1. c \in Client => ConnOK(k, client[c])
      BY <1>1, <1>2, <1>3 DEF ConnIs, ConnOK
    <3> QED
      BY <1>1, <2>4, <3>1 DEF Inv, ConnInv
  <2>8. RefreshInv' /\ TickerInv'
    BY <1>1, <1>3, <2>4 DEF Inv, RefreshInv, TickerInv, ConnIs
  <2>9. CarriedInv'
    <3>1. \A t \in Task : Carries(t)' <=> Carries(t)
      BY <1>1, <1>3, <2>1, <2>4 DEF Carries, ConnIs
    <3> QED
      BY <1>1, <3>1, CarriedKept DEF Inv, daemonVars
  <2> QED
    BY <2>5, <2>6, <2>7, <2>8, <2>9 DEF Inv
<1> QED
  BY <1>5, <1>6 DEF ReadRequest

LEMMA WriteAnswerInv == ASSUME Inv, NEW c \in Requester, WriteAnswer(c) PROVE Inv'
<1> DEFINE k == [conn[c] EXCEPT !.sent = conn[c].sent + 1]
<1>1. SetConn(c, k) /\ conn[c].stage = "writing" /\ client' = client
      /\ UNCHANGED <<daemonVars, queueVars, fetch, ticker>>
  BY DEF WriteAnswer
<1>2. c # Refresh
  BY <1>1 DEF Inv, RefreshInv
<1>3. c \in Client /\ conn[c] \in Conn /\ ConnOK(conn[c], client[c])
  BY <1>2, RequesterFacts
<1>4. ConnIs(k, conn[c].stage, conn[c].request, conn[c].open, conn[c].reply, conn[c].effect,
             conn[c].sent + 1)
  BY <1>3, ConnFacts
<1> HIDE DEF k
<1>5. k \in Conn /\ ConnOK(k, client[c]) /\ k.effect = conn[c].effect
  BY <1>1, <1>3, <1>4 DEF ConnIs, ConnOK
<1>6. client' \in [Client -> ClientState]
  BY <1>1 DEF Inv, TypeOK
<1> QED
  BY <1>1, <1>2, <1>3, <1>5, <1>6, ConnStepInv

\* The one refresh that was carried is started.
LEMMA CarriedStarts ==
  ASSUME CarriedInv, NEW t \in Task, Carries(t), refreshing' = refreshing,
         \A u \in Task : Carries(u)' <=> u = Refresh
  PROVE  CarriedInv'
BY DEF CarriedInv, Task

LEMMA FinishInv == ASSUME Inv, NEW c \in Requester, Finish(c) PROVE Inv'
<1> DEFINE k == Closed(c)
<1>1. SetConn(c, k) /\ conn[c].stage = "writing" /\ client' = client
      /\ fetch' = (IF conn[c].effect THEN "running" ELSE fetch)
      /\ UNCHANGED <<daemonVars, queueVars, ticker>>
  BY DEF Finish
<1>2. c # Refresh
  BY <1>1 DEF Inv, RefreshInv
<1>3. c \in Client /\ conn[c] \in Conn /\ ConnOK(conn[c], client[c])
  BY <1>2, RequesterFacts
<1>4. k \in Conn /\ ConnOK(k, client[c]) /\ ~k.effect /\ k.stage \in {"closed", "none"}
  <2>1. CASE conn[c].open
    <3>1. k = [conn[c] EXCEPT !.stage = "closed", !.effect = FALSE]
      BY <2>1 DEF Closed
    <3>2. ConnIs([conn[c] EXCEPT !.stage = "closed", !.effect = FALSE],
                 "closed", conn[c].request, conn[c].open, conn[c].reply, FALSE, conn[c].sent)
      BY <1>3, ConnFacts
    <3>3. ConnIs(k, "closed", conn[c].request, conn[c].open, conn[c].reply, FALSE, conn[c].sent)
      BY <3>1, <3>2, Zenon
    <3> QED
      BY <1>1, <1>3, <3>3 DEF ConnIs, ConnOK
  <2>2. CASE ~conn[c].open
    <3>1. k = NoConn
      BY <2>2 DEF Closed
    <3> QED
      BY <1>1, <1>3, <2>2, <3>1, NoConnFacts DEF ConnIs, ConnOK
  <2> QED
    BY <2>1, <2>2
<1>5. client' \in [Client -> ClientState]
  BY <1>1 DEF Inv, TypeOK
<1> HIDE DEF k
<1>6. CASE ~conn[c].effect
  <2>1. conn[c].effect = FALSE /\ k.effect = FALSE
    BY <1>3, <1>4, <1>6 DEF Conn
  <2> QED
    BY <1>1, <1>2, <1>3, <1>4, <1>5, <1>6, <2>1, ConnStepInv
<1>7. CASE conn[c].effect
  <2>1. c \in Task /\ Scheduler \notin Requester /\ Refresh \notin Client /\ Carries(c)
    BY <1>3, <1>7, ExchangeAssumption DEF Task, Carries
  <2>2. fetch = "none" /\ ~ticker.effect
        /\ \A d \in Client : d # c => ~conn[d].effect
    BY <1>2, <2>1 DEF Inv, CarriedInv, Carries, Task
  <2>3. /\ conn'[c] = k
        /\ \A d \in Requester : d # c => conn'[d] = conn[d]
    BY <1>1 DEF SetConn, Inv, TypeOK
  <2>4. TypeOK'
    BY <1>1, <1>4, <1>7 DEF Inv, TypeOK, SetConn, daemonVars, queueVars
  <2>5. LineInv'
    <3>1. \A t \in Task : WaitsForActor(t) => WaitsForActor(t)'
      BY <1>1, <2>3 DEF WaitsForActor
    <3> QED
      BY <1>1, <3>1, LineKept DEF Inv
  <2>6. ConnInv'
    BY <1>1, <1>4, <2>3 DEF Inv, ConnInv
  <2>7. RefreshInv' /\ TickerInv'
    BY <1>1, <1>2, <2>2, <2>3 DEF Inv, RefreshInv, TickerInv
  <2>8. CarriedInv'
    <3>1. \A u \in Task : Carries(u)' <=> u = Refresh
      BY <1>1, <1>4, <1>7, <2>1, <2>2, <2>3 DEF Carries, Task
    <3> QED
      BY <1>1, <2>1, <3>1, CarriedStarts DEF Inv, daemonVars
  <2> QED
    BY <2>4, <2>5, <2>6, <2>7, <2>8 DEF Inv
<1> QED
  BY <1>6, <1>7

------------------------------------------------------------------------------
(* The scheduler, the refresh and the daemon's life. *)

LEMMA TickInv == ASSUME Inv, Tick PROVE Inv'
<1>1. /\ ticker.stage = "idle" /\ Send(Scheduler) /\ ticker' = [ticker EXCEPT !.stage = "waiting"]
      /\ UNCHANGED <<daemonVars, conn, client, fetch>>
  BY DEF Tick
<1>2. Scheduler \in Task /\ Scheduler \notin Requester /\ Refresh \in Requester
      /\ Refresh \notin Client
  BY ExchangeAssumption DEF Task
<1>3. ~Queued(Scheduler)
  BY <1>1, <1>2 DEF Inv, LineInv, WaitsForActor
<1>4. /\ channel' \in Seq(Task) /\ Len(channel') <= COMMAND_CHANNEL_SIZE
      /\ senders' \in Seq(Task)
      /\ Once'
      /\ \A u : Queued(u)' => Queued(u) \/ u = Scheduler
  BY <1>1, <1>2, <1>3, SendFacts DEF Inv, LineInv
<1>5. /\ ticker' \in [stage : {"idle", "waiting", "drain"}, effect : BOOLEAN]
      /\ ticker'.stage = "waiting" /\ ticker'.effect = ticker.effect /\ ~ticker.effect
  BY <1>1 DEF Inv, TypeOK, TickerInv
<1>6. TypeOK'
  BY <1>1, <1>4, <1>5 DEF Inv, TypeOK, daemonVars, Task
<1>7. LineInv'
  <2>1. \A t \in Task : WaitsForActor(t) \/ t = Scheduler => WaitsForActor(t)'
    BY <1>1, <1>2, <1>5 DEF WaitsForActor
  <2> QED
    BY <1>4, <2>1 DEF Inv, LineInv
<1>8. RefreshInv' /\ TickerInv'
  BY <1>1, <1>5 DEF Inv, RefreshInv, TickerInv
<1>9. CarriedInv'
  <2>1. \A t \in Task : Carries(t)' <=> Carries(t)
    BY <1>1, <1>5 DEF Carries
  <2> QED
    BY <1>1, <2>1, CarriedKept DEF Inv, daemonVars
<1> QED
  BY <1>1, <1>6, <1>7, <1>8, <1>9, TaskStepInv

LEMMA DrainTickInv == ASSUME Inv, DrainTick PROVE Inv'
<1>1. /\ ticker.stage = "drain" /\ ticker' = [stage |-> "idle", effect |-> FALSE]
      /\ fetch' = (IF ticker.effect THEN "running" ELSE fetch)
      /\ UNCHANGED <<daemonVars, queueVars, conn, client>>
  BY DEF DrainTick
<1>2. Scheduler \in Task /\ Scheduler \notin Requester /\ Refresh \notin Client
      /\ Refresh \in Task /\ Refresh # Scheduler
  BY ExchangeAssumption DEF Task
<1>3. ticker'.stage = "idle" /\ ~ticker'.effect
  BY <1>1
<1>4. TypeOK'
  BY <1>1 DEF Inv, TypeOK, daemonVars, queueVars
<1>5. LineInv'
  <2>1. \A t \in Task : WaitsForActor(t) => WaitsForActor(t)' \/ t = Scheduler
    BY <1>1 DEF WaitsForActor, Task
  <2>2. ~Queued(Scheduler)
    BY <1>1, <1>2 DEF Inv, LineInv, WaitsForActor
  <2>3. Once' /\ \A t : Queued(t)' <=> Queued(t)
    BY <1>1 DEF Inv, LineInv, Once, Queued, queueVars
  <2> QED
    BY <2>1, <2>2, <2>3 DEF Inv, LineInv
<1>6. CASE ~ticker.effect
  <2>1. fetch' = fetch
    BY <1>1, <1>6
  <2>2. RefreshInv' /\ TickerInv'
    BY <1>1, <1>3, <2>1 DEF Inv, RefreshInv, TickerInv
  <2>3. \A t \in Task : Carries(t)' <=> Carries(t)
    BY <1>1, <1>3, <1>6, <2>1 DEF Carries
  <2>4. CarriedInv'
    BY <1>1, <2>3, CarriedKept DEF Inv, daemonVars
  <2> QED
    BY <1>1, <1>4, <1>5, <2>2, <2>4, TaskStepInv
<1>7. CASE ticker.effect
  <2>1. Carries(Scheduler)
    BY <1>2, <1>7 DEF Carries
  <2>2. fetch = "none" /\ \A d \in Client : ~conn[d].effect
    BY <1>2, <2>1 DEF Inv, CarriedInv, Carries, Task
  <2>3. RefreshInv' /\ TickerInv'
    BY <1>1, <1>3, <2>2 DEF Inv, RefreshInv, TickerInv
  <2>4. \A t \in Task : Carries(t)' <=> t = Refresh
    BY <1>1, <1>2, <1>3, <1>7, <2>2 DEF Carries, Task
  <2>5. CarriedInv'
    BY <1>1, <1>2, <2>1, <2>4, CarriedStarts DEF Inv, daemonVars
  <2> QED
    BY <1>1, <1>4, <1>5, <2>3, <2>5, TaskStepInv
<1> QED
  BY <1>6, <1>7

LEMMA SendUpdateInv == ASSUME Inv, SendUpdate PROVE Inv'
<1> DEFINE k == [NoConn EXCEPT !.stage = "backlog", !.request = TRUE]
<1>1. fetch = "running" /\ fetch' = "sent" /\ SetConn(Refresh, k)
      /\ UNCHANGED <<daemonVars, queueVars, client, ticker>>
  BY DEF SendUpdate
<1>2. Refresh \in Requester /\ Refresh \notin Client /\ Scheduler \notin Requester
  BY ExchangeAssumption
<1>3. ConnIs(k, "backlog", TRUE, FALSE, Nothing, FALSE, 0)
  BY NoConnFacts
<1> HIDE DEF k
<1>4. /\ conn'[Refresh] = k
      /\ \A d \in Requester : d # Refresh => conn'[d] = conn[d]
  BY <1>1, <1>2 DEF SetConn, Inv, TypeOK
<1>5. TypeOK'
  BY <1>1, <1>3 DEF Inv, TypeOK, SetConn, daemonVars, queueVars, ConnIs
<1>6. LineInv'
  <2>1. \A t \in Task : WaitsForActor(t) => WaitsForActor(t)'
    BY <1>1, <1>2, <1>4 DEF WaitsForActor, Inv, RefreshInv
  <2> QED
    BY <1>1, <2>1, LineKept DEF Inv
<1>7. ConnInv'
  BY <1>1, <1>2, <1>4 DEF Inv, ConnInv
<1>8. RefreshInv' /\ TickerInv'
  BY <1>1, <1>3, <1>4 DEF Inv, RefreshInv, TickerInv, ConnIs
<1>9. CarriedInv'
  <2>1. \A t \in Task : Carries(t)' <=> Carries(t)
    BY <1>1, <1>2, <1>4 DEF Carries
  <2> QED
    BY <1>1, <2>1, CarriedKept DEF Inv, daemonVars
<1> QED
  BY <1>5, <1>6, <1>7, <1>8, <1>9 DEF Inv

LEMMA StartInv == ASSUME Inv, Start PROVE Inv'
<1>1. up' = TRUE /\ UNCHANGED <<shown, refreshing, queueVars, conn, client, fetch, ticker>>
  BY DEF Start
<1>2. TypeOK'
  BY <1>1 DEF Inv, TypeOK, queueVars
<1>3. LineInv'
  <2>1. \A t \in Task : WaitsForActor(t) => WaitsForActor(t)'
    BY <1>1 DEF WaitsForActor
  <2> QED
    BY <1>1, <2>1, LineKept DEF Inv
<1>4. RefreshInv' /\ TickerInv'
  BY <1>1 DEF Inv, RefreshInv, TickerInv
<1>5. CarriedInv'
  <2>1. \A t \in Task : Carries(t)' <=> Carries(t)
    BY <1>1 DEF Carries
  <2> QED
    BY <1>1, <2>1, CarriedKept DEF Inv
<1> QED
  BY <1>1, <1>2, <1>3, <1>4, <1>5, TaskStepInv

\* With the daemon everything goes that it held; what it wrote to a client stays.
LEMMA ExitFacts ==
  ASSUME Inv, Exit, NEW c \in Requester
  PROVE  /\ conn'[c] \in Conn /\ ~conn'[c].effect
         /\ c \notin Client => conn'[c].stage = "none"
         /\ c \in Client => ConnOK(conn'[c], client[c])
<1> DEFINE k == [conn[c] EXCEPT !.stage = "closed", !.effect = FALSE]
<1>1. conn'[c] = IF c \in Client /\ conn[c].open /\ conn[c].stage # "none" THEN k ELSE NoConn
  BY DEF Exit
<1>2. conn[c] \in Conn /\ (c \in Client => ConnOK(conn[c], client[c]))
  BY RequesterFacts
<1>3. ConnIs(k, "closed", conn[c].request, conn[c].open, conn[c].reply, FALSE, conn[c].sent)
  BY <1>2, ConnFacts
<1> HIDE DEF k
<1>4. CASE c \in Client /\ conn[c].open /\ conn[c].stage # "none"
  <2>1. conn'[c] = k
    BY <1>1, <1>4
  <2> QED
    BY <1>2, <1>3, <1>4, <2>1 DEF ConnIs, ConnOK
<1>5. CASE ~(c \in Client /\ conn[c].open /\ conn[c].stage # "none")
  <2>1. conn'[c] = NoConn
    BY <1>1, <1>5
  <2> QED
    BY <1>2, <1>5, <2>1, NoConnFacts DEF ConnIs, ConnOK
<1> QED
  BY <1>4, <1>5

LEMMA ExitInv == ASSUME Inv, Exit PROVE Inv'
<1>1. /\ up' = FALSE /\ shown' = Loading /\ refreshing' = FALSE
      /\ channel' = <<>> /\ senders' = <<>> /\ fetch' = "none" /\ client' = client
      /\ ticker' = [stage |-> "idle", effect |-> FALSE]
  BY DEF Exit
<1>2. \A c \in Requester : /\ conn'[c] \in Conn /\ ~conn'[c].effect
                           /\ c \notin Client => conn'[c].stage = "none"
                           /\ c \in Client => ConnOK(conn'[c], client[c])
  BY ExitFacts
<1>3. conn' \in [Requester -> Conn]
  BY <1>2 DEF Exit
<1>4. TypeOK'
  <2>1. channel' \in Seq(Requester \cup {Scheduler}) /\ Len(channel') = 0
        /\ senders' \in Seq(Requester \cup {Scheduler})
    BY <1>1
  <2>2. Len(channel') <= COMMAND_CHANNEL_SIZE
    BY <2>1, ExchangeAssumption
  <2>3. client' \in [Client -> ClientState]
    BY <1>1 DEF Inv, TypeOK
  <2> QED
    BY <1>1, <1>3, <2>1, <2>2, <2>3 DEF TypeOK, Shown
<1>5. LineInv'
  BY <1>1 DEF LineInv, Once, Queued
<1>6. ConnInv'
  BY <1>1, <1>2 DEF ConnInv
<1>7. RefreshInv' /\ TickerInv'
  BY <1>1, <1>2, ExchangeAssumption DEF RefreshInv, TickerInv
<1>8. CarriedInv'
  <2>1. \A t \in Task : ~Carries(t)'
    BY <1>1, <1>2 DEF Carries
  <2> QED
    BY <1>1, <2>1 DEF CarriedInv
<1> QED
  BY <1>4, <1>5, <1>6, <1>7, <1>8 DEF Inv

------------------------------------------------------------------------------
(* The actor. *)

\* Whoever is received no longer waits; the others do.
LEMMA LineReceived ==
  ASSUME LineInv, NEW t, Once', \A u : Queued(u)' => Queued(u) /\ u # t,
         \A u \in Task : u # t /\ WaitsForActor(u) => WaitsForActor(u)'
  PROVE  LineInv'
BY DEF LineInv

\* An unmarked entry that is due is marked, and the refresh is t's to start.
LEMMA CarriedMarks ==
  ASSUME CarriedInv, NEW t \in Task, NEW due \in BOOLEAN, ~Carries(t),
         refreshing' = (refreshing \/ due),
         \A u \in Task : u # t => (Carries(u)' <=> Carries(u)),
         Carries(t)' <=> MarksRefresh(due)
  PROVE  CarriedInv'
BY DEF CarriedInv, MarksRefresh

\* What both kinds of question leave behind.
LEMMA AnsweredInv ==
  ASSUME Inv, Receive, NEW c \in Client, c = Head(channel), NEW k \in Conn, SetConn(c, k),
         NEW due \in BOOLEAN, refreshing' = (refreshing \/ due), refreshing' \in BOOLEAN,
         k.stage = "writing", k.open = conn[c].open, k.reply = shown,
         k.effect <=> MarksRefresh(due),
         UNCHANGED <<up, shown, client, fetch, ticker>>
  PROVE  Inv'
<1>1. /\ channel' \in Seq(Task) /\ Len(channel') <= COMMAND_CHANNEL_SIZE
      /\ senders' \in Seq(Task)
      /\ Queued(c) /\ Once' /\ \A u : Queued(u)' => Queued(u) /\ u # c
  BY ReceiveFacts DEF Inv, LineInv
<1>2. c \in Requester /\ c \in Task /\ c # Refresh /\ Scheduler \notin Requester
      /\ Refresh \notin Client
  BY ExchangeAssumption DEF Task
<1>3. conn[c].stage = "waiting" /\ ConnOK(conn[c], client[c]) /\ conn[c] \in Conn
  BY <1>1, <1>2, RequesterFacts DEF Inv, LineInv, WaitsForActor
<1>4. /\ conn'[c] = k
      /\ \A d \in Requester : d # c => conn'[d] = conn[d]
  BY <1>2 DEF SetConn, Inv, TypeOK
<1>5. TypeOK'
  BY <1>1 DEF Inv, TypeOK, SetConn, Task
<1>6. LineInv'
  <2>1. \A u \in Task : u # c /\ WaitsForActor(u) => WaitsForActor(u)'
    BY <1>4 DEF WaitsForActor
  <2> QED
    BY <1>1, <2>1, LineReceived DEF Inv
<1>7. ConnInv'
  <2>1. k.reply # Nothing
    BY ExchangeAssumption DEF Inv, TypeOK
  <2>2. ConnOK(k, client[c])
    BY <1>3, <2>1 DEF ConnOK
  <2> QED
    BY <1>4, <2>2 DEF Inv, ConnInv
<1>8. RefreshInv' /\ TickerInv'
  BY <1>2, <1>4 DEF Inv, RefreshInv, TickerInv
<1>9. CarriedInv'
  <2>1. \A u \in Task : u # c => (Carries(u)' <=> Carries(u))
    BY <1>2, <1>4 DEF Carries
  <2>2. ~Carries(c)
    BY <1>2, <1>3 DEF Carries, ConnOK
  <2>3. Carries(c)' <=> MarksRefresh(due)
    BY <1>2, <1>4 DEF Carries
  <2> QED
    BY <1>2, <2>1, <2>2, <2>3, CarriedMarks DEF Inv
<1> QED
  BY <1>5, <1>6, <1>7, <1>8, <1>9 DEF Inv

LEMMA QueryInv ==
  ASSUME Inv, Receive, NEW c \in Prompt, c = Head(channel), HandleQuery(c), up' = up
  PROVE  Inv'
<1>1. PICK stale \in BOOLEAN :
        /\ refreshing' = (refreshing \/ stale)
        /\ SetConn(c, [conn[c] EXCEPT !.stage = "writing", !.reply = shown,
                                      !.effect = MarksRefresh(stale)])
  BY DEF HandleQuery
<1> DEFINE e == MarksRefresh(stale)
           k == [conn[c] EXCEPT !.stage = "writing", !.reply = shown, !.effect = e]
<1>2. c \in Client /\ conn[c] \in Conn
  BY RequesterFacts
<1>3. e \in BOOLEAN /\ shown \in Shown /\ refreshing' \in BOOLEAN
  BY <1>1 DEF MarksRefresh, Inv, TypeOK
<1>4. SetConn(c, k)
  BY <1>1
<1>5. UNCHANGED <<up, shown, client, fetch, ticker>>
  BY DEF HandleQuery
<1> HIDE DEF e
<1>6. ConnIs(k, "writing", conn[c].request, conn[c].open, shown, e, conn[c].sent)
  BY <1>2, <1>3, ReplyFacts
<1> HIDE DEF k
<1>7. k \in Conn /\ k.stage = "writing" /\ k.open = conn[c].open /\ k.reply = shown
      /\ (k.effect <=> MarksRefresh(stale))
  BY <1>6 DEF ConnIs, e
<1> QED
  BY <1>1, <1>2, <1>3, <1>4, <1>5, <1>7, AnsweredInv

LEMMA EntriesInv ==
  ASSUME Inv, Receive, NEW c \in Watch, c = Head(channel), HandleEntries(c), up' = up
  PROVE  Inv'
<1> DEFINE k == [conn[c] EXCEPT !.stage = "writing", !.reply = shown]
<1>1. SetConn(c, k) /\ UNCHANGED <<up, shown, refreshing, client, fetch, ticker>>
  BY DEF HandleEntries
<1>2. c \in Client /\ conn[c] \in Conn /\ ConnOK(conn[c], client[c]) /\ shown \in Shown
      /\ refreshing \in BOOLEAN
  BY RequesterFacts DEF Inv, TypeOK
<1>3. ConnIs(k, "writing", conn[c].request, conn[c].open, shown, conn[c].effect, conn[c].sent)
  BY <1>2, ReplyFacts
<1>4. conn[c].stage = "waiting"
  <2>1. Queued(c)
    BY ReceiveFacts DEF Inv, LineInv
  <2> QED
    BY <1>2, <2>1 DEF Inv, LineInv, WaitsForActor, Task
<1> HIDE DEF k
<1>5. k \in Conn /\ k.stage = "writing" /\ k.open = conn[c].open /\ k.reply = shown
      /\ (k.effect <=> MarksRefresh(FALSE))
  BY <1>2, <1>3, <1>4 DEF ConnIs, ConnOK, MarksRefresh
<1>6. refreshing' = (refreshing \/ FALSE) /\ refreshing' \in BOOLEAN
  BY <1>1, <1>2
<1> QED
  BY <1>1, <1>2, <1>5, <1>6, AnsweredInv

LEMMA UpdateInv ==
  ASSUME Inv, Receive, Refresh = Head(channel), HandleUpdate, up' = up
  PROVE  Inv'
<1>1. /\ shown' \in Version /\ refreshing' = FALSE /\ SetConn(Refresh, NoConn)
      /\ fetch' = "none" /\ UNCHANGED <<up, client, ticker>>
  BY DEF HandleUpdate
<1>2. Refresh \in Requester /\ Refresh \in Task /\ Refresh \notin Client
      /\ Refresh # Scheduler /\ Scheduler \notin Client
  BY ExchangeAssumption DEF Task
<1>3. /\ channel' \in Seq(Task) /\ Len(channel') <= COMMAND_CHANNEL_SIZE
      /\ senders' \in Seq(Task)
      /\ Queued(Refresh) /\ Once' /\ \A u : Queued(u)' => Queued(u) /\ u # Refresh
  BY ReceiveFacts DEF Inv, LineInv
<1>4. fetch = "sent"
  BY <1>2, <1>3 DEF Inv, LineInv, WaitsForActor, RefreshInv
<1>5. ConnIs(NoConn, "none", FALSE, FALSE, Nothing, FALSE, 0)
  BY NoConnFacts
<1>6. /\ conn'[Refresh] = NoConn
      /\ \A d \in Requester : d # Refresh => conn'[d] = conn[d]
  BY <1>1, <1>2 DEF SetConn, Inv, TypeOK
<1>7. TypeOK'
  BY <1>1, <1>3, <1>5 DEF Inv, TypeOK, SetConn, ConnIs, Shown, Task
<1>8. LineInv'
  <2>1. \A u \in Task : u # Refresh /\ WaitsForActor(u) => WaitsForActor(u)'
    BY <1>1, <1>6 DEF WaitsForActor
  <2> QED
    BY <1>3, <2>1, LineReceived DEF Inv
<1>9. ConnInv' /\ RefreshInv' /\ TickerInv'
  BY <1>1, <1>2, <1>5, <1>6 DEF Inv, ConnInv, RefreshInv, TickerInv, ConnIs
<1>10. CarriedInv'
  <2>1. \A u \in Task : u # Refresh => ~Carries(u)
    BY <1>2, <1>4 DEF Inv, CarriedInv, Carries
  <2>2. \A u \in Task : ~Carries(u)'
    BY <1>1, <1>2, <1>6, <2>1 DEF Carries
  <2> QED
    BY <1>1, <2>2 DEF CarriedInv
<1> QED
  BY <1>7, <1>8, <1>9, <1>10 DEF Inv

LEMMA HandleTickInv ==
  ASSUME Inv, Receive, Scheduler = Head(channel), HandleTick, up' = up
  PROVE  Inv'
<1>1. PICK due \in BOOLEAN :
        /\ refreshing' = (refreshing \/ due)
        /\ ticker' = [stage |-> "drain", effect |-> MarksRefresh(due)]
  BY DEF HandleTick
<1>2. UNCHANGED <<up, shown, conn, client, fetch>>
  BY DEF HandleTick
<1>3. Scheduler \in Task /\ Scheduler \notin Requester
  BY ExchangeAssumption DEF Task
<1>4. /\ channel' \in Seq(Task) /\ Len(channel') <= COMMAND_CHANNEL_SIZE
      /\ senders' \in Seq(Task)
      /\ Queued(Scheduler) /\ Once' /\ \A u : Queued(u)' => Queued(u) /\ u # Scheduler
  BY ReceiveFacts DEF Inv, LineInv
<1>5. ticker.stage = "waiting" /\ ~ticker.effect
  BY <1>3, <1>4 DEF Inv, LineInv, WaitsForActor, TickerInv
<1>6. MarksRefresh(due) \in BOOLEAN /\ refreshing' \in BOOLEAN
  BY <1>1 DEF MarksRefresh, Inv, TypeOK
<1>7. TypeOK'
  BY <1>1, <1>2, <1>4, <1>6 DEF Inv, TypeOK, Task
<1>8. LineInv'
  <2>1. \A u \in Task : u # Scheduler /\ WaitsForActor(u) => WaitsForActor(u)'
    BY <1>2 DEF WaitsForActor, Task
  <2> QED
    BY <1>4, <2>1, LineReceived DEF Inv
<1>9. RefreshInv' /\ TickerInv'
  BY <1>1, <1>2 DEF Inv, RefreshInv, TickerInv
<1>10. CarriedInv'
  <2>1. \A u \in Task : u # Scheduler => (Carries(u)' <=> Carries(u))
    BY <1>2 DEF Carries
  <2>2. ~Carries(Scheduler) /\ (Carries(Scheduler)' <=> MarksRefresh(due))
    BY <1>1, <1>3, <1>5 DEF Carries
  <2> QED
    BY <1>1, <1>3, <2>1, <2>2, CarriedMarks DEF Inv
<1> QED
  BY <1>2, <1>7, <1>8, <1>9, <1>10, TaskStepInv

LEMMA HandleInv == ASSUME Inv, handle_command PROVE Inv'
<1>1. Receive /\ up' = up
  BY DEF handle_command
<1>2. \/ Head(channel) \in Prompt /\ HandleQuery(Head(channel))
      \/ Head(channel) \in Watch /\ HandleEntries(Head(channel))
      \/ Head(channel) = Refresh /\ HandleUpdate
      \/ Head(channel) = Scheduler /\ HandleTick
  BY DEF handle_command
<1> QED
  BY <1>1, <1>2, QueryInv, EntriesInv, UpdateInv, HandleTickInv

------------------------------------------------------------------------------
(* The invariant, and what follows from it. *)

LEMMA InitInv == Init => Inv
<1> SUFFICES ASSUME Init PROVE Inv
  OBVIOUS
<1>1. /\ up = FALSE /\ shown = Loading /\ refreshing = FALSE
      /\ channel = <<>> /\ senders = <<>> /\ fetch = "none"
      /\ ticker = [stage |-> "idle", effect |-> FALSE]
      /\ conn = [c \in Requester |-> NoConn] /\ client = [c \in Client |-> IdleClient]
  BY DEF Init
<1>2. /\ ConnIs(NoConn, "none", FALSE, FALSE, Nothing, FALSE, 0)
      /\ ClientIs(IdleClient, "idle", 0, 0, Nothing)
  BY NoConnFacts, IdleFacts
<1>3. Refresh \in Requester
  OBVIOUS
<1>4. TypeOK
  <2>1. channel \in Seq(Requester \cup {Scheduler}) /\ Len(channel) = 0
        /\ senders \in Seq(Requester \cup {Scheduler})
    BY <1>1
  <2>2. Len(channel) <= COMMAND_CHANNEL_SIZE
    BY <2>1, ExchangeAssumption
  <2> QED
    BY <1>1, <1>2, <2>1, <2>2 DEF TypeOK, Shown, ConnIs, ClientIs
<1>5. LineInv
  BY <1>1 DEF LineInv, Once, Queued
<1>6. ConnInv
  BY <1>1, <1>2 DEF ConnInv, ConnOK, ConnIs, ClientIs
<1>7. RefreshInv /\ TickerInv
  BY <1>1, <1>2, <1>3 DEF RefreshInv, TickerInv, ConnIs
<1>8. CarriedInv
  BY <1>1, <1>2 DEF CarriedInv, Carries, ConnIs
<1> QED
  BY <1>4, <1>5, <1>6, <1>7, <1>8 DEF Inv

LEMMA NextInv == Inv /\ [Next]_vars => Inv'
<1> SUFFICES ASSUME Inv, [Next]_vars PROVE Inv'
  OBVIOUS
<1>1. ASSUME NEW c \in Requester, ConnStep(c) PROVE Inv'
  BY <1>1, AcceptInv, ReadRequestInv, WriteAnswerInv, FinishInv DEF ConnStep
<1>2. ASSUME NEW c \in Client,
             Connect(c) \/ CannotConnect(c) \/ ClientStep(c) \/ Again(c) \/ Interrupt(c)
      PROVE  Inv'
  BY <1>2, ConnectInv, GivesUpInv, WriteRequestInv, ReadInv, ReadEofInv, AgainInv, InterruptInv
     DEF ClientStep
<1>3. CASE UNCHANGED vars
  <2>1. UNCHANGED <<daemonVars, queueVars, conn, client, fetch, ticker>>
    BY <1>3 DEF vars, daemonVars, queueVars
  <2>2. client' \in [Client -> ClientState] /\ \A c \in Client : ConnOK(conn[c], client'[c])
    BY <2>1 DEF Inv, TypeOK, ConnInv
  <2> QED
    BY <2>1, <2>2, ClientStepInv
<1> QED
  BY <1>1, <1>2, <1>3, HandleInv, TickInv, DrainTickInv, SendUpdateInv, StartInv, ExitInv,
     AdvanceInv DEF Next

\* The invariant holds in every reachable state.
THEOREM InvHolds == Spec => []Inv
BY InitInv, NextInv, PTL DEF Spec

\* The types of all variables, and the limit of the command channel.
THEOREM TypeHolds == Spec => []TypeOK
<1>1. Inv => TypeOK
  BY DEF Inv
<1> QED
  BY <1>1, InvHolds, PTL

(***************************************************************************)
(* The mark of an entry has exactly one refresh behind it: whichever       *)
(* prompts gave up, whatever waited in the channel, and whenever the       *)
(* daemon ended and was started again.                                     *)
(***************************************************************************)
THEOREM MarkIsCarriedHolds == Spec => []MarkIsCarried
<1>1. Inv => MarkIsCarried
  <2> SUFFICES ASSUME Inv PROVE MarkIsCarried
    OBVIOUS
  <2>1. Scheduler \notin Client /\ Refresh \notin Client /\ Refresh # Scheduler
    BY ExchangeAssumption
  <2>2. Carriers = {t \in Task : Carries(t)}
    BY <2>1 DEF Carriers, Carries, Task
  <2>3. CASE refreshing
    <3>1. PICK t \in Task : Carries(t)
      BY <2>3 DEF Inv, CarriedInv
    <3>2. Carriers = {t}
      BY <2>2, <3>1 DEF Inv, CarriedInv
    <3> QED
      BY <2>3, <3>2, FS_Singleton DEF MarkIsCarried
  <2>4. CASE ~refreshing
    <3>1. Carriers = {}
      BY <2>2, <2>4 DEF Inv, CarriedInv
    <3> QED
      BY <2>4, <3>1, FS_EmptySet DEF MarkIsCarried
  <2> QED
    BY <2>3, <2>4
<1> QED
  BY <1>1, InvHolds, PTL

------------------------------------------------------------------------------
(* PromptService: what a client sees of its connection is whether there is an
   answer in it. *)

PhaseOf(p, k) ==
  CASE p.stage = "idle" -> "idle"
    [] p.stage \in {"done", "quit"} -> "done"
    [] p.stage \in {"connected", "reading"} -> IF k.reply = Nothing THEN "asked" ELSE "served"

ServedOf(p, k) == IF PhaseOf(p, k) = "served" THEN k.reply ELSE p.output

Store == IF up THEN shown ELSE Nothing

SameView(p, k, q, l) == PhaseOf(p, k) = PhaseOf(q, l) /\ ServedOf(p, k) = ServedOf(q, l)

LEMMA ViewFacts ==
  /\ phase = [c \in Client |-> PhaseOf(client[c], conn[c])]
  /\ served = [c \in Client |-> ServedOf(client[c], conn[c])]
  /\ phase' = [c \in Client |-> PhaseOf(client'[c], conn'[c])]
  /\ served' = [c \in Client |-> ServedOf(client'[c], conn'[c])]
<1>1. /\ phase = [c \in Client |-> PhaseOf(client[c], conn[c])]
      /\ phase' = [c \in Client |-> PhaseOf(client'[c], conn'[c])]
  BY DEF phase, PhaseOf
<1>2. /\ served = [c \in Client |-> ServedOf(client[c], conn[c])]
      /\ served' = [c \in Client |-> ServedOf(client'[c], conn'[c])]
  BY <1>1 DEF served, ServedOf
<1> QED
  BY <1>1, <1>2

LEMMA StageViews ==
  ASSUME NEW p \in ClientState, NEW k
  PROVE  /\ p.stage = "idle" => PhaseOf(p, k) = "idle" /\ ServedOf(p, k) = p.output
         /\ p.stage \in {"done", "quit"} => PhaseOf(p, k) = "done" /\ ServedOf(p, k) = p.output
         /\ p.stage \in {"connected", "reading"} /\ k.reply = Nothing =>
              PhaseOf(p, k) = "asked" /\ ServedOf(p, k) = p.output
         /\ p.stage \in {"connected", "reading"} /\ k.reply # Nothing =>
              PhaseOf(p, k) = "served" /\ ServedOf(p, k) = k.reply
         /\ p.stage \in {"idle", "connected", "reading", "done", "quit"}
<1>1. p.stage \in {"idle", "connected", "reading", "done", "quit"}
  BY DEF ClientState
<1>2. CASE p.stage = "idle"
  <2>1. PhaseOf(p, k) = "idle"
    BY <1>2 DEF PhaseOf
  <2> QED
    BY <1>2, <2>1 DEF ServedOf
<1>3. CASE p.stage \in {"done", "quit"}
  <2>1. PhaseOf(p, k) = "done"
    BY <1>3 DEF PhaseOf
  <2> QED
    BY <1>3, <2>1 DEF ServedOf
<1>4. CASE p.stage \in {"connected", "reading"} /\ k.reply = Nothing
  <2>1. PhaseOf(p, k) = "asked"
    BY <1>4 DEF PhaseOf
  <2> QED
    BY <1>4, <2>1 DEF ServedOf
<1>5. CASE p.stage \in {"connected", "reading"} /\ k.reply # Nothing
  <2>1. PhaseOf(p, k) = "served"
    BY <1>5 DEF PhaseOf
  <2> QED
    BY <1>5, <2>1 DEF ServedOf
<1> QED
  BY <1>1, <1>2, <1>3, <1>4, <1>5

\* A step that shows in one client's view only.
LEMMA ServiceMoves ==
  ASSUME NEW c \in Client, \A d \in Client : d # c => client'[d] = client[d] /\ conn'[d] = conn[d]
  PROVE  Service!Moves(c, PhaseOf(client'[c], conn'[c]), ServedOf(client'[c], conn'[c]))
<1> DEFINE P(d) == PhaseOf(client'[d], conn'[d])
           S(d) == ServedOf(client'[d], conn'[d])
<1>1. \A d \in Client : d # c => P(d) = PhaseOf(client[d], conn[d])
                              /\ S(d) = ServedOf(client[d], conn[d])
  OBVIOUS
<1>2. /\ phase' = [d \in Client |-> P(d)] /\ phase = [d \in Client |-> PhaseOf(client[d], conn[d])]
      /\ served' = [d \in Client |-> S(d)]
      /\ served = [d \in Client |-> ServedOf(client[d], conn[d])]
  BY ViewFacts
<1> HIDE DEF P, S
<1>3. phase' = [phase EXCEPT ![c] = P(c)] /\ served' = [served EXCEPT ![c] = S(c)]
  BY <1>1, <1>2
<1> QED
  BY <1>3 DEF Service!Moves, P, S

\* A step no client's view shows.
LEMMA ViewsKept ==
  ASSUME \A d \in Client : SameView(client'[d], conn'[d], client[d], conn[d])
  PROVE  phase' = phase /\ served' = served
BY ViewFacts DEF SameView

LEMMA ServiceStutters ==
  ASSUME Store' = Store, \A d \in Client : SameView(client'[d], conn'[d], client[d], conn[d])
  PROVE  UNCHANGED Service!vars
BY ViewsKept DEF Service!vars, Store

LEMMA ServiceChanges ==
  ASSUME TypeOK', \A d \in Client : SameView(client'[d], conn'[d], client[d], conn[d])
  PROVE  Service!Next
<1>1. Store' \in Shown \cup {Nothing}
  BY DEF TypeOK, Store
<1> QED
  BY <1>1, ViewsKept DEF Service!Next, Service!Change, Store


\* A step of a connection's task: nobody who reads is told anything else.
LEMMA TaskShowsNothing ==
  ASSUME Inv, NEW c \in Requester, NEW k, SetConn(c, k), client' = client, Store' = Store,
         c \in Client /\ client[c].stage \in {"connected", "reading"} => k.reply = conn[c].reply
  PROVE  UNCHANGED Service!vars
<1>1. /\ conn'[c] = k
      /\ \A d \in Requester : d # c => conn'[d] = conn[d]
  BY DEF Inv, TypeOK, SetConn
<1>2. ASSUME NEW d \in Client PROVE SameView(client'[d], conn'[d], client[d], conn[d])
  <2>1. client[d] \in ClientState
    BY RequesterFacts
  <2>2. CASE d # c
    BY <1>1, <2>2 DEF SameView
  <2>3. CASE d = c
    <3>1. \/ client[d].stage \in {"idle", "done", "quit"}
          \/ client[d].stage \in {"connected", "reading"} /\ conn'[d].reply = conn[d].reply
      BY <1>1, <2>1, <2>3 DEF ClientState
    <3> QED
      BY <2>1, <3>1, StageViews DEF SameView
  <2> QED
    BY <2>2, <2>3
<1> QED
  BY <1>2, ServiceStutters

LEMMA ConnStepServes == ASSUME Inv, NEW c \in Requester, ConnStep(c) PROVE UNCHANGED Service!vars
<1>1. client' = client /\ Store' = Store
  BY DEF ConnStep, Accept, ReadRequest, WriteAnswer, Finish, daemonVars, Store
<1>2. conn[c] \in Conn /\ (c \in Client => ConnOK(conn[c], client[c]))
  BY RequesterFacts
<1>3. ~conn[c].open => ~(c \in Client /\ client[c].stage \in {"connected", "reading"})
  BY <1>2 DEF ConnOK
<1>4. PICK k : SetConn(c, k) /\ (k.reply = conn[c].reply \/ ~conn[c].open)
  <2> DEFINE accepted == [conn[c] EXCEPT !.stage = "accepted"]
             waiting == [conn[c] EXCEPT !.stage = "waiting"]
             written == [conn[c] EXCEPT !.sent = conn[c].sent + 1]
             closed == [conn[c] EXCEPT !.stage = "closed", !.effect = FALSE]
  <2>1. \/ SetConn(c, accepted)
        \/ SetConn(c, waiting)
        \/ SetConn(c, written)
        \/ SetConn(c, closed)
        \/ SetConn(c, NoConn) /\ ~conn[c].open
    BY Zenon DEF ConnStep, Accept, ReadRequest, WriteAnswer, Finish, Closed
  <2>2. /\ ConnIs(accepted,
                  "accepted", conn[c].request, conn[c].open, conn[c].reply, conn[c].effect, conn[c].sent)
        /\ ConnIs(waiting,
                  "waiting", conn[c].request, conn[c].open, conn[c].reply, conn[c].effect, conn[c].sent)
        /\ ConnIs(written, conn[c].stage, conn[c].request, conn[c].open, conn[c].reply,
                  conn[c].effect, conn[c].sent + 1)
        /\ ConnIs(closed,
                  "closed", conn[c].request, conn[c].open, conn[c].reply, FALSE, conn[c].sent)
    BY <1>2, ConnFacts
  <2> HIDE DEF accepted, waiting, written, closed
  <2> QED
    BY <2>1, <2>2 DEF ConnIs
<1> QED
  BY <1>1, <1>3, <1>4, TaskShowsNothing

\* The actor's answer is what the store shows.
LEMMA AnswerServes ==
  ASSUME Inv, handle_command, NEW c \in Client, c = Head(channel), NEW k, SetConn(c, k),
         k.reply = shown, client' = client, shown' = shown
  PROVE  [Service!Next]_(Service!vars)
<1>1. up /\ up' = up /\ Receive
  BY DEF handle_command
<1>2. conn[c].stage = "waiting"
  <2>1. Queued(c)
    BY <1>1, ReceiveFacts DEF Inv, LineInv
  <2> QED
    BY <2>1 DEF Inv, LineInv, WaitsForActor, Task
<1>3. client[c] \in ClientState /\ ConnOK(conn[c], client[c]) /\ conn[c].reply = Nothing
  BY <1>2, RequesterFacts DEF ConnOK
<1>4. shown \in Shown /\ shown # Nothing
  BY ExchangeAssumption DEF Inv, TypeOK
<1>5. /\ conn'[c] = k
      /\ \A d \in Requester : d # c => conn'[d] = conn[d]
  BY DEF Inv, TypeOK, SetConn
<1>6. CASE client[c].stage \in {"connected", "reading"}
  <2>1. PhaseOf(client'[c], conn'[c]) = "served" /\ ServedOf(client'[c], conn'[c]) = shown
    BY <1>3, <1>4, <1>5, <1>6, StageViews
  <2>2. Service!Moves(c, "served", shown)
    <3>1. Service!Moves(c, PhaseOf(client'[c], conn'[c]), ServedOf(client'[c], conn'[c]))
      BY <1>5, ServiceMoves
    <3> QED
      BY <2>1, <3>1
  <2>3. phase[c] = "asked"
    BY <1>3, <1>6, StageViews, ViewFacts
  <2> QED
    BY <1>1, <1>4, <2>2, <2>3 DEF Service!Next, Service!Serve
<1>7. CASE client[c].stage \notin {"connected", "reading"}
  BY <1>1, <1>7, TaskShowsNothing DEF Store
<1> QED
  BY <1>6, <1>7

LEMMA HandleServes == ASSUME Inv, Inv', handle_command PROVE [Service!Next]_(Service!vars)
<1>1. up' = up /\ Receive
  BY DEF handle_command
<1>2. ASSUME NEW c \in Client, c = Head(channel), HandleQuery(c) \/ HandleEntries(c)
      PROVE  [Service!Next]_(Service!vars)
  <2>1. conn[c] \in Conn /\ shown \in Shown
    BY RequesterFacts DEF Inv, TypeOK
  <2>2. CASE HandleQuery(c)
    <3>1. client' = client /\ shown' = shown
      BY <2>2 DEF HandleQuery
    <3>2. PICK stale \in BOOLEAN :
            SetConn(c, [conn[c] EXCEPT !.stage = "writing", !.reply = shown,
                                       !.effect = MarksRefresh(stale)])
      BY <2>2 DEF HandleQuery
    <3> DEFINE e == MarksRefresh(stale)
               k == [conn[c] EXCEPT !.stage = "writing", !.reply = shown, !.effect = e]
    <3>3. e \in BOOLEAN
      BY DEF MarksRefresh, Inv, TypeOK
    <3>4. SetConn(c, k)
      BY <3>2
    <3> HIDE DEF e
    <3>5. ConnIs(k, "writing", conn[c].request, conn[c].open, shown, e, conn[c].sent)
      BY <2>1, <3>3, ReplyFacts
    <3> HIDE DEF k
    <3>6. k.reply = shown
      BY <3>5 DEF ConnIs
    <3> QED
      BY <1>2, <3>1, <3>4, <3>6, AnswerServes
  <2>3. CASE HandleEntries(c)
    <3> DEFINE k == [conn[c] EXCEPT !.stage = "writing", !.reply = shown]
    <3>1. client' = client /\ shown' = shown /\ SetConn(c, k)
      BY <2>3 DEF HandleEntries
    <3>2. ConnIs(k, "writing", conn[c].request, conn[c].open, shown, conn[c].effect,
                 conn[c].sent)
      BY <2>1, ReplyFacts
    <3> HIDE DEF k
    <3>3. k.reply = shown
      BY <3>2 DEF ConnIs
    <3> QED
      BY <1>2, <3>1, <3>3, AnswerServes
  <2> QED
    BY <1>2, <2>2, <2>3
<1>3. CASE HandleUpdate
  <2>1. client' = client /\ \A d \in Client : conn'[d] = conn[d]
    BY <1>3, ExchangeAssumption DEF HandleUpdate, SetConn, Inv, TypeOK
  <2> QED
    BY <2>1, ServiceChanges DEF Inv, SameView
<1>4. CASE HandleTick
  <2>1. client' = client /\ conn' = conn /\ Store' = Store
    BY <1>1, <1>4 DEF HandleTick, Store
  <2> QED
    BY <2>1, ServiceStutters DEF SameView
<1> QED
  BY <1>2, <1>3, <1>4 DEF handle_command


\* The client has what it was served, or nothing.
LEMMA EndsServes ==
  ASSUME Inv, NEW c \in Client, NEW output \in Shown \cup {Nothing}, Ends(c, output),
         client[c].stage \in {"idle", "connected", "reading"},
         output # Nothing => client[c].stage = "reading" /\ output = conn[c].reply
  PROVE  Service!Next
<1> DEFINE s == IF c \in Watch /\ output = Nothing THEN "quit" ELSE "done"
           p == [IdleClient EXCEPT !.stage = s, !.output = output]
           k == IF conn[c].stage \in {"none", "closed"} THEN NoConn
                ELSE [conn[c] EXCEPT !.open = FALSE]
<1>1. SetClient(c, p) /\ SetConn(c, k) /\ Store' = Store
  BY DEF Ends, daemonVars, Store
<1>2. ClientIs(p, s, 0, 0, output) /\ s \in {"done", "quit"}
  BY DoneFacts
<1> HIDE DEF s, p, k
<1>3. /\ client'[c] = p
      /\ \A d \in Client : d # c => client'[d] = client[d] /\ conn'[d] = conn[d]
  BY <1>1 DEF SetClient, SetConn, Inv, TypeOK
<1>4. PhaseOf(p, conn'[c]) = "done" /\ ServedOf(p, conn'[c]) = output
  BY <1>2, StageViews DEF ClientIs
<1>5. Service!Moves(c, "done", output)
  <2>1. Service!Moves(c, PhaseOf(client'[c], conn'[c]), ServedOf(client'[c], conn'[c]))
    BY <1>3, ServiceMoves
  <2> QED
    BY <1>3, <1>4, <2>1
<1>6. /\ phase[c] = PhaseOf(client[c], conn[c]) /\ served[c] = ServedOf(client[c], conn[c])
      /\ client[c] \in ClientState
  BY ViewFacts, RequesterFacts
<1>7. CASE output = Nothing
  <2>1. phase[c] \in {"idle", "asked", "served"}
    BY <1>6, StageViews
  <2>2. Service!GiveUp(c)
    BY <1>1, <1>5, <1>7, <2>1 DEF Service!GiveUp, Store
  <2> QED
    BY <2>2 DEF Service!Next
<1>8. CASE output # Nothing
  <2>1. phase[c] = "served" /\ served[c] = output
    BY <1>6, <1>8, StageViews
  <2>2. Service!Take(c)
    BY <1>1, <1>5, <2>1 DEF Service!Take, Store
  <2> QED
    BY <2>2 DEF Service!Next
<1> QED
  BY <1>7, <1>8

LEMMA ConnectServes == ASSUME Inv, NEW c \in Client, Connect(c) PROVE Service!Next
<1> DEFINE p == [client[c] EXCEPT !.stage = "connected"]
           k == [NoConn EXCEPT !.stage = "backlog", !.open = TRUE]
<1>1. SetClient(c, p) /\ SetConn(c, k) /\ client[c].stage = "idle" /\ Store' = Store
  BY DEF Connect, daemonVars, Store
<1>2. client[c] \in ClientState /\ ConnOK(conn[c], client[c])
  BY RequesterFacts
<1>3. ClientIs(p, "connected", client[c].left, client[c].got, client[c].output)
  BY <1>2, ClientFacts
<1>4. ConnIs(k, "backlog", FALSE, TRUE, Nothing, FALSE, 0)
  BY NoConnFacts
<1> HIDE DEF p, k
<1>5. /\ client'[c] = p /\ conn'[c] = k
      /\ \A d \in Client : d # c => client'[d] = client[d] /\ conn'[d] = conn[d]
  BY <1>1 DEF SetClient, SetConn, Inv, TypeOK
<1>6. PhaseOf(p, k) = "asked" /\ ServedOf(p, k) = Nothing
  <2>1. p.output = Nothing
    BY <1>1, <1>2, <1>3 DEF ConnOK, ClientIs
  <2> QED
    BY <1>3, <1>4, <2>1, StageViews DEF ClientIs, ConnIs
<1>7. Service!Moves(c, "asked", Nothing)
  <2>1. Service!Moves(c, PhaseOf(client'[c], conn'[c]), ServedOf(client'[c], conn'[c]))
    BY <1>5, ServiceMoves
  <2> QED
    BY <1>5, <1>6, <2>1
<1>8. phase[c] = "idle"
  BY <1>1, <1>2, StageViews, ViewFacts
<1> QED
  BY <1>1, <1>7, <1>8 DEF Service!Next, Service!Ask, Store

LEMMA AgainServes == ASSUME Inv, NEW c \in Client, Again(c) PROVE Service!Next
<1>1. SetClient(c, IdleClient) /\ client[c].stage = "done" /\ conn' = conn /\ Store' = Store
  BY DEF Again, daemonVars, Store
<1>2. client[c] \in ClientState
  BY RequesterFacts
<1>3. /\ client'[c] = IdleClient
      /\ \A d \in Client : d # c => client'[d] = client[d] /\ conn'[d] = conn[d]
  BY <1>1 DEF SetClient, Inv, TypeOK
<1>4. PhaseOf(IdleClient, conn[c]) = "idle" /\ ServedOf(IdleClient, conn[c]) = Nothing
  BY IdleFacts, StageViews DEF ClientIs
<1>5. Service!Moves(c, "idle", Nothing)
  <2>1. Service!Moves(c, PhaseOf(client'[c], conn'[c]), ServedOf(client'[c], conn'[c]))
    BY <1>3, ServiceMoves
  <2> QED
    BY <1>1, <1>3, <1>4, <2>1
<1>6. phase[c] = "done"
  BY <1>1, <1>2, StageViews, ViewFacts
<1> QED
  BY <1>1, <1>5, <1>6 DEF Service!Next, Service!Forget, Store

\* A step of a client that goes on with what it does, or was done already.
LEMMA ClientShowsNothing ==
  ASSUME Inv, NEW c \in Client, NEW p \in ClientState, SetClient(c, p), Store' = Store,
         conn'[c].reply = conn[c].reply,
         \A d \in Client : d # c => conn'[d] = conn[d],
         p.output = client[c].output,
         \/ p.stage = client[c].stage
         \/ p.stage \in {"connected", "reading"} /\ client[c].stage \in {"connected", "reading"}
         \/ p.stage \in {"done", "quit"} /\ client[c].stage \in {"done", "quit"}
  PROVE  UNCHANGED Service!vars
<1>1. /\ client'[c] = p
      /\ \A d \in Client : d # c => client'[d] = client[d]
  BY DEF Inv, TypeOK, SetClient
<1>2. ASSUME NEW d \in Client PROVE SameView(client'[d], conn'[d], client[d], conn[d])
  <2>1. client[d] \in ClientState
    BY RequesterFacts
  <2>2. CASE d # c
    BY <1>1, <2>2 DEF SameView
  <2>3. CASE d = c
    <3>1. client'[d] = p
      BY <1>1, <2>3
    <3>2. CASE p.stage \in {"connected", "reading"} /\ client[d].stage \in {"connected", "reading"}
      BY <2>1, <2>3, <3>1, <3>2, StageViews DEF SameView
    <3>3. CASE p.stage \in {"done", "quit"} /\ client[d].stage \in {"done", "quit"}
      BY <2>1, <2>3, <3>1, <3>3, StageViews DEF SameView
    <3>4. CASE p.stage = "idle" /\ client[d].stage = "idle"
      BY <2>1, <2>3, <3>1, <3>4, StageViews DEF SameView
    <3> QED
      BY <2>1, <2>3, <3>2, <3>3, <3>4, StageViews
  <2> QED
    BY <2>2, <2>3
<1> QED
  BY <1>2, ServiceStutters

LEMMA WriteRequestServes ==
  ASSUME Inv, NEW c \in Client, WriteRequest(c) PROVE UNCHANGED Service!vars
<1> DEFINE p == [client[c] EXCEPT !.stage = "reading", !.left = RESPONSE_TIMEOUT_MS]
           k == [conn[c] EXCEPT !.request = TRUE]
<1>1. SetClient(c, p) /\ SetConn(c, k) /\ client[c].stage = "connected" /\ Store' = Store
  BY DEF WriteRequest, daemonVars, Store
<1>2. conn[c] \in Conn /\ client[c] \in ClientState
  BY RequesterFacts
<1>3. ClientIs(p, "reading", RESPONSE_TIMEOUT_MS, client[c].got, client[c].output)
  BY <1>2, ClientFacts
<1>4. ConnIs(k, conn[c].stage, TRUE, conn[c].open, conn[c].reply, conn[c].effect, conn[c].sent)
  BY <1>2, ConnFacts
<1> HIDE DEF p, k
<1>5. /\ conn'[c].reply = conn[c].reply
      /\ \A d \in Client : d # c => conn'[d] = conn[d]
  BY <1>1, <1>4 DEF SetConn, Inv, TypeOK, ConnIs
<1>6. p \in ClientState /\ p.output = client[c].output /\ p.stage = "reading"
  BY <1>3 DEF ClientIs
<1> QED
  BY <1>1, <1>5, <1>6, ClientShowsNothing

LEMMA InterruptServes ==
  ASSUME Inv, NEW c \in Client, Interrupt(c) PROVE UNCHANGED Service!vars
<1> DEFINE p == [client[c] EXCEPT !.stage = "quit"]
<1>1. SetClient(c, p) /\ client[c].stage = "done" /\ conn' = conn /\ Store' = Store
  BY DEF Interrupt, daemonVars, Store
<1>2. ClientIs(p, "quit", client[c].left, client[c].got, client[c].output)
  BY RequesterFacts, ClientFacts
<1> HIDE DEF p
<1>3. p \in ClientState /\ p.output = client[c].output /\ p.stage = "quit"
  BY <1>2 DEF ClientIs
<1> QED
  BY <1>1, <1>3, ClientShowsNothing

\* Only a whole answer, or all of it but the newline, is taken; and only what was served can
\* be read at all.
LEMMA ReadServes == ASSUME Inv, NEW c \in Client, Read(c) PROVE [Service!Next]_(Service!vars)
<1>1. PICK upto \in client[c].got + 1 .. conn[c].sent :
        LET n == Capped(c, upto)
        IN \/ WholeLine(c, n) /\ Ends(c, conn[c].reply)
           \/ ~WholeLine(c, n) /\ c \in Prompt /\ n = MAX_RESPONSE_BYTES /\ Ends(c, Nothing)
           \/ /\ ~WholeLine(c, n) /\ ~(c \in Prompt /\ n = MAX_RESPONSE_BYTES)
              /\ SetClient(c, [client[c] EXCEPT !.got = n])
              /\ UNCHANGED <<daemonVars, queueVars, conn, fetch, ticker>>
  BY DEF Read
<1> DEFINE n == Capped(c, upto)
           p == [client[c] EXCEPT !.got = n]
<1>2. conn[c] \in Conn /\ client[c] \in ClientState /\ ConnOK(conn[c], client[c])
      /\ client[c].stage = "reading"
  BY RequesterFacts DEF Read
<1>3. conn[c].reply \in Shown \cup {Nothing}
  BY <1>2 DEF Conn
<1>4. CASE Ends(c, conn[c].reply)
  BY <1>2, <1>3, <1>4, EndsServes
<1>5. CASE Ends(c, Nothing)
  BY <1>2, <1>5, EndsServes
<1>6. CASE SetClient(c, p) /\ UNCHANGED <<daemonVars, queueVars, conn, fetch, ticker>>
  <2>1. n \in Nat
    BY <1>2, ExchangeAssumption DEF Capped, ClientState, Conn
  <2> HIDE DEF n
  <2>2. ClientIs(p, client[c].stage, client[c].left, n, client[c].output)
    BY <1>2, <2>1, ClientFacts
  <2> HIDE DEF p
  <2>3. p \in ClientState /\ p.output = client[c].output /\ p.stage = client[c].stage
    BY <2>2 DEF ClientIs
  <2>4. Store' = Store /\ conn' = conn
    BY <1>6 DEF Store, daemonVars
  <2> QED
    BY <1>6, <2>3, <2>4, ClientShowsNothing
<1> QED
  BY <1>1, <1>4, <1>5, <1>6

LEMMA EndingServes ==
  ASSUME Inv, NEW c \in Client,
         ReadEof(c) \/ CannotConnect(c) \/ CannotWrite(c) \/ DeadlinePasses(c)
  PROVE  Service!Next
<1>1. conn[c].reply \in Shown \cup {Nothing}
  BY RequesterFacts DEF Conn
<1>2. CASE ReadEof(c)
  <2>1. client[c].stage = "reading" /\ (Ends(c, conn[c].reply) \/ Ends(c, Nothing))
    BY <1>2 DEF ReadEof
  <2> QED
    BY <1>1, <2>1, EndsServes
<1>3. CASE CannotConnect(c) \/ CannotWrite(c) \/ DeadlinePasses(c)
  <2>1. client[c].stage \in {"idle", "connected", "reading"} /\ Ends(c, Nothing)
    BY <1>3 DEF CannotConnect, CannotWrite, DeadlinePasses
  <2> QED
    BY <2>1, EndsServes
<1> QED
  BY <1>2, <1>3

LEMMA AdvanceServes == ASSUME Inv, Advance PROVE UNCHANGED Service!vars
<1>1. /\ Store' = Store /\ conn' = conn
      /\ client' = [c \in Client |-> IF Waits(c) THEN [client[c] EXCEPT !.left = client[c].left - 1]
                                     ELSE client[c]]
  BY DEF Advance, daemonVars, Store
<1>2. ASSUME NEW c \in Client PROVE SameView(client'[c], conn'[c], client[c], conn[c])
  <2>1. client[c] \in ClientState
    BY RequesterFacts
  <2>2. CASE Waits(c)
    <3> DEFINE p == [client[c] EXCEPT !.left = client[c].left - 1]
    <3>1. client'[c] = p
      BY <1>1, <2>2
    <3>2. ClientIs(p, client[c].stage, client[c].left - 1, client[c].got, client[c].output)
      BY <2>1, <2>2, ClientFacts DEF Waits
    <3> HIDE DEF p
    <3> QED
      BY <1>1, <2>1, <2>2, <3>1, <3>2, StageViews DEF ClientIs, SameView, Waits
  <2>3. CASE ~Waits(c)
    BY <1>1, <2>3 DEF SameView
  <2> QED
    BY <2>2, <2>3
<1> QED
  BY <1>1, <1>2, ServiceStutters

LEMMA ExitServes == ASSUME Inv, Inv', Exit PROVE Service!Next
<1>1. client' = client
  BY DEF Exit
<1>2. ASSUME NEW c \in Client PROVE SameView(client'[c], conn'[c], client[c], conn[c])
  <2> DEFINE k == [conn[c] EXCEPT !.stage = "closed", !.effect = FALSE]
  <2>1. conn[c] \in Conn /\ client[c] \in ClientState /\ ConnOK(conn[c], client[c])
    BY RequesterFacts
  <2>2. ConnIs(k, "closed", conn[c].request, conn[c].open, conn[c].reply, FALSE, conn[c].sent)
    BY <2>1, ConnFacts
  <2>3. conn'[c] = IF conn[c].open /\ conn[c].stage # "none" THEN k ELSE NoConn
    BY DEF Exit
  <2> HIDE DEF k
  <2>4. CASE client[c].stage \in {"connected", "reading"}
    <3>1. conn'[c] = k
      BY <2>1, <2>3, <2>4 DEF ConnOK
    <3> QED
      BY <1>1, <2>1, <2>2, <2>4, <3>1, StageViews DEF ConnIs, SameView
  <2>5. CASE client[c].stage \notin {"connected", "reading"}
    BY <1>1, <2>1, <2>5, StageViews DEF SameView
  <2> QED
    BY <2>4, <2>5
<1> QED
  BY <1>2, ServiceChanges DEF Inv

LEMMA InitServes == Init => Service!Init
<1> SUFFICES ASSUME Init PROVE Service!Init
  OBVIOUS
<1>1. \A c \in Client : client[c] = IdleClient
  BY DEF Init
<1>2. \A c \in Client : PhaseOf(client[c], conn[c]) = "idle" /\ ServedOf(client[c], conn[c]) = Nothing
  BY <1>1, IdleFacts, StageViews DEF ClientIs
<1>3. phase = [c \in Client |-> "idle"] /\ served = [c \in Client |-> Nothing]
  BY <1>2, ViewFacts
<1> QED
  BY <1>3 DEF Service!Init, Init

LEMMA NextServes == Inv /\ Inv' /\ [Next]_vars => [Service!Next]_(Service!vars)
<1> SUFFICES ASSUME Inv, Inv', [Next]_vars PROVE [Service!Next]_(Service!vars)
  OBVIOUS
<1>1. ASSUME NEW c \in Requester, ConnStep(c) PROVE [Service!Next]_(Service!vars)
  BY <1>1, ConnStepServes
<1>2. ASSUME NEW c \in Client,
             Connect(c) \/ CannotConnect(c) \/ ClientStep(c) \/ Again(c) \/ Interrupt(c)
      PROVE  [Service!Next]_(Service!vars)
  BY <1>2, ConnectServes, WriteRequestServes, ReadServes, EndingServes, AgainServes,
     InterruptServes DEF ClientStep
<1>3. CASE Tick \/ DrainTick
  <2>1. client' = client /\ conn' = conn /\ Store' = Store
    BY <1>3 DEF Tick, DrainTick, daemonVars, Store
  <2> QED
    BY <2>1, ServiceStutters DEF SameView
<1>4. CASE SendUpdate
  <2>1. client' = client /\ Store' = Store /\ \A d \in Client : conn'[d] = conn[d]
    BY <1>4, ExchangeAssumption DEF SendUpdate, SetConn, Inv, TypeOK, daemonVars, Store
  <2> QED
    BY <2>1, ServiceStutters DEF SameView
<1>5. CASE Start
  <2>1. client' = client /\ conn' = conn
    BY <1>5 DEF Start
  <2> QED
    BY <2>1, ServiceChanges DEF Inv, SameView
<1>6. CASE UNCHANGED vars
  <2>1. client' = client /\ conn' = conn /\ Store' = Store
    BY <1>6 DEF vars, Store
  <2> QED
    BY <2>1, ServiceStutters DEF SameView
<1> QED
  BY <1>1, <1>2, <1>3, <1>4, <1>5, <1>6, HandleServes, AdvanceServes, ExitServes DEF Next

(***************************************************************************)
(* What a prompt prints, or a watch view draws, is what the store showed   *)
(* at one moment since it asked, whole; or it is nothing: every run of     *)
(* PromptExchange is a run of PromptService.                               *)
(***************************************************************************)
THEOREM ServiceKept == Spec => ServiceSpec
<1>1. Init => Service!Init
  BY InitServes
<1>2. Inv /\ Inv' /\ [Next]_vars => [Service!Next]_(Service!vars)
  BY NextServes
<1> QED
  BY <1>1, <1>2, InvHolds, PTL DEF Spec, ServiceSpec, Service!Spec

=============================================================================
