-------------------------- MODULE ServerReplyProofs --------------------------
(***************************************************************************)
(* What Server holds for a client that does not read is bounded, for every *)
(* watermark, chunk size, number of reads and query buffer limit.          *)
(*                                                                         *)
(* The invariant follows one event: what a client may hold when poll       *)
(* returns, how much input the reads may add to it, how many replies that  *)
(* input is worth, and that what is left is settled again.                 *)
(***************************************************************************)
EXTENDS ServerProofs

\* The unsent replies without the one that reports a protocol error.
EndsInError(client) == client.output # <<>> /\ Last(client.output)[3] = "error"
Held(client) == pendingOutput(client) - (IF EndsInError(client) THEN 1 ELSE 0)

\* Units that one event may read, and replies a client may hold between events.
EventUnits == ReadChunkSize * MaxReadsPerEvent
Rest == OutputHighWatermark - 1 + EventAnswers

\* What the client may hold when the loop begins to read from it: POLLIN is
\* asked for only below the watermark, POLLHUP comes anyway.
Base(c) == IF peer[c] = "reset" THEN Rest ELSE OutputHighWatermark - 1

\* Nothing in the input can be processed yet.
InputSettled(client) ==
    client.closeAfterWrite \/ ~(Whole(client.input) \/ IsBad(client.input))

HeadIsHuge(input) == input # <<>> /\ KindOf(Head(input)) = "huge"

\* The input is what was left of one request and at most n units more.
InputWithin(input, n) ==
    \/ Len(input) <= 1 + n
    \/ HeadIsHuge(input) /\ Len(input) <= MaxQueryBuffer + n

\* The replies held and the ones the input is worth stay within b and the
\* answers of one event.
AnswersWithin(client, b) ==
    IF client.closeAfterWrite THEN Held(client) <= b + EventAnswers
    ELSE \/ 2 * pendingOutput(client) + Len(client.input) <= 2 * b + EventUnits + 1
         \/ /\ HeadIsHuge(client.input)
            /\ pendingOutput(client) <= b
            /\ Len(client.input) <= MaxQueryBuffer + EventUnits

HalfSent(client) == client.outputOffset <= Len(client.output) \div 2
Settled(client) == InputSettled(client) /\ Held(client) <= Rest /\ HalfSent(client)

\* What the events of a descriptor say about its client.
EventsTrue(d) ==
    /\ "IN" \in d.revents =>
          /\ pendingOutput(clients[d.fd]) <= OutputHighWatermark - 1
          /\ ~clients[d.fd].closeAfterWrite
    /\ "HUP" \in d.revents => peer[fds[d.fd]] = "reset"

\* The client being handled, at every label, if it held at most b when the
\* event began and k reads are done.
HandledAt(label, k, client, b) ==
    /\ label = "read" =>
          /\ k \in 0 .. MaxReadsPerEvent - 1
          /\ Held(client) <= b
          /\ ~client.closeAfterWrite => InputWithin(client.input, k * ReadChunkSize)
    /\ label \in {"process", "processLast"} => AnswersWithin(client, b)
    /\ label \in {"reply", "send", "close"} => Held(client) <= b + EventAnswers
    /\ label \in {"reply", "send"} => InputSettled(client)
    /\ label \in {"read", "process", "processLast", "reply"} => HalfSent(client)

HandledInv == HandledAt(pc, reads, Me, Base(fds[socket]))

OutputInv ==
    /\ \A fd \in DOMAIN fds : EndsInError(clients[fd]) => clients[fd].closeAfterWrite
    /\ \A fd \in DOMAIN fds : Settled(clients[fd]) \/ (Handling /\ fd = socket)
    /\ \A d \in todo : EventsTrue(d)
    /\ Handling => HandledInv
-----------------------------------------------------------------------------
(***************************************************************************)
(* The numbers, and what a step cannot change.                             *)
(***************************************************************************)
\* The limits are naturals, and half of an event's units is its answers.
LEMMA Bounds ==
    /\ EventUnits \in Nat \ {0} /\ EventAnswers \in Nat
    /\ Rest \in Nat /\ OutputHighWatermark - 1 \in Nat
    /\ Rest = (OutputHighWatermark - 1) + EventAnswers
    /\ MaxQueryBuffer \in Nat /\ MaxQueryBuffer >= 1
    /\ \A p, b \in Nat : 2 * p <= 2 * b + EventUnits + 1 => p <= b + EventAnswers
<1>1. EventUnits \in Nat \ {0}
  BY LimitsAssumption DEF EventUnits
<1>2. EventAnswers = (EventUnits + 1) \div 2
  BY DEF EventAnswers, EventUnits
<1>3. EventAnswers \in Nat
  BY <1>1, <1>2
<1>4. \A p, b \in Nat : 2 * p <= 2 * b + EventUnits + 1 => p <= b + EventAnswers
  BY <1>1, <1>2
<1>5. MaxQueryBuffer \in Nat /\ MaxQueryBuffer >= 1
  BY <1>1, LimitsAssumption DEF EventUnits
<1> QED BY <1>1, <1>3, <1>4, <1>5, LimitsAssumption DEF Rest

\* What a client may hold when its event begins lies between the watermark and
\* what it may hold between events.
LEMMA BaseBounds ==
    ASSUME NEW c PROVE Base(c) \in Nat /\ Base(c) <= Rest /\ Rest <= Base(c) + EventAnswers
BY Bounds DEF Base

\* The scenario decides what is in an input, and it never changes.
LEMMA SameJudgement ==
    ASSUME scenario' = scenario
    PROVE  /\ \A client : Settled(client)' <=> Settled(client)
           /\ \A label, k, client, b :
                 HandledAt(label, k, client, b)' <=> HandledAt(label, k, client, b)
<1>1. \A input : /\ Whole(input)' <=> Whole(input)
                 /\ IsBad(input)' <=> IsBad(input)
                 /\ HeadIsHuge(input)' <=> HeadIsHuge(input)
  BY DEF Whole, IsBad, HeadIsHuge, KindOf
<1>2. \A client : InputSettled(client)' <=> InputSettled(client)
  BY <1>1 DEF InputSettled
<1>3. \A input, n : InputWithin(input, n)' <=> InputWithin(input, n)
  BY <1>1 DEF InputWithin
<1>4. \A client, b : AnswersWithin(client, b)' <=> AnswersWithin(client, b)
  BY <1>1 DEF AnswersWithin, Held, EndsInError, pendingOutput
<1>5. \A client : Settled(client)' <=> Settled(client)
  BY <1>2 DEF Settled, Held, EndsInError, pendingOutput, HalfSent
<1>6. ASSUME NEW label, NEW k, NEW client, NEW b
      PROVE  HandledAt(label, k, client, b)' <=> HandledAt(label, k, client, b)
  BY <1>2, <1>3, <1>4 DEF HandledAt, Held, EndsInError, pendingOutput, HalfSent
<1> QED BY <1>5, <1>6

\* Numbers of a client.
LEMMA ClientNumbers ==
    ASSUME NEW P, NEW E, NEW client \in ClientWith(P, E),
           client.outputOffset <= Len(client.output)
    PROVE  /\ pendingOutput(client) \in Nat /\ Held(client) \in Int
           /\ Held(client) <= pendingOutput(client)
           /\ pendingOutput(client) - 1 <= Held(client)
           /\ Len(client.input) \in Nat /\ client.closeAfterWrite \in BOOLEAN
           /\ Len(client.output) \in Nat /\ client.outputOffset \in Nat
<1>1. pendingOutput(client) \in Nat
  BY PendingType
<1>2. client.input \in Seq(P) /\ client.closeAfterWrite \in BOOLEAN
      /\ client.output \in Seq(E) /\ client.outputOffset \in Nat
  BY DEF ClientWith
<1>3. Len(client.input) \in Nat /\ Len(client.output) \in Nat
  BY <1>2, LenProperties
<1> QED BY <1>1, <1>2, <1>3 DEF Held

\* A client that may hold more may hold as much.
LEMMA HandledMonotonic ==
    ASSUME NEW label, NEW k, NEW P, NEW E, NEW client \in ClientWith(P, E),
           client.outputOffset <= Len(client.output),
           NEW b \in Nat, NEW more \in Nat, b <= more, HandledAt(label, k, client, b)
    PROVE  HandledAt(label, k, client, more)
<1>1. /\ pendingOutput(client) \in Nat /\ Held(client) \in Int
      /\ Len(client.input) \in Nat /\ EventAnswers \in Nat /\ EventUnits \in Nat
  BY ClientNumbers, Bounds
<1>2. AnswersWithin(client, b) => AnswersWithin(client, more)
  BY <1>1 DEF AnswersWithin
<1>3. Held(client) <= b => Held(client) <= more
  BY <1>1
<1>4. Held(client) <= b + EventAnswers => Held(client) <= more + EventAnswers
  BY <1>1
<1> QED BY <1>2, <1>3, <1>4 DEF HandledAt

\* A step that changes at most the client being handled, and where the loop
\* stands: the others are as settled as before.
LEMMA OutputSetClient ==
    ASSUME Inv, OutputInv, Handling, NEW client, SetClient(client),
           UNCHANGED <<scenario, fds, peer, todo, socket>>,
           EndsInError(client) => client.closeAfterWrite,
           \/ HandledAt(pc', reads', client, Base(fds[socket])) /\ Handling'
           \/ Settled(client) /\ ~Handling'
    PROVE  OutputInv'
<1>1. clients' = [clients EXCEPT ![socket] = client] /\ DOMAIN clients = DOMAIN fds
  BY DEF SetClient, Inv, Shape, ClientInv
<1>2. socket \in DOMAIN fds
  BY DEF Inv, Shape, LoopInv
<1>3. /\ clients'[socket] = client
      /\ \A fd \in DOMAIN fds : fd # socket => clients'[fd] = clients[fd]
  BY <1>1, <1>2
<1>4. \A fd \in DOMAIN fds' : EndsInError(clients[fd])' => clients'[fd].closeAfterWrite
  BY <1>3 DEF OutputInv, EndsInError
<1>5. ASSUME NEW fd \in DOMAIN fds
      PROVE  Settled(clients[fd])' \/ (Handling /\ fd = socket)'
  <2>1. CASE fd # socket
    <3>1. Settled(clients[fd])
      BY <2>1 DEF OutputInv
    <3>2. PICK k : k = clients[fd] /\ clients'[fd] = k
      BY <1>3, <2>1
    <3>3. Settled(k)'
      BY <3>1, <3>2, SameJudgement
    <3> QED BY <3>2, <3>3
  <2>2. CASE fd = socket
    <3>1. CASE Handling'
      BY <2>2, <3>1
    <3>2. CASE ~Handling'
      <4>1. Settled(client)'
        BY <3>2, SameJudgement
      <4> QED BY <2>2, <1>3, <4>1
    <3> QED BY <3>1, <3>2
  <2> QED BY <2>1, <2>2
<1>6. ASSUME NEW d \in todo PROVE EventsTrue(d)'
  <2>1. d.fd \in DOMAIN fds /\ d.fd # socket
    BY DEF Inv, Shape, LoopInv
  <2>2. EventsTrue(d)
    BY DEF OutputInv
  <2> QED BY <1>3, <2>1, <2>2 DEF EventsTrue, pendingOutput
<1>7. Handling' => HandledInv'
  <2> SUFFICES ASSUME Handling' PROVE HandledInv'
    OBVIOUS
  <2>1. Me' = client /\ Base(fds[socket])' = Base(fds[socket])
    BY <1>3 DEF Me, Base
  <2>2. PICK label, k, b : label = pc' /\ k = reads' /\ b = Base(fds[socket])
    OBVIOUS
  <2>3. HandledAt(label, k, client, b)'
    BY <2>2, SameJudgement
  <2> QED BY <2>1, <2>2, <2>3 DEF HandledInv
<1> QED BY <1>4, <1>5, <1>6, <1>7 DEF OutputInv

\* A step of the handling that leaves the client as it is.
LEMMA OutputMove ==
    ASSUME Inv, OutputInv, Handling,
           UNCHANGED <<scenario, fds, peer, todo, socket, clients>>,
           \/ HandledAt(pc', reads', Me, Base(fds[socket])) /\ Handling'
           \/ Settled(Me) /\ ~Handling'
    PROVE  OutputInv'
<1>1. PICK client : client = Me
  OBVIOUS
<1>2. socket \in DOMAIN fds /\ DOMAIN clients = DOMAIN fds
      /\ clients = [fd \in DOMAIN fds |-> clients[fd]]
  BY DEF Inv, Shape, LoopInv, ClientInv
<1>3. SetClient(client)
  BY <1>1, <1>2 DEF SetClient, Me
<1>4. EndsInError(client) => client.closeAfterWrite
  BY <1>1, <1>2 DEF OutputInv, Me
<1> QED BY <1>1, <1>3, <1>4, OutputSetClient

(***************************************************************************)
(* The steps.                                                              *)
(***************************************************************************)
\* A peer that is gone stays gone, and more may be held for it.
LEMMA OutputPeers ==
    ASSUME Inv, OutputInv, NEW p \in Connection, Peers(p) PROVE OutputInv'
<1>1. /\ UNCHANGED <<scenario, fds, pc, clients, todo, socket, reads>>
      /\ \A c \in Connection : peer[c] = "reset" => peer'[c] = "reset"
  BY DEF Peers, Connect, PeerSends, PeerFinishes, PeerResets, PeerReads, loopVars,
     Inv, Shape, NetInv
<1>2. \A fd \in DOMAIN fds : fds[fd] \in Connection
  BY DEF Inv, Shape, DescriptorInv
<1>3. \A fd \in DOMAIN fds' : EndsInError(clients[fd])' => clients'[fd].closeAfterWrite
  BY <1>1 DEF OutputInv, EndsInError
<1>4. \A fd \in DOMAIN fds' : Settled(clients[fd])' \/ (Handling /\ fd = socket)'
  <2>1. ASSUME NEW fd \in DOMAIN fds PROVE Settled(clients[fd])' \/ (Handling /\ fd = socket)'
    <3>1. PICK k : k = clients[fd] /\ clients'[fd] = k
      BY <1>1
    <3>2. Settled(k)' <=> Settled(k)
      BY <1>1, SameJudgement
    <3> QED BY <1>1, <3>1, <3>2 DEF OutputInv, Handling
  <2> QED BY <1>1, <2>1
<1>5. \A d \in todo' : EventsTrue(d)'
  <2>1. ASSUME NEW d \in todo PROVE EventsTrue(d)'
    <3>1. EventsTrue(d) /\ d.fd \in DOMAIN fds
      BY DEF OutputInv, Inv, Shape, LoopInv
    <3> QED BY <1>1, <1>2, <3>1 DEF EventsTrue, pendingOutput
  <2> QED BY <1>1, <2>1
<1>6. ASSUME Handling' PROVE HandledInv'
  <2>1. Handling /\ HandledInv
    BY <1>1, <1>6 DEF Handling, OutputInv
  <2>2. PICK label, k, client, b, more :
           /\ label = pc /\ k = reads /\ client = Me /\ b = Base(fds[socket])
           /\ more = Base(fds[socket])'
    OBVIOUS
  <2>3. client \in ClientWith(Piece(fds[socket]), Earned(fds[socket]))
        /\ client.outputOffset <= Len(client.output) /\ fds[socket] \in Connection
    BY <2>1, <2>2, MyClient DEF ClientOf
  <2>4. b \in Nat /\ more \in Nat /\ b <= more
    BY <1>1, <2>2, <2>3, Bounds DEF Base
  <2>5. HandledAt(label, k, client, b)
    BY <2>1, <2>2 DEF HandledInv
  <2>6. HandledAt(label, k, client, more)
    BY <2>3, <2>4, <2>5, HandledMonotonic
  <2>7. HandledAt(label, k, client, more)'
    BY <1>1, <2>6, SameJudgement
  <2>8. label = pc' /\ k = reads' /\ client = Me'
    BY <1>1, <2>2 DEF Me
  <2> QED BY <2>2, <2>7, <2>8 DEF HandledInv
<1> QED BY <1>3, <1>4, <1>5, <1>6 DEF OutputInv

\* Between the handling of clients.
LEMMA OutputIdle ==
    ASSUME Inv, OutputInv, ~Handling, ~Handling',
           UNCHANGED <<scenario, fds, clients, peer>>, \A d \in todo' : EventsTrue(d)'
    PROVE  OutputInv'
<1>1. \A fd \in DOMAIN fds' : EndsInError(clients[fd])' => clients'[fd].closeAfterWrite
  BY DEF OutputInv, EndsInError
<1>2. ASSUME NEW fd \in DOMAIN fds PROVE Settled(clients[fd])'
  <2>1. PICK k : k = clients[fd] /\ clients'[fd] = k
    OBVIOUS
  <2>2. Settled(k)' <=> Settled(k)
    BY SameJudgement
  <2> QED BY <2>1, <2>2 DEF OutputInv
<1> QED BY <1>1, <1>2 DEF OutputInv

\* The steps that move the loop between clients.
LEMMA OutputControl ==
    ASSUME Inv, OutputInv,
           \/ CronTimeReached \/ handleShutdownSignal \/ PollFails \/ LoopTest \/ CallPoll
           \/ AcceptReturns \/ Cron \/ Exit
    PROVE  OutputInv'
<1>1. /\ UNCHANGED <<netVars, clients, todo>> /\ ~Handling /\ ~Handling'
  BY DEF CronTimeReached, handleShutdownSignal, PollFails, LoopTest, CallPoll,
     AcceptReturns, Cron, Exit, Goto, Handling
<1>2. UNCHANGED <<scenario, fds, clients, peer, todo>>
  BY <1>1 DEF netVars
<1>3. \A d \in todo' : EventsTrue(d)'
  BY <1>2 DEF OutputInv, EventsTrue, pendingOutput
<1> QED BY <1>1, <1>2, <1>3, OutputIdle

\* The steps of the file, and those that change nothing.
LEMMA OutputUnchanged ==
    ASSUME Inv, OutputInv, UNCHANGED <<netVars, loopVars>> PROVE OutputInv'
<1>1. UNCHANGED <<scenario, fds, clients, peer, todo, socket, pc, reads>>
  BY DEF netVars, loopVars
<1>2. CASE ~Handling
  <2>1. ~Handling' /\ \A d \in todo' : EventsTrue(d)'
    BY <1>1, <1>2 DEF Handling, OutputInv, EventsTrue, pendingOutput
  <2> QED BY <1>1, <1>2, <2>1, OutputIdle
<1>3. CASE Handling
  <2>1. Handling'
    BY <1>1, <1>3 DEF Handling
  <2>2. HandledAt(pc', reads', Me, Base(fds[socket]))
    BY <1>1, <1>3 DEF OutputInv, HandledInv
  <2> QED BY <1>1, <1>3, <2>1, <2>2, OutputMove
<1> QED BY <1>2, <1>3

\* poll is asked for input only below the watermark.
LEMMA OutputPollReturns ==
    ASSUME Inv, OutputInv, PollReturns PROVE OutputInv'
<1>1. /\ UNCHANGED <<netVars, clients>> /\ ~Handling /\ ~Handling'
  BY DEF PollReturns, Goto, Handling
<1>2. UNCHANGED <<scenario, fds, clients, peer>>
  BY <1>1 DEF netVars
<1>3. PICK onReset \in {{"ERR"}, {"HUP"}, {"ERR", "HUP"}} : todo' = Descriptors(onReset)
  BY DEF PollReturns
<1>4. ASSUME NEW d \in todo' PROVE EventsTrue(d)'
  <2>1. PICK fd \in DOMAIN clients :
           d = [fd |-> fd, revents |->
                   ReturnedEvents(fds[fd], RequestedEvents(clients[fd]), onReset)]
    BY <1>3, <1>4 DEF Descriptors
  <2>2. d.fd = fd /\ d.revents =
           ReturnedEvents(fds[fd], RequestedEvents(clients[fd]), onReset)
    BY <2>1
  <2>3. "HUP" \in d.revents => peer[fds[fd]] = "reset"
    BY <2>2 DEF ReturnedEvents, RequestedEvents
  <2>4. "IN" \in d.revents => "IN" \in RequestedEvents(clients[fd])
    BY <1>3, <2>2 DEF ReturnedEvents
  <2>5. "IN" \in d.revents =>
           pendingOutput(clients[fd]) < OutputHighWatermark /\ ~clients[fd].closeAfterWrite
    BY <2>4 DEF RequestedEvents
  <2>6. pendingOutput(clients[fd]) \in Nat
    <3>1. /\ clients[fd] \in ClientWith(Piece(fds[fd]), Earned(fds[fd]))
          /\ clients[fd].outputOffset <= Len(clients[fd].output)
      BY DEF Inv, Shape, ClientInv, ClientOf
    <3> QED BY <3>1, PendingType
  <2>7. "IN" \in d.revents => pendingOutput(clients[fd]) <= OutputHighWatermark - 1
    BY <2>5, <2>6, LimitsAssumption
  <2> QED BY <1>2, <2>2, <2>3, <2>5, <2>7 DEF EventsTrue, pendingOutput
<1> QED BY <1>1, <1>2, <1>4, OutputIdle

\* What is left in a settled input is less than one request.
LEMMA SettledInput ==
    ASSUME NEW c, NEW client \in ClientOf(c), InputSettled(client), ~client.closeAfterWrite
    PROVE  InputWithin(client.input, 0)
<1>1. client.input \in Seq(Piece(c)) /\ Len(client.input) \in Nat
  BY LenProperties DEF ClientOf, ClientWith
<1>2. CASE client.input = <<>>
  BY <1>2 DEF InputWithin
<1>3. CASE client.input # <<>>
  <2>1. ~(Len(client.input) >= RequestLength(KindOf(Head(client.input))))
    BY <1>3 DEF InputSettled, Whole
  <2>2. CASE KindOf(Head(client.input)) = "huge"
    BY <1>1, <1>3, <2>1, <2>2, Bounds DEF RequestLength, InputWithin, HeadIsHuge
  <2>3. CASE KindOf(Head(client.input)) # "huge"
    BY <1>1, <2>1, <2>3 DEF RequestLength, InputWithin
  <2> QED BY <2>2, <2>3
<1> QED BY <1>2, <1>3

\* A client is taken up as it was left.
LEMMA OutputEvents ==
    ASSUME Inv, OutputInv, handleClientEvents PROVE OutputInv'
<1>1. PICK d \in todo : todo' = todo \ {d} /\ socket' = d.fd /\ pc' = FirstStep(d.revents)
  BY DEF handleClientEvents, Goto
<1>2. /\ UNCHANGED <<scenario, fds, clients, peer>> /\ reads' = 0 /\ ~Handling
  BY DEF handleClientEvents, netVars, Handling
<1>3. PICK client, c, b : client = clients[d.fd] /\ c = fds[d.fd] /\ b = Base(c)
  OBVIOUS
<1>4. /\ d.fd \in DOMAIN fds /\ c \in Connection /\ client \in ClientOf(c)
      /\ client.outputOffset <= Len(client.output) /\ EventsTrue(d)
  BY <1>3 DEF Inv, Shape, LoopInv, DescriptorInv, ClientInv, OutputInv
<1>5. Settled(client)
  BY <1>2, <1>3, <1>4 DEF OutputInv
<1>6. /\ pendingOutput(client) \in Nat /\ Held(client) \in Int
      /\ Held(client) <= pendingOutput(client)
  BY <1>4, ClientNumbers DEF ClientOf
<1>7. /\ b \in Nat /\ Rest \in Nat /\ EventAnswers \in Nat
      /\ b <= Rest /\ Rest <= b + EventAnswers /\ OutputHighWatermark - 1 <= b
      /\ OutputHighWatermark - 1 \in Nat
  BY <1>3, BaseBounds, Bounds DEF Base
<1>8. Held(client) <= Rest /\ InputSettled(client) /\ HalfSent(client)
  BY <1>5 DEF Settled
<1>9. Held(client) <= b + EventAnswers
  BY <1>6, <1>7, <1>8
<1>10. HandledAt(pc', 0, client, b)
  <2>1. CASE pc' = "close"
    BY <2>1, <1>9 DEF HandledAt
  <2>2. CASE pc' = "reply"
    BY <2>2, <1>8, <1>9 DEF HandledAt
  <2>3. CASE pc' = "read"
    <3>1. "IN" \in d.revents \/ "HUP" \in d.revents
      BY <1>1, <2>3 DEF FirstStep
    <3>2. Held(client) <= b
      <4>1. CASE "IN" \in d.revents
        BY <1>3, <1>4, <1>6, <1>7, <4>1 DEF EventsTrue
      <4>2. CASE "HUP" \in d.revents
        BY <1>3, <1>4, <1>8, <4>2 DEF EventsTrue, Base
      <4> QED BY <3>1, <4>1, <4>2
    <3>3. ~client.closeAfterWrite => InputWithin(client.input, 0)
      BY <1>4, <1>8, SettledInput
    <3>4. 0 * ReadChunkSize = 0 /\ 0 \in 0 .. MaxReadsPerEvent - 1
      BY LimitsAssumption
    <3> QED BY <2>3, <1>8, <3>2, <3>3, <3>4 DEF HandledAt
  <2> QED BY <1>1, <2>1, <2>2, <2>3 DEF FirstStep
<1>11. HandledInv'
  <2>1. Me' = client /\ Base(fds[socket])' = b
    BY <1>1, <1>2, <1>3 DEF Me, Base
  <2>2. PICK label : label = pc'
    OBVIOUS
  <2>3. HandledAt(label, 0, client, b)'
    BY <1>2, <1>10, <2>2, SameJudgement
  <2> QED BY <1>2, <2>1, <2>2, <2>3 DEF HandledInv
<1>12. \A fd \in DOMAIN fds' : EndsInError(clients[fd])' => clients'[fd].closeAfterWrite
  BY <1>2 DEF OutputInv, EndsInError
<1>13. ASSUME NEW fd \in DOMAIN fds PROVE Settled(clients[fd])'
  <2>1. PICK k : k = clients[fd] /\ clients'[fd] = k
    BY <1>2
  <2>2. Settled(k)' <=> Settled(k)
    BY <1>2, SameJudgement
  <2> QED BY <1>2, <2>1, <2>2 DEF OutputInv
<1>14. \A e \in todo' : EventsTrue(e)'
  BY <1>1, <1>2 DEF OutputInv, EventsTrue, pendingOutput
<1> QED BY <1>2, <1>11, <1>12, <1>13, <1>14 DEF OutputInv

\* A new client holds nothing.
LEMMA OutputAccept ==
    ASSUME Inv, OutputInv, NEW c \in Connection, Accept(c) PROVE OutputInv'
<1> DEFINE n == Min(FreeFds)
<1>1. scenario.fds \in Nat /\ FreeFds \subseteq Nat /\ FreeFds # {}
  BY ScenariosAssumption DEF Inv, Shape, NetInv, Accept, FreeFds
<1>2. n \notin DOMAIN fds
  BY <1>1, MinProperties DEF FreeFds
<1>3. /\ fds' = Emplaced(fds, n, c) /\ clients' = Emplaced(clients, n, Client)
      /\ UNCHANGED <<scenario, peer, pc, todo, socket>> /\ pc = "accept"
  BY DEF Accept
<1> HIDE DEF n
<1>4. DOMAIN clients = DOMAIN fds
  BY DEF Inv, Shape, ClientInv
<1>5. /\ DOMAIN fds' = DOMAIN fds \cup {n} /\ clients'[n] = Client
      /\ \A fd \in DOMAIN fds : fds'[fd] = fds[fd] /\ clients'[fd] = clients[fd]
  BY <1>2, <1>3, <1>4 DEF Emplaced
<1>6. ~Handling /\ ~Handling'
  BY <1>3 DEF Handling
<1>7. /\ Client.output = <<>> /\ Client.input = <<>> /\ Client.outputOffset = 0
      /\ ~Client.closeAfterWrite
  BY DEF Client
<1>8. Settled(Client) /\ ~EndsInError(Client)
  <2>1. ~EndsInError(Client) /\ InputSettled(Client)
    BY <1>7 DEF EndsInError, InputSettled, Whole, IsBad
  <2>2. pendingOutput(Client) = 0 /\ HalfSent(Client)
    BY <1>7 DEF pendingOutput, HalfSent
  <2> QED BY <2>1, <2>2, Bounds DEF Settled, Held
<1>9. ASSUME NEW fd \in DOMAIN fds'
      PROVE  /\ EndsInError(clients[fd])' => clients'[fd].closeAfterWrite
             /\ Settled(clients[fd])'
  <2>1. PICK k : clients'[fd] = k
    OBVIOUS
  <2>2. Settled(k) /\ (EndsInError(k) => k.closeAfterWrite)
    BY <1>5, <1>6, <1>8, <2>1 DEF OutputInv
  <2>3. Settled(k)'
    BY <1>3, <2>2, SameJudgement
  <2> QED BY <2>1, <2>2, <2>3 DEF EndsInError
<1>10. ASSUME NEW d \in todo' PROVE EventsTrue(d)'
  <2>1. d.fd \in DOMAIN fds /\ EventsTrue(d)
    BY <1>3, <1>10 DEF OutputInv, Inv, Shape, LoopInv
  <2> QED BY <1>3, <1>5, <2>1 DEF EventsTrue, pendingOutput
<1> QED BY <1>6, <1>9, <1>10 DEF OutputInv

\* Hanging up leaves the other clients as they are.
LEMMA OutputClose ==
    ASSUME Inv, OutputInv, CloseClient PROVE OutputInv'
<1>1. /\ fds' = Without(fds, socket) /\ clients' = Without(clients, socket)
      /\ UNCHANGED <<scenario, peer, todo, socket>> /\ pc = "close" /\ pc' = "events"
  BY DEF CloseClient, Goto
<1>2. DOMAIN clients = DOMAIN fds /\ Handling /\ ~Handling'
  BY <1>1 DEF Inv, Shape, ClientInv, Handling
<1>3. /\ DOMAIN fds' = DOMAIN fds \ {socket}
      /\ \A fd \in DOMAIN fds' : fds'[fd] = fds[fd] /\ clients'[fd] = clients[fd]
  BY <1>1, <1>2 DEF Without
<1>4. ASSUME NEW fd \in DOMAIN fds'
      PROVE  /\ EndsInError(clients[fd])' => clients'[fd].closeAfterWrite
             /\ Settled(clients[fd])'
  <2>1. PICK k : k = clients[fd] /\ clients'[fd] = k
    BY <1>3
  <2>2. Settled(k) /\ (EndsInError(k) => k.closeAfterWrite)
    BY <1>3, <2>1 DEF OutputInv
  <2>3. Settled(k)'
    BY <1>1, <2>2, SameJudgement
  <2> QED BY <2>1, <2>2, <2>3 DEF EndsInError
<1>5. ASSUME NEW d \in todo' PROVE EventsTrue(d)'
  <2>1. d.fd \in DOMAIN fds' /\ EventsTrue(d)
    BY <1>1, <1>2, <1>3, <1>5 DEF OutputInv, Inv, Shape, LoopInv
  <2> QED BY <1>1, <1>3, <2>1 DEF EventsTrue, pendingOutput
<1> QED BY <1>2, <1>4, <1>5 DEF OutputInv

\* At the end there are no clients.
LEMMA OutputStop ==
    ASSUME Inv, OutputInv, Stop PROVE OutputInv'
<1>1. DOMAIN fds' = {} /\ todo' = todo /\ todo = {} /\ ~Handling'
  BY DEF Stop, Goto, Handling, Inv, Shape, LoopInv
<1> QED BY <1>1 DEF OutputInv

\* Input of one event asks for no more than its answers.
LEMMA ReadAnswers ==
    ASSUME NEW P, NEW E, NEW client \in ClientWith(P, E),
           client.outputOffset <= Len(client.output),
           EndsInError(client) => client.closeAfterWrite,
           NEW b \in Nat, Held(client) <= b, NEW n \in Nat, n <= EventUnits,
           ~client.closeAfterWrite => InputWithin(client.input, n)
    PROVE  AnswersWithin(client, b)
<1>1. /\ pendingOutput(client) \in Nat /\ Held(client) \in Int
      /\ Len(client.input) \in Nat /\ EventAnswers \in Nat /\ EventUnits \in Nat
      /\ MaxQueryBuffer \in Nat
  BY ClientNumbers, Bounds
<1>2. CASE client.closeAfterWrite
  BY <1>1, <1>2 DEF AnswersWithin
<1>3. CASE ~client.closeAfterWrite
  <2>1. pendingOutput(client) <= b
    BY <1>1, <1>3 DEF Held
  <2>2. CASE Len(client.input) <= 1 + n
    BY <1>1, <1>3, <2>1, <2>2 DEF AnswersWithin
  <2>3. CASE HeadIsHuge(client.input) /\ Len(client.input) <= MaxQueryBuffer + n
    BY <1>1, <1>3, <2>1, <2>3 DEF AnswersWithin
  <2> QED BY <1>3, <2>2, <2>3 DEF InputWithin
<1> QED BY <1>2, <1>3

\* Replies that are within the answers of one event.
LEMMA WithinHeld ==
    ASSUME NEW P, NEW E, NEW client \in ClientWith(P, E),
           client.outputOffset <= Len(client.output),
           NEW b \in Nat, AnswersWithin(client, b)
    PROVE  Held(client) <= b + EventAnswers
<1>1. /\ pendingOutput(client) \in Nat /\ Held(client) \in Int
      /\ Held(client) <= pendingOutput(client)
      /\ Len(client.input) \in Nat /\ EventAnswers \in Nat /\ EventUnits \in Nat
  BY ClientNumbers, Bounds
<1>2. CASE client.closeAfterWrite
  BY <1>2 DEF AnswersWithin
<1>3. CASE 2 * pendingOutput(client) + Len(client.input) <= 2 * b + EventUnits + 1
  <2>1. 2 * pendingOutput(client) <= 2 * b + EventUnits + 1
    BY <1>1, <1>3
  <2>2. pendingOutput(client) <= b + EventAnswers
    BY <1>1, <2>1, Bounds
  <2> QED BY <1>1, <2>2
<1>4. CASE pendingOutput(client) <= b
  BY <1>1, <1>4
<1> QED BY <1>2, <1>3, <1>4 DEF AnswersWithin

\* The client that is being handled, in numbers.
LEMMA HandledNumbers ==
    ASSUME Inv, OutputInv, Handling
    PROVE  /\ HandledAt(pc, reads, Me, Base(fds[socket])) /\ Base(fds[socket]) \in Nat
           /\ Me \in ClientWith(Piece(fds[socket]), Earned(fds[socket]))
           /\ Me.outputOffset <= Len(Me.output)
           /\ EndsInError(Me) => Me.closeAfterWrite
           /\ pendingOutput(Me) \in Nat /\ Held(Me) \in Int
           /\ Held(Me) <= pendingOutput(Me)
           /\ Len(Me.input) \in Nat /\ Me.closeAfterWrite \in BOOLEAN
           /\ EventAnswers \in Nat /\ EventUnits \in Nat
<1>1. /\ Me \in ClientWith(Piece(fds[socket]), Earned(fds[socket]))
      /\ Me.outputOffset <= Len(Me.output) /\ socket \in DOMAIN fds
  BY MyClient DEF ClientOf
<1>2. /\ pendingOutput(Me) \in Nat /\ Held(Me) \in Int
      /\ Held(Me) <= pendingOutput(Me)
      /\ Len(Me.input) \in Nat /\ Me.closeAfterWrite \in BOOLEAN
  BY <1>1, ClientNumbers
<1> QED BY <1>1, <1>2, BaseBounds, Bounds DEF OutputInv, HandledInv, Me

\* recv adds at most a chunk to the input.
LEMMA OutputRecvData ==
    ASSUME Inv, OutputInv, RecvData PROVE OutputInv'
<1> PICK c : c = fds[socket]
  OBVIOUS
<1> PICK b : b = Base(c)
  OBVIOUS
<1> DEFINE n == Min({Unread(c), ReadChunkSize})
           more == SubSeq(Stream(c), received[c] + 1, received[c] + n)
           input == Me.input \o more
           client == [Me EXCEPT !.input = input]
<1>0. Handling /\ pc = "read"
  BY DEF RecvData, Handling
<1>1. /\ c \in Connection /\ Me.input \in Seq(Piece(c)) /\ Len(Me.input) \in Nat
  BY <1>0, MyClient
<1>2. /\ n > 0 /\ SetClient(client)
      /\ pc' = (IF n < ReadChunkSize \/ reads + 1 = MaxReadsPerEvent
                THEN AfterReading(input) ELSE "read")
      /\ reads' = (IF n < ReadChunkSize THEN reads ELSE reads + 1)
      /\ UNCHANGED <<scenario, peer, fds, todo, socket>>
  BY DEF RecvData, Goto
<1>3. /\ received[c] \in Nat /\ sent[c] \in Nat /\ received[c] <= sent[c]
      /\ sent[c] <= Len(Stream(c)) /\ Stream(c) \in Seq(Piece(c))
  BY <1>1, StreamType DEF Inv, Shape, NetInv
<1>4. n \in Nat /\ n <= Unread(c) /\ Unread(c) = sent[c] - received[c] /\ n <= ReadChunkSize
  <2>1. {Unread(c), ReadChunkSize} \subseteq Nat
    BY <1>3, LimitsAssumption DEF Unread
  <2> QED BY <2>1, MinProperties DEF Unread
<1> HIDE DEF n
<1>5. more \in Seq(Piece(c)) /\ Len(more) = n
  <2>1. Len(Stream(c)) \in Nat
    BY <1>3, LenProperties
  <2>2. received[c] + 1 \in 1 .. Len(Stream(c)) + 1 /\ received[c] + n \in 0 .. Len(Stream(c))
    BY <1>3, <1>4, <2>1, SMTT(30)
  <2>3. \A i \in 1 .. Len(Stream(c)) : Stream(c)[i] \in Piece(c)
    BY <1>3, ElementOfSeq
  <2>4. /\ more \in Seq(Piece(c))
        /\ Len(more) = IF received[c] + 1 <= received[c] + n
                       THEN (received[c] + n) - (received[c] + 1) + 1 ELSE 0
    BY <1>3, <2>1, <2>2, <2>3, SubSeqProperties
  <2> HIDE DEF more
  <2>5. Len(more) = n
    <3>1. \A x, m \in Nat : m > 0 => x + 1 <= x + m /\ (x + m) - (x + 1) + 1 = m
      OBVIOUS
    <3> QED BY <1>2, <1>3, <1>4, <2>4, <3>1
  <2> QED BY <2>4, <2>5
<1> HIDE DEF more
<1>6. input \in Seq(Piece(c)) /\ Len(input) = Len(Me.input) + n
  BY <1>1, <1>5, ConcatProperties
<1>7. Me.input # <<>> => input # <<>> /\ Head(input) = Head(Me.input)
  <2> SUFFICES ASSUME Me.input # <<>> PROVE input # <<>> /\ Head(input) = Head(Me.input)
    OBVIOUS
  <2>1. 1 <= Len(Me.input)
    BY <1>1
  <2>2. input[1] = Me.input[1]
    BY <1>1, <1>5, <2>1, ConcatProperties
  <2> HIDE DEF input
  <2>3. Head(Me.input) = Me.input[1] /\ Len(input) >= 1
    BY <1>1, <1>4, <1>6, <2>1, HeadTailProperties
  <2>4. input # <<>>
    BY <1>6, <2>3
  <2>5. Head(input) = input[1]
    BY <1>6, <2>4, HeadTailProperties
  <2> QED BY <2>2, <2>3, <2>4, <2>5
<1> HIDE DEF input
<1>8. /\ Me \in ClientWith(Piece(c), Earned(c)) /\ Me.outputOffset <= Len(Me.output)
      /\ EndsInError(Me) => Me.closeAfterWrite
      /\ HandledAt("read", reads, Me, b) /\ b \in Nat
  BY <1>0, HandledNumbers
<1>9. /\ client \in ClientWith(Piece(c), Earned(c)) /\ client.input = input
      /\ client.output = Me.output /\ client.outputOffset = Me.outputOffset
      /\ client.closeAfterWrite = Me.closeAfterWrite
  BY <1>6, <1>8 DEF ClientWith
<1> HIDE DEF client
<1>10. /\ reads \in 0 .. MaxReadsPerEvent - 1 /\ Held(Me) <= b /\ HalfSent(Me)
       /\ ~Me.closeAfterWrite => InputWithin(Me.input, reads * ReadChunkSize)
  BY <1>8 DEF HandledAt
<1>11. /\ Held(client) <= b /\ HalfSent(client)
       /\ EndsInError(client) => client.closeAfterWrite
       /\ client.outputOffset <= Len(client.output)
  BY <1>8, <1>9, <1>10 DEF Held, EndsInError, pendingOutput, HalfSent
<1>12. /\ reads * ReadChunkSize \in Nat /\ (reads + 1) * ReadChunkSize \in Nat
       /\ (reads + 1) * ReadChunkSize = reads * ReadChunkSize + ReadChunkSize
       /\ (reads + 1) * ReadChunkSize <= EventUnits
  <2>1. reads \in Nat /\ MaxReadsPerEvent - (reads + 1) \in Nat
    BY <1>10, LimitsAssumption
  <2>2. \A x, y, k \in Nat : /\ x * k \in Nat /\ (x + 1) * k \in Nat
                             /\ (x + 1) * k = x * k + k
                             /\ (x + 1) * k + y * k = k * (y + (x + 1))
    OBVIOUS
  <2>3. \A x, y, k \in Nat : y * k \in Nat
    OBVIOUS
  <2>4. (reads + 1) * ReadChunkSize + (MaxReadsPerEvent - (reads + 1)) * ReadChunkSize
          = EventUnits
    BY <2>1, <2>2, LimitsAssumption DEF EventUnits
  <2>5. (MaxReadsPerEvent - (reads + 1)) * ReadChunkSize \in Nat
    BY <2>1, <2>3, LimitsAssumption
  <2>6. /\ reads * ReadChunkSize \in Nat /\ (reads + 1) * ReadChunkSize \in Nat
        /\ (reads + 1) * ReadChunkSize = reads * ReadChunkSize + ReadChunkSize
    BY <2>1, <2>2, LimitsAssumption
  <2> QED BY <2>4, <2>5, <2>6, Bounds
<1>13. ~client.closeAfterWrite => InputWithin(client.input, (reads + 1) * ReadChunkSize)
  <2> SUFFICES ASSUME ~client.closeAfterWrite
               PROVE  InputWithin(input, (reads + 1) * ReadChunkSize)
    BY <1>9
  <2>1. InputWithin(Me.input, reads * ReadChunkSize)
    BY <1>9, <1>10
  <2>2. PICK x, y : x = reads * ReadChunkSize /\ y = (reads + 1) * ReadChunkSize
    OBVIOUS
  <2>3. x \in Nat /\ y = x + ReadChunkSize /\ InputWithin(Me.input, x)
    BY <1>12, <2>1, <2>2
  <2>4. CASE Len(Me.input) <= 1 + x
    BY <1>1, <1>4, <1>6, <2>2, <2>3, <2>4, LimitsAssumption DEF InputWithin
  <2>5. CASE HeadIsHuge(Me.input) /\ Len(Me.input) <= MaxQueryBuffer + x
    <3>1. HeadIsHuge(input)
      BY <1>7, <2>5 DEF HeadIsHuge
    <3> QED BY <1>1, <1>4, <1>6, <2>2, <2>3, <2>5, <3>1, LimitsAssumption, SMTT(30) DEF InputWithin
  <2> QED BY <2>3, <2>4, <2>5 DEF InputWithin
<1>14. AnswersWithin(client, b)
  BY <1>8, <1>9, <1>11, <1>12, <1>13, ReadAnswers
<1>15. Held(client) \in Int /\ Held(client) <= b + EventAnswers
  BY <1>8, <1>9, <1>11, ClientNumbers, Bounds
<1>16. HandledAt(pc', reads', client, b) /\ Handling'
  <2>1. CASE pc' = "process"
    BY <1>11, <1>14, <2>1 DEF HandledAt, Handling
  <2>2. CASE pc' = "close"
    BY <1>15, <2>2 DEF HandledAt, Handling
  <2>3. CASE pc' = "read"
    <3>1. reads' = reads + 1 /\ reads + 1 # MaxReadsPerEvent
      BY <1>2, <2>3 DEF AfterReading
    <3>2. reads + 1 \in 0 .. MaxReadsPerEvent - 1
      BY <1>10, <3>1, LimitsAssumption
    <3> QED BY <1>11, <1>13, <2>3, <3>1, <3>2 DEF HandledAt, Handling
  <2> QED BY <1>2, <2>1, <2>2, <2>3 DEF AfterReading
<1> QED BY <1>0, <1>2, <1>11, <1>16, OutputSetClient

\* The reads end: nothing for now, the end of the stream, or an error.
LEMMA OutputRecvEnds ==
    ASSUME Inv, OutputInv, RecvWouldBlock \/ RecvEnd \/ RecvError PROVE OutputInv'
<1>1. /\ UNCHANGED <<netVars, clients, todo, socket, reads>> /\ Handling /\ pc = "read"
      /\ Handling' /\ pc' \in {"process", "processLast", "close"}
  BY DEF RecvWouldBlock, RecvEnd, RecvError, Goto, AfterReading, Handling
<1>2. UNCHANGED <<scenario, fds, peer, todo, socket, clients>>
  BY <1>1 DEF netVars
<1>3. PICK b : b = Base(fds[socket])
  OBVIOUS
<1>4. /\ Me \in ClientWith(Piece(fds[socket]), Earned(fds[socket]))
      /\ Me.outputOffset <= Len(Me.output)
      /\ EndsInError(Me) => Me.closeAfterWrite
      /\ Held(Me) \in Int /\ EventAnswers \in Nat
      /\ HandledAt("read", reads, Me, b) /\ b \in Nat
  BY <1>1, <1>3, HandledNumbers
<1>5. /\ reads \in 0 .. MaxReadsPerEvent - 1 /\ Held(Me) <= b /\ HalfSent(Me)
      /\ ~Me.closeAfterWrite => InputWithin(Me.input, reads * ReadChunkSize)
  BY <1>4 DEF HandledAt
<1>6. reads * ReadChunkSize \in Nat /\ reads * ReadChunkSize <= EventUnits
  <2>1. reads \in Nat /\ MaxReadsPerEvent - reads \in Nat
    BY <1>5, LimitsAssumption
  <2>2. \A x, y, k \in Nat : x * k \in Nat /\ x * k + y * k = k * (y + x)
    OBVIOUS
  <2>3. /\ reads * ReadChunkSize \in Nat /\ (MaxReadsPerEvent - reads) * ReadChunkSize \in Nat
        /\ reads * ReadChunkSize + (MaxReadsPerEvent - reads) * ReadChunkSize = EventUnits
    BY <2>1, <2>2, LimitsAssumption DEF EventUnits
  <2> QED BY <2>3, Bounds
<1>7. AnswersWithin(Me, b) /\ Held(Me) <= b + EventAnswers
  BY <1>4, <1>5, <1>6, ReadAnswers
<1>8. HandledAt(pc', reads', Me, b)
  BY <1>1, <1>5, <1>7 DEF HandledAt
<1> QED BY <1>1, <1>2, <1>3, <1>8, OutputMove

\* Every request takes two units of the input for its answer.
LEMMA OutputRequests ==
    ASSUME Inv, OutputInv, RequestRefused \/ RequestAppends \/ RequestAnswered
    PROVE  OutputInv'
<1>1. PICK c, client : RequestEffect(c, client)
  BY RefusedEffect, AppendsEffect, AnsweredEffect
<1>2. /\ Handling /\ UNCHANGED <<pc, reads, todo, socket, netVars>> /\ ~Me.closeAfterWrite
      /\ pc \in {"process", "processLast"}
  BY DEF RequestRefused, RequestAppends, RequestAnswered, MayProcess, Processing, Handling
<1>3. UNCHANGED <<scenario, fds, peer>> /\ scenario \in Scenarios
  BY <1>2 DEF netVars, Inv, Shape, NetInv
<1>4. /\ c = fds[socket] /\ c \in Connection /\ Me.input \in Seq(Piece(c))
      /\ Me.output \in Seq(Earned(c)) /\ Len(Me.output) \in Nat /\ Me.outputOffset \in Nat
  BY <1>1, <1>2, MyClient DEF RequestEffect
<1>5. PICK b : b = Base(c)
  OBVIOUS
<1>6. /\ HandledAt(pc, reads, Me, b) /\ b \in Nat /\ ~EndsInError(Me)
      /\ pendingOutput(Me) \in Nat /\ Len(Me.input) \in Nat
      /\ EventAnswers \in Nat /\ EventUnits \in Nat
  BY <1>2, <1>4, <1>5, HandledNumbers
<1>7. AnswersWithin(Me, b) /\ HalfSent(Me)
  BY <1>2, <1>6 DEF HandledAt
<1>8. \/ 2 * pendingOutput(Me) + Len(Me.input) <= 2 * b + EventUnits + 1
      \/ /\ HeadIsHuge(Me.input) /\ pendingOutput(Me) <= b
         /\ Len(Me.input) <= MaxQueryBuffer + EventUnits
  BY <1>2, <1>7 DEF AnswersWithin
<1>9. /\ client.outputOffset = Me.outputOffset /\ SetClient(client)
      /\ Len(client.output) >= Len(Me.output)
      /\ Refusal(Me, client) \/ Reply(Me, client) \/ Skip(Me, client)
  BY <1>1 DEF RequestEffect
<1>10. /\ client.input \in Seq(Piece(c)') /\ client.output \in Seq(Earned(c)')
       /\ client.closeAfterWrite \in BOOLEAN
  BY <1>1 DEF RequestEffect, ClientOf, ClientWith
<1>11. Len(client.output) \in Nat /\ Len(client.input) \in Nat
  BY <1>10, LenProperties
<1>12. HalfSent(client)
  <2>1. \A x, y, z \in Nat : x <= y \div 2 /\ y <= z => x <= z \div 2
    OBVIOUS
  <2> QED BY <1>4, <1>7, <1>9, <1>11, <2>1 DEF HalfSent
<1>13. ASSUME Whole(Me.input),
              Len(client.input) = Len(Me.input) - RequestLength(KindOf(Head(Me.input))),
              NEW p \in Nat, p <= pendingOutput(Me) + 1
       PROVE  2 * p + Len(client.input) <= 2 * b + EventUnits + 1
  <2>1. RequestLength(KindOf(Head(Me.input))) \in Nat \ {0, 1}
    BY <1>3, <1>4, <1>13, HeadRequest DEF Whole
  <2>2. CASE 2 * pendingOutput(Me) + Len(Me.input) <= 2 * b + EventUnits + 1
    <3>1. \A x, y, z, k, q, u \in Nat :
             /\ 2 * x + y <= u /\ z = y - k /\ k >= 2 /\ q <= x + 1 => 2 * q + z <= u
      OBVIOUS
    <3>2. 2 * b + EventUnits + 1 \in Nat /\ RequestLength(KindOf(Head(Me.input))) >= 2
      BY <1>6, <2>1
    <3> QED BY <1>6, <1>11, <1>13, <2>1, <2>2, <3>1, <3>2, SMTT(30)
  <2>3. CASE /\ HeadIsHuge(Me.input) /\ pendingOutput(Me) <= b
             /\ Len(Me.input) <= MaxQueryBuffer + EventUnits
    <3>1. RequestLength(KindOf(Head(Me.input))) = MaxQueryBuffer + 1
      BY <2>3 DEF HeadIsHuge, RequestLength
    <3>2. \A x, y, z, q, u, m, d \in Nat :
             /\ x <= d /\ y <= m + u /\ z = y - (m + 1) /\ q <= x + 1
             => 2 * q + z <= 2 * d + u + 1
      OBVIOUS
    <3> QED BY <1>6, <1>11, <1>13, <2>3, <3>1, <3>2, Bounds, SMTT(30)
  <2> QED BY <1>8, <2>2, <2>3
<1>14. /\ AnswersWithin(client, b)
       /\ EndsInError(client) => client.closeAfterWrite
  <2>1. CASE Refusal(Me, client)
    <3>1. PICK r : r[3] = "error" /\ client.output = Append(Me.output, r)
      BY <2>1 DEF Refusal
    <3>2. Len(client.output) = Len(Me.output) + 1 /\ Last(client.output) = r
      BY <1>4, <3>1, <1>11 DEF Last
    <3>3. EndsInError(client) /\ pendingOutput(client) = pendingOutput(Me) + 1
      <4>1. client.output # <<>>
        BY <1>4, <3>2, EmptySeq
      <4>2. EndsInError(client)
        BY <3>1, <3>2, <4>1 DEF EndsInError
      <4>3. pendingOutput(client) = pendingOutput(Me) + 1
        BY <1>4, <1>9, <3>2 DEF pendingOutput
      <4> QED BY <4>2, <4>3
    <3>4. Held(client) = pendingOutput(Me)
      BY <1>6, <3>3 DEF Held
    <3>5. pendingOutput(Me) <= b + EventAnswers
      <4>1. 2 * pendingOutput(Me) <= 2 * b + EventUnits + 1
        BY <1>6, <1>8
      <4> QED BY <1>6, <4>1, Bounds
    <3> QED BY <2>1, <3>4, <3>5 DEF Refusal, AnswersWithin
  <2>2. CASE Reply(Me, client)
    <3>1. PICK r : r[3] # "error" /\ client.output = Append(Me.output, r)
      BY <2>2 DEF Reply
    <3>2. Len(client.output) = Len(Me.output) + 1 /\ Last(client.output) = r
      BY <1>4, <3>1, <1>11 DEF Last
    <3>3. ~EndsInError(client) /\ pendingOutput(client) = pendingOutput(Me) + 1
      BY <1>4, <1>9, <3>1, <3>2 DEF EndsInError, pendingOutput
    <3>4. pendingOutput(client) \in Nat /\ Held(client) = pendingOutput(client)
      BY <1>6, <3>3 DEF Held
    <3>5. 2 * pendingOutput(client) + Len(client.input) <= 2 * b + EventUnits + 1
      BY <1>6, <1>13, <2>2, <3>3, <3>4 DEF Reply
    <3>6. pendingOutput(client) <= b + EventAnswers
      <4>1. 2 * pendingOutput(client) <= 2 * b + EventUnits + 1
        BY <1>6, <1>11, <3>4, <3>5
      <4> QED BY <1>6, <3>4, <4>1, Bounds
    <3> QED BY <3>3, <3>4, <3>5, <3>6 DEF AnswersWithin
  <2>3. CASE Skip(Me, client)
    <3>1. client.output = Me.output /\ ~client.closeAfterWrite
      BY <1>2, <2>3 DEF Skip
    <3>2. ~EndsInError(client) /\ pendingOutput(client) = pendingOutput(Me)
      BY <1>6, <1>9, <3>1 DEF EndsInError, pendingOutput
    <3>3. 2 * pendingOutput(client) + Len(client.input) <= 2 * b + EventUnits + 1
      BY <1>6, <1>13, <2>3, <3>2 DEF Skip
    <3> QED BY <3>1, <3>2, <3>3 DEF AnswersWithin
  <2> QED BY <1>9, <2>1, <2>2, <2>3
<1>15. HandledAt(pc', reads', client, b) /\ Handling'
  BY <1>2, <1>12, <1>14 DEF HandledAt, Handling
<1> QED BY <1>2, <1>3, <1>4, <1>5, <1>9, <1>14, <1>15, OutputSetClient

\* processInput returns when the input is settled.
LEMMA OutputProcessReturns ==
    ASSUME Inv, OutputInv, ProcessReturns PROVE OutputInv'
<1>1. /\ Handling /\ pc \in {"process", "processLast"} /\ pc' = "reply" /\ Handling'
      /\ UNCHANGED <<netVars, todo, socket, reads>>
      /\ Me.closeAfterWrite \/ ~(Whole(Me.input) \/ IsBad(Me.input))
  BY DEF ProcessReturns, Processing, Handling, Goto
<1>2. PICK client :
         /\ SetClient(client) /\ client.input = Me.input /\ client.output = Me.output
         /\ client.outputOffset = Me.outputOffset
         /\ Me.closeAfterWrite => client.closeAfterWrite
  BY ShapeProcessReturns
<1>3. UNCHANGED <<scenario, fds, peer>>
  BY <1>1 DEF netVars
<1>4. PICK b : b = Base(fds[socket])
  OBVIOUS
<1>5. /\ HandledAt(pc, reads, Me, b) /\ b \in Nat
      /\ EndsInError(Me) => Me.closeAfterWrite
      /\ pendingOutput(Me) \in Nat /\ Len(Me.input) \in Nat /\ Held(Me) \in Int
      /\ Held(Me) <= pendingOutput(Me) /\ EventAnswers \in Nat /\ EventUnits \in Nat
  BY <1>1, <1>4, HandledNumbers
<1>6. AnswersWithin(Me, b) /\ HalfSent(Me)
  BY <1>1, <1>5 DEF HandledAt
<1>7. Held(Me) <= b + EventAnswers
  BY <1>1, <1>5, <1>6, HandledNumbers, WithinHeld
<1>8. /\ EndsInError(client) => client.closeAfterWrite
      /\ InputSettled(client) /\ Held(client) = Held(Me) /\ HalfSent(client)
  BY <1>1, <1>2, <1>5, <1>6
     DEF EndsInError, InputSettled, Held, pendingOutput, HalfSent
<1>9. HandledAt(pc', reads', client, b)
  BY <1>1, <1>7, <1>8 DEF HandledAt
<1> QED BY <1>1, <1>2, <1>3, <1>4, <1>8, <1>9, OutputSetClient

\* The reply is begun, or there is none, or the peer is gone.
LEMMA OutputReply ==
    ASSUME Inv, OutputInv, NothingToReply \/ CallFlush \/ SendError PROVE OutputInv'
<1>1. /\ UNCHANGED <<netVars, clients, todo, socket, reads>> /\ Handling
      /\ pc \in {"reply", "send"}
  BY DEF NothingToReply, CallFlush, SendError, Sending, Handling
<1>2. UNCHANGED <<scenario, fds, peer, todo, socket, clients>>
  BY <1>1 DEF netVars
<1>3. PICK b : b = Base(fds[socket])
  OBVIOUS
<1>4. /\ HandledAt(pc, reads, Me, b) /\ Held(Me) \in Int
      /\ Held(Me) <= pendingOutput(Me)
  BY <1>1, <1>3, HandledNumbers
<1>5. /\ Held(Me) <= b + EventAnswers /\ InputSettled(Me)
      /\ pc = "reply" => HalfSent(Me)
  BY <1>1, <1>4 DEF HandledAt
<1>6. CASE pc' = "close" \/ pc' = "send"
  BY <1>1, <1>2, <1>3, <1>5, <1>6, OutputMove DEF HandledAt, Handling
<1>7. CASE pc' = "events"
  <2>1. pc = "reply" /\ pendingOutput(Me) = 0 /\ ~Handling'
    BY <1>7 DEF NothingToReply, CallFlush, SendError, Goto, Handling
  <2>2. Settled(Me)
    BY <1>4, <1>5, <2>1, Bounds DEF Settled
  <2> QED BY <1>1, <1>2, <2>1, <2>2, OutputMove
<1> QED BY <1>6, <1>7 DEF NothingToReply, CallFlush, SendError, Goto, CloseWhenAnswered

\* What is sent is no longer held.
LEMMA OutputSendSome ==
    ASSUME Inv, OutputInv, SendSome PROVE OutputInv'
<1>1. /\ UNCHANGED <<scenario, fds, peer, todo, socket, reads, pc>> /\ Handling /\ Handling'
      /\ pc = "send"
  BY DEF SendSome, Sending, Handling
<1>2. PICK client, n :
         /\ SetClient(client) /\ client.input = Me.input /\ client.output = Me.output
         /\ n \in 1 .. pendingOutput(Me) /\ client.outputOffset = Me.outputOffset + n
         /\ client.closeAfterWrite = Me.closeAfterWrite
  BY ShapeSendSome
<1>3. PICK b : b = Base(fds[socket])
  OBVIOUS
<1>4. /\ HandledAt(pc, reads, Me, b) /\ Held(Me) \in Int /\ b \in Nat /\ EventAnswers \in Nat
      /\ EndsInError(Me) => Me.closeAfterWrite
      /\ pendingOutput(Me) \in Nat
  BY <1>1, <1>3, HandledNumbers
<1>5. Held(Me) <= b + EventAnswers /\ InputSettled(Me)
  BY <1>1, <1>4 DEF HandledAt
<1>6. /\ EndsInError(client) <=> EndsInError(Me)
      /\ InputSettled(client)
  BY <1>2, <1>5 DEF EndsInError, InputSettled
<1>7. Held(client) <= b + EventAnswers
  <2>1. Me.outputOffset \in Nat /\ Len(Me.output) \in Nat
    BY <1>1, MyClient
  <2>2. pendingOutput(client) = pendingOutput(Me) - n
    BY <1>2, <1>4, <2>1 DEF pendingOutput
  <2>3. Held(client) = Held(Me) - n /\ n \in Nat
    BY <1>2, <1>4, <1>6, <2>2 DEF Held
  <2> QED BY <1>4, <1>5, <2>3
<1>8. HandledAt(pc', reads', client, b)
  BY <1>1, <1>6, <1>7 DEF HandledAt
<1> QED BY <1>1, <1>2, <1>3, <1>4, <1>6, <1>8, OutputSetClient

\* What could not be sent is held for a peer that is still there: it was below
\* the watermark when its input was read.
LEMMA OutputWriteReturns ==
    ASSUME Inv, OutputInv, WriteReturns PROVE OutputInv'
<1> DEFINE client == Compacted(Me)
<1>1. /\ Handling /\ SetClient(client) /\ pc = "send" /\ pc' = CloseWhenAnswered(Me)
      /\ UNCHANGED <<netVars, todo, socket, reads>>
      /\ pendingOutput(Me) = 0 \/ peer[fds[socket]] # "reset"
  BY DEF WriteReturns, Sending, Handling, Goto
<1>2. UNCHANGED <<scenario, fds, peer>>
  BY <1>1 DEF netVars
<1>3. PICK b : b = Base(fds[socket])
  OBVIOUS
<1>4. /\ HandledAt(pc, reads, Me, b) /\ Held(Me) \in Int /\ b \in Nat /\ EventAnswers \in Nat
      /\ EndsInError(Me) => Me.closeAfterWrite
      /\ Me \in ClientWith(Piece(fds[socket]), Earned(fds[socket]))
      /\ Me.outputOffset <= Len(Me.output)
      /\ pendingOutput(Me) \in Nat
  BY <1>1, <1>3, HandledNumbers
<1>5. Held(Me) <= b + EventAnswers /\ InputSettled(Me)
  BY <1>1, <1>4 DEF HandledAt
<1>6. /\ client \in ClientWith(Piece(fds[socket]), Earned(fds[socket]))
      /\ client.outputOffset <= Len(client.output) \div 2
      /\ pendingOutput(client) = pendingOutput(Me)
      /\ pendingOutput(Me) # 0 =>
            client.output # <<>> /\ Last(client.output) = Last(Me.output)
      /\ client.input = Me.input /\ client.closeAfterWrite = Me.closeAfterWrite
  BY <1>4, CompactedType
<1> HIDE DEF client
<1>7. InputSettled(client) /\ HalfSent(client)
  BY <1>5, <1>6 DEF InputSettled, HalfSent
<1>8. client.output \in Seq(Earned(fds[socket])) /\ client.outputOffset \in Nat
      /\ Len(client.output) \in Nat
  BY <1>6, LenProperties DEF ClientWith
<1>9. CASE pendingOutput(Me) = 0
  <2>1. client.output = <<>>
    <3>1. \A x, y \in Nat : y - x = 0 /\ x <= y \div 2 => y = 0
      OBVIOUS
    <3>2. Len(client.output) = 0
      BY <1>6, <1>8, <1>9, <3>1 DEF pendingOutput
    <3> QED BY <1>8, <3>2, EmptySeq
  <2>2. ~EndsInError(client) /\ Held(client) = 0
    BY <1>6, <1>9, <2>1 DEF EndsInError, Held
  <2>3. Settled(client)
    BY <1>7, <2>2, Bounds DEF Settled
  <2>4. HandledAt("close", reads', client, b)
    BY <1>4, <2>2 DEF HandledAt
  <2>5. pc' \in {"close", "events"}
    BY <1>1 DEF CloseWhenAnswered
  <2> QED BY <1>1, <1>2, <1>3, <2>2, <2>3, <2>4, <2>5, OutputSetClient DEF Handling
<1>10. CASE pendingOutput(Me) # 0
  <2>1. peer[fds[socket]] # "reset" /\ pc' = "events"
    BY <1>1, <1>10 DEF CloseWhenAnswered
  <2>2. b + EventAnswers = Rest
    BY <1>3, <2>1, Bounds DEF Base
  <2>3. Me.output # <<>>
    <3>1. Me.outputOffset \in Nat /\ Len(Me.output) \in Nat
      BY <1>1, MyClient
    <3>2. Len(Me.output) # 0
      BY <1>4, <1>10, <3>1 DEF pendingOutput
    <3> QED BY <3>2
  <2>4. EndsInError(client) <=> EndsInError(Me)
    BY <1>6, <1>10, <2>3 DEF EndsInError
  <2>5. Held(client) = Held(Me)
    BY <1>6, <2>4 DEF Held
  <2>6. Settled(client)
    BY <1>5, <1>7, <2>2, <2>5 DEF Settled
  <2> QED BY <1>1, <1>2, <1>4, <1>6, <2>1, <2>4, <2>6, OutputSetClient DEF Handling
<1> QED BY <1>9, <1>10
-----------------------------------------------------------------------------
\* Every step keeps the invariant.
LEMMA OutputNext == Inv /\ OutputInv /\ [Next]_vars => OutputInv'
<1> SUFFICES ASSUME Inv, OutputInv, [Next]_vars PROVE OutputInv'
  OBVIOUS
<1>1. CASE \E c \in Connection : Peers(c)
  BY <1>1, OutputPeers
<1>2. CASE \E c \in Connection : Accept(c)
  BY <1>2, OutputAccept
<1>3. CASE \/ CronTimeReached \/ handleShutdownSignal \/ PollFails \/ LoopTest \/ CallPoll
           \/ AcceptReturns \/ Cron \/ Exit
  BY <1>3, OutputControl
<1>4. CASE FlushStep \/ Stopped \/ UNCHANGED vars
  <2>1. UNCHANGED <<netVars, loopVars>>
    BY <1>4 DEF FlushStep, Stopped, vars
  <2> QED BY <2>1, OutputUnchanged
<1>5. CASE PollReturns \/ handleClientEvents \/ CloseClient \/ Stop
  BY <1>5, OutputPollReturns, OutputEvents, OutputClose, OutputStop
<1>6. CASE RecvData \/ RecvWouldBlock \/ RecvEnd \/ RecvError
  BY <1>6, OutputRecvData, OutputRecvEnds
<1>7. CASE RequestRefused \/ RequestAppends \/ RequestAnswered
  BY <1>7, OutputRequests
<1>8. CASE ProcessReturns
  BY <1>8, OutputProcessReturns
<1>9. CASE NothingToReply \/ CallFlush \/ SendError
  BY <1>9, OutputReply
<1>10. CASE SendSome \/ WriteReturns
  BY <1>10, OutputSendSome, OutputWriteReturns
<1> QED BY <1>1, <1>2, <1>3, <1>4, <1>5, <1>6, <1>7, <1>8, <1>9, <1>10 DEF Next, Loop

\* It holds when there are no clients yet.
LEMMA OutputInit == Init => OutputInv
<1> SUFFICES ASSUME Init PROVE OutputInv
  OBVIOUS
<1>1. DOMAIN fds = {} /\ todo = {} /\ ~Handling
  BY DEF Init, Handling
<1> QED BY <1>1 DEF OutputInv

\* Backpressure works: what the server holds for a client that does not read
\* is bounded by the watermark and the answers of one event (of two if the
\* peer is gone), and no more than half of the buffer of a sleeping server's
\* client has been sent already, for every choice of the limits.
THEOREM OutputIsBounded == Spec => []OutputBounded
<1>1. Inv /\ OutputInv => OutputBounded
  <2> SUFFICES ASSUME Inv, OutputInv, NEW fd \in DOMAIN clients
               PROVE  /\ Held(clients[fd]) <= OutputHighWatermark - 1 +
                            (IF peer[fds[fd]] = "reset" THEN 2 ELSE 1) * EventAnswers
                      /\ pc = "poll" => HalfSent(clients[fd])
    BY DEF OutputBounded, Held, EndsInError, HalfSent
  <2>1. /\ fd \in DOMAIN fds
        /\ clients[fd] \in ClientWith(Piece(fds[fd]), Earned(fds[fd]))
        /\ clients[fd].outputOffset <= Len(clients[fd].output)
    BY DEF Inv, Shape, ClientInv, ClientOf
  <2>2. Held(clients[fd]) \in Int
    BY <2>1, ClientNumbers
  <2>3. Rest = OutputHighWatermark - 1 + EventAnswers
        /\ OutputHighWatermark - 1 \in Nat /\ EventAnswers \in Nat
    BY Bounds
  <2>4. CASE Settled(clients[fd])
    BY <2>2, <2>3, <2>4 DEF Settled
  <2>5. CASE Handling /\ fd = socket
    <3>1. /\ HandledAt(pc, reads, Me, Base(fds[fd])) /\ Me = clients[fd]
          /\ Base(fds[fd]) \in Nat
      BY <2>5, BaseBounds DEF OutputInv, HandledInv, Me
    <3>2. Held(Me) <= Base(fds[fd]) + EventAnswers
      <4>1. PICK b : b = Base(fds[fd])
        OBVIOUS
      <4>2. CASE pc = "read"
        BY <2>2, <2>3, <3>1, <4>2 DEF HandledAt
      <4>3. CASE pc \in {"reply", "send", "close"}
        BY <3>1, <4>3 DEF HandledAt
      <4>4. CASE pc \in {"process", "processLast"}
        <5>1. AnswersWithin(Me, b) /\ b \in Nat
          BY <3>1, <4>1, <4>4 DEF HandledAt
        <5> QED BY <2>1, <3>1, <4>1, <5>1, WithinHeld
      <4> QED BY <2>5, <4>2, <4>3, <4>4 DEF Handling
    <3>3. Base(fds[fd]) + EventAnswers = OutputHighWatermark - 1 +
             (IF peer[fds[fd]] = "reset" THEN 2 ELSE 1) * EventAnswers
      BY <2>3 DEF Base
    <3> QED BY <2>5, <3>1, <3>2, <3>3 DEF Handling
  <2> QED BY <2>1, <2>4, <2>5 DEF OutputInv
<1>2. Spec => []OutputInv
  BY LoopInvariant, OutputInit, OutputNext, PTL DEF Spec
<1> QED BY LoopInvariant, <1>1, <1>2, PTL
=============================================================================
