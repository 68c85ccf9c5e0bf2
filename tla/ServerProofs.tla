---------------------------- MODULE ServerProofs -----------------------------
(***************************************************************************)
(* What Server keeps for every set of connections, every scenario and      *)
(* every limit: its types, that acknowledged writes are in the file, and   *)
(* that it never sleeps on an unwritten one.                               *)
(*                                                                         *)
(* The loop takes only steps of AppendOnlyFile, so that the invariant of   *)
(* that module is kept here too; the rest of the invariant is about the    *)
(* loop.                                                                   *)
(***************************************************************************)
EXTENDS Server, Sums

FP == INSTANCE AppendOnlyFileProofs
          WITH Units <- 1, MaxCrashes <- 1, pc <- filePc, next <- nextCommand,
               crashes <- ends

(***************************************************************************)
(* The inductive invariant.                                                *)
(***************************************************************************)
Labels == {"test", "build", "poll", "accept", "events", "read", "process",
           "processLast", "reply", "send", "close", "stop", "exit", "stopped"}

\* A client is being handled, and socket is its descriptor.
Handling == pc \in {"read", "process", "processLast", "reply", "send", "close"}

\* Units of the requests of c.
Piece(c) == {c} \X (DOMAIN scenario.requests[c]) \X Nat

Executed(request) == \E k \in DOMAIN executed : executed[k] = request

\* Replies to c that are true: a write is only said to be done if it was.
Earned(c) ==
    {r \in {c} \X (DOMAIN scenario.requests[c]) \X {"ok", "misconf", "error"} :
        r[3] = "ok" /\ Kind(c, r[2]) \in {"write", "evict"} => Executed(<<c, r[2]>>)}

\* Clients with the given units in the input and replies in the output.
ClientWith(units, replies) ==
    [input : Seq(units), output : Seq(replies), outputOffset : Nat,
     closeAfterWrite : BOOLEAN]
ClientOf(c) == ClientWith(Piece(c), Earned(c))

NetInv ==
    /\ scenario \in Scenarios
    /\ status \in [Connection -> {"new", "backlog", "open", "closed"}]
    /\ peer \in [Connection -> {"open", "fin", "reset"}]
    /\ sent \in [Connection -> Nat] /\ received \in [Connection -> Nat]
    /\ tx = [c \in Connection |-> tx[c]] /\ got = [c \in Connection |-> got[c]]
    /\ \A c \in Connection :
          /\ received[c] <= sent[c] /\ sent[c] <= Len(Stream(c))
          /\ tx[c] \in Seq(Earned(c)) /\ Len(tx[c]) <= SendBuffer
          /\ got[c] \in Seq(Earned(c))

\* Descriptors and open connections correspond.
DescriptorInv ==
    /\ DOMAIN fds \subseteq 1 .. scenario.fds
    /\ fds \in [DOMAIN fds -> Connection]
    /\ \A fd \in DOMAIN fds : status[fds[fd]] = "open"
    /\ \A fd, other \in DOMAIN fds : fds[fd] = fds[other] => fd = other
    /\ \A c \in Connection : status[c] = "open" => \E fd \in DOMAIN fds : fds[fd] = c

ClientInv ==
    /\ DOMAIN clients = DOMAIN fds
    /\ clients = [fd \in DOMAIN fds |-> clients[fd]]
    /\ \A fd \in DOMAIN fds :
          /\ clients[fd] \in ClientOf(fds[fd])
          /\ clients[fd].outputOffset <= Len(clients[fd].output)

\* Every descriptor that is still to be handled is a client's, and none is
\* handled twice in an iteration.
LoopInv ==
    /\ pc \in Labels
    /\ socket \in 0 .. scenario.fds
    /\ Handling => socket \in DOMAIN fds
    /\ \A d \in todo : d.fd \in DOMAIN fds
    /\ Handling => \A d \in todo : d.fd # socket
    /\ \A d, e \in todo : d.fd = e.fd => d = e
    /\ pc \in {"test", "build", "poll", "stop", "exit", "stopped"} => todo = {}

Shape == NetInv /\ DescriptorInv /\ ClientInv /\ LoopInv

\* The file is written to only at its times.
FileControl ==
    /\ closing <=> pc \in {"exit", "stopped"}
    /\ filePc = "ready" => pc \notin {"exit", "stopped"}
    /\ filePc = "flush" => pc \in {"send", "exit"}
    /\ filePc = "sync" => pc = "exit"
    /\ filePc = "down" => pc = "stopped"

\* What append was given is what was executed, in that order.
Log == [k \in 1 .. Len(executed) |-> <<k, 1>>]

LogInv ==
    /\ executed \in Seq(Connection \X Nat)
    /\ nextCommand = Len(executed) + 1
    /\ filePc # "down" => appended = Log
    /\ filePc = "down" /\ ~writeFailed => file = Log

\* While the file is healthy there is something to write only between the
\* execution of a request and the end of the flush before its reply.
UnwrittenInv ==
    buffer # <<>> /\ ~writeFailed =>
        \/ filePc = "flush"
        \/ pc \in {"process", "processLast", "reply"} /\ pendingOutput(Me) > 0

Inv == FP!Inv /\ Shape /\ FileControl /\ LogInv /\ UnwrittenInv
-----------------------------------------------------------------------------
(***************************************************************************)
(* The operators of the model.                                             *)
(***************************************************************************)
\* The least of a set of naturals is one of them and below the others.
LEMMA MinProperties ==
    ASSUME NEW T, T \subseteq Nat, T # {}
    PROVE  Min(T) \in T /\ \A n \in T : Min(T) <= n
BY LeastNatural, Zenon DEF Min

\* The sequence that FlattenSeq computes by, up to the n-th of its pieces.
IsFlatten(seqs, n, f) ==
    f = [i \in 1 .. n |-> IF i = 1 THEN seqs[i] ELSE f[i - 1] \o seqs[i]]

\* Such a sequence exists for every n, and its elements are sequences over S.
LEMMA FlattenExists ==
    ASSUME NEW S, NEW seqs, NEW m \in Nat, \A i \in 1 .. m : seqs[i] \in Seq(S)
    PROVE  \E f : IsFlatten(seqs, m, f) /\ \A i \in 1 .. m : f[i] \in Seq(S)
<1> DEFINE Good(n, f) == IsFlatten(seqs, n, f) /\ \A i \in 1 .. n : f[i] \in Seq(S)
           P == {n \in Nat : n <= m => \E f : Good(n, f)}
<1>1. 0 \in P
  <2>1. Good(0, [i \in 1 .. 0 |-> i])
    BY DEF IsFlatten
  <2> QED BY <2>1
<1>2. ASSUME NEW n \in Nat, n \in P PROVE n + 1 \in P
  <2> SUFFICES ASSUME n + 1 <= m PROVE \E f : Good(n + 1, f)
    OBVIOUS
  <2>1. PICK f : Good(n, f)
    BY <1>2
  <2> DEFINE g == [i \in 1 .. n + 1 |->
                     IF i <= n THEN f[i]
                     ELSE IF i = 1 THEN seqs[i] ELSE f[i - 1] \o seqs[i]]
  <2>2. ASSUME NEW i \in 1 .. n + 1
        PROVE  g[i] = (IF i = 1 THEN seqs[i] ELSE g[i - 1] \o seqs[i])
    <3>1. CASE i <= n
      <4>0. i \in 1 .. n /\ IsFlatten(seqs, n, f)
        BY <2>1, <3>1
      <4>1. f[i] = IF i = 1 THEN seqs[i] ELSE f[i - 1] \o seqs[i]
        BY <4>0, Zenon DEF IsFlatten
      <4>2. i # 1 => i - 1 \in 1 .. n + 1 /\ i - 1 <= n
        BY <3>1
      <4> QED BY <3>1, <4>1, <4>2
    <3>2. CASE ~(i <= n)
      <4>1. i = n + 1 /\ (i # 1 => i - 1 \in 1 .. n + 1 /\ i - 1 <= n)
        BY <3>2
      <4> QED BY <3>2, <4>1
    <3> QED BY <3>1, <3>2
  <2>3. IsFlatten(seqs, n + 1, g)
    <3>1. g = [i \in 1 .. n + 1 |-> g[i]]
      OBVIOUS
    <3> HIDE DEF g
    <3> QED BY <2>2, <3>1, Zenon DEF IsFlatten
  <2>4. ASSUME NEW i \in 1 .. n + 1 PROVE g[i] \in Seq(S)
    <3>1. CASE i <= n
      BY <2>1, <3>1
    <3>2. CASE i = n + 1 /\ i = 1
      BY <3>2
    <3>3. CASE i = n + 1 /\ i # 1
      <4>1. f[i - 1] \in Seq(S) /\ seqs[i] \in Seq(S)
        BY <2>1, <3>3
      <4>2. f[i - 1] \o seqs[i] \in Seq(S)
        BY <4>1, ConcatProperties
      <4> QED BY <3>3, <4>2
    <3> QED BY <3>1, <3>2, <3>3
  <2> HIDE DEF g
  <2> QED BY <2>3, <2>4, Zenon
<1> HIDE DEF P
<1>3. m \in P
  BY <1>1, <1>2, InductionOnNat
<1> QED BY <1>3 DEF P

\* FlattenSeq makes one sequence over S of a sequence of such sequences.
LEMMA FlattenType ==
    ASSUME NEW S, NEW seqs, NEW m \in Nat, Len(seqs) = m, m = 0 => seqs = <<>>,
           \A i \in 1 .. m : seqs[i] \in Seq(S)
    PROVE  FlattenSeq(seqs) \in Seq(S)
<1>1. CASE m = 0
  <2>1. FlattenSeq(seqs) = <<>>
    BY <1>1, Zenon DEF FlattenSeq
  <2> QED BY <2>1, EmptySeq
<1>2. CASE m # 0
  <2> DEFINE f == CHOOSE f : IsFlatten(seqs, m, f)
  <2>1. PICK g : IsFlatten(seqs, m, g)
    BY FlattenExists, Zenon
  <2>2. IsFlatten(seqs, m, f)
    BY <2>1, Zenon
  <2>3. FlattenSeq(seqs) = f[m]
    BY <1>2, Zenon DEF FlattenSeq, IsFlatten
  <2> HIDE DEF f
  <2> DEFINE P == {n \in Nat : n + 1 <= m => f[n + 1] \in Seq(S)}
  <2>4. ASSUME NEW i \in 1 .. m
        PROVE  f[i] = (IF i = 1 THEN seqs[i] ELSE f[i - 1] \o seqs[i])
    BY <2>2, Zenon DEF IsFlatten
  <2>5. 0 \in P
    BY <2>4
  <2>6. ASSUME NEW n \in Nat, n \in P PROVE n + 1 \in P
    <3> SUFFICES ASSUME (n + 1) + 1 <= m PROVE f[(n + 1) + 1] \in Seq(S)
      OBVIOUS
    <3>1. f[n + 1] \in Seq(S)
      BY <2>6
    <3>2. f[(n + 1) + 1] = f[n + 1] \o seqs[(n + 1) + 1]
      <4>1. (n + 1) + 1 \in 1 .. m /\ (n + 1) + 1 # 1 /\ ((n + 1) + 1) - 1 = n + 1
        OBVIOUS
      <4> QED BY <4>1, <2>4
    <3>3. seqs[(n + 1) + 1] \in Seq(S)
      OBVIOUS
    <3> QED BY <3>1, <3>2, <3>3, ConcatProperties
  <2> HIDE DEF P
  <2>7. m - 1 \in P
    BY <1>2, <2>5, <2>6, InductionOnNat, SMTT(30)
  <2> QED BY <1>2, <2>3, <2>7 DEF P
<1> QED BY <1>1, <1>2

\* What a peer may send is made of units of its own requests.
LEMMA StreamType ==
    ASSUME scenario \in Scenarios, NEW c \in Connection
    PROVE  Stream(c) \in Seq(Piece(c))
<1> DEFINE q == scenario.requests[c]
           seqs == [i \in DOMAIN q |-> Request(c, i)]
<1>1. q \in Seq(Kinds)
  BY ScenariosAssumption
<1>2. Len(q) \in Nat /\ DOMAIN q = 1 .. Len(q) /\ \A i \in 1 .. Len(q) : q[i] \in Kinds
  BY <1>1, LenProperties, ElementOfSeq
<1>3. Len(seqs) = Len(q) /\ (Len(q) = 0 => seqs = <<>>)
  BY <1>2
<1>4. ASSUME NEW i \in 1 .. Len(q) PROVE seqs[i] \in Seq(Piece(c))
  <2>1. RequestLength(q[i]) \in Nat
    BY LimitsAssumption DEF RequestLength
  <2>2. seqs[i] = [p \in 1 .. RequestLength(q[i]) |-> <<c, i, p>>]
    BY <1>2 DEF Request
  <2>3. seqs[i] \in [1 .. RequestLength(q[i]) -> Piece(c)]
    BY <1>2, <2>1, <2>2 DEF Piece
  <2> QED BY <2>1, <2>3, SeqDef
<1> HIDE DEF seqs
<1>5. FlattenSeq(seqs) \in Seq(Piece(c))
  BY <1>2, <1>3, <1>4, FlattenType
<1> QED BY <1>5 DEF Stream, seqs

(***************************************************************************)
(* The loop takes steps of the file and no others.                         *)
(***************************************************************************)
\* The constants that the server gives the file are as that module assumes.
LEMMA FileAssumption == FP!UnitsAssumption
BY LimitsAssumption DEF FP!UnitsAssumption

\* The file of the model and the file that the lemmas are about are the same.
LEMMA SameSteps ==
    /\ File!AppendCommand => FP!AppendCommand
    /\ File!FlushStart => FP!FlushStart
    /\ File!FlushNothing => FP!FlushNothing
    /\ File!WriteSome => FP!WriteSome
    /\ File!WriteFails => FP!WriteFails
    /\ File!FlushReturns => FP!FlushReturns
    /\ File!Sync(TRUE) => FP!Sync(TRUE)
    /\ File!Sync(FALSE) => FP!Sync(FALSE)
    /\ File!Destroy => FP!Destroy
    /\ File!CloseFile => FP!CloseFile
<1>1. File!AppendCommand => FP!AppendCommand
  BY DEF File!AppendCommand, FP!AppendCommand, File!Encode, FP!Encode
<1>2. (File!FlushStart => FP!FlushStart) /\ (File!FlushNothing => FP!FlushNothing)
  BY DEF File!FlushStart, FP!FlushStart, File!FlushNothing, FP!FlushNothing,
         File!vars, FP!vars
<1>3. File!WriteSome => FP!WriteSome
  BY DEF File!WriteSome, FP!WriteSome
<1>4. File!WriteFails => FP!WriteFails
  BY DEF File!WriteFails, FP!WriteFails, File!Pending, FP!Pending,
         File!AfterFlush, FP!AfterFlush
<1>5. File!FlushReturns => FP!FlushReturns
  BY DEF File!FlushReturns, FP!FlushReturns, File!AfterFlush, FP!AfterFlush
<1>6. (File!Sync(TRUE) => FP!Sync(TRUE)) /\ (File!Sync(FALSE) => FP!Sync(FALSE))
  BY DEF File!Sync, FP!Sync
<1>7. (File!Destroy => FP!Destroy) /\ (File!CloseFile => FP!CloseFile)
  BY DEF File!Destroy, FP!Destroy, File!CloseFile, FP!CloseFile, File!GoDown, FP!GoDown
<1> QED BY <1>1, <1>2, <1>3, <1>4, <1>5, <1>6, <1>7

\* Actions by what they do to the file: most do nothing.
FileActions == RequestAppends \/ CallFlush \/ FlushStep \/ Cron \/ Stop \/ Exit

\* Only these actions touch the file of the server.
LEMMA OthersKeepFile ==
    ASSUME [Next]_vars PROVE FileActions \/ UNCHANGED fileVars
<1>1. CASE UNCHANGED vars
  BY <1>1 DEF vars, fileVars
<1>2. CASE \E c \in Connection : Peers(c)
  BY <1>2 DEF Peers, Connect, PeerSends, PeerFinishes, PeerResets, PeerReads
<1>3. CASE CronTimeReached \/ handleShutdownSignal \/ PollFails \/ Stopped
  BY <1>3 DEF CronTimeReached, handleShutdownSignal, PollFails, Stopped, vars, fileVars
<1>4. CASE \/ LoopTest \/ CallPoll \/ PollReturns
           \/ (\E c \in Connection : Accept(c)) \/ AcceptReturns \/ handleClientEvents
  BY <1>4 DEF LoopTest, CallPoll, PollReturns, Accept, AcceptReturns, handleClientEvents
<1>5. CASE RecvData \/ RecvWouldBlock \/ RecvEnd \/ RecvError
  BY <1>5 DEF RecvData, RecvWouldBlock, RecvEnd, RecvError
<1>6. CASE RequestRefused \/ RequestAnswered \/ ProcessReturns \/ NothingToReply
  BY <1>6 DEF RequestRefused, RequestAnswered, ProcessReturns, NothingToReply
<1>7. CASE SendSome \/ WriteReturns \/ SendError \/ CloseClient
  BY <1>7 DEF SendSome, WriteReturns, SendError, CloseClient
<1> QED BY <1>1, <1>2, <1>3, <1>4, <1>5, <1>6, <1>7 DEF Next, Loop, FileActions

\* Every step of the loop is a step of the append-only file, or none of its
\* business.
LEMMA FileSteps == [Next]_vars => [FP!Next]_(FP!vars)
<1> SUFFICES ASSUME [Next]_vars PROVE [FP!Next]_(FP!vars)
  OBVIOUS
<1>1. CASE UNCHANGED fileVars
  BY <1>1 DEF fileVars, FP!vars
<1>2. CASE RequestAppends
  BY <1>2, SameSteps DEF RequestAppends, FP!Next
<1>3. CASE CallFlush
  BY <1>3, SameSteps DEF CallFlush, FP!Next
<1>4. CASE FlushStep
  BY <1>4, SameSteps DEF FlushStep, FP!Next
<1>5. CASE Cron
  BY <1>5, <1>1, SameSteps DEF Cron, FP!Next
<1>6. CASE Stop
  BY <1>6, SameSteps DEF Stop, FP!Next
<1>7. CASE Exit
  BY <1>7, SameSteps DEF Exit, FP!Next
<1> QED BY <1>1, <1>2, <1>3, <1>4, <1>5, <1>6, <1>7, OthersKeepFile DEF FileActions

\* The file's own invariant is kept by the loop.
LEMMA FileInvKept == FP!Inv /\ [Next]_vars => FP!Inv'
BY FileSteps, FileAssumption, FP!NextInv

\* The file's own invariant holds at the start.
LEMMA FileInvInit == Init => FP!Inv
<1>1. File!Init => FP!Init
  BY DEF File!Init, FP!Init
<1> QED BY <1>1, FileAssumption, FP!InitInv DEF Init

(***************************************************************************)
(* Shape: the connections, their descriptors, the clients and the loop.    *)
(***************************************************************************)
\* What the scenario determines stays as it is, and what has been executed
\* stays executed.
LEMMA SameConversations ==
    ASSUME scenario' = scenario
    PROVE  \A c : Stream(c)' = Stream(c) /\ Piece(c)' = Piece(c)
BY DEF Stream, Request, Piece

\* Replies that were true stay true: nothing executed is ever undone.
LEMMA EarnedStays ==
    ASSUME scenario' = scenario,
           executed' = executed \/ \E x : executed' = Append(executed, x),
           executed \in Seq(Connection \X Nat)
    PROVE  \A c : /\ Earned(c) \subseteq Earned(c)'
                  /\ Seq(Earned(c)) \subseteq Seq(Earned(c)')
                  /\ ClientOf(c) \subseteq ClientOf(c)'
<1>1. \A request : Executed(request) => Executed(request)'
  <2>1. CASE executed' = executed
    BY <2>1 DEF Executed
  <2>2. CASE \E x : executed' = Append(executed, x)
    <3>1. PICK x : executed' = Append(executed, x)
      BY <2>2
    <3>2. /\ DOMAIN executed = 1 .. Len(executed) /\ Len(executed) \in Nat
          /\ DOMAIN executed' = 1 .. Len(executed) + 1
          /\ \A k \in 1 .. Len(executed) : executed'[k] = executed[k]
      BY <3>1, LenProperties
    <3> QED BY <3>2 DEF Executed
  <2> QED BY <2>1, <2>2
<1>2. ASSUME NEW c PROVE Earned(c) \subseteq Earned(c)'
  BY <1>1 DEF Earned, Kind
<1>3. ASSUME NEW c PROVE Seq(Earned(c)) \subseteq Seq(Earned(c)')
  BY <1>2, SeqMonotonic
<1>4. ASSUME NEW c PROVE ClientOf(c) \subseteq ClientOf(c)'
  BY <1>3, SameConversations DEF ClientOf, ClientWith
<1> QED BY <1>2, <1>3, <1>4

\* Steps that leave the kernel and the peers alone.
LEMMA NetUnchanged ==
    ASSUME NetInv, UNCHANGED netVars,
           \A c \in Connection : Seq(Earned(c)) \subseteq Seq(Earned(c)')
    PROVE  NetInv'
BY SameConversations DEF NetInv, netVars

\* Steps that neither accept nor close.
LEMMA DescriptorsUnchanged ==
    ASSUME DescriptorInv, UNCHANGED <<scenario, status, fds>>
    PROVE  DescriptorInv'
BY DEF DescriptorInv

\* Steps that leave every client as it is.
LEMMA ClientsUnchanged ==
    ASSUME ClientInv, UNCHANGED <<fds, clients>>,
           \A c : ClientOf(c) \subseteq ClientOf(c)'
    PROVE  ClientInv'
<1>1. ASSUME NEW fd \in DOMAIN fds
      PROVE  /\ clients[fd]' \in ClientOf(fds[fd])'
             /\ clients'[fd].outputOffset <= Len(clients'[fd].output)
  BY DEF ClientInv
<1>2. DOMAIN clients' = DOMAIN fds' /\ clients' = [fd \in DOMAIN fds' |-> clients'[fd]]
  BY DEF ClientInv
<1> QED BY <1>1, <1>2 DEF ClientInv

\* A step that replaces the client being handled.
LEMMA ClientSet ==
    ASSUME ClientInv, socket \in DOMAIN fds, fds' = fds,
           \A c : ClientOf(c) \subseteq ClientOf(c)',
           NEW mine, mine = fds[socket], NEW client \in ClientOf(mine)',
           client.outputOffset <= Len(client.output),
           SetClient(client)
    PROVE  ClientInv'
<1>1. clients' = [clients EXCEPT ![socket] = client]
  BY DEF SetClient
<1>2. DOMAIN clients' = DOMAIN fds'
  BY <1>1 DEF ClientInv
<1>3. clients' = [fd \in DOMAIN fds' |-> clients'[fd]]
  BY <1>1 DEF ClientInv
<1>4. ASSUME NEW fd \in DOMAIN fds
      PROVE  /\ clients'[fd] \in ClientOf(fds[fd])'
             /\ clients'[fd].outputOffset <= Len(clients'[fd].output)
  <2>1. CASE fd = socket
    <3>1. clients'[fd] = client
      BY <1>1, <2>1 DEF ClientInv
    <3> QED BY <2>1, <3>1
  <2>2. CASE fd # socket
    <3>1. clients'[fd] = clients[fd]
      BY <1>1, <2>2 DEF ClientInv
    <3>2. clients[fd] \in ClientOf(fds[fd]) /\ clients[fd].outputOffset <= Len(clients[fd].output)
      BY DEF ClientInv
    <3> QED BY <3>1, <3>2
  <2> QED BY <2>1, <2>2
<1> QED BY <1>2, <1>3, <1>4 DEF ClientInv

\* The peers change what is on the way, never a descriptor or a client.
LEMMA ShapePeers ==
    ASSUME Inv, NEW p \in Connection, Peers(p) PROVE Shape'
<1> USE DEF Inv, Shape
<1>1. UNCHANGED <<scenario, received, fds, loopVars, fileVars>>
  BY DEF Peers, Connect, PeerSends, PeerFinishes, PeerResets, PeerReads
<1>2. /\ UNCHANGED <<pc, clients, todo, socket, executed>>
      /\ scenario' = scenario /\ fds' = fds /\ received' = received
  BY <1>1 DEF loopVars
<1>3. \A c : /\ Stream(c)' = Stream(c) /\ Earned(c)' = Earned(c)
             /\ ClientOf(c)' = ClientOf(c)
  BY <1>2, SameConversations DEF Earned, ClientOf, ClientWith, Kind, Executed
<1>4. ClientInv'
  BY <1>2, <1>3, ClientsUnchanged
<1>5. LoopInv'
  BY <1>2 DEF LoopInv, Handling
<1>6. DescriptorInv'
  <2>1. CASE UNCHANGED status
    BY <1>2, <2>1, DescriptorsUnchanged
  <2>2. CASE Connect(p)
    BY <1>2, <2>2 DEF Connect, DescriptorInv, NetInv
  <2> QED BY <2>1, <2>2 DEF Peers, PeerSends, PeerFinishes, PeerResets, PeerReads
<1>7. NetInv'
  <2>0. ASSUME NEW c \in Connection
        PROVE  /\ received[c] \in Nat /\ sent[c] \in Nat
               /\ received[c] <= sent[c] /\ sent[c] <= Len(Stream(c))
               /\ tx[c] \in Seq(Earned(c)) /\ Len(tx[c]) <= SendBuffer
               /\ got[c] \in Seq(Earned(c)) /\ Len(Stream(c)) \in Nat
    BY StreamType, LenProperties DEF NetInv
  <2>1. CASE Connect(p)
    BY <1>2, <1>3, <2>1 DEF Connect, NetInv
  <2>2. CASE PeerSends(p)
    <3>1. sent' \in [Connection -> Nat] /\ \A c \in Connection :
             received[c] <= sent'[c] /\ sent'[c] <= Len(Stream(c))
      BY <2>0, <2>2 DEF PeerSends, NetInv
    <3> QED BY <1>2, <1>3, <2>2, <3>1 DEF PeerSends, NetInv
  <2>3. CASE PeerFinishes(p)
    BY <1>2, <1>3, <2>3 DEF PeerFinishes, NetInv
  <2>4. CASE PeerResets(p)
    <3>1. <<>> \in Seq(Earned(p)) /\ Len(<<>>) = 0
      BY EmptySeq
    <3>2. tx' = [c \in Connection |-> tx'[c]]
      BY <2>4 DEF PeerResets, NetInv
    <3>3. ASSUME NEW c \in Connection
          PROVE  tx'[c] \in Seq(Earned(c)) /\ Len(tx'[c]) <= SendBuffer
      <4>1. tx'[c] = IF c = p THEN <<>> ELSE tx[c]
        BY <2>4 DEF PeerResets, NetInv
      <4> QED BY <4>1, <3>1, <2>0, LimitsAssumption
    <3>4. /\ peer' \in [Connection -> {"open", "fin", "reset"}]
          /\ status' = status /\ sent' = sent /\ got' = got
      BY <2>4 DEF PeerResets, NetInv
    <3> QED BY <1>2, <1>3, <3>2, <3>3, <3>4 DEF NetInv
  <2>5. CASE PeerReads(p)
    <3> DEFINE r == Head(tx[p])
               t == Tail(tx[p])
    <3>1. tx[p] # <<>>
      BY <2>5 DEF PeerReads
    <3>2. r \in Earned(p) /\ t \in Seq(Earned(p)) /\ Len(t) <= SendBuffer
      <4>1. tx[p] \in Seq(Earned(p)) /\ Len(tx[p]) <= SendBuffer
        BY <2>0
      <4>2. r \in Earned(p) /\ t \in Seq(Earned(p)) /\ Len(t) = Len(tx[p]) - 1
        BY <3>1, <4>1, HeadTailProperties
      <4>3. Len(tx[p]) \in Nat
        BY <4>1, LenProperties
      <4> QED BY <4>1, <4>2, <4>3, LimitsAssumption
    <3>3. Append(got[p], r) \in Seq(Earned(p))
      BY <2>0, <3>2, AppendProperties
    <3>4. /\ tx' = [tx EXCEPT ![p] = t] /\ got' = [got EXCEPT ![p] = Append(got[p], r)]
          /\ status' = status /\ peer' = peer /\ sent' = sent
      BY <2>5 DEF PeerReads, NetInv
    <3> HIDE DEF r, t
    <3>5. tx' = [c \in Connection |-> tx'[c]] /\ got' = [c \in Connection |-> got'[c]]
      BY <3>4 DEF NetInv
    <3>6. ASSUME NEW c \in Connection
          PROVE  /\ tx'[c] \in Seq(Earned(c)) /\ Len(tx'[c]) <= SendBuffer
                 /\ got'[c] \in Seq(Earned(c))
      <4>1. /\ tx'[c] = IF c = p THEN t ELSE tx[c]
            /\ got'[c] = IF c = p THEN Append(got[p], r) ELSE got[c]
        BY <3>4 DEF NetInv
      <4> QED BY <4>1, <2>0, <3>2, <3>3
    <3> QED BY <1>2, <1>3, <3>4, <3>5, <3>6 DEF NetInv
  <2> QED BY <2>1, <2>2, <2>3, <2>4, <2>5 DEF Peers
<1> QED BY <1>4, <1>5, <1>6, <1>7

\* Steps that only move the loop.
LEMMA ShapeSteady ==
    ASSUME Inv, UNCHANGED <<netVars, clients, executed>>, LoopInv' PROVE Shape'
<1> USE DEF Inv, Shape
<1>1. scenario' = scenario /\ status' = status /\ fds' = fds /\ UNCHANGED netVars
  BY DEF netVars
<1>2. \A c : /\ Seq(Earned(c)) \subseteq Seq(Earned(c)')
             /\ ClientOf(c) \subseteq ClientOf(c)'
  BY <1>1, EarnedStays DEF LogInv
<1> QED BY <1>1, <1>2, NetUnchanged, DescriptorsUnchanged, ClientsUnchanged

\* The steps that only move the loop, the flag, the clock or the file.
LEMMA ShapeControl ==
    ASSUME Inv,
           \/ CronTimeReached \/ handleShutdownSignal \/ PollFails \/ Stopped
           \/ LoopTest \/ CallPoll \/ PollReturns \/ AcceptReturns \/ handleClientEvents
           \/ RecvWouldBlock \/ RecvEnd \/ RecvError
           \/ NothingToReply \/ CallFlush \/ FlushStep \/ SendError \/ Cron \/ Exit
           \/ UNCHANGED vars
    PROVE  Shape'
<1>0. LoopInv /\ DOMAIN clients = DOMAIN fds /\ scenario \in Scenarios
  BY DEF Inv, Shape, ClientInv, NetInv
<1>1. CASE CronTimeReached \/ handleShutdownSignal \/ PollFails \/ LoopTest \/ CallPoll
  <2>1. UNCHANGED <<netVars, clients, executed>> /\ fds' = fds /\ scenario' = scenario
    BY <1>1 DEF CronTimeReached, handleShutdownSignal, PollFails, LoopTest, CallPoll, netVars
  <2>2. LoopInv'
    BY <1>0, <1>1, <2>1 DEF CronTimeReached, handleShutdownSignal, PollFails, LoopTest,
       CallPoll, Goto, LoopInv, Handling, Labels
  <2> QED BY <2>1, <2>2, ShapeSteady
<1>2. CASE Stopped \/ FlushStep \/ UNCHANGED vars
  <2>1. /\ UNCHANGED <<netVars, clients, executed>> /\ fds' = fds /\ scenario' = scenario
        /\ UNCHANGED <<pc, todo, socket>>
    BY <1>2 DEF Stopped, FlushStep, vars, netVars, loopVars
  <2>2. LoopInv'
    BY <1>0, <2>1 DEF LoopInv, Handling
  <2> QED BY <2>1, <2>2, ShapeSteady
<1>3. CASE PollReturns
  <2>1. UNCHANGED <<netVars, clients, executed>> /\ fds' = fds /\ scenario' = scenario
    BY <1>3 DEF PollReturns, netVars
  <2>2. PICK onReset : todo' = Descriptors(onReset)
    BY <1>3 DEF PollReturns
  <2>3. /\ \A d \in todo' : d.fd \in DOMAIN fds
        /\ \A d, e \in todo' : d.fd = e.fd => d = e
    BY <1>0, <2>2 DEF Descriptors
  <2>4. LoopInv'
    BY <1>0, <1>3, <2>1, <2>3 DEF PollReturns, Goto, LoopInv, Handling, Labels
  <2> QED BY <2>1, <2>4, ShapeSteady
<1>4. CASE AcceptReturns \/ RecvWouldBlock \/ RecvEnd \/ RecvError \/ NothingToReply
           \/ CallFlush \/ SendError
  <2>1. /\ UNCHANGED <<netVars, clients, executed>> /\ fds' = fds /\ scenario' = scenario
        /\ UNCHANGED <<todo, socket>>
        /\ pc \in {"accept", "read", "reply", "send"}
        /\ pc = "accept" => pc' = "events"
        /\ pc # "accept" =>
              pc' \in {"close", "process", "processLast", "send", "events"}
    BY <1>4 DEF AcceptReturns, RecvWouldBlock, RecvEnd, RecvError, NothingToReply,
       CallFlush, SendError, Sending, Goto, netVars, AfterReading, CloseWhenAnswered
  <2>2. LoopInv'
    BY <1>0, <2>1 DEF LoopInv, Handling, Labels
  <2> QED BY <2>1, <2>2, ShapeSteady
<1>5. CASE handleClientEvents
  <2>1. UNCHANGED <<netVars, clients, executed>> /\ fds' = fds /\ scenario' = scenario
    BY <1>5 DEF handleClientEvents, netVars
  <2>2. PICK d \in todo : todo' = todo \ {d} /\ socket' = d.fd /\ pc' = FirstStep(d.revents)
    BY <1>5 DEF handleClientEvents, Goto
  <2>3. pc' \in {"close", "read", "reply"}
    BY <2>2 DEF FirstStep
  <2>4. socket' \in DOMAIN fds /\ socket' \in 0 .. scenario.fds
    BY <1>0, <2>2 DEF Inv, Shape, LoopInv, DescriptorInv
  <2>5. \A e \in todo' : e.fd # socket'
    BY <1>0, <2>2 DEF LoopInv
  <2>6. /\ \A e \in todo' : e.fd \in DOMAIN fds
        /\ \A e, f \in todo' : e.fd = f.fd => e = f
    BY <1>0, <2>2 DEF LoopInv
  <2>7. LoopInv'
    BY <2>1, <2>3, <2>4, <2>5, <2>6 DEF LoopInv, Labels
  <2> QED BY <2>1, <2>7, ShapeSteady
<1>6. CASE Cron \/ Exit
  <2>1. UNCHANGED <<netVars, clients, executed>> /\ fds' = fds /\ scenario' = scenario
    BY <1>6 DEF Cron, Exit, netVars
  <2>2. scenario.fds \in Nat
    BY <1>0, ScenariosAssumption
  <2>3. /\ pc' \in {"test", "exit", "stopped"} /\ todo' = todo /\ todo = {}
        /\ socket' = 0 \/ socket' = socket
    BY <1>0, <1>6 DEF Cron, Exit, Goto, LoopInv
  <2>4. LoopInv'
    BY <1>0, <2>1, <2>2, <2>3 DEF LoopInv, Handling, Labels
  <2> QED BY <2>1, <2>4, ShapeSteady
<1> QED BY <1>1, <1>2, <1>3, <1>4, <1>5, <1>6

\* Accepting takes a descriptor that is free.
LEMMA ShapeAccept ==
    ASSUME Inv, NEW c \in Connection, Accept(c) PROVE Shape'
<1> USE DEF Inv, Shape
<1> DEFINE n == Min(FreeFds)
<1>1. scenario.fds \in Nat /\ FreeFds \subseteq Nat /\ FreeFds # {}
  BY ScenariosAssumption DEF NetInv, Accept, FreeFds
<1>2. n \in 1 .. scenario.fds /\ n \notin DOMAIN fds
  BY <1>1, MinProperties DEF FreeFds
<1>3. /\ fds' = Emplaced(fds, n, c) /\ clients' = Emplaced(clients, n, Client)
      /\ status' = [status EXCEPT ![c] = "open"] /\ status[c] = "backlog" /\ pc = "accept"
      /\ UNCHANGED <<scenario, peer, sent, received, tx, got, pc, todo, socket, executed>>
  BY DEF Accept, Backlog
<1> HIDE DEF n
<1>4. \A x : /\ Stream(x)' = Stream(x) /\ Earned(x)' = Earned(x)
             /\ ClientOf(x)' = ClientOf(x)
  BY <1>3, SameConversations DEF Earned, ClientOf, ClientWith, Kind, Executed
<1>5. NetInv'
  BY <1>3, <1>4 DEF NetInv
<1>6. /\ DOMAIN fds' = DOMAIN fds \cup {n} /\ fds'[n] = c
      /\ \A fd \in DOMAIN fds : fds'[fd] = fds[fd]
      /\ \A fd \in DOMAIN fds : fds[fd] \in Connection
      /\ fds' = [fd \in DOMAIN fds' |-> fds'[fd]]
  BY <1>2, <1>3 DEF Emplaced, DescriptorInv
<1>7. /\ DOMAIN clients' = DOMAIN fds' /\ clients'[n] = Client
      /\ \A fd \in DOMAIN fds : clients'[fd] = clients[fd]
      /\ clients' = [fd \in DOMAIN clients' |-> clients'[fd]]
  BY <1>2, <1>3, <1>6 DEF Emplaced, ClientInv
<1>8. DescriptorInv'
  <2>1. \A fd \in DOMAIN fds : fds[fd] # c
    BY <1>3 DEF DescriptorInv
  <2>2. DOMAIN fds' \subseteq 1 .. scenario'.fds /\ fds' \in [DOMAIN fds' -> Connection]
    BY <1>2, <1>3, <1>6 DEF DescriptorInv
  <2>3. \A fd \in DOMAIN fds' : status'[fds'[fd]] = "open"
    BY <1>3, <1>6 DEF DescriptorInv, NetInv
  <2>4. \A fd, other \in DOMAIN fds' : fds'[fd] = fds'[other] => fd = other
    BY <1>6, <2>1 DEF DescriptorInv
  <2>5. ASSUME NEW x \in Connection, status'[x] = "open"
        PROVE  \E fd \in DOMAIN fds' : fds'[fd] = x
    <3>1. CASE x = c
      BY <3>1, <1>6
    <3>2. CASE x # c
      BY <3>2, <1>3, <1>6, <2>5 DEF DescriptorInv, NetInv
    <3> QED BY <3>1, <3>2
  <2> QED BY <2>2, <2>3, <2>4, <2>5 DEF DescriptorInv
<1>9. ClientInv'
  <2>1. Client \in ClientOf(c) /\ Client.outputOffset <= Len(Client.output)
    <3>1. <<>> \in Seq(Piece(c)) /\ <<>> \in Seq(Earned(c)) /\ Len(<<>>) = 0
      BY EmptySeq
    <3> QED BY <3>1 DEF Client, ClientOf, ClientWith
  <2>2. ASSUME NEW fd \in DOMAIN fds'
        PROVE  /\ clients'[fd] \in ClientOf(fds'[fd])
               /\ clients'[fd].outputOffset <= Len(clients'[fd].output)
    <3>1. CASE fd = n
      BY <3>1, <2>1, <1>6, <1>7
    <3>2. CASE fd \in DOMAIN fds
      BY <3>2, <1>6, <1>7 DEF ClientInv
    <3> QED BY <3>1, <3>2, <1>6
  <2> QED BY <2>2, <1>4, <1>7 DEF ClientInv
<1>10. LoopInv'
  BY <1>3, <1>6 DEF LoopInv, Handling
<1> QED BY <1>5, <1>8, <1>9, <1>10

\* Hanging up frees the descriptor and forgets the client, and nothing that is
\* still to be handled refers to it.
LEMMA ShapeClose ==
    ASSUME Inv, CloseClient PROVE Shape'
<1> USE DEF Inv, Shape
<1> DEFINE c == fds[socket]
<1>1. socket \in DOMAIN fds /\ c \in Connection /\ pc = "close"
  BY DEF CloseClient, LoopInv, Handling, DescriptorInv
<1>2. /\ fds' = Without(fds, socket) /\ clients' = Without(clients, socket)
      /\ status' = [status EXCEPT ![c] = "closed"] /\ pc' = "events"
      /\ tx' = tx \/ tx' = [tx EXCEPT ![c] = <<>>]
      /\ UNCHANGED <<scenario, peer, sent, received, got, todo, socket, executed>>
  BY DEF CloseClient, Goto
<1>3. \A x : /\ Stream(x)' = Stream(x) /\ Earned(x)' = Earned(x)
             /\ ClientOf(x)' = ClientOf(x)
  BY <1>2, SameConversations DEF Earned, ClientOf, ClientWith, Kind, Executed
<1> HIDE DEF c
<1>4. NetInv'
  <2>2. tx' = [x \in Connection |-> tx'[x]]
    BY <1>1, <1>2 DEF NetInv
  <2>3. ASSUME NEW x \in Connection
        PROVE  tx'[x] \in Seq(Earned(x)) /\ Len(tx'[x]) <= SendBuffer
    <3>1. tx'[x] = tx[x] \/ tx'[x] = <<>>
      BY <1>1, <1>2 DEF NetInv
    <3>2. tx[x] \in Seq(Earned(x)) /\ Len(tx[x]) <= SendBuffer
      BY DEF NetInv
    <3>3. CASE tx'[x] = <<>>
      BY <3>3, EmptySeq, LimitsAssumption
    <3> QED BY <3>1, <3>2, <3>3
  <2>4. status' \in [Connection -> {"new", "backlog", "open", "closed"}]
    BY <1>1, <1>2 DEF NetInv
  <2> QED BY <1>2, <1>3, <2>2, <2>3, <2>4 DEF NetInv
<1>5. /\ DOMAIN fds' = DOMAIN fds \ {socket}
      /\ \A fd \in DOMAIN fds' : fds'[fd] = fds[fd]
      /\ fds' = [fd \in DOMAIN fds' |-> fds'[fd]]
  BY <1>2 DEF Without
<1>6. /\ DOMAIN clients' = DOMAIN fds'
      /\ \A fd \in DOMAIN fds' : clients'[fd] = clients[fd]
      /\ clients' = [fd \in DOMAIN clients' |-> clients'[fd]]
  BY <1>2, <1>5 DEF Without, ClientInv
<1>7. DescriptorInv'
  <2>1. \A fd \in DOMAIN fds : fds[fd] = c => fd = socket
    BY <1>1 DEF DescriptorInv, c
  <2>2. DOMAIN fds' \subseteq 1 .. scenario'.fds /\ fds' \in [DOMAIN fds' -> Connection]
    BY <1>2, <1>5 DEF DescriptorInv
  <2>3. \A fd \in DOMAIN fds' : status'[fds'[fd]] = "open"
    BY <1>2, <1>5, <2>1 DEF DescriptorInv, NetInv
  <2>4. \A fd, other \in DOMAIN fds' : fds'[fd] = fds'[other] => fd = other
    BY <1>5 DEF DescriptorInv
  <2>5. ASSUME NEW x \in Connection, status'[x] = "open"
        PROVE  \E fd \in DOMAIN fds' : fds'[fd] = x
    <3>1. x # c /\ status[x] = "open"
      BY <1>2, <2>5 DEF NetInv
    <3>2. PICK fd \in DOMAIN fds : fds[fd] = x
      BY <3>1 DEF DescriptorInv
    <3>3. fd \in DOMAIN fds' /\ fds'[fd] = x
      BY <1>5, <3>1, <3>2 DEF c
    <3> QED BY <3>3
  <2> QED BY <2>2, <2>3, <2>4, <2>5 DEF DescriptorInv
<1>8. ClientInv'
  <2>1. ASSUME NEW fd \in DOMAIN fds'
        PROVE  /\ clients'[fd] \in ClientOf(fds'[fd])
               /\ clients'[fd].outputOffset <= Len(clients'[fd].output)
    BY <1>5, <1>6 DEF ClientInv
  <2> QED BY <2>1, <1>3, <1>6 DEF ClientInv
<1>9. LoopInv'
  BY <1>1, <1>2, <1>5 DEF LoopInv, Handling, Labels
<1> QED BY <1>4, <1>7, <1>8, <1>9

\* At the end every client is gone.
LEMMA ShapeStop ==
    ASSUME Inv, Stop PROVE Shape'
<1> USE DEF Inv, Shape
<1>1. /\ fds' = <<>> /\ clients' = <<>> /\ pc = "stop" /\ pc' = "exit"
      /\ status' = [c \in Connection |-> IF Connected(c) THEN "closed" ELSE status[c]]
      /\ UNCHANGED <<scenario, peer, sent, received, got, todo, socket, executed>>
  BY DEF Stop, Goto
<1>2. PICK lost : tx' = [c \in Connection |-> IF c \in lost THEN <<>> ELSE tx[c]]
  BY DEF Stop
<1>3. \A x : /\ Stream(x)' = Stream(x) /\ Earned(x)' = Earned(x)
             /\ ClientOf(x)' = ClientOf(x)
  BY <1>1, SameConversations DEF Earned, ClientOf, ClientWith, Kind, Executed
<1>4. NetInv'
  <2>1. tx' = [x \in Connection |-> tx'[x]]
    BY <1>2
  <2>2. ASSUME NEW x \in Connection
        PROVE  tx'[x] \in Seq(Earned(x)) /\ Len(tx'[x]) <= SendBuffer
    <3>1. CASE tx'[x] = <<>>
      BY <3>1, EmptySeq, LimitsAssumption
    <3>2. tx'[x] = tx[x] \/ tx'[x] = <<>>
      BY <1>2
    <3>3. tx[x] \in Seq(Earned(x)) /\ Len(tx[x]) <= SendBuffer
      BY DEF NetInv
    <3> QED BY <3>1, <3>2, <3>3
  <2>3. status' \in [Connection -> {"new", "backlog", "open", "closed"}]
    BY <1>1 DEF NetInv
  <2> QED BY <1>1, <1>3, <2>1, <2>2, <2>3 DEF NetInv
<1>5. DOMAIN fds' = {} /\ DOMAIN clients' = {}
  BY <1>1
<1>6. DescriptorInv'
  <2>1. \A x \in Connection : status'[x] # "open"
    BY <1>1 DEF Connected, NetInv
  <2>2. fds' \in [DOMAIN fds' -> Connection]
    BY <1>1, <1>5
  <2> QED BY <1>5, <2>1, <2>2 DEF DescriptorInv
<1>7. ClientInv'
  BY <1>1, <1>5 DEF ClientInv
<1>8. LoopInv'
  BY <1>1 DEF LoopInv, Handling, Labels
<1> QED BY <1>4, <1>6, <1>7, <1>8

\* The client that is being handled.
LEMMA MyClient ==
    ASSUME Inv, Handling
    PROVE  /\ socket \in DOMAIN fds /\ fds[socket] \in Connection
           /\ Me \in ClientOf(fds[socket])
           /\ Me.input \in Seq(Piece(fds[socket])) /\ Len(Me.input) \in Nat
           /\ Me.output \in Seq(Earned(fds[socket])) /\ Len(Me.output) \in Nat
           /\ Me.outputOffset \in 0 .. Len(Me.output)
           /\ Me.closeAfterWrite \in BOOLEAN
           /\ pendingOutput(Me) \in Nat
<1> USE DEF Inv, Shape
<1>1. socket \in DOMAIN fds /\ fds[socket] \in Connection
  BY DEF LoopInv, DescriptorInv
<1>2. Me \in ClientOf(fds[socket]) /\ Me.outputOffset <= Len(Me.output)
  BY <1>1 DEF ClientInv, Me
<1>3. /\ Me.input \in Seq(Piece(fds[socket])) /\ Me.output \in Seq(Earned(fds[socket]))
      /\ Me.outputOffset \in Nat /\ Me.closeAfterWrite \in BOOLEAN
  BY <1>2 DEF ClientOf, ClientWith
<1>4. Len(Me.input) \in Nat /\ Len(Me.output) \in Nat
  BY <1>3, LenProperties
<1> QED BY <1>1, <1>2, <1>3, <1>4 DEF pendingOutput

\* A client is described by its four fields.
LEMMA ClientFields ==
    ASSUME NEW c, NEW client \in ClientOf(c)
    PROVE  client = [input |-> client.input, output |-> client.output,
                     outputOffset |-> client.outputOffset,
                     closeAfterWrite |-> client.closeAfterWrite]
BY DEF ClientOf, ClientWith

\* A step that changes the client being handled, and perhaps the label, the
\* count of reads and the history.
LEMMA ShapeSetClient ==
    ASSUME Inv, Handling,
           executed' = executed \/ \E x : executed' = Append(executed, x),
           UNCHANGED <<scenario, status, fds, todo, socket>>, NetInv',
           NEW mine, mine = fds[socket], NEW client \in ClientOf(mine)',
           client.outputOffset <= Len(client.output), SetClient(client),
           pc' \in Labels, pc' \in {"read", "process", "processLast", "reply", "send",
                                    "close", "events"}
    PROVE  Shape'
<1> USE DEF Inv, Shape
<1>1. \A c : ClientOf(c) \subseteq ClientOf(c)'
  BY EarnedStays DEF LogInv
<1>2. socket \in DOMAIN fds
  BY DEF LoopInv
<1>3. ClientInv'
  BY <1>1, <1>2, ClientSet
<1>4. DescriptorInv'
  BY DescriptorsUnchanged
<1>5. LoopInv'
  BY DEF LoopInv, Handling
<1> QED BY <1>3, <1>4, <1>5

\* recv moves units of the stream to the input.
LEMMA ShapeRecvData ==
    ASSUME Inv, RecvData PROVE Shape'
<1> PICK c : c = fds[socket]
  OBVIOUS
<1> DEFINE n == Min({Unread(c), ReadChunkSize})
           input == Me.input \o SubSeq(Stream(c), received[c] + 1, received[c] + n)
           client == [Me EXCEPT !.input = input]
<1>0. Handling
  BY DEF RecvData, Handling
<1>1. /\ socket \in DOMAIN fds /\ c \in Connection /\ Me \in ClientOf(c)
      /\ Me.input \in Seq(Piece(c)) /\ Me.outputOffset <= Len(Me.output)
  BY <1>0, MyClient
<1>2. /\ n > 0 /\ received' = [received EXCEPT ![c] = @ + n] /\ SetClient(client)
      /\ pc' = (IF n < ReadChunkSize \/ reads + 1 = MaxReadsPerEvent
                THEN AfterReading(input) ELSE "read")
      /\ UNCHANGED <<scenario, status, peer, sent, tx, got, fds, todo, socket, executed>>
  BY DEF RecvData, Goto
<1>3. /\ received[c] \in Nat /\ sent[c] \in Nat /\ received[c] <= sent[c]
      /\ sent[c] <= Len(Stream(c)) /\ Stream(c) \in Seq(Piece(c))
      /\ received \in [Connection -> Nat]
  BY <1>1, StreamType DEF Inv, Shape, NetInv
<1>4. n \in Nat /\ n <= Unread(c) /\ Unread(c) = sent[c] - received[c]
  <2>1. {Unread(c), ReadChunkSize} \subseteq Nat
    BY <1>3, LimitsAssumption DEF Unread
  <2> QED BY <2>1, MinProperties DEF Unread
<1> HIDE DEF n
<1>5. received[c] + n \in Nat /\ received[c] + n <= sent[c]
  BY <1>3, <1>4
<1>6. input \in Seq(Piece(c))
  <2>1. Len(Stream(c)) \in Nat
    BY <1>3, LenProperties
  <2>2. received[c] + 1 \in 1 .. Len(Stream(c)) + 1 /\ received[c] + n \in 0 .. Len(Stream(c))
    BY <1>3, <1>5, <2>1
  <2>3. SubSeq(Stream(c), received[c] + 1, received[c] + n) \in Seq(Piece(c))
    <3>1. \A i \in 1 .. Len(Stream(c)) : Stream(c)[i] \in Piece(c)
      BY <1>3, ElementOfSeq
    <3> QED BY <1>3, <2>1, <2>2, <3>1, SubSeqProperties
  <2> QED BY <1>1, <2>3, ConcatProperties
<1>7. NetInv'
  <2>1. \A x : Stream(x)' = Stream(x) /\ Earned(x)' = Earned(x)
    BY <1>2, SameConversations DEF Earned, Kind, Executed
  <2>2. received' \in [Connection -> Nat] /\ \A x \in Connection : received'[x] <= sent[x]
    BY <1>1, <1>2, <1>3, <1>5 DEF Inv, Shape, NetInv
  <2> QED BY <1>2, <2>1, <2>2 DEF Inv, Shape, NetInv
<1>8. client \in ClientOf(c)' /\ client.outputOffset <= Len(client.output)
  <2> HIDE DEF input
  <2>1. client \in ClientOf(c) /\ client.outputOffset <= Len(client.output)
    BY <1>1, <1>6 DEF ClientOf, ClientWith
  <2>2. ClientOf(c) \subseteq ClientOf(c)'
    BY <1>2, EarnedStays DEF Inv, LogInv
  <2> QED BY <2>1, <2>2
<1>9. pc' \in {"read", "close", "process"} /\ pc' \in Labels
  BY <1>2 DEF AfterReading, Labels
<1> HIDE DEF client
<1> QED BY <1>0, <1>2, <1>7, <1>8, <1>9, ShapeSetClient

\* A request in the input is one of the connection's.
LEMMA HeadRequest ==
    ASSUME scenario \in Scenarios, NEW c \in Connection,
           NEW input \in Seq(Piece(c)), input # <<>>
    PROVE  /\ Head(input)[1] = c /\ Head(input)[2] \in DOMAIN scenario.requests[c]
           /\ Head(input)[2] \in Nat
           /\ KindOf(Head(input)) = Kind(c, Head(input)[2])
           /\ KindOf(Head(input)) \in Kinds
           /\ RequestLength(KindOf(Head(input))) \in Nat \ {0, 1}
<1>1. Head(input) \in Piece(c)
  BY HeadTailProperties
<1>2. scenario.requests[c] \in Seq(Kinds)
  BY ScenariosAssumption
<1>3. \A i \in DOMAIN scenario.requests[c] : i \in Nat /\ scenario.requests[c][i] \in Kinds
  BY <1>2, LenProperties, ElementOfSeq
<1>4. Head(input)[1] = c /\ Head(input)[2] \in DOMAIN scenario.requests[c]
  BY <1>1 DEF Piece
<1>5. ReadChunkSize * MaxReadsPerEvent \in Nat \ {0}
  BY LimitsAssumption
<1>6. RequestLength(KindOf(Head(input))) \in Nat \ {0, 1}
  BY <1>5, LimitsAssumption DEF RequestLength
<1> QED BY <1>3, <1>4, <1>6 DEF KindOf, Kind

\* Answering and consuming keep a client a client.
LEMMA AnswerType ==
    ASSUME NEW P, NEW E, NEW client \in ClientWith(P, E), NEW outcome,
           <<Head(client.input)[1], Head(client.input)[2], outcome>> \in E
    PROVE  /\ Answer(client, outcome) \in ClientWith(P, E)
           /\ Answer(client, outcome).input = client.input
           /\ Answer(client, outcome).output =
                 Append(client.output,
                        <<Head(client.input)[1], Head(client.input)[2], outcome>>)
           /\ Len(Answer(client, outcome).output) = Len(client.output) + 1
           /\ Answer(client, outcome).outputOffset = client.outputOffset
           /\ Answer(client, outcome).closeAfterWrite = client.closeAfterWrite
<1> DEFINE r == <<Head(client.input)[1], Head(client.input)[2], outcome>>
<1>1. client.output \in Seq(E)
  BY DEF ClientWith, ClientWith
<1> HIDE DEF r
<1>2. r \in E
  BY DEF r
<1>3. /\ Append(client.output, r) \in Seq(E)
      /\ Len(Append(client.output, r)) = Len(client.output) + 1
  BY <1>1, <1>2, AppendProperties
<1>4. Answer(client, outcome) = [client EXCEPT !.output = Append(client.output, r)]
  BY DEF Answer, r, ClientWith
<1>5. /\ Answer(client, outcome) \in ClientWith(P, E)
      /\ Answer(client, outcome).output = Append(client.output, r)
      /\ Answer(client, outcome).input = client.input
      /\ Answer(client, outcome).outputOffset = client.outputOffset
      /\ Answer(client, outcome).closeAfterWrite = client.closeAfterWrite
  BY <1>3, <1>4 DEF ClientWith, ClientWith
<1> QED BY <1>3, <1>5 DEF r

\* What is behind the first request of an input.
Behind(input) == SubSeq(input, RequestLength(KindOf(Head(input))) + 1, Len(input))

\* A request taken out of the input leaves the rest of it, and the output.
LEMMA ConsumeType ==
    ASSUME scenario \in Scenarios, NEW c \in Connection, NEW E,
           NEW client \in ClientWith(Piece(c), E), Whole(client.input)
    PROVE  /\ Consume(client) \in ClientWith(Piece(c), E)
           /\ Consume(client).output = client.output
           /\ Consume(client).outputOffset = client.outputOffset
           /\ Consume(client).closeAfterWrite = client.closeAfterWrite
           /\ Consume(client).input = Behind(client.input)
           /\ Len(Consume(client).input) =
                 Len(client.input) - RequestLength(KindOf(Head(client.input)))
<1> DEFINE n == RequestLength(KindOf(Head(client.input)))
           rest == SubSeq(client.input, n + 1, Len(client.input))
<1>1. client.input \in Seq(Piece(c)) /\ client.input # <<>> /\ Len(client.input) >= n
  BY DEF ClientWith, Whole
<1>2. n \in Nat \ {0, 1} /\ Len(client.input) \in Nat
  BY <1>1, HeadRequest, LenProperties
<1> HIDE DEF n
<1>3. rest \in Seq(Piece(c)) /\ Len(rest) = Len(client.input) - n
  <2>1. \A i \in 1 .. Len(client.input) : client.input[i] \in Piece(c)
    BY <1>1, ElementOfSeq
  <2>2. n + 1 \in 1 .. Len(client.input) + 1 /\ Len(client.input) \in 0 .. Len(client.input)
    BY <1>1, <1>2
  <2> QED BY <1>1, <1>2, <2>1, <2>2, SubSeqProperties
<1>4. Consume(client) = [client EXCEPT !.input = rest]
  BY DEF Consume, n, ClientWith
<1> HIDE DEF rest
<1>5. /\ Consume(client) \in ClientWith(Piece(c), E) /\ Consume(client).input = rest
      /\ Consume(client).output = client.output
      /\ Consume(client).outputOffset = client.outputOffset
      /\ Consume(client).closeAfterWrite = client.closeAfterWrite
  BY <1>3, <1>4 DEF ClientWith, ClientWith
<1>6. rest = Behind(client.input)
  BY DEF Behind, rest, n
<1> QED BY <1>3, <1>5, <1>6 DEF n

\* What the handling of one request makes of a client: the error reply after
\* which it is closed, a reply to the request taken out of the input, or only
\* that for a blank line.
IsReplyTo(input, r) == r[1] = Head(input)[1] /\ r[2] = Head(input)[2]
Refusal(old, new) ==
    /\ IsBad(old.input) /\ new.input = old.input /\ new.closeAfterWrite
    /\ \E r : /\ IsReplyTo(old.input, r) /\ r[3] = "error"
             /\ new.output = Append(old.output, r)
Reply(old, new) ==
    /\ Whole(old.input) /\ KindOf(Head(old.input)) \notin {"bad", "blank"}
    /\ new.input = Behind(old.input)
    /\ Len(new.input) = Len(old.input) - RequestLength(KindOf(Head(old.input)))
    /\ \E r : /\ IsReplyTo(old.input, r) /\ r[3] # "error"
             /\ new.output = Append(old.output, r)
    /\ new.closeAfterWrite <=> (old.closeAfterWrite \/ KindOf(Head(old.input)) = "quit")
Skip(old, new) ==
    /\ Whole(old.input) /\ KindOf(Head(old.input)) = "blank"
    /\ new.input = Behind(old.input)
    /\ Len(new.input) = Len(old.input) - RequestLength(KindOf(Head(old.input)))
    /\ new.output = old.output /\ new.closeAfterWrite = old.closeAfterWrite

\* The client after a request, and that its replies are still earned.
RequestEffect(c, client) ==
    /\ c = fds[socket] /\ client \in ClientOf(c)' /\ SetClient(client)
    /\ client.outputOffset = Me.outputOffset
    /\ Len(client.output) >= Len(Me.output)
    /\ Refusal(Me, client) \/ Reply(Me, client) \/ Skip(Me, client)

\* A protocol error has such an effect.
LEMMA RefusedEffect ==
    ASSUME Inv, RequestRefused PROVE \E c, client : RequestEffect(c, client)
<1> PICK c : c = fds[socket]
  OBVIOUS
<1> DEFINE client == [Answer(Me, "error") EXCEPT !.closeAfterWrite = TRUE]
           r == <<Head(Me.input)[1], Head(Me.input)[2], "error">>
<1>1. Handling /\ MayProcess /\ IsBad(Me.input) /\ SetClient(client)
  BY DEF RequestRefused, MayProcess, Processing, Handling
<1>2. UNCHANGED <<scenario, executed>> /\ scenario \in Scenarios
  BY DEF RequestRefused, netVars, Inv, Shape, NetInv
<1>3. /\ c \in Connection /\ Me \in ClientOf(c) /\ Me.input \in Seq(Piece(c))
      /\ Me.input # <<>> /\ Len(Me.output) \in Nat
  BY <1>1, MyClient DEF IsBad
<1>4. r \in Earned(c)
  BY <1>2, <1>3, HeadRequest DEF Earned
<1>5. /\ Answer(Me, "error") \in ClientOf(c) /\ Answer(Me, "error").input = Me.input
      /\ Answer(Me, "error").output = Append(Me.output, r)
      /\ Len(Answer(Me, "error").output) = Len(Me.output) + 1
      /\ Answer(Me, "error").outputOffset = Me.outputOffset
  BY <1>3, <1>4, AnswerType DEF ClientOf
<1>6. /\ client \in ClientOf(c) /\ client.input = Me.input /\ client.closeAfterWrite
      /\ client.output = Append(Me.output, r) /\ Len(client.output) = Len(Me.output) + 1
      /\ client.outputOffset = Me.outputOffset
  BY <1>5 DEF ClientOf, ClientWith
<1>7. client \in ClientOf(c)'
  BY <1>2, <1>6, EarnedStays DEF Inv, LogInv
<1>8. r[3] = "error" /\ IsReplyTo(Me.input, r)
  BY DEF IsReplyTo
<1> HIDE DEF client, r
<1>9. Refusal(Me, client)
  BY <1>1, <1>6, <1>8 DEF Refusal
<1>10. RequestEffect(c, client)
  BY <1>1, <1>3, <1>6, <1>7, <1>9 DEF RequestEffect
<1> QED BY <1>10

\* So has a request that is logged: it is answered and recorded as executed.
LEMMA AppendsEffect ==
    ASSUME Inv, RequestAppends
    PROVE  /\ \E c, client : RequestEffect(c, client) /\ Reply(Me, client)
           /\ \E x \in Connection \X Nat : executed' = Append(executed, x)
<1> PICK c : c = fds[socket]
  OBVIOUS
<1> DEFINE r == <<Head(Me.input)[1], Head(Me.input)[2], "ok">>
           x == <<Head(Me.input)[1], Head(Me.input)[2]>>
           mid == Answer(Me, "ok")
           client == Consume(mid)
<1>1. /\ Handling /\ MayProcess /\ Whole(Me.input) /\ SetClient(client)
      /\ executed' = Append(executed, x) /\ KindOf(Head(Me.input)) \in {"write", "evict"}
  BY DEF RequestAppends, MayProcess, Processing, Handling
<1>2. scenario' = scenario /\ scenario \in Scenarios /\ scenario' \in Scenarios
  BY DEF RequestAppends, netVars, Inv, Shape, NetInv
<1>3. /\ c \in Connection /\ Me \in ClientOf(c) /\ Me.input \in Seq(Piece(c))
      /\ Me.input # <<>> /\ Len(Me.output) \in Nat
  BY <1>1, MyClient DEF Whole
<1>4. /\ x = <<c, Head(Me.input)[2]>> /\ x \in Connection \X Nat
      /\ Head(Me.input)[2] \in DOMAIN scenario.requests[c]
  BY <1>2, <1>3, HeadRequest
<1> PICK me : me = Me
  OBVIOUS
<1>5. me \in ClientOf(c)'
  BY <1>1, <1>2, <1>3, EarnedStays DEF Inv, LogInv
<1>6. executed'[Len(executed) + 1] = x /\ Len(executed) + 1 \in DOMAIN executed'
  <2>1. executed \in Seq(Connection \X Nat) /\ Len(executed) \in Nat
    BY LenProperties DEF Inv, LogInv
  <2> HIDE DEF x
  <2> QED BY <1>1, <1>4, <2>1, AppendProperties, LenProperties
<1>7. PICK E : E = Earned(c)'
  OBVIOUS
<1>8. me \in ClientWith(Piece(c), E) /\ Piece(c)' = Piece(c)
  BY <1>2, <1>5, <1>7, SameConversations DEF ClientOf
<1>9. <<Head(me.input)[1], Head(me.input)[2], "ok">> \in E
  BY <1>2, <1>4, <1>6, <1>7 DEF Earned, Executed
<1>10. /\ Answer(me, "ok") \in ClientWith(Piece(c), E)
       /\ Answer(me, "ok").input = me.input
       /\ Answer(me, "ok").output = Append(me.output, r)
       /\ Len(Answer(me, "ok").output) = Len(me.output) + 1
       /\ Answer(me, "ok").outputOffset = me.outputOffset
       /\ Answer(me, "ok").closeAfterWrite = me.closeAfterWrite
  BY <1>8, <1>9, AnswerType
<1> HIDE DEF r, x, mid
<1>11. mid \in ClientWith(Piece(c), E) /\ Whole(mid.input) /\ mid.input = Me.input
  BY <1>1, <1>10 DEF mid
<1>12. /\ client \in ClientWith(Piece(c), E) /\ client.output = mid.output
       /\ client.outputOffset = mid.outputOffset
       /\ client.closeAfterWrite = mid.closeAfterWrite
       /\ client.input = Behind(mid.input)
       /\ Len(client.input) = Len(mid.input) - RequestLength(KindOf(Head(mid.input)))
  BY <1>2, <1>3, <1>11, ConsumeType
<1> HIDE DEF client
<1>13. client \in ClientOf(c)'
  BY <1>7, <1>8, <1>12 DEF ClientOf
<1>14. r[3] # "error" /\ IsReplyTo(Me.input, r)
  BY DEF r, IsReplyTo
<1>15. Reply(Me, client)
  BY <1>1, <1>10, <1>11, <1>12, <1>14 DEF Reply, mid
<1>16. RequestEffect(c, client)
  BY <1>1, <1>3, <1>10, <1>12, <1>13, <1>15 DEF RequestEffect, mid
<1>17. x \in Connection \X Nat /\ executed' = Append(executed, x)
  BY <1>1, <1>4 DEF x
<1> QED BY <1>15, <1>16, <1>17

\* So have the other requests.
LEMMA AnsweredEffect ==
    ASSUME Inv, RequestAnswered PROVE \E c, client : RequestEffect(c, client)
<1> PICK c : c = fds[socket]
  OBVIOUS
<1> PICK kind : kind = KindOf(Head(Me.input))
  OBVIOUS
<1> DEFINE outcome == IF kind = "write" THEN "misconf" ELSE "ok"
           r == <<Head(Me.input)[1], Head(Me.input)[2], outcome>>
           mid == Answer(Me, outcome)
           last == Consume(mid)
           client == [last EXCEPT !.closeAfterWrite = @ \/ kind = "quit"]
<1>1. /\ Handling /\ MayProcess /\ Whole(Me.input)
      /\ kind \in {"read", "quit", "blank", "huge", "write"}
      /\ SetClient(IF kind = "blank" THEN Consume(Me) ELSE client)
  BY DEF RequestAnswered, MayProcess, Processing, Handling
<1>2. UNCHANGED <<scenario, executed>> /\ scenario \in Scenarios
  BY DEF RequestAnswered, netVars, Inv, Shape, NetInv
<1>3. /\ c \in Connection /\ Me \in ClientOf(c) /\ Me.input \in Seq(Piece(c))
      /\ Me.input # <<>> /\ Len(Me.output) \in Nat
  BY <1>1, MyClient DEF Whole
<1>4. \A k : k \in ClientOf(c) => k \in ClientOf(c)'
  BY <1>2, EarnedStays DEF Inv, LogInv
<1>5. CASE kind = "blank"
  <2>1. /\ Consume(Me) \in ClientOf(c) /\ Consume(Me).output = Me.output
        /\ Consume(Me).outputOffset = Me.outputOffset
        /\ Consume(Me).closeAfterWrite = Me.closeAfterWrite
        /\ Consume(Me).input = Behind(Me.input)
        /\ Len(Consume(Me).input) =
              Len(Me.input) - RequestLength(KindOf(Head(Me.input)))
    BY <1>1, <1>2, <1>3, ConsumeType DEF ClientOf
  <2>2. Skip(Me, Consume(Me))
    BY <1>1, <1>5, <2>1 DEF Skip
  <2>3. RequestEffect(c, Consume(Me))
    BY <1>1, <1>3, <1>4, <1>5, <2>1, <2>2 DEF RequestEffect
  <2> QED BY <2>3
<1>6. CASE kind # "blank"
  <2>1. r \in Earned(c) /\ r[3] # "error" /\ IsReplyTo(Me.input, r)
    BY <1>1, <1>2, <1>3, HeadRequest DEF Earned, IsReplyTo
  <2>2. /\ mid \in ClientWith(Piece(c), Earned(c)) /\ mid.input = Me.input
        /\ mid.output = Append(Me.output, r) /\ Len(mid.output) = Len(Me.output) + 1
        /\ mid.outputOffset = Me.outputOffset
        /\ mid.closeAfterWrite = Me.closeAfterWrite
    <3> HIDE DEF outcome
    <3>1. Me \in ClientWith(Piece(c), Earned(c))
      BY <1>3 DEF ClientOf
    <3>2. <<Head(Me.input)[1], Head(Me.input)[2], outcome>> \in Earned(c)
      BY <2>1
    <3> QED BY <3>1, <3>2, AnswerType
  <2> HIDE DEF mid, outcome, r
  <2>3. /\ last \in ClientOf(c) /\ last.output = mid.output
        /\ last.outputOffset = mid.outputOffset
        /\ last.closeAfterWrite = mid.closeAfterWrite
        /\ last.input = Behind(mid.input)
        /\ Len(last.input) = Len(mid.input) - RequestLength(KindOf(Head(mid.input)))
    BY <1>1, <1>2, <1>3, <2>2, ConsumeType DEF ClientOf
  <2> HIDE DEF last
  <2>4. /\ client \in ClientOf(c) /\ client.output = last.output
        /\ client.outputOffset = last.outputOffset /\ client.input = last.input
        /\ client.closeAfterWrite <=> (last.closeAfterWrite \/ kind = "quit")
    BY <2>3 DEF ClientOf, ClientWith
  <2> HIDE DEF client
  <2>5. Reply(Me, client)
    BY <1>1, <1>6, <2>1, <2>2, <2>3, <2>4 DEF Reply
  <2>6. RequestEffect(c, client)
    BY <1>1, <1>3, <1>4, <1>6, <2>2, <2>3, <2>4, <2>5 DEF RequestEffect
  <2> QED BY <2>6
<1> QED BY <1>5, <1>6

\* Requests keep the shape.
LEMMA ShapeRequests ==
    ASSUME Inv, RequestRefused \/ RequestAppends \/ RequestAnswered PROVE Shape'
<1>1. PICK c, client : RequestEffect(c, client)
  BY RefusedEffect, AppendsEffect, AnsweredEffect
<1>2. Handling /\ pc' = pc /\ pc \in Labels /\ UNCHANGED <<netVars, todo, socket>>
  BY DEF RequestRefused, RequestAppends, RequestAnswered, MayProcess, Processing,
     Handling, Labels
<1>3. executed' = executed \/ \E x : executed' = Append(executed, x)
  BY DEF RequestRefused, RequestAppends, RequestAnswered
<1>4. scenario' = scenario /\ status' = status /\ fds' = fds
  BY <1>2 DEF netVars
<1>5. NetInv'
  BY <1>2, <1>3, <1>4, EarnedStays, NetUnchanged DEF Inv, Shape, LogInv
<1>6. client.outputOffset <= Len(client.output)
  <2>1. client.outputOffset \in Nat /\ Len(client.output) \in Nat
    <3>1. client.outputOffset \in Nat /\ client.output \in Seq(Earned(c)')
      BY <1>1 DEF RequestEffect, ClientOf, ClientWith
    <3> QED BY <3>1, LenProperties
  <2> QED BY <1>1, <1>2, <2>1, MyClient DEF RequestEffect
<1> QED BY <1>1, <1>2, <1>3, <1>4, <1>5, <1>6, ShapeSetClient DEF RequestEffect, Handling

\* processInput returns: only closeAfterWrite may change.
LEMMA ShapeProcessReturns ==
    ASSUME Inv, ProcessReturns
    PROVE  /\ Shape'
           /\ \E client : /\ SetClient(client) /\ client.input = Me.input
                          /\ client.output = Me.output
                          /\ client.outputOffset = Me.outputOffset
                          /\ Me.closeAfterWrite => client.closeAfterWrite
<1> PICK c : c = fds[socket]
  OBVIOUS
<1> DEFINE client == [Me EXCEPT !.closeAfterWrite = @ \/ pc = "processLast"]
<1>1. Handling /\ SetClient(client) /\ pc' = "reply"
  BY DEF ProcessReturns, Processing, Handling, Goto
<1>2. UNCHANGED <<netVars, executed, todo, socket>>
  BY DEF ProcessReturns
<1>3. /\ Me \in ClientOf(c) /\ Me.outputOffset <= Len(Me.output)
  BY <1>1, MyClient
<1>4. /\ client \in ClientOf(c) /\ client.input = Me.input /\ client.output = Me.output
      /\ client.outputOffset = Me.outputOffset
      /\ Me.closeAfterWrite => client.closeAfterWrite
  BY <1>3 DEF ClientOf, ClientWith
<1>5. /\ client \in ClientOf(c)' /\ scenario' = scenario /\ status' = status /\ fds' = fds
      /\ NetInv'
  BY <1>2, <1>4, EarnedStays, NetUnchanged DEF Inv, Shape, LogInv, netVars
<1> HIDE DEF client
<1>6. Shape'
  BY <1>1, <1>2, <1>3, <1>4, <1>5, ShapeSetClient DEF Labels
<1> QED BY <1>1, <1>4, <1>6

\* The replies that are still to be sent.
LEMMA PendingType ==
    ASSUME NEW P, NEW E, NEW client \in ClientWith(P, E),
           client.outputOffset <= Len(client.output)
    PROVE  /\ PendingReplies(client) \in Seq(E)
           /\ Len(PendingReplies(client)) = pendingOutput(client)
           /\ pendingOutput(client) \in Nat
           /\ \A i \in 1 .. pendingOutput(client) :
                 PendingReplies(client)[i] = client.output[client.outputOffset + i]
<1>1. client.output \in Seq(E) /\ client.outputOffset \in Nat
  BY DEF ClientWith
<1>2. Len(client.output) \in Nat /\ \A i \in 1 .. Len(client.output) : client.output[i] \in E
  BY <1>1, LenProperties, ElementOfSeq
<1>3. /\ client.outputOffset + 1 \in 1 .. Len(client.output) + 1
      /\ Len(client.output) \in 0 .. Len(client.output)
  BY <1>1, <1>2
<1>4. /\ PendingReplies(client) \in Seq(E)
      /\ Len(PendingReplies(client)) = Len(client.output) - client.outputOffset
  BY <1>1, <1>2, <1>3, SubSeqProperties DEF PendingReplies
<1>5. ASSUME NEW i \in 1 .. Len(client.output) - client.outputOffset
      PROVE  PendingReplies(client)[i] = client.output[client.outputOffset + i]
  <2>1. PendingReplies(client)[i] = client.output[(client.outputOffset + 1) + i - 1]
    BY <1>1, <1>2, <1>3, SubSeqProperties DEF PendingReplies
  <2> QED BY <1>1, <1>2, <2>1
<1> QED BY <1>1, <1>2, <1>3, <1>4, <1>5 DEF pendingOutput

\* send hands the first of them to the socket, as far as there is room.
LEMMA ShapeSendSome ==
    ASSUME Inv, SendSome
    PROVE  /\ Shape'
           /\ \E client, n : /\ SetClient(client) /\ client.input = Me.input
                             /\ client.output = Me.output
                             /\ n \in 1 .. pendingOutput(Me)
                             /\ client.outputOffset = Me.outputOffset + n
                             /\ client.closeAfterWrite = Me.closeAfterWrite
<1> PICK c : c = fds[socket]
  OBVIOUS
<1>1. Handling /\ UNCHANGED <<scenario, status, peer, sent, received, got, fds, pc, todo,
                              socket, executed>>
  BY DEF SendSome, Sending, Handling
<1>2. /\ c \in Connection /\ Me \in ClientOf(c) /\ Me.outputOffset <= Len(Me.output)
      /\ pendingOutput(Me) \in Nat
  BY <1>1, MyClient
<1>3. PICK n \in 1 .. Min({pendingOutput(Me), SendRoom(c)}) :
         /\ tx' = [tx EXCEPT ![c] = @ \o SubSeq(PendingReplies(Me), 1, n)]
         /\ SetClient([Me EXCEPT !.outputOffset = @ + n])
  BY DEF SendSome
<1>4. /\ tx[c] \in Seq(Earned(c)) /\ Len(tx[c]) <= SendBuffer /\ Len(tx[c]) \in Nat
  BY <1>2, LenProperties DEF Inv, Shape, NetInv
<1>5. n \in Nat /\ 1 <= n /\ n <= pendingOutput(Me) /\ n <= SendBuffer - Len(tx[c])
  <2>1. {pendingOutput(Me), SendRoom(c)} \subseteq Nat
    BY <1>2, <1>4, LimitsAssumption DEF SendRoom
  <2>2. /\ Min({pendingOutput(Me), SendRoom(c)}) \in Nat
        /\ Min({pendingOutput(Me), SendRoom(c)}) <= pendingOutput(Me)
        /\ Min({pendingOutput(Me), SendRoom(c)}) <= SendRoom(c)
    BY <2>1, MinProperties
  <2>3. SendRoom(c) \in Nat
    BY <2>1
  <2> QED BY <1>2, <2>2, <2>3 DEF SendRoom
<1> DEFINE out == SubSeq(PendingReplies(Me), 1, n)
           client == [Me EXCEPT !.outputOffset = @ + n]
<1>6. out \in Seq(Earned(c)) /\ Len(out) = n
  <2>1. /\ PendingReplies(Me) \in Seq(Earned(c))
        /\ Len(PendingReplies(Me)) = pendingOutput(Me)
    BY <1>2, PendingType DEF ClientOf
  <2>2. \A i \in 1 .. Len(PendingReplies(Me)) : PendingReplies(Me)[i] \in Earned(c)
    BY <2>1, ElementOfSeq
  <2> QED BY <1>2, <1>5, <2>1, <2>2, SubSeqProperties
<1> HIDE DEF out
<1>7. tx[c] \o out \in Seq(Earned(c)) /\ Len(tx[c] \o out) <= SendBuffer
  <2>1. tx[c] \o out \in Seq(Earned(c)) /\ Len(tx[c] \o out) = Len(tx[c]) + Len(out)
    BY <1>4, <1>6, ConcatProperties
  <2> QED BY <1>4, <1>5, <1>6, <2>1, LimitsAssumption
<1>8. NetInv'
  <2>1. \A x : Stream(x)' = Stream(x) /\ Earned(x)' = Earned(x)
    BY <1>1, SameConversations DEF Earned, Kind, Executed
  <2>2. tx' = [tx EXCEPT ![c] = tx[c] \o out]
    BY <1>2, <1>3 DEF out, Inv, Shape, NetInv
  <2>3. tx' = [x \in Connection |-> tx'[x]]
    BY <2>2 DEF Inv, Shape, NetInv
  <2>4. ASSUME NEW x \in Connection
        PROVE  tx'[x] \in Seq(Earned(x)) /\ Len(tx'[x]) <= SendBuffer
    <3>1. CASE x = c
      <4>1. tx'[x] = tx[c] \o out
        BY <3>1, <2>2 DEF Inv, Shape, NetInv
      <4> QED BY <3>1, <4>1, <1>7
    <3>2. CASE x # c
      <4>1. tx'[x] = tx[x]
        BY <3>2, <2>2 DEF Inv, Shape, NetInv
      <4> QED BY <4>1 DEF Inv, Shape, NetInv
    <3> QED BY <3>1, <3>2
  <2> QED BY <1>1, <2>1, <2>3, <2>4 DEF Inv, Shape, NetInv
<1>9. /\ client \in ClientOf(c) /\ client.input = Me.input /\ client.output = Me.output
      /\ client.outputOffset = Me.outputOffset + n
      /\ client.closeAfterWrite = Me.closeAfterWrite
  BY <1>2, <1>5 DEF ClientOf, ClientWith
<1>10. client.outputOffset <= Len(client.output)
  <2>1. Me.outputOffset \in Nat /\ Len(Me.output) \in Nat
    BY <1>1, MyClient
  <2> QED BY <1>5, <1>9, <2>1 DEF pendingOutput
<1>11. client \in ClientOf(c)'
  BY <1>1, <1>9, EarnedStays DEF Inv, LogInv
<1>12. SetClient(client)
  BY <1>3
<1> HIDE DEF client
<1>13. pc' \in Labels /\ pc' = "send"
  BY <1>1 DEF SendSome, Sending, Labels
<1>14. Shape'
  BY <1>1, <1>8, <1>10, <1>11, <1>12, <1>13, ShapeSetClient
<1>15. n \in 1 .. pendingOutput(Me)
  BY <1>2, <1>5
<1> QED BY <1>9, <1>12, <1>14, <1>15, Zenon

\* Compaction changes neither what is pending nor the reply at the end, and
\* leaves no more sent than unsent.
LEMMA CompactedType ==
    ASSUME NEW P, NEW E, NEW client \in ClientWith(P, E),
           client.outputOffset <= Len(client.output)
    PROVE  /\ Compacted(client) \in ClientWith(P, E)
           /\ Compacted(client).outputOffset <= Len(Compacted(client).output) \div 2
           /\ pendingOutput(Compacted(client)) = pendingOutput(client)
           /\ pendingOutput(client) # 0 =>
                 Compacted(client).output # <<>> /\
                 Last(Compacted(client).output) = Last(client.output)
           /\ Compacted(client).input = client.input
           /\ Compacted(client).closeAfterWrite = client.closeAfterWrite
<1>1. client.output \in Seq(E) /\ client.outputOffset \in Nat /\ Len(client.output) \in Nat
  BY LenProperties DEF ClientWith
<1>2. CASE client.outputOffset = Len(client.output)
  <2>1. Compacted(client) = [client EXCEPT !.output = <<>>, !.outputOffset = 0]
    BY <1>2 DEF Compacted
  <2>2. <<>> \in Seq(E) /\ Len(<<>>) = 0
    BY EmptySeq
  <2>3. /\ Compacted(client).output = <<>> /\ Compacted(client).outputOffset = 0
        /\ Compacted(client).input = client.input
        /\ Compacted(client).closeAfterWrite = client.closeAfterWrite
    BY <2>1 DEF ClientWith
  <2>4. Compacted(client) \in ClientWith(P, E)
    <3>1. Compacted(client) =
             [input |-> client.input, output |-> <<>>, outputOffset |-> 0,
              closeAfterWrite |-> client.closeAfterWrite]
      BY <2>1 DEF ClientWith
    <3> QED BY <2>2, <3>1 DEF ClientWith
  <2> QED BY <1>1, <1>2, <2>2, <2>3, <2>4 DEF pendingOutput
<1>3. CASE /\ client.outputOffset # Len(client.output)
           /\ client.outputOffset > Len(client.output) \div 2
  <2> DEFINE s == PendingReplies(client)
  <2>1. Compacted(client) = [client EXCEPT !.output = s, !.outputOffset = 0]
    BY <1>3 DEF Compacted
  <2>2. /\ s \in Seq(E) /\ Len(s) = pendingOutput(client) /\ pendingOutput(client) \in Nat
        /\ \A i \in 1 .. pendingOutput(client) :
              s[i] = client.output[client.outputOffset + i]
    BY PendingType
  <2> HIDE DEF s
  <2>3. /\ Compacted(client).output = s /\ Compacted(client).outputOffset = 0
        /\ Compacted(client).input = client.input
        /\ Compacted(client).closeAfterWrite = client.closeAfterWrite
    BY <2>1 DEF ClientWith
  <2>4. Compacted(client) \in ClientWith(P, E)
    <3>1. Compacted(client) =
             [input |-> client.input, output |-> s, outputOffset |-> 0,
              closeAfterWrite |-> client.closeAfterWrite]
      BY <2>1 DEF ClientWith
    <3> QED BY <2>2, <3>1 DEF ClientWith
  <2>5. pendingOutput(client) > 0 /\ s # <<>> /\ Last(s) = Last(client.output)
    <3>1. pendingOutput(client) > 0 /\ pendingOutput(client) \in 1 .. pendingOutput(client)
      BY <1>1, <1>3, <2>2 DEF pendingOutput
    <3>2. s[Len(s)] = client.output[Len(client.output)]
      BY <1>1, <2>2, <3>1 DEF pendingOutput
    <3> QED BY <2>2, <3>1, <3>2 DEF Last
  <2>6. 0 <= Len(s) \div 2
    BY <2>2
  <2> QED BY <1>1, <2>2, <2>3, <2>4, <2>5, <2>6 DEF pendingOutput
<1>4. CASE /\ client.outputOffset # Len(client.output)
           /\ ~(client.outputOffset > Len(client.output) \div 2)
  <2>1. Compacted(client) = client
    BY <1>4 DEF Compacted
  <2>2. client.output # <<>>
    BY <1>1, <1>4
  <2>3. client.outputOffset <= Len(client.output) \div 2
    <3>1. \A a, b \in Nat : ~(a > b \div 2) => a <= b \div 2
      OBVIOUS
    <3> QED BY <1>1, <1>4, <3>1
  <2> QED BY <2>1, <2>2, <2>3
<1> QED BY <1>2, <1>3, <1>4

\* The end of writeToClient compacts the output.
LEMMA ShapeWriteReturns ==
    ASSUME Inv, WriteReturns PROVE Shape'
<1> PICK c : c = fds[socket]
  OBVIOUS
<1> DEFINE client == Compacted(Me)
<1>1. Handling /\ SetClient(client) /\ pc' \in {"close", "events"}
  BY DEF WriteReturns, Sending, Handling, Goto, CloseWhenAnswered
<1>2. UNCHANGED <<netVars, executed, todo, socket>>
  BY DEF WriteReturns
<1>3. /\ Me \in ClientWith(Piece(c), Earned(c)) /\ Me.outputOffset <= Len(Me.output)
  BY <1>1, MyClient DEF ClientOf
<1>4. client \in ClientOf(c) /\ client.outputOffset <= Len(client.output) \div 2
  BY <1>3, CompactedType DEF ClientOf
<1>5. /\ client \in ClientOf(c)' /\ scenario' = scenario /\ status' = status /\ fds' = fds
      /\ NetInv'
  BY <1>2, <1>4, EarnedStays, NetUnchanged DEF Inv, Shape, LogInv, netVars
<1> HIDE DEF client
<1>6. client.outputOffset <= Len(client.output)
  <2>1. client.outputOffset \in Nat /\ Len(client.output) \in Nat
    BY <1>4, LenProperties DEF ClientOf, ClientWith
  <2>2. \A a, b \in Nat : a <= b \div 2 => a <= b
    OBVIOUS
  <2> QED BY <1>4, <2>1, <2>2
<1> QED BY <1>1, <1>2, <1>5, <1>6, ShapeSetClient DEF Labels

\* Every step keeps the shape.
LEMMA ShapeKept == Inv /\ [Next]_vars => Shape'
<1> SUFFICES ASSUME Inv, [Next]_vars PROVE Shape'
  OBVIOUS
<1>1. CASE \E c \in Connection : Peers(c)
  BY <1>1, ShapePeers
<1>2. CASE \E c \in Connection : Accept(c)
  BY <1>2, ShapeAccept
<1>3. CASE RequestRefused \/ RequestAppends \/ RequestAnswered
  BY <1>3, ShapeRequests
<1>4. CASE ProcessReturns
  BY <1>4, ShapeProcessReturns
<1> QED BY <1>1, <1>2, <1>3, <1>4, ShapeControl, ShapeRecvData, ShapeSendSome,
       ShapeWriteReturns, ShapeClose, ShapeStop DEF Next, Loop

(***************************************************************************)
(* The file: when it is written, and what it holds.                        *)
(***************************************************************************)
\* A step that leaves the file alone does not begin or end the shutdown, and
\* does not leave writeToClient's flush before it is over.
LEMMA LoopMoves ==
    ASSUME [Next]_vars, ~FileActions
    PROVE  /\ executed' = executed /\ UNCHANGED fileVars
           /\ \/ pc' = pc
              \/ /\ pc \notin {"exit", "stopped"} /\ pc' \notin {"exit", "stopped"}
                 /\ pc = "send" => filePc = "ready"
<1>1. UNCHANGED fileVars
  BY OthersKeepFile
<1>2. CASE UNCHANGED vars \/ Stopped
  BY <1>1, <1>2 DEF Stopped, vars, loopVars
<1>3. CASE \E c \in Connection : Peers(c)
  BY <1>1, <1>3 DEF Peers, Connect, PeerSends, PeerFinishes, PeerResets, PeerReads, loopVars
<1>4. CASE CronTimeReached \/ handleShutdownSignal \/ PollFails
  BY <1>1, <1>4 DEF CronTimeReached, handleShutdownSignal, PollFails, Goto
<1>5. CASE \/ LoopTest \/ CallPoll \/ PollReturns
           \/ (\E c \in Connection : Accept(c)) \/ AcceptReturns
  BY <1>1, <1>5 DEF LoopTest, CallPoll, PollReturns, Accept, AcceptReturns, Goto
<1>6. CASE handleClientEvents
  BY <1>1, <1>6 DEF handleClientEvents, Goto, FirstStep
<1>7. CASE RecvData \/ RecvWouldBlock \/ RecvEnd \/ RecvError
  BY <1>1, <1>7 DEF RecvData, RecvWouldBlock, RecvEnd, RecvError, Goto, AfterReading
<1>8. CASE RequestRefused \/ RequestAnswered \/ ProcessReturns \/ NothingToReply
  BY <1>1, <1>8 DEF RequestRefused, RequestAnswered, ProcessReturns, NothingToReply,
     Goto, MayProcess, Processing, CloseWhenAnswered
<1>9. CASE SendSome \/ WriteReturns \/ SendError \/ CloseClient
  BY <1>1, <1>9 DEF SendSome, WriteReturns, SendError, CloseClient, Sending, Goto,
     CloseWhenAnswered
<1> QED BY <1>2, <1>3, <1>4, <1>5, <1>6, <1>7, <1>8, <1>9 DEF Next, Loop, FileActions

\* flush, sync and the destructor are called at their places in the loop.
LEMMA FileControlKept == Inv /\ [Next]_vars => FileControl'
<1> SUFFICES ASSUME Inv, [Next]_vars PROVE FileControl'
  OBVIOUS
<1>0. /\ FileControl /\ filePc \in {"ready", "flush", "sync", "down"}
      /\ closing \in BOOLEAN
  BY DEF Inv, FP!Inv, FP!TypeOK
<1>1. CASE ~FileActions
  <2>1. filePc' = filePc /\ closing' = closing
    BY <1>1, LoopMoves DEF fileVars
  <2>2. \/ pc' = pc
        \/ /\ pc \notin {"exit", "stopped"} /\ pc' \notin {"exit", "stopped"}
           /\ pc = "send" => filePc = "ready"
    BY <1>1, LoopMoves
  <2> QED BY <1>0, <2>1, <2>2 DEF FileControl
<1>2. CASE RequestAppends
  BY <1>0, <1>2 DEF RequestAppends, File!AppendCommand, FileControl
<1>3. CASE CallFlush
  BY <1>0, <1>3 DEF CallFlush, File!FlushStart, File!FlushNothing, File!vars, FileControl, Goto
<1>4. CASE FlushStep
  BY <1>0, <1>4 DEF FlushStep, File!WriteSome, File!WriteFails, File!FlushReturns,
     File!AfterFlush, FileControl, loopVars
<1>5. CASE Cron
  BY <1>0, <1>5 DEF Cron, File!Sync, FileControl, Goto, fileVars
<1>6. CASE Stop
  BY <1>0, <1>6 DEF Stop, File!Destroy, FileControl, Goto
<1>7. CASE Exit
  BY <1>0, <1>7 DEF Exit, File!Sync, File!CloseFile, File!GoDown, FileControl, Goto
<1> QED BY <1>1, <1>2, <1>3, <1>4, <1>5, <1>6, <1>7 DEF FileActions

\* One more command is one more entry of the log.
LEMMA LogGrows ==
    ASSUME executed \in Seq(Connection \X Nat), NEW x,
           executed' = Append(executed, x)
    PROVE  /\ Log' = Log \o FP!Encode(Len(executed) + 1)
           /\ Len(executed') = Len(executed) + 1
<1>1. Len(executed) \in Nat /\ Len(executed') = Len(executed) + 1
  BY LenProperties
<1>2. FP!Encode(Len(executed) + 1) = <<<<Len(executed) + 1, 1>>>>
  BY DEF FP!Encode
<1>3. Log \o <<<<Len(executed) + 1, 1>>>> =
         [k \in 1 .. Len(executed) + 1 |-> <<k, 1>>]
  <2> PICK n \in Nat : n = Len(executed)
    BY <1>1
  <2> DEFINE S == Nat \X Nat
             e == <<n + 1, 1>>
             s == Log \o <<e>>
             t == [k \in 1 .. n + 1 |-> <<k, 1>>]
  <2>1. Log \in Seq(S) /\ Len(Log) = n /\ \A k \in 1 .. n : Log[k] = <<k, 1>>
    BY DEF Log
  <2>2. <<e>> \in Seq(S) /\ Len(<<e>>) = 1 /\ <<e>>[1] = e
    OBVIOUS
  <2>3. t \in Seq(S) /\ Len(t) = n + 1 /\ \A k \in 1 .. n + 1 : t[k] = <<k, 1>>
    OBVIOUS
  <2>4. s \in Seq(S) /\ Len(s) = n + 1
    BY <2>1, <2>2, ConcatProperties
  <2>5. ASSUME NEW k \in 1 .. n + 1 PROVE s[k] = <<k, 1>>
    <3>0. s[k] = IF k <= Len(Log) THEN Log[k] ELSE <<e>>[k - Len(Log)]
      <4> HIDE DEF e
      <4> QED BY <2>1, <2>2, ConcatProperties
    <3>1. CASE k <= n
      <4> HIDE DEF s
      <4> QED BY <2>1, <3>0, <3>1
    <3>2. CASE k = n + 1
      <4>1. k - n = 1 /\ ~(k <= n) /\ e = <<k, 1>>
        BY <3>2
      <4> HIDE DEF e
      <4> QED BY <2>1, <2>2, <3>0, <4>1
    <3> HIDE DEF s
    <3>3. k <= n \/ k = n + 1
      OBVIOUS
    <3> QED BY <3>1, <3>2, <3>3
  <2>6. \A k \in 1 .. Len(s) : s[k] = t[k]
    BY <2>3, <2>4, <2>5
  <2> HIDE DEF s, t
  <2>7. s = t
    BY <2>3, <2>4, <2>6, SeqEqual
  <2> QED BY <2>7 DEF s, t
<1> QED BY <1>1, <1>2, <1>3 DEF Log

\* With nothing in the buffer, the file is all that was appended.
LEMMA EmptyBuffer ==
    ASSUME FP!Inv, buffer = <<>> PROVE file = appended
<1>1. file \in Seq(FP!Unit) /\ written = 0
  BY DEF FP!Inv, FP!TypeOK
<1>2. FP!Pending = <<>>
  BY <1>1 DEF FP!Pending
<1> QED BY <1>1, <1>2, ConcatEmptySeq DEF FP!Inv, FP!NothingLostOrRepeated

\* What is executed and what is appended stay the same sequence.
LEMMA LogKept == Inv /\ [Next]_vars => LogInv'
<1> SUFFICES ASSUME Inv, [Next]_vars PROVE LogInv'
  OBVIOUS
<1>0. LogInv /\ FileControl
  BY DEF Inv
<1>1. CASE ~FileActions
  <2>1. executed' = executed /\ UNCHANGED fileVars
    BY <1>1, LoopMoves
  <2> QED BY <1>0, <2>1 DEF LogInv, Log, fileVars
<1>2. CASE RequestAppends
  <2>1. PICK x \in Connection \X Nat : executed' = Append(executed, x)
    BY <1>2, AppendsEffect
  <2>2. executed' \in Seq(Connection \X Nat)
    BY <1>0, <2>1, AppendProperties DEF LogInv
  <2>3. /\ Log' = Log \o FP!Encode(Len(executed) + 1)
        /\ Len(executed') = Len(executed) + 1 /\ Len(executed) \in Nat
    BY <1>0, <2>1, LogGrows, LenProperties DEF LogInv
  <2>4. /\ appended' = appended \o FP!Encode(nextCommand) /\ nextCommand' = nextCommand + 1
        /\ filePc = "ready" /\ filePc' = filePc
    BY <1>2, SameSteps DEF RequestAppends, FP!AppendCommand
  <2> QED BY <1>0, <2>2, <2>3, <2>4 DEF LogInv
<1>3. CASE CallFlush \/ FlushStep \/ Cron \/ Stop
  <2>1. executed' = executed /\ nextCommand' = nextCommand /\ appended' = appended
    BY <1>3 DEF CallFlush, File!FlushStart, File!FlushNothing, File!vars,
       FlushStep, File!WriteSome, File!WriteFails, File!FlushReturns, loopVars,
       Cron, File!Sync, fileVars, Stop, File!Destroy
  <2>2. filePc # "down" /\ filePc' # "down"
    BY <1>0, <1>3 DEF CallFlush, File!FlushStart, File!FlushNothing, File!vars,
       FlushStep, File!WriteSome, File!WriteFails, File!FlushReturns, File!AfterFlush,
       Cron, File!Sync, fileVars, Stop, File!Destroy, FileControl
  <2> QED BY <1>0, <2>1, <2>2 DEF LogInv, Log
<1>4. CASE Exit
  <2>1. executed' = executed /\ nextCommand' = nextCommand
    BY <1>4 DEF Exit, File!Sync, File!CloseFile, File!GoDown
  <2>2. CASE filePc' # "down"
    <3>1. filePc # "down" /\ appended' = appended
      BY <1>4, <2>2 DEF Exit, File!Sync, File!CloseFile, File!GoDown
    <3> QED BY <1>0, <2>1, <2>2, <3>1 DEF LogInv, Log
  <2>3. CASE filePc' = "down"
    <3>1. filePc = "sync" /\ file' = file /\ writeFailed' = writeFailed /\ pc = "exit"
      BY <1>4, <2>3 DEF Exit, File!Sync, File!CloseFile, File!GoDown
    <3>2. ~writeFailed => buffer = <<>>
      BY <3>1 DEF Inv, UnwrittenInv
    <3>3. ~writeFailed => file = Log
      BY <1>0, <3>1, <3>2, EmptyBuffer DEF LogInv, Inv
    <3> QED BY <1>0, <2>1, <2>3, <3>1, <3>3 DEF LogInv, Log
  <2> QED BY <2>2, <2>3
<1> QED BY <1>1, <1>2, <1>3, <1>4 DEF FileActions

\* The client after SetClient, when it is still the one being handled.
LEMMA MeAfter ==
    ASSUME Inv, Handling, NEW client, SetClient(client), socket' = socket
    PROVE  Me' = client
<1>1. socket \in DOMAIN clients
  BY DEF Inv, Shape, LoopInv, ClientInv
<1> QED BY <1>1 DEF SetClient, Me

\* What a healthy file still has to write is about to be flushed, or belongs
\* to the client being handled, which has a reply waiting for the flush.
LEMMA UnwrittenKept == Inv /\ [Next]_vars => UnwrittenInv'
<1> SUFFICES ASSUME Inv, [Next]_vars, buffer' # <<>>, ~writeFailed'
             PROVE  \/ filePc' = "flush"
                    \/ /\ pc' \in {"process", "processLast", "reply"}
                       /\ pendingOutput(Me)' > 0
  BY DEF UnwrittenInv
<1>0. UnwrittenInv /\ FileControl
  BY DEF Inv
<1>1. CASE ~FileActions
  <2>1. buffer' = buffer /\ writeFailed' = writeFailed /\ filePc' = filePc
    BY <1>1, LoopMoves DEF fileVars
  <2>2. CASE filePc = "flush"
    BY <2>1, <2>2
  <2>3. CASE filePc # "flush"
    <3>1. pc \in {"process", "processLast", "reply"} /\ pendingOutput(Me) > 0
      BY <1>0, <2>1, <2>3 DEF UnwrittenInv
    <3>2. CASE UNCHANGED <<pc, clients, socket>>
      BY <3>1, <3>2 DEF Me, pendingOutput
    <3>3. CASE RequestRefused \/ RequestAnswered
      <4>1. /\ Handling /\ socket' = socket /\ pc' = pc
        BY <3>3, <3>1 DEF RequestRefused, RequestAnswered, Handling
      <4>2. PICK c, client : RequestEffect(c, client)
        BY <3>3, RefusedEffect, AnsweredEffect
      <4>3. Me' = client
        BY <4>1, <4>2, MeAfter DEF RequestEffect
      <4>4. Len(client.output) \in Nat /\ Len(Me.output) \in Nat /\ Me.outputOffset \in Nat
        <5>1. client.output \in Seq(Earned(c)')
          BY <4>2 DEF RequestEffect, ClientOf, ClientWith
        <5> QED BY <5>1, <4>1, MyClient, LenProperties
      <4>5. pendingOutput(client) >= pendingOutput(Me)
        BY <4>2, <4>4 DEF RequestEffect, pendingOutput
      <4>6. pendingOutput(client) > 0
        BY <3>1, <4>2, <4>4, <4>5 DEF RequestEffect, pendingOutput
      <4> QED BY <3>1, <4>1, <4>3, <4>6 DEF pendingOutput
    <3>4. CASE ProcessReturns
      <4>1. /\ Handling /\ socket' = socket /\ pc' = "reply"
        BY <3>4, <3>1 DEF ProcessReturns, Handling, Goto
      <4>2. PICK client : /\ SetClient(client) /\ client.output = Me.output
                          /\ client.outputOffset = Me.outputOffset
        BY <3>4, ShapeProcessReturns
      <4>3. Me' = client
        BY <4>1, <4>2, MeAfter
      <4> QED BY <3>1, <4>1, <4>2, <4>3 DEF pendingOutput
    <3>5. pc # "stopped" /\ pendingOutput(Me) # 0 /\ pc \notin {"poll", "read", "send"}
      BY <3>1
    <3>6. ~InSystemCall
      BY <3>5 DEF InSystemCall
    <3>7. ASSUME \/ \E c \in Connection : Peers(c)
                 \/ CronTimeReached \/ handleShutdownSignal \/ PollFails \/ Stopped
          PROVE  UNCHANGED <<pc, clients, socket>>
      BY <3>5, <3>6, <3>7 DEF Peers, Connect, PeerSends, PeerFinishes, PeerResets, PeerReads,
                              CronTimeReached, handleShutdownSignal, PollFails, Stopped,
                              vars, loopVars
    <3>8. /\ ~LoopTest /\ ~CallPoll /\ ~PollReturns /\ ~AcceptReturns
          /\ ~(\E c \in Connection : Accept(c)) /\ ~handleClientEvents
      BY <3>1 DEF LoopTest, CallPoll, PollReturns, Accept, AcceptReturns, handleClientEvents
    <3>9. ~RecvData /\ ~RecvWouldBlock /\ ~RecvEnd /\ ~RecvError /\ ~CloseClient
      BY <3>1 DEF RecvData, RecvWouldBlock, RecvEnd, RecvError, CloseClient
    <3>10. ~NothingToReply /\ ~SendSome /\ ~WriteReturns /\ ~SendError
      BY <3>5 DEF NothingToReply, SendSome, WriteReturns, SendError, Sending
    <3>11. \/ UNCHANGED <<pc, clients, socket>>
           \/ RequestRefused \/ RequestAnswered \/ ProcessReturns
      BY <1>1, <3>7, <3>8, <3>9, <3>10 DEF Next, Loop, FileActions, vars, loopVars
    <3> QED BY <3>2, <3>3, <3>4, <3>11
  <2> QED BY <2>2, <2>3
<1>2. CASE RequestAppends
  <2>1. /\ Handling /\ socket' = socket /\ pc' = pc /\ pc \in {"process", "processLast"}
    BY <1>2 DEF RequestAppends, MayProcess, Processing, Handling
  <2>2. PICK c, client : RequestEffect(c, client) /\ Reply(Me, client)
    BY <1>2, AppendsEffect
  <2>3. Me' = client
    BY <2>1, <2>2, MeAfter DEF RequestEffect
  <2>4. /\ Me.output \in Seq(Earned(fds[socket])) /\ Len(Me.output) \in Nat
        /\ Me.outputOffset \in 0 .. Len(Me.output)
    BY <2>1, MyClient
  <2>5. Len(client.output) = Len(Me.output) + 1
    <3>1. PICK r : client.output = Append(Me.output, r)
      BY <2>2 DEF Reply
    <3> QED BY <2>4, <3>1
  <2>6. pendingOutput(client) > 0
    BY <2>2, <2>4, <2>5 DEF RequestEffect, pendingOutput
  <2> QED BY <2>1, <2>3, <2>6 DEF pendingOutput
<1>3. CASE CallFlush
  BY <1>3 DEF CallFlush, File!FlushStart, File!FlushNothing, File!vars
<1>4. CASE FlushStep
  BY <1>4 DEF FlushStep, File!WriteSome, File!WriteFails, File!FlushReturns
<1>5. CASE Cron
  BY <1>0, <1>5 DEF Cron, File!Sync, fileVars, UnwrittenInv, FileControl
<1>6. CASE Stop
  BY <1>6 DEF Stop, File!Destroy
<1>7. CASE Exit
  BY <1>0, <1>7 DEF Exit, File!Sync, File!CloseFile, File!GoDown, UnwrittenInv
<1> QED BY <1>1, <1>2, <1>3, <1>4, <1>5, <1>6, <1>7 DEF FileActions

\* The invariant holds at the start.
LEMMA InitInv == Init => Inv
<1> SUFFICES ASSUME Init PROVE Inv
  OBVIOUS
<1> USE DEF Init
<1>1. FP!Inv
  BY FileInvInit
<1>2. NetInv
  <2>1. ASSUME NEW c \in Connection
        PROVE  /\ received[c] <= sent[c] /\ sent[c] <= Len(Stream(c))
               /\ tx[c] \in Seq(Earned(c)) /\ Len(tx[c]) <= SendBuffer
               /\ got[c] \in Seq(Earned(c))
    <3>1. Len(Stream(c)) \in Nat
      BY StreamType, LenProperties
    <3>2. <<>> \in Seq(Earned(c)) /\ Len(<<>>) = 0
      BY EmptySeq
    <3> QED BY <3>1, <3>2, LimitsAssumption
  <2> QED BY <2>1 DEF NetInv
<1>3. DOMAIN fds = {} /\ DOMAIN clients = {} /\ fds = <<>> /\ clients = <<>>
  OBVIOUS
<1>4. DescriptorInv
  <2>1. fds \in [DOMAIN fds -> Connection]
    BY <1>3
  <2> QED BY <1>3, <2>1 DEF DescriptorInv
<1>5. ClientInv
  BY <1>3 DEF ClientInv
<1>6. LoopInv
  <2>1. scenario.fds \in Nat
    BY ScenariosAssumption
  <2> QED BY <2>1 DEF LoopInv, Labels, Handling
<1>7. FileControl /\ UnwrittenInv
  BY DEF File!Init, FileControl, UnwrittenInv
<1>8. LogInv
  <2>1. <<>> \in Seq(Connection \X Nat) /\ Len(<<>>) = 0
    BY EmptySeq
  <2>2. Log = <<>>
    BY <2>1 DEF Log
  <2> QED BY <2>1, <2>2 DEF LogInv, File!Init
<1> QED BY <1>1, <1>2, <1>4, <1>5, <1>6, <1>7, <1>8 DEF Inv, Shape

\* Every step keeps the invariant.
LEMMA NextInv == Inv /\ [Next]_vars => Inv'
BY FileInvKept, ShapeKept, FileControlKept, LogKept, UnwrittenKept DEF Inv

\* The loop's invariant, on which the theorems rest.
THEOREM LoopInvariant == Spec => []Inv
BY InitInv, NextInv, PTL DEF Spec

\* What tcp_server.cpp does to the append-only file is what that class
\* allows: flush, sync and the destructor in their order, with nothing
\* appended while a write is under way.
THEOREM LoopUsesFile == Spec => FP!Spec
<1>1. Init => FP!Init
  BY DEF Init, File!Init, FP!Init
<1> QED BY <1>1, FileSteps, PTL DEF Spec, FP!Spec

\* Descriptors and clients correspond to the open connections, whatever is
\* accepted, closed and reused while an iteration is under way.
THEOREM TypeInvariant == Spec => []TypeOK
<1>1. Inv => TypeOK
  <2> SUFFICES ASSUME Inv PROVE TypeOK
    OBVIOUS
  <2>1. File!TypeOK
    BY DEF Inv, FP!Inv, FP!TypeOK, File!TypeOK, FP!Unit, File!Unit
  <2>2. {fds[fd] : fd \in DOMAIN fds} = {c \in Connection : status[c] = "open"}
    BY DEF Inv, Shape, DescriptorInv
  <2>3. \A c \in Connection :
          /\ received[c] \in 0 .. sent[c] /\ sent[c] <= Len(Stream(c))
          /\ Len(tx[c]) <= SendBuffer
    BY DEF Inv, Shape, NetInv
  <2>4. ASSUME NEW fd \in DOMAIN clients PROVE pendingOutput(clients[fd]) >= 0
    <3>1. /\ clients[fd] \in ClientWith(Piece(fds[fd]), Earned(fds[fd]))
          /\ clients[fd].outputOffset <= Len(clients[fd].output)
      BY DEF Inv, Shape, ClientInv, ClientOf
    <3>2. pendingOutput(clients[fd]) \in Nat
      BY <3>1, PendingType
    <3> QED BY <3>2
  <2> QED BY <2>1, <2>2, <2>3, <2>4
          DEF TypeOK, Inv, Shape, NetInv, DescriptorInv, ClientInv, LoopInv
<1> QED BY LoopInvariant, <1>1, PTL

\* When nothing is in the buffer of a healthy file, every executed write is in
\* the file.
LEMMA AllInFile ==
    ASSUME Inv, ~writeFailed, buffer = <<>>
    PROVE  \A request : Executed(request) => InFile(request)
<1>1. file = Log
  BY EmptyBuffer DEF Inv, LogInv
<1>2. DOMAIN executed = 1 .. Len(executed) /\ Len(executed) \in Nat
  BY LenProperties DEF Inv, LogInv
<1>3. \A k \in DOMAIN executed : <<k, 1>> \in ToSet(file)
  BY <1>1, <1>2 DEF Log, ToSet
<1> QED BY <1>3 DEF Executed, InFile

\* handleClientEvents flushes for every client that has a reply, so that the
\* loop neither sleeps nor ends on a write that only memory knows.
THEOREM SleepsWritten == Spec => []SleepsWithAllWritten
<1>1. Inv => SleepsWithAllWritten
  <2> SUFFICES ASSUME Inv, pc \in {"poll", "stopped"}, ~writeFailed,
                      NEW k \in DOMAIN executed
               PROVE  InFile(executed[k])
    BY DEF SleepsWithAllWritten
  <2>1. buffer = <<>>
    BY DEF Inv, UnwrittenInv, FileControl
  <2> QED BY <2>1, AllInFile DEF Executed
<1> QED BY LoopInvariant, <1>1, PTL

(***************************************************************************)
(* Acknowledged writes.                                                    *)
(***************************************************************************)
\* The elements of a concatenation.
LEMMA ElementsOfConcat ==
    ASSUME NEW S, NEW s \in Seq(S), NEW t \in Seq(S)
    PROVE  ToSet(s \o t) = ToSet(s) \cup ToSet(t)
<1>1. /\ Len(s) \in Nat /\ Len(t) \in Nat
      /\ DOMAIN s = 1 .. Len(s) /\ DOMAIN t = 1 .. Len(t)
      /\ DOMAIN (s \o t) = 1 .. Len(s) + Len(t)
      /\ \A i \in 1 .. Len(s) + Len(t) :
            (s \o t)[i] = IF i <= Len(s) THEN s[i] ELSE t[i - Len(s)]
  <2>1. s \o t \in Seq(S) /\ Len(s \o t) = Len(s) + Len(t)
    BY ConcatProperties
  <2>2. Len(s) \in Nat /\ Len(t) \in Nat /\ DOMAIN s = 1 .. Len(s) /\ DOMAIN t = 1 .. Len(t)
    BY LenProperties
  <2>3. DOMAIN (s \o t) = 1 .. Len(s) + Len(t)
    BY <2>1, LenProperties
  <2>4. \A i \in 1 .. Len(s) + Len(t) :
            (s \o t)[i] = IF i <= Len(s) THEN s[i] ELSE t[i - Len(s)]
    BY ConcatProperties
  <2> QED BY <2>2, <2>3, <2>4
<1>2. ASSUME NEW x \in ToSet(s \o t) PROVE x \in ToSet(s) \cup ToSet(t)
  <2>1. PICK i \in 1 .. Len(s) + Len(t) : x = (s \o t)[i]
    BY <1>1, <1>2 DEF ToSet
  <2>2. CASE i <= Len(s)
    BY <1>1, <2>1, <2>2 DEF ToSet
  <2>3. CASE ~(i <= Len(s))
    <3>1. i - Len(s) \in 1 .. Len(t) /\ x = t[i - Len(s)]
      BY <1>1, <2>1, <2>3
    <3> QED BY <1>1, <3>1 DEF ToSet
  <2> QED BY <2>2, <2>3
<1>3. ASSUME NEW x \in ToSet(s) PROVE x \in ToSet(s \o t)
  <2>1. PICK i \in 1 .. Len(s) : x = s[i]
    BY <1>1, <1>3 DEF ToSet
  <2>2. i \in 1 .. Len(s) + Len(t) /\ (s \o t)[i] = x
    BY <1>1, <2>1
  <2> QED BY <1>1, <2>2 DEF ToSet
<1>4. ASSUME NEW x \in ToSet(t) PROVE x \in ToSet(s \o t)
  <2>1. PICK i \in 1 .. Len(t) : x = t[i]
    BY <1>1, <1>4 DEF ToSet
  <2>2. /\ i + Len(s) \in 1 .. Len(s) + Len(t) /\ ~(i + Len(s) <= Len(s))
        /\ (i + Len(s)) - Len(s) = i
    BY <1>1, <2>1
  <2>3. (s \o t)[i + Len(s)] = x
    BY <1>1, <2>1, <2>2
  <2> QED BY <1>1, <2>2, <2>3 DEF ToSet
<1> QED BY <1>2, <1>3, <1>4

\* The replies that c's socket has been given.
Handed(c) == ToSet(got[c]) \cup ToSet(tx[c])

\* A request is acknowledged by such a reply.
AcknowledgedByReply ==
    \A request \in Acknowledged :
        \E c \in Connection : \E r \in Handed(c) :
            /\ request = <<c, r[2]>> /\ r[3] = "ok"
            /\ Kind(c, r[2]) \in {"write", "evict"}

\* A request counts as acknowledged because of a reply its socket was given.
LEMMA AcknowledgedHanded == Inv => AcknowledgedByReply
<1> SUFFICES ASSUME Inv PROVE AcknowledgedByReply
  OBVIOUS
<1>1. \A c \in Connection : ToSet(got[c] \o tx[c]) = Handed(c)
  <2> SUFFICES ASSUME NEW c \in Connection PROVE ToSet(got[c] \o tx[c]) = Handed(c)
    OBVIOUS
  <2>1. got[c] \in Seq(Earned(c)) /\ tx[c] \in Seq(Earned(c))
    BY DEF Inv, Shape, NetInv
  <2> QED BY <2>1, ElementsOfConcat DEF Handed
<1> QED BY <1>1 DEF Acknowledged, AcknowledgedByReply

\* Every reply handed over was earned.
LEMMA HandedEarned ==
    ASSUME Inv, NEW c \in Connection, NEW r \in Handed(c) PROVE r \in Earned(c)
<1>1. got[c] \in Seq(Earned(c)) /\ tx[c] \in Seq(Earned(c))
  BY DEF Inv, Shape, NetInv
<1>2. \A s \in Seq(Earned(c)) : \A i \in DOMAIN s : s[i] \in Earned(c)
  BY LenProperties, ElementOfSeq
<1> QED BY <1>1, <1>2 DEF Handed, ToSet

\* Once everything is written, every acknowledged write is in the file.
LEMMA KeptWhenWritten == Inv /\ ~writeFailed /\ buffer = <<>> => AcknowledgedIsKept
<1> SUFFICES ASSUME Inv, ~writeFailed, buffer = <<>>, NEW request \in Acknowledged
             PROVE  InFile(request)
  BY DEF AcknowledgedIsKept
<1>0. PICK c \in Connection : \E r \in Handed(c) :
         /\ request = <<c, r[2]>> /\ r[3] = "ok" /\ Kind(c, r[2]) \in {"write", "evict"}
  BY AcknowledgedHanded DEF AcknowledgedByReply
<1>1. PICK r \in Handed(c) :
         /\ request = <<c, r[2]>> /\ r[3] = "ok" /\ Kind(c, r[2]) \in {"write", "evict"}
  BY <1>0
<1>2. r \in Earned(c)
  BY HandedEarned
<1>3. Executed(request)
  BY <1>1, <1>2 DEF Earned
<1> QED BY <1>3, AllInFile

\* Nothing is ever taken out of the file while the server runs.
LEMMA FileGrows ==
    ASSUME Inv, [Next]_vars PROVE ToSet(file) \subseteq ToSet(file')
<1>1. CASE file' = file
  BY <1>1
<1>2. CASE FP!WriteSome
  <2>1. PICK n \in 1 .. Len(buffer) - written :
           file' = file \o SubSeq(buffer, written + 1, written + n)
    BY <1>2 DEF FP!WriteSome
  <2>2. /\ file \in Seq(FP!Unit) /\ buffer \in Seq(FP!Unit) /\ written \in 0 .. Len(buffer)
        /\ Len(buffer) \in Nat
    BY LenProperties DEF Inv, FP!Inv, FP!TypeOK
  <2>3. SubSeq(buffer, written + 1, written + n) \in Seq(FP!Unit)
    <3>1. \A i \in 1 .. Len(buffer) : buffer[i] \in FP!Unit
      BY <2>2, ElementOfSeq
    <3>2. written + 1 \in 1 .. Len(buffer) + 1 /\ written + n \in 0 .. Len(buffer)
      BY <2>2
    <3> QED BY <2>2, <3>1, <3>2, SubSeqProperties
  <2> DEFINE s == SubSeq(buffer, written + 1, written + n)
  <2> HIDE DEF s
  <2>4. ToSet(file \o s) = ToSet(file) \cup ToSet(s)
    <3>1. s \in Seq(FP!Unit)
      BY <2>3 DEF s
    <3> QED BY <2>2, <3>1, ElementsOfConcat
  <2> QED BY <2>1, <2>4 DEF s
<1>3. CASE ~FileActions
  BY <1>1, <1>3, LoopMoves DEF fileVars
<1>4. CASE FileActions /\ ~FP!WriteSome
  <2>1. file' = file
    BY <1>4, SameSteps DEF FileActions, RequestAppends, File!AppendCommand,
       CallFlush, File!FlushStart, File!FlushNothing, File!vars,
       FlushStep, File!WriteFails, File!FlushReturns, Cron, File!Sync, fileVars,
       Stop, File!Destroy, Exit, File!CloseFile, File!GoDown
  <2> QED BY <1>1, <2>1
<1> QED BY <1>2, <1>3, <1>4

\* Only send gives a socket a reply: a peer that reads takes it along, and
\* hanging up can only lose it.
LEMMA OnlySendHands ==
    ASSUME Inv, [Next]_vars, ~SendSome
    PROVE  \A c \in Connection : Handed(c)' \subseteq Handed(c)
<1> SUFFICES ASSUME NEW c \in Connection PROVE Handed(c)' \subseteq Handed(c)
  OBVIOUS
<1>0. /\ tx = [x \in Connection |-> tx[x]] /\ got = [x \in Connection |-> got[x]]
      /\ tx[c] \in Seq(Earned(c)) /\ got[c] \in Seq(Earned(c)) /\ ToSet(<<>>) = {}
  BY DEF Inv, Shape, NetInv, ToSet
<1>1. CASE got'[c] = got[c] /\ (tx'[c] = tx[c] \/ tx'[c] = <<>>)
  BY <1>0, <1>1 DEF Handed
<1>2. CASE \E p \in Connection : PeerReads(p)
  <2>1. PICK p \in Connection : PeerReads(p)
    BY <1>2
  <2>2. CASE p # c
    BY <1>0, <1>1, <2>1, <2>2 DEF PeerReads
  <2>3. CASE p = c
    <3> DEFINE E == Earned(c)
               r == Head(tx[c])
               t == Tail(tx[c])
    <3>1. tx[c] # <<>> /\ tx'[c] = t /\ got'[c] = Append(got[c], r)
      BY <1>0, <2>1, <2>3 DEF PeerReads
    <3>2. r \in E /\ t \in Seq(E) /\ <<r>> \in Seq(E) /\ tx[c] = <<r>> \o t
      <4>1. r \in E /\ t \in Seq(E)
        BY <1>0, <3>1, HeadTailProperties
      <4> QED BY <1>0, <3>1, <4>1
    <3> HIDE DEF r, t, E
    <3>3. got[c] \in Seq(E) /\ Append(got[c], r) = got[c] \o <<r>>
      BY <1>0, <3>2, AppendIsConcat DEF E
    <3>4. ToSet(got[c] \o <<r>>) = ToSet(got[c]) \cup ToSet(<<r>>)
      <4>1. got[c] \in Seq(E)
        BY <3>3
      <4>2. <<r>> \in Seq(E)
        BY <3>2
      <4> QED BY <4>1, <4>2, ElementsOfConcat, ZenonT(40)
    <3>5. ToSet(<<r>> \o t) = ToSet(<<r>>) \cup ToSet(t)
      BY <3>2, ElementsOfConcat, ZenonT(40)
    <3> QED BY <3>1, <3>2, <3>3, <3>4, <3>5 DEF Handed
  <2> QED BY <2>2, <2>3
<1>3. CASE \E p \in Connection : Peers(p) /\ ~PeerReads(p)
  BY <1>0, <1>1, <1>3 DEF Peers, Connect, PeerSends, PeerFinishes, PeerResets
<1>4. CASE UNCHANGED netVars
  BY <1>1, <1>4 DEF netVars
<1>5. CASE (\E p \in Connection : Accept(p)) \/ RecvData
  BY <1>1, <1>5 DEF Accept, RecvData
<1>6. CASE CloseClient
  BY <1>0, <1>1, <1>6 DEF CloseClient
<1>7. CASE Stop
  BY <1>1, <1>7 DEF Stop
<1> QED BY <1>2, <1>3, <1>4, <1>5, <1>6, <1>7
        DEF Next, Loop, vars, Stopped, CronTimeReached, handleShutdownSignal, PollFails,
            LoopTest, CallPoll, PollReturns, AcceptReturns, handleClientEvents,
            RecvWouldBlock, RecvEnd, RecvError, RequestRefused, RequestAppends,
            RequestAnswered, ProcessReturns, NothingToReply, CallFlush, FlushStep,
            WriteReturns, SendError, Cron, Exit

\* A request in the file stays there.
LEMMA InFileStays ==
    ASSUME Inv, [Next]_vars, NEW request, InFile(request) PROVE InFile(request)'
<1>1. PICK k \in DOMAIN executed : executed[k] = request /\ <<k, 1>> \in ToSet(file)
  BY DEF InFile
<1>2. <<k, 1>> \in ToSet(file')
  BY <1>1, FileGrows
<1>3. k \in DOMAIN executed' /\ executed'[k] = executed[k]
  <2>1. CASE executed' = executed
    BY <2>1
  <2>2. CASE RequestAppends
    <3>1. PICK x \in Connection \X Nat : executed' = Append(executed, x)
      BY <2>2, AppendsEffect
    <3>2. executed \in Seq(Connection \X Nat)
      BY DEF Inv, LogInv
    <3> QED BY <1>1, <3>1, <3>2, AppendProperties, LenProperties
  <2>3. CASE FileActions /\ ~RequestAppends
    BY <2>1, <2>3 DEF FileActions, CallFlush, FlushStep, Cron, Stop, Exit, loopVars
  <2> QED BY <2>1, <2>2, <2>3, LoopMoves
<1> QED BY <1>1, <1>2, <1>3 DEF InFile

\* writeFailed is cleared only by a flush that wrote everything.
LEMMA HealthyAgain ==
    ASSUME Inv, [Next]_vars, writeFailed, ~writeFailed' PROVE buffer' = <<>>
<1>1. FileActions
  BY LoopMoves DEF fileVars
<1> QED BY <1>1 DEF FileActions, RequestAppends, File!AppendCommand,
       CallFlush, File!FlushStart, File!FlushNothing, File!vars,
       FlushStep, File!WriteSome, File!WriteFails, File!FlushReturns,
       Cron, File!Sync, fileVars, Stop, File!Destroy, Exit, File!CloseFile, File!GoDown

\* A step keeps acknowledged writes in the file: replies are handed over only
\* when nothing is left to write, and the file never loses what it has.
LEMMA KeptStep ==
    Inv /\ Inv' /\ AcknowledgedIsKept /\ [Next]_vars => AcknowledgedIsKept'
<1> SUFFICES ASSUME Inv, Inv', AcknowledgedIsKept, [Next]_vars
             PROVE  AcknowledgedIsKept'
  OBVIOUS
<1>1. CASE writeFailed'
  BY <1>1 DEF AcknowledgedIsKept
<1>2. CASE ~writeFailed' /\ buffer' = <<>>
  <2>1. (Inv /\ ~writeFailed /\ buffer = <<>> => AcknowledgedIsKept)'
    BY KeptWhenWritten, PTL
  <2> QED BY <1>2, <2>1
<1>3. CASE ~writeFailed' /\ buffer' # <<>>
  <2>1. ~writeFailed
    BY <1>3, HealthyAgain
  <2>2. ~SendSome
    BY <1>3 DEF SendSome, Sending, Inv, UnwrittenInv, fileVars
  <2>3. \A c \in Connection : Handed(c)' \subseteq Handed(c)
    BY <2>2, OnlySendHands
  <2>4. ASSUME NEW request \in Acknowledged' PROVE InFile(request)'
    <3>1. (Inv => AcknowledgedByReply)'
      BY AcknowledgedHanded, PTL
    <3>0. PICK c \in Connection : \E r \in Handed(c)' :
             /\ request = <<c, r[2]>> /\ r[3] = "ok" /\ Kind(c, r[2])' \in {"write", "evict"}
      BY <2>4, <3>1 DEF AcknowledgedByReply
    <3>2. PICK r \in Handed(c)' :
             /\ request = <<c, r[2]>> /\ r[3] = "ok" /\ Kind(c, r[2])' \in {"write", "evict"}
      BY <3>0
    <3>3. r \in Handed(c) /\ Kind(c, r[2])' = Kind(c, r[2])
      <4>1. scenario' = scenario
        BY DEF Next, Loop, vars, netVars, Stopped, Peers, Connect, PeerSends, PeerFinishes,
           PeerResets, PeerReads, CronTimeReached, handleShutdownSignal, PollFails,
           LoopTest, CallPoll, PollReturns, Accept, AcceptReturns, handleClientEvents,
           RecvData, RecvWouldBlock, RecvEnd, RecvError, RequestRefused, RequestAppends,
           RequestAnswered, ProcessReturns, NothingToReply, CallFlush, FlushStep,
           SendSome, WriteReturns, SendError, CloseClient, Cron, Stop, Exit
      <4> QED BY <2>3, <3>2, <4>1 DEF Kind
    <3>4. request \in Acknowledged
      <4>1. got[c] \in Seq(Earned(c)) /\ tx[c] \in Seq(Earned(c))
        BY DEF Inv, Shape, NetInv
      <4>2. r \in ToSet(got[c] \o tx[c])
        BY <3>3, <4>1, ElementsOfConcat DEF Handed
      <4> QED BY <3>2, <3>3, <4>2 DEF Acknowledged
    <3>5. InFile(request)
      BY <2>1, <3>4 DEF AcknowledgedIsKept
    <3> QED BY <3>5, InFileStays
  <2> QED BY <2>4 DEF AcknowledgedIsKept
<1> QED BY <1>1, <1>2, <1>3

\* A success that tcp_server.cpp has sent stands in the file as long as the
\* file is healthy, over failed and partial writes, pipelines, resets and
\* replies still unsent.
THEOREM AcknowledgedKept == Spec => []AcknowledgedIsKept
<1>1. Init => AcknowledgedIsKept
  <2> SUFFICES ASSUME Init PROVE Acknowledged = {}
    BY DEF AcknowledgedIsKept
  <2>1. \A c \in Connection : got[c] = <<>> /\ tx[c] = <<>>
    BY DEF Init
  <2>2. <<>> \o <<>> = <<>> /\ ToSet(<<>>) = {}
    BY ConcatEmptySeq, EmptySeq DEF ToSet
  <2> QED BY <2>1, <2>2 DEF Acknowledged
<1>2. Inv /\ Inv' /\ AcknowledgedIsKept /\ [Next]_vars => AcknowledgedIsKept'
  BY KeptStep
<1> QED BY <1>1, <1>2, LoopInvariant, PTL DEF Spec
=============================================================================
