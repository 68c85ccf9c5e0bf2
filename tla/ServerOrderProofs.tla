-------------------------- MODULE ServerOrderProofs --------------------------
(***************************************************************************)
(* The replies of Server: that they are given in the order of the          *)
(* requests, one to each, and that a peer is hung up on only when it has   *)
(* all of them.                                                            *)
(***************************************************************************)
EXTENDS ServerReplyProofs

\* The last of the first k requests ends the conversation.
QuitAt(c, k) == k >= 1 /\ Kind(c, k) = "quit"

\* The first k requests have been taken out of the input, which is what was
\* received behind them; none of them was refused, only the last may be QUIT.
Taken(c, client, k) ==
    /\ received[c] = EndOf(c, k) + Len(client.input)
    /\ \A i \in 1 .. Len(client.input) : client.input[i] = Stream(c)[EndOf(c, k) + i]
    /\ \A j \in 1 .. k : Kind(c, j) # "bad" /\ (j < k => Kind(c, j) # "quit")

\* Why the client is to be closed: the request behind the first k was refused,
\* the last was QUIT, or the peer will send no more and all is answered.
Closing(c, client, k, refused) ==
    /\ refused => IsBad(client.input) /\ client.closeAfterWrite /\ ~QuitAt(c, k)
    /\ QuitAt(c, k) => client.closeAfterWrite
    /\ client.closeAfterWrite =>
          \/ refused
          \/ QuitAt(c, k)
          \/ /\ peer[c] # "open" /\ received[c] = sent[c]
             /\ ~Whole(client.input) /\ ~IsBad(client.input)

\* The requests that have a reply by then.
Given(c, k, refused) ==
    {i \in 1 .. k : Kind(c, i) # "blank"} \cup (IF refused THEN {k + 1} ELSE {})

\* The replies are c's, one to each request of S, in order.
AnswersAll(replies, c, S) ==
    /\ \A j \in DOMAIN replies : replies[j][1] = c
    /\ \A j, k \in DOMAIN replies : j < k => replies[j][2] < replies[k][2]
    /\ Answered(replies) = S

Replied(c, client) == got[c] \o tx[c] \o PendingReplies(client)

Conversation(c, client, k, refused) ==
    /\ Taken(c, client, k)
    /\ Closing(c, client, k, refused)
    /\ peer[c] # "reset" => AnswersAll(Replied(c, client), c, Given(c, k, refused))

\* Why the client that is handled is about to be closed.
CloseReason ==
    \/ peer[fds[socket]] = "reset"
    \/ Len(Me.input) > MaxQueryBuffer
    \/ Me.closeAfterWrite /\ pendingOutput(Me) = 0

\* Every client is at some point of its peer's requests.
Talks(fd) ==
    \E k \in 0 .. Len(scenario.requests[fds[fd]]), refused \in BOOLEAN :
        Conversation(fds[fd], clients[fd], k, refused)

TalksInv == \A fd \in DOMAIN fds : Talks(fd)

\* The sockets have been given the first of the replies that are due.
HandedInv == \A c \in Connection : AnswersFirst(got[c] \o tx[c], c, Due(c, received[c]))

\* Nothing is read from or sent to a connection before it is accepted.
FreshInv ==
    \A c \in Connection : status[c] \in {"new", "backlog"} =>
        received[c] = 0 /\ got[c] = <<>> /\ tx[c] = <<>>

ErrInv == \A d \in todo : "ERR" \in d.revents => peer[fds[d.fd]] = "reset"

\* The peer of the client that is handled has ended its stream, and it is read.
AllRead ==
    peer[fds[socket]] # "open" /\ received[fds[socket]] = sent[fds[socket]]

LeaveInv == (pc = "close" => CloseReason) /\ (pc = "processLast" => AllRead)

OrderInv == TalksInv /\ HandedInv /\ FreshInv /\ ErrInv /\ LeaveInv

-----------------------------------------------------------------------------
(***************************************************************************)
(* Where the requests stand in the stream.                                 *)
(***************************************************************************)
\* FlattenSeq of a sequence that is not empty ends a sequence of prefixes.
LEMMA FlattenIs ==
    ASSUME NEW S, NEW seqs, NEW m \in Nat, Len(seqs) = m, m # 0,
           \A i \in 1 .. m : seqs[i] \in Seq(S)
    PROVE  \E f : IsFlatten(seqs, m, f) /\ FlattenSeq(seqs) = f[m]
<1> DEFINE f == CHOOSE f : IsFlatten(seqs, m, f)
<1>1. PICK g : IsFlatten(seqs, m, g)
  BY FlattenExists, Zenon
<1>2. IsFlatten(seqs, m, f)
  BY <1>1, Zenon
<1>3. FlattenSeq(seqs) = f[m]
  BY Zenon DEF FlattenSeq, IsFlatten
<1> QED BY <1>2, <1>3, Zenon

\* The prefixes depend only on the pieces they are made of.
LEMMA FlattenUnique ==
    ASSUME NEW s, NEW t, NEW m \in Nat, NEW n \in Nat, m <= n, NEW f, NEW g,
           IsFlatten(s, m, f), IsFlatten(t, n, g), \A i \in 1 .. m : s[i] = t[i]
    PROVE  \A i \in 1 .. m : f[i] = g[i]
<1> DEFINE P == {i \in Nat : i + 1 <= m => f[i + 1] = g[i + 1]}
<1>1. ASSUME NEW i \in 1 .. m
      PROVE  /\ f[i] = (IF i = 1 THEN s[i] ELSE f[i - 1] \o s[i])
             /\ g[i] = (IF i = 1 THEN t[i] ELSE g[i - 1] \o t[i])
  <2>1. i \in 1 .. n
    OBVIOUS
  <2> QED BY <2>1, Zenon DEF IsFlatten
<1>2. 0 \in P
  BY <1>1
<1>3. ASSUME NEW i \in Nat, i \in P PROVE i + 1 \in P
  <2> SUFFICES ASSUME (i + 1) + 1 <= m PROVE f[(i + 1) + 1] = g[(i + 1) + 1]
    OBVIOUS
  <2>1. (i + 1) + 1 \in 1 .. m /\ (i + 1) + 1 # 1 /\ ((i + 1) + 1) - 1 = i + 1
    OBVIOUS
  <2>2. f[i + 1] = g[i + 1]
    BY <1>3
  <2> QED BY <1>1, <2>1, <2>2
<1> HIDE DEF P
<1>4. Nat \subseteq P
  BY <1>2, <1>3, InductionOnNat
<1> QED
  <2> SUFFICES ASSUME NEW i \in 1 .. m PROVE f[i] = g[i]
    OBVIOUS
  <2>1. i - 1 \in Nat /\ (i - 1) + 1 = i
    OBVIOUS
  <2> QED BY <1>4, <2>1 DEF P

\* One piece more is one concatenation more.
LEMMA FlattenStep ==
    ASSUME NEW S, NEW g, NEW m \in Nat, \A j \in 1 .. m + 1 : g[j] \in Seq(S)
    PROVE  FlattenSeq([j \in 1 .. m + 1 |-> g[j]]) =
               FlattenSeq([j \in 1 .. m |-> g[j]]) \o g[m + 1]
<1> DEFINE s == [j \in 1 .. m |-> g[j]]
           t == [j \in 1 .. m + 1 |-> g[j]]
<1>1. /\ Len(t) = m + 1 /\ m + 1 # 0 /\ m + 1 \in Nat
      /\ \A i \in 1 .. m + 1 : t[i] \in Seq(S) /\ t[i] = g[i]
      /\ Len(s) = m
      /\ \A i \in 1 .. m : s[i] \in Seq(S) /\ s[i] = t[i]
  OBVIOUS
<1>2. m = 0 => s = <<>>
  OBVIOUS
<1> HIDE DEF s, t
<1>3. PICK h : IsFlatten(t, m + 1, h) /\ FlattenSeq(t) = h[m + 1]
  BY <1>1, FlattenIs
<1>4. h[m + 1] = (IF m + 1 = 1 THEN t[m + 1] ELSE h[(m + 1) - 1] \o t[m + 1])
  <2>1. m + 1 \in 1 .. m + 1
    OBVIOUS
  <2> QED BY <1>3, <2>1, Zenon DEF IsFlatten
<1>5. CASE m = 0
  <2>1. FlattenSeq(s) = <<>>
    BY <1>2, <1>5, <1>1, Zenon DEF FlattenSeq
  <2>2. g[m + 1] \in Seq(S)
    OBVIOUS
  <2>3. <<>> \o g[m + 1] = g[m + 1]
    BY <2>2, ConcatEmptySeq
  <2>4. h[m + 1] = t[m + 1]
    BY <1>4, <1>5
  <2>5. t[m + 1] = g[m + 1]
    BY <1>1
  <2> QED BY <1>3, <2>1, <2>3, <2>4, <2>5 DEF s, t
<1>6. CASE m # 0
  <2>1. PICK f : IsFlatten(s, m, f) /\ FlattenSeq(s) = f[m]
    BY <1>1, <1>6, FlattenIs
  <2>2. f[m] = h[m]
    <3>1. m \in 1 .. m /\ m <= m + 1 /\ \A i \in 1 .. m : s[i] = t[i]
      BY <1>1, <1>6
    <3>2. IsFlatten(s, m, f) /\ IsFlatten(t, m + 1, h) /\ m + 1 \in Nat
      BY <1>1, <1>3, <2>1
    <3>3. \A i \in 1 .. m : f[i] = h[i]
      BY <3>1, <3>2, FlattenUnique, SMTT(30)
    <3> QED BY <3>1, <3>3
  <2>3. h[m + 1] = h[m] \o t[m + 1]
    <3>1. (m + 1) - 1 = m /\ m + 1 # 1
      BY <1>6
    <3> QED BY <1>4, <3>1
  <2>4. t[m + 1] = g[m + 1]
    BY <1>1
  <2> QED BY <1>3, <2>1, <2>2, <2>3, <2>4 DEF s, t
<1> QED BY <1>5, <1>6

\* The first k requests of c, as they are sent.
FirstRequests(c, k) == FlattenSeq([j \in 1 .. k |-> Request(c, j)])

\* A request is a sequence of two units or more, in their order.
LEMMA RequestType ==
    ASSUME scenario \in Scenarios, NEW c \in Connection
    PROVE  /\ Len(scenario.requests[c]) \in Nat
           /\ DOMAIN scenario.requests[c] = 1 .. Len(scenario.requests[c])
           /\ \A i \in 1 .. Len(scenario.requests[c]) :
                 /\ Kind(c, i) \in Kinds /\ RequestLength(Kind(c, i)) \in Nat \ {0, 1}
                 /\ Request(c, i) \in Seq(Piece(c))
                 /\ Len(Request(c, i)) = RequestLength(Kind(c, i))
                 /\ \A p \in 1 .. RequestLength(Kind(c, i)) : Request(c, i)[p] = <<c, i, p>>
<1> DEFINE q == scenario.requests[c]
<1>1. q \in Seq(Kinds)
  BY ScenariosAssumption
<1>2. Len(q) \in Nat /\ DOMAIN q = 1 .. Len(q) /\ \A i \in 1 .. Len(q) : q[i] \in Kinds
  BY <1>1, LenProperties, ElementOfSeq
<1>3. ASSUME NEW i \in 1 .. Len(q)
      PROVE  /\ RequestLength(Kind(c, i)) \in Nat \ {0, 1} /\ Kind(c, i) \in Kinds
             /\ Request(c, i) \in Seq(Piece(c))
             /\ Len(Request(c, i)) = RequestLength(Kind(c, i))
             /\ \A p \in 1 .. RequestLength(Kind(c, i)) : Request(c, i)[p] = <<c, i, p>>
  <2>0. ReadChunkSize * MaxReadsPerEvent \in Nat \ {0}
    BY LimitsAssumption
  <2>1. RequestLength(Kind(c, i)) \in Nat \ {0, 1}
    BY <2>0, LimitsAssumption DEF RequestLength
  <2>2. Request(c, i) = [p \in 1 .. RequestLength(Kind(c, i)) |-> <<c, i, p>>]
    BY DEF Request, Kind
  <2> DEFINE n == RequestLength(Kind(c, i))
  <2> HIDE DEF n
  <2>3. Request(c, i) \in [1 .. n -> Piece(c)] /\ n \in Nat
    BY <1>2, <2>1, <2>2 DEF Piece, n
  <2>4. Request(c, i) \in Seq(Piece(c)) /\ Len(Request(c, i)) = n
    BY <2>3, SeqDef
  <2> QED BY <1>2, <2>1, <2>2, <2>4 DEF Kind, n
<1> QED BY <1>2, <1>3

\* The first k + 1 requests are the first k and one more.
LEMMA OneRequestMore ==
    ASSUME scenario \in Scenarios, NEW c \in Connection,
           NEW k \in Nat, k + 1 <= Len(scenario.requests[c])
    PROVE  FirstRequests(c, k + 1) = FirstRequests(c, k) \o Request(c, k + 1)
<1> DEFINE g == [j \in 1 .. k + 1 |-> Request(c, j)]
<1>0. k + 1 \in 1 .. Len(scenario.requests[c]) /\ k + 1 \in 1 .. k + 1
      /\ 1 .. k + 1 \subseteq 1 .. Len(scenario.requests[c])
      /\ 1 .. k \subseteq 1 .. k + 1
  BY RequestType
<1>1. \A j \in 1 .. k + 1 : g[j] \in Seq(Piece(c)) /\ g[j] = Request(c, j)
  BY <1>0, RequestType
<1>2. FirstRequests(c, k + 1) = FlattenSeq([j \in 1 .. k + 1 |-> g[j]])
  BY DEF FirstRequests
<1>3. FirstRequests(c, k) = FlattenSeq([j \in 1 .. k |-> g[j]])
  <2>1. [j \in 1 .. k |-> g[j]] = [j \in 1 .. k |-> Request(c, j)]
    BY <1>0
  <2> QED BY <2>1 DEF FirstRequests
<1>4. g[k + 1] = Request(c, k + 1)
  BY <1>0
<1> HIDE DEF g
<1>5. \A j \in 1 .. k + 1 : g[j] \in Seq(Piece(c))
  BY <1>1
<1>6. FlattenSeq([j \in 1 .. k + 1 |-> g[j]]) = FlattenSeq([j \in 1 .. k |-> g[j]]) \o g[k + 1]
  BY <1>5, FlattenStep
<1> QED BY <1>2, <1>3, <1>4, <1>6

\* What the first k requests look like: where each of them ends, and that its
\* units stand behind the end of the one before.
Laid(c, k) ==
    /\ FirstRequests(c, k) \in Seq(Piece(c))
    /\ EndOf(c, k) = Len(FirstRequests(c, k)) /\ EndOf(c, k) \in Nat
    /\ \A i \in 1 .. k : /\ EndOf(c, i - 1) \in Nat /\ EndOf(c, i) \in Nat
                         /\ EndOf(c, i) = EndOf(c, i - 1) + RequestLength(Kind(c, i))
                         /\ EndOf(c, i) <= EndOf(c, k)
    /\ \A i \in 1 .. k : \A p \in 1 .. RequestLength(Kind(c, i)) :
          FirstRequests(c, k)[EndOf(c, i - 1) + p] = <<c, i, p>>

\* They look like that for every k, by induction.
LEMMA LaidOut ==
    ASSUME scenario \in Scenarios, NEW c \in Connection
    PROVE  \A k \in 0 .. Len(scenario.requests[c]) : Laid(c, k)
<1> DEFINE m == Len(scenario.requests[c])
           P == {k \in Nat : k <= m => Laid(c, k)}
<1>0. m \in Nat
  BY RequestType
<1>1. 0 \in P
  <2>1. [j \in 1 .. 0 |-> Request(c, j)] = <<>>
    OBVIOUS
  <2>2. FirstRequests(c, 0) = <<>>
    BY <2>1, Zenon DEF FirstRequests, FlattenSeq
  <2>3. EndOf(c, 0) = 0
    BY <2>2 DEF EndOf, FirstRequests
  <2>4. 1 .. 0 = {}
    OBVIOUS
  <2>5. <<>> \in Seq(Piece(c)) /\ Len(<<>>) = 0
    BY EmptySeq
  <2>6. FirstRequests(c, 0) \in Seq(Piece(c)) /\ Len(FirstRequests(c, 0)) = 0
    BY <2>2, <2>5, Zenon
  <2>7. 0 \in Nat
    OBVIOUS
  <2>8. Laid(c, 0)
    BY <2>3, <2>4, <2>6, <2>7, Zenon DEF Laid
  <2> QED BY <2>8
<1>2. ASSUME NEW k \in Nat, k \in P PROVE k + 1 \in P
  <2> SUFFICES ASSUME k + 1 <= m PROVE Laid(c, k + 1)
    OBVIOUS
  <2> DEFINE s == FirstRequests(c, k)
             r == Request(c, k + 1)
             t == FirstRequests(c, k + 1)
             n == RequestLength(Kind(c, k + 1))
  <2>0. k <= m /\ k + 1 \in 1 .. m /\ (k + 1) - 1 = k
    BY <1>0
  <2>1. Laid(c, k)
    BY <1>2, <2>0
  <2>2. /\ r \in Seq(Piece(c)) /\ Len(r) = n /\ n \in Nat \ {0, 1}
        /\ \A p \in 1 .. n : r[p] = <<c, k + 1, p>>
    BY <2>0, RequestType
  <2>3. t = s \o r
    BY OneRequestMore
  <2>4. /\ s \in Seq(Piece(c)) /\ EndOf(c, k) = Len(s) /\ EndOf(c, k) \in Nat
        /\ EndOf(c, k + 1) = Len(t)
    BY <2>1 DEF Laid, EndOf, FirstRequests
  <2> HIDE DEF s, r, t, n, m
  <2>5. /\ t \in Seq(Piece(c)) /\ Len(t) = Len(s) + Len(r)
        /\ \A i \in 1 .. Len(s) + Len(r) : t[i] = IF i <= Len(s) THEN s[i] ELSE r[i - Len(s)]
    BY <2>2, <2>3, <2>4, ConcatProperties
  <2>6. EndOf(c, k + 1) = EndOf(c, k) + n /\ EndOf(c, k + 1) \in Nat
    BY <2>2, <2>4, <2>5
  <2>7. ASSUME NEW i \in 1 .. k + 1
        PROVE  /\ EndOf(c, i - 1) \in Nat /\ EndOf(c, i) \in Nat
               /\ EndOf(c, i) = EndOf(c, i - 1) + RequestLength(Kind(c, i))
               /\ EndOf(c, i) <= EndOf(c, k + 1)
    <3>1. CASE i = k + 1
      BY <2>0, <2>2, <2>4, <2>6, <3>1 DEF n
    <3>2. CASE i # k + 1
      <4>1. i \in 1 .. k
        BY <3>2
      <4>2. /\ EndOf(c, i - 1) \in Nat /\ EndOf(c, i) \in Nat
            /\ EndOf(c, i) = EndOf(c, i - 1) + RequestLength(Kind(c, i))
            /\ EndOf(c, i) <= EndOf(c, k)
        BY <2>1, <4>1 DEF Laid
      <4> QED BY <2>2, <2>4, <2>6, <4>2
    <3> QED BY <3>1, <3>2
  <2>8. ASSUME NEW i \in 1 .. k + 1, NEW p \in 1 .. RequestLength(Kind(c, i))
        PROVE  t[EndOf(c, i - 1) + p] = <<c, i, p>>
    <3>1. CASE i = k + 1
      <4>1. p \in 1 .. n /\ EndOf(c, i - 1) = Len(s)
        BY <2>0, <2>4, <3>1 DEF n
      <4>2. Len(s) + p \in 1 .. Len(s) + Len(r) /\ ~(Len(s) + p <= Len(s))
            /\ (Len(s) + p) - Len(s) = p
        BY <2>2, <2>4, <4>1
      <4>3. t[Len(s) + p] = r[p]
        BY <2>5, <4>2
      <4> QED BY <2>2, <3>1, <4>1, <4>3
    <3>2. CASE i # k + 1
      <4>1. i \in 1 .. k
        BY <3>2
      <4>2. /\ EndOf(c, i - 1) \in Nat /\ EndOf(c, i) \in Nat
            /\ EndOf(c, i) = EndOf(c, i - 1) + RequestLength(Kind(c, i))
            /\ EndOf(c, i) <= EndOf(c, k)
            /\ s[EndOf(c, i - 1) + p] = <<c, i, p>>
        BY <2>1, <4>1 DEF Laid, s
      <4>3. RequestLength(Kind(c, i)) \in Nat
        <5>1. i \in 1 .. m
          BY <1>0, <2>0, <4>1 DEF m
        <5> QED BY <5>1, RequestType DEF m
      <4>4. EndOf(c, i - 1) + p \in 1 .. Len(s) + Len(r) /\ EndOf(c, i - 1) + p <= Len(s)
        BY <2>2, <2>4, <4>2, <4>3, SMTT(30)
      <4> QED BY <2>5, <4>2, <4>4
    <3> QED BY <3>1, <3>2
  <2> QED BY <2>4, <2>5, <2>6, <2>7, <2>8 DEF Laid, t
<1> HIDE DEF P
<1>3. Nat \subseteq P
  BY <1>1, <1>2, InductionOnNat
<1> QED BY <1>0, <1>3 DEF P

\* The same for the whole stream: the requests follow each other without a
\* gap, and what has been received ends in or behind one of them.
LEMMA StreamLayout ==
    ASSUME scenario \in Scenarios, NEW c \in Connection, NEW m, m = Len(scenario.requests[c])
    PROVE  /\ m \in Nat /\ DOMAIN scenario.requests[c] = 1 .. m
           /\ EndOf(c, 0) = 0 /\ Len(Stream(c)) = EndOf(c, m)
           /\ \A i \in 0 .. m : EndOf(c, i) \in Nat
           /\ \A i \in 1 .. m : EndOf(c, i) = EndOf(c, i - 1) + RequestLength(Kind(c, i))
           /\ \A i, j \in 0 .. m : i <= j => EndOf(c, i) <= EndOf(c, j)
           /\ \A i \in 1 .. m : RequestLength(Kind(c, i)) \in Nat \ {0, 1}
           /\ \A i \in 1 .. m : \A p \in 1 .. RequestLength(Kind(c, i)) :
                 Stream(c)[EndOf(c, i - 1) + p] = <<c, i, p>>
<1>1. m \in Nat /\ DOMAIN scenario.requests[c] = 1 .. m
  BY RequestType
<1>2. \A k \in 0 .. m : Laid(c, k)
  BY LaidOut
<1>3. Stream(c) = FirstRequests(c, m)
  BY <1>1 DEF Stream, FirstRequests
<1>4. EndOf(c, 0) = 0
  <2>1. [j \in 1 .. 0 |-> Request(c, j)] = <<>>
    OBVIOUS
  <2>2. FlattenSeq(<<>>) = <<>>
    BY Zenon DEF FlattenSeq
  <2> QED BY <2>1, <2>2 DEF EndOf
<1>5. \A i \in 0 .. m : EndOf(c, i) \in Nat
  BY <1>2 DEF Laid
<1>6. ASSUME NEW i \in 0 .. m, NEW j \in 0 .. m, i <= j PROVE EndOf(c, i) <= EndOf(c, j)
  <2>1. CASE i = 0
    BY <1>4, <1>5, <2>1
  <2>2. CASE i # 0
    <3>1. i \in 1 .. j
      BY <1>1, <1>6, <2>2
    <3> QED BY <1>2, <3>1 DEF Laid
  <2> QED BY <2>1, <2>2
<1>7. Laid(c, m)
  BY <1>1, <1>2
<1>8. \A i \in 1 .. m : RequestLength(Kind(c, i)) \in Nat \ {0, 1}
  BY RequestType
<1> QED BY <1>1, <1>3, <1>4, <1>5, <1>6, <1>7, <1>8 DEF Laid

-----------------------------------------------------------------------------
(***************************************************************************)
(* What is due, and what has been given.                                   *)
(***************************************************************************)
\* The input begins with the request behind those that were taken out.
LEMMA NextRequest ==
    ASSUME scenario \in Scenarios, NEW c \in Connection, NEW m, m = Len(scenario.requests[c]),
           NEW client, client.input \in Seq(Piece(c)), client.input # <<>>,
           NEW k \in 0 .. m, Taken(c, client, k), received[c] <= Len(Stream(c))
    PROVE  /\ k + 1 \in 1 .. m
           /\ Head(client.input) = <<c, k + 1, 1>>
           /\ KindOf(Head(client.input)) = Kind(c, k + 1)
           /\ RequestLength(KindOf(Head(client.input))) = EndOf(c, k + 1) - EndOf(c, k)
<1>1. /\ m \in Nat /\ Len(Stream(c)) = EndOf(c, m)
      /\ \A i \in 0 .. m : EndOf(c, i) \in Nat
      /\ \A i \in 1 .. m : EndOf(c, i) = EndOf(c, i - 1) + RequestLength(Kind(c, i))
      /\ \A i \in 1 .. m : RequestLength(Kind(c, i)) \in Nat \ {0, 1}
      /\ \A i \in 1 .. m : \A p \in 1 .. RequestLength(Kind(c, i)) :
            Stream(c)[EndOf(c, i - 1) + p] = <<c, i, p>>
  BY StreamLayout
<1>2. Len(client.input) \in Nat \ {0}
  BY EmptySeq
<1>3. k # m
  <2>1. received[c] = EndOf(c, k) + Len(client.input)
    BY DEF Taken
  <2> QED BY <1>1, <1>2, <2>1
<1>4. k + 1 \in 1 .. m /\ (k + 1) - 1 = k
  BY <1>1, <1>3
<1>5. client.input[1] = Stream(c)[EndOf(c, k) + 1]
  <2>1. 1 \in 1 .. Len(client.input)
    BY <1>2
  <2> QED BY <2>1 DEF Taken
<1>6. Stream(c)[EndOf(c, k) + 1] = <<c, k + 1, 1>>
  <2>1. 1 \in 1 .. RequestLength(Kind(c, k + 1))
    BY <1>1, <1>4
  <2> QED BY <1>1, <1>4, <2>1
<1>7. Head(client.input) = client.input[1]
  OBVIOUS
<1>8. Head(client.input) = <<c, k + 1, 1>>
  BY <1>5, <1>6, <1>7
<1>9. KindOf(Head(client.input)) = Kind(c, k + 1)
  BY <1>8 DEF KindOf, Kind
<1>10. EndOf(c, k + 1) = EndOf(c, k) + RequestLength(Kind(c, k + 1))
       /\ RequestLength(Kind(c, k + 1)) \in Nat /\ EndOf(c, k) \in Nat
  BY <1>1, <1>4
<1> QED BY <1>4, <1>8, <1>9, <1>10

\* What has been answered was due, and nothing was passed over; when the input
\* holds no more requests, or the client is to be closed, it is all.
LEMMA GivenIsDue ==
    ASSUME scenario \in Scenarios, NEW c \in Connection, NEW m, m = Len(scenario.requests[c]),
           NEW client, client.input \in Seq(Piece(c)),
           NEW k \in 0 .. m, NEW refused \in BOOLEAN,
           Taken(c, client, k), Closing(c, client, k, refused), received[c] <= Len(Stream(c))
    PROVE  /\ Given(c, k, refused) \subseteq Due(c, received[c])
           /\ \A i \in Due(c, received[c]) : \A g \in Given(c, k, refused) :
                 i < g => i \in Given(c, k, refused)
           /\ InputSettled(client) => Given(c, k, refused) = Due(c, received[c])
<1> DEFINE n == received[c]
           L == Len(client.input)
<1>1. /\ m \in Nat /\ DOMAIN scenario.requests[c] = 1 .. m
      /\ \A i \in 0 .. m : EndOf(c, i) \in Nat
      /\ \A i, j \in 0 .. m : i <= j => EndOf(c, i) <= EndOf(c, j)
  BY StreamLayout
<1>2. L \in Nat /\ n = EndOf(c, k) + L /\ (L > 0 <=> client.input # <<>>)
  BY LenProperties, EmptySeq DEF Taken
<1>3. \A j \in 1 .. k : Kind(c, j) # "bad" /\ (j < k => ~EndsConversation(c, j))
  BY DEF Taken, EndsConversation
<1>4. refused => /\ L > 0 /\ k + 1 \in 1 .. m /\ Kind(c, k + 1) = "bad"
                 /\ \A j \in 1 .. k : ~EndsConversation(c, j)
  <2> SUFFICES ASSUME refused
               PROVE  /\ L > 0 /\ k + 1 \in 1 .. m /\ Kind(c, k + 1) = "bad"
                      /\ \A j \in 1 .. k : ~EndsConversation(c, j)
    OBVIOUS
  <2>1. client.input # <<>> /\ KindOf(Head(client.input)) = "bad" /\ ~QuitAt(c, k)
    BY DEF Closing, IsBad
  <2>2. k + 1 \in 1 .. m /\ Kind(c, k + 1) = "bad"
    BY <2>1, NextRequest
  <2>3. ASSUME NEW j \in 1 .. k PROVE ~EndsConversation(c, j)
    <3>1. CASE j < k
      BY <1>3, <3>1
    <3>2. CASE j = k
      BY <1>3, <2>1, <3>2 DEF QuitAt, EndsConversation
    <3> QED BY <3>1, <3>2
  <2> QED BY <1>2, <2>1, <2>2, <2>3
<1> HIDE DEF n, L
<1>5. ASSUME NEW g \in Given(c, k, refused) PROVE g \in Due(c, n)
  <2>1. CASE g \in 1 .. k /\ Kind(c, g) # "blank"
    <3>1. g \in 1 .. m /\ \A j \in 1 .. g - 1 : j \in 1 .. k /\ j < k
      BY <1>1, <2>1
    <3>2. EndOf(c, g) <= EndOf(c, k) /\ EndOf(c, g) \in Nat /\ EndOf(c, k) \in Nat
      BY <1>1, <2>1, <3>1
    <3>3. EndOf(c, g) <= n
      BY <1>2, <3>2
    <3> QED BY <1>1, <1>3, <2>1, <3>1, <3>3 DEF Due
  <2>2. CASE refused /\ g = k + 1
    <3>1. EndOf(c, (k + 1) - 1) < n
      <4>1. (k + 1) - 1 = k /\ EndOf(c, k) \in Nat
        BY <1>1
      <4> QED BY <1>2, <1>4, <2>2, <4>1
    <3>2. \A j \in 1 .. (k + 1) - 1 : j \in 1 .. k
      OBVIOUS
    <3> QED BY <1>1, <1>4, <2>2, <3>1, <3>2 DEF Due
  <2> QED BY <2>1, <2>2 DEF Given
<1>6. ASSUME NEW i \in Due(c, n), i <= k PROVE i \in Given(c, k, refused)
  <2>1. i \in 1 .. m /\ Kind(c, i) # "blank"
    BY <1>1 DEF Due
  <2>2. i \in 1 .. k
    BY <1>6, <2>1
  <2> QED BY <2>1, <2>2 DEF Given
<1>7. ASSUME NEW i \in Due(c, n), NEW g \in Given(c, k, refused), i < g
      PROVE  i \in Given(c, k, refused)
  <2>1. g \in 1 .. k + 1
    BY DEF Given
  <2>2. i \in Int
    BY <1>1 DEF Due
  <2>3. i <= k
    BY <1>7, <2>1, <2>2
  <2> QED BY <1>6, <2>3
<1>8. ASSUME InputSettled(client), NEW i \in Due(c, n), ~(i <= k)
      PROVE  i \in Given(c, k, refused)
  <2>1. /\ i \in 1 .. m /\ i - 1 \in 0 .. m /\ k + 1 \in 1 .. m /\ k + 1 <= i
        /\ Kind(c, i) = "bad" => EndOf(c, i - 1) < n
        /\ Kind(c, i) # "bad" => EndOf(c, i) <= n
        /\ \A j \in 1 .. i - 1 : ~EndsConversation(c, j)
    BY <1>1, <1>8 DEF Due
  <2>2. CASE refused
    <3>1. CASE i = k + 1
      BY <2>2, <3>1 DEF Given
    <3>2. CASE i # k + 1
      <4>1. k + 1 \in 1 .. i - 1
        BY <2>1, <3>2
      <4> QED BY <1>4, <2>1, <2>2, <4>1 DEF EndsConversation
    <3> QED BY <3>1, <3>2
  <2>3. CASE QuitAt(c, k)
    <3>1. k \in 1 .. i - 1
      BY <2>1, <2>3 DEF QuitAt
    <3> QED BY <2>1, <2>3, <3>1 DEF QuitAt, EndsConversation
  <2>4. CASE ~refused /\ ~QuitAt(c, k)
    <3>1. ~Whole(client.input) /\ ~IsBad(client.input)
      BY <1>8, <2>4 DEF InputSettled, Closing
    <3>2. EndOf(c, k) \in Nat /\ EndOf(c, k + 1) \in Nat /\ EndOf(c, i - 1) \in Nat
          /\ EndOf(c, i) \in Nat /\ EndOf(c, k + 1) <= EndOf(c, i)
          /\ (i # k + 1 => EndOf(c, k + 1) <= EndOf(c, i - 1))
      BY <1>1, <2>1
    <3>3. EndOf(c, k + 1) - EndOf(c, k) \in Nat \ {0}
      <4>1. (k + 1) - 1 = k
        OBVIOUS
      <4>2. EndOf(c, k + 1) = EndOf(c, (k + 1) - 1) + RequestLength(Kind(c, k + 1))
            /\ RequestLength(Kind(c, k + 1)) \in Nat \ {0, 1}
        BY <2>1, StreamLayout
      <4> QED BY <3>2, <4>1, <4>2
    <3>4. CASE i = k + 1 /\ Kind(c, i) = "bad"
      <4>1. i - 1 = k
        BY <3>4
      <4>2. L > 0
        BY <1>2, <2>1, <3>2, <3>4, <4>1
      <4>3. client.input # <<>>
        BY <1>2, <4>2
      <4>4. KindOf(Head(client.input)) = "bad"
        BY <3>4, <4>3, NextRequest
      <4> QED BY <3>1, <4>3, <4>4 DEF IsBad
    <3>5. CASE ~(i = k + 1 /\ Kind(c, i) = "bad")
      <4>1. EndOf(c, k + 1) <= n
        BY <1>2, <2>1, <3>2, <3>5
      <4>2. L >= EndOf(c, k + 1) - EndOf(c, k) /\ L > 0
        BY <1>2, <3>2, <3>3, <4>1
      <4>3. client.input # <<>>
        BY <1>2, <4>2
      <4>4. RequestLength(KindOf(Head(client.input))) = EndOf(c, k + 1) - EndOf(c, k)
        BY <4>3, NextRequest
      <4> QED BY <3>1, <4>2, <4>3, <4>4 DEF Whole, L
    <3> QED BY <3>4, <3>5
  <2> QED BY <2>2, <2>3, <2>4
<1>9. InputSettled(client) => Given(c, k, refused) = Due(c, n)
  BY <1>5, <1>6, <1>8
<1> QED BY <1>5, <1>7, <1>9 DEF n

-----------------------------------------------------------------------------
(***************************************************************************)
(* Sequences of replies.                                                   *)
(***************************************************************************)
\* Replies as they are compared here: of a connection to a numbered request.
Numbered(E) == \A e \in E : e[2] \in Int

\* The replies of a client are numbered.
LEMMA EarnedNumbered ==
    ASSUME scenario \in Scenarios, NEW c \in Connection PROVE Numbered(Earned(c))
<1>1. DOMAIN scenario.requests[c] \subseteq Int
  BY RequestType
<1> QED BY <1>1 DEF Numbered, Earned

\* All the answers to S are first answers to whatever has S as its beginning.
LEMMA AllAreFirst ==
    ASSUME NEW r, NEW c, NEW S, NEW D, AnswersAll(r, c, S), S \subseteq D,
           \A i \in D : \A g \in S : i < g => i \in S
    PROVE  AnswersFirst(r, c, D)
<1>1. \A j \in DOMAIN r : r[j][2] \in S
  BY DEF AnswersAll, Answered
<1> QED BY <1>1, Zenon DEF AnswersAll, AnswersFirst

\* A beginning of first answers are first answers.
LEMMA FirstPrefix ==
    ASSUME NEW E, Numbered(E), NEW s \in Seq(E), NEW t \in Seq(E), NEW c, NEW D,
           AnswersFirst(s \o t, c, D)
    PROVE  AnswersFirst(s, c, D)
<1> DEFINE r == s \o t
<1>1. /\ r \in Seq(E) /\ Len(r) = Len(s) + Len(t)
      /\ \A i \in 1 .. Len(s) + Len(t) : r[i] = IF i <= Len(s) THEN s[i] ELSE t[i - Len(s)]
  BY ConcatProperties
<1>2. Len(s) \in Nat /\ Len(t) \in Nat /\ DOMAIN s = 1 .. Len(s)
  BY LenProperties
<1>3. DOMAIN r = 1 .. Len(s) + Len(t) /\ \A i \in 1 .. Len(s) + Len(t) : r[i][2] \in Int
  <2> HIDE DEF r
  <2>1. DOMAIN r = 1 .. Len(r)
    BY <1>1, LenProperties
  <2>2. \A i \in 1 .. Len(r) : r[i] \in E
    BY <1>1, ElementOfSeq
  <2> QED BY <1>1, <2>1, <2>2 DEF Numbered
<1> HIDE DEF r
<1>4. \A j \in 1 .. Len(s) : j \in 1 .. Len(s) + Len(t) /\ s[j] = r[j]
  BY <1>1, <1>2
<1>5. AnswersFirst(r, c, D)
  BY DEF r
<1>6. \A j \in DOMAIN s : s[j][1] = c /\ s[j][2] \in D
  BY <1>2, <1>3, <1>4, <1>5 DEF AnswersFirst
<1>7. \A j, k \in DOMAIN s : j < k => s[j][2] < s[k][2]
  BY <1>2, <1>3, <1>4, <1>5 DEF AnswersFirst
<1>8. ASSUME NEW j \in DOMAIN s, NEW i \in D, i < s[j][2] PROVE i \in Answered(s)
  <2>1. j \in DOMAIN r /\ r[j] = s[j] /\ j <= Len(s) /\ j \in Int
    BY <1>2, <1>3, <1>4
  <2>2. i \in Answered(r)
    BY <1>5, <1>8, <2>1 DEF AnswersFirst
  <2>3. PICK k \in DOMAIN r : i = r[k][2]
    BY <2>2 DEF Answered
  <2>4. ~(j < k)
    <3>1. j < k => r[j][2] < r[k][2]
      BY <1>5, <2>1 DEF AnswersFirst
    <3>2. r[j][2] \in Int /\ r[k][2] \in Int /\ r[k][2] < r[j][2]
      BY <1>3, <1>8, <2>1, <2>3
    <3> QED BY <3>1, <3>2
  <2>5. k \in DOMAIN s /\ r[k] = s[k]
    BY <1>2, <1>3, <1>4, <2>1, <2>4
  <2> QED BY <2>3, <2>5 DEF Answered
<1> QED BY <1>6, <1>7, <1>8 DEF AnswersFirst

\* They stay first answers when more has been received.
LEMMA FirstStay ==
    ASSUME scenario \in Scenarios, NEW c \in Connection, NEW n \in Nat, NEW more \in Nat,
           n <= more, NEW r, AnswersFirst(r, c, Due(c, n))
    PROVE  AnswersFirst(r, c, Due(c, more))
<1> PICK m : m = Len(scenario.requests[c])
  OBVIOUS
<1>1. /\ m \in Nat /\ DOMAIN scenario.requests[c] = 1 .. m
      /\ \A i \in 0 .. m : EndOf(c, i) \in Nat
      /\ \A i, j \in 0 .. m : i <= j => EndOf(c, i) <= EndOf(c, j)
  BY StreamLayout
<1>2. Due(c, n) \subseteq Due(c, more)
  <2> SUFFICES ASSUME NEW i \in Due(c, n) PROVE i \in Due(c, more)
    OBVIOUS
  <2>1. i \in 1 .. m /\ i - 1 \in 0 .. m /\ i \in 0 .. m
    BY <1>1 DEF Due
  <2>2. EndOf(c, i) \in Nat /\ EndOf(c, i - 1) \in Nat
    BY <1>1, <2>1
  <2> QED BY <2>2 DEF Due
<1>3. ASSUME NEW i \in Due(c, more), NEW g \in Due(c, n), i < g PROVE i \in Due(c, n)
  <2>1. i \in 1 .. m /\ g \in 1 .. m /\ i \in 1 .. g - 1 /\ i <= g - 1 /\ g - 1 \in 0 .. m
    BY <1>1, <1>3 DEF Due
  <2>2. Kind(c, i) # "bad"
    BY <2>1 DEF Due, EndsConversation
  <2>3. EndOf(c, g - 1) <= n
    <3>1. EndOf(c, g - 1) <= EndOf(c, g) /\ EndOf(c, g) \in Nat /\ EndOf(c, g - 1) \in Nat
      BY <1>1, <2>1
    <3>2. EndOf(c, g - 1) < n \/ EndOf(c, g) <= n
      BY DEF Due
    <3> QED BY <3>1, <3>2
  <2>4. EndOf(c, i) <= n
    <3>1. /\ EndOf(c, i) <= EndOf(c, g - 1) /\ EndOf(c, i) \in Nat
          /\ EndOf(c, g - 1) \in Nat
      BY <1>1, <2>1
    <3> QED BY <2>3, <3>1
  <2> QED BY <2>2, <2>4 DEF Due
<1>4. \A j \in DOMAIN r : r[j][2] \in Due(c, n)
  BY DEF AnswersFirst
<1>5. ASSUME NEW j \in DOMAIN r, NEW i \in Due(c, more), i < r[j][2] PROVE i \in Answered(r)
  <2>1. i \in Due(c, n)
    BY <1>3, <1>4, <1>5
  <2> QED BY <1>5, <2>1 DEF AnswersFirst
<1> QED BY <1>2, <1>5 DEF AnswersFirst

\* One answer more, to a later request.
LEMMA OneAnswerMore ==
    ASSUME NEW E, Numbered(E), NEW s \in Seq(E), NEW e \in E, NEW c, NEW S,
           AnswersAll(s, c, S), e[1] = c, \A i \in S : i < e[2]
    PROVE  AnswersAll(Append(s, e), c, S \cup {e[2]})
<1> DEFINE r == Append(s, e)
<1>1. /\ r \in Seq(E) /\ Len(r) = Len(s) + 1
      /\ \A i \in 1 .. Len(s) : r[i] = s[i]
      /\ r[Len(s) + 1] = e
  BY AppendProperties
<1> HIDE DEF r
<1>2. Len(s) \in Nat /\ DOMAIN s = 1 .. Len(s)
  BY LenProperties
<1>3. DOMAIN r = 1 .. Len(s) + 1
  BY <1>1, LenProperties
<1>4. \A j \in 1 .. Len(s) : s[j][2] \in S
  BY <1>2 DEF AnswersAll, Answered
<1>5. \A j \in DOMAIN r : r[j][1] = c
  BY <1>1, <1>2, <1>3 DEF AnswersAll
<1>6. ASSUME NEW j \in DOMAIN r, NEW k \in DOMAIN r, j < k PROVE r[j][2] < r[k][2]
  <2>1. j \in 1 .. Len(s) /\ (k \in 1 .. Len(s) \/ k = Len(s) + 1)
    BY <1>2, <1>3, <1>6
  <2> QED BY <1>1, <1>2, <1>4, <1>6, <2>1 DEF AnswersAll
<1>7. Answered(r) = S \cup {e[2]}
  <2>1. ASSUME NEW x \in Answered(r) PROVE x \in S \cup {e[2]}
    <3>1. PICK j \in DOMAIN r : x = r[j][2]
      BY DEF Answered
    <3>2. j \in 1 .. Len(s) \/ j = Len(s) + 1
      BY <1>2, <1>3
    <3> QED BY <1>1, <1>4, <3>1, <3>2
  <2>2. ASSUME NEW x \in S PROVE x \in Answered(r)
    <3>1. PICK j \in 1 .. Len(s) : x = s[j][2]
      BY <1>2 DEF AnswersAll, Answered
    <3>2. j \in DOMAIN r
      BY <1>2, <1>3
    <3> QED BY <1>1, <3>1, <3>2 DEF Answered
  <2>3. e[2] \in Answered(r)
    <3>1. Len(s) + 1 \in DOMAIN r
      BY <1>2, <1>3
    <3> QED BY <1>1, <3>1 DEF Answered
  <2> QED BY <2>1, <2>2, <2>3
<1>8. AnswersAll(r, c, S \cup {e[2]})
  BY <1>5, <1>6, <1>7 DEF AnswersAll
<1> QED BY <1>8 DEF r

-----------------------------------------------------------------------------
(***************************************************************************)
(* Steps that leave the conversations where they are.                      *)
(***************************************************************************)
\* What is due depends on the scenario alone.
LEMMA SameRequests ==
    ASSUME scenario' = scenario
    PROVE  /\ \A c, n : Due(c, n)' = Due(c, n)
           /\ \A c, k : EndOf(c, k)' = EndOf(c, k) /\ (QuitAt(c, k)' <=> QuitAt(c, k))
           /\ \A c, k, refused : Given(c, k, refused)' = Given(c, k, refused)
           /\ \A c, i : Kind(c, i)' = Kind(c, i)
           /\ \A input : (Whole(input)' <=> Whole(input)) /\ (IsBad(input)' <=> IsBad(input))
<1>1. \A c, i : Kind(c, i)' = Kind(c, i)
  BY DEF Kind
<1>2. \A c, k : EndOf(c, k)' = EndOf(c, k)
  BY DEF EndOf, Request
<1>3. \A c, k : QuitAt(c, k)' <=> QuitAt(c, k)
  BY <1>1 DEF QuitAt
<1>4. \A c, n : Due(c, n)' = Due(c, n)
  BY DEF Due, Kind, EndsConversation, EndOf, Request
<1>5. \A c, k, refused : Given(c, k, refused)' = Given(c, k, refused)
  BY DEF Given, Kind
<1>6. \A input : (Whole(input)' <=> Whole(input)) /\ (IsBad(input)' <=> IsBad(input))
  BY DEF Whole, IsBad, KindOf
<1> QED BY <1>1, <1>2, <1>3, <1>4, <1>5, <1>6

\* A client stays where it is in its conversation while its peer sends, stops
\* sending, reads or leaves.
LEMMA ConversationStays ==
    ASSUME scenario' = scenario, NEW c, received'[c] = received[c],
           peer[c] # "open" => sent'[c] = sent[c] /\ peer'[c] # "open",
           peer'[c] # "reset" => peer[c] # "reset" /\ got'[c] \o tx'[c] = got[c] \o tx[c],
           NEW client, NEW k, NEW refused, Conversation(c, client, k, refused)
    PROVE  Conversation(c, client, k, refused)'
<1>1. Taken(c, client, k)'
  <2>1. Taken(c, client, k) /\ Stream(c)' = Stream(c) /\ EndOf(c, k)' = EndOf(c, k)
        /\ \A j : Kind(c, j)' = Kind(c, j)
    BY SameConversations, SameRequests DEF Conversation
  <2> QED BY <2>1 DEF Taken
<1>2. Closing(c, client, k, refused)'
  <2>1. Closing(c, client, k, refused)
    BY DEF Conversation
  <2>2. /\ QuitAt(c, k)' <=> QuitAt(c, k)
        /\ Whole(client.input)' <=> Whole(client.input)
        /\ IsBad(client.input)' <=> IsBad(client.input)
    BY SameRequests
  <2> QED BY <2>1, <2>2 DEF Closing
<1>3. ASSUME peer'[c] # "reset"
      PROVE  AnswersAll(Replied(c, client)', c, Given(c, k, refused)')
  <2>1. AnswersAll(Replied(c, client), c, Given(c, k, refused))
    BY <1>3 DEF Conversation
  <2>2. Replied(c, client)' = Replied(c, client)
    BY <1>3 DEF Replied, PendingReplies
  <2>3. Given(c, k, refused)' = Given(c, k, refused)
    BY SameRequests
  <2> QED BY <2>1, <2>2, <2>3
<1>4. (peer[c] # "reset" => AnswersAll(Replied(c, client), c, Given(c, k, refused)))'
  BY <1>3 DEF AnswersAll, Answered
<1> QED BY <1>1, <1>2, <1>4 DEF Conversation

\* The same for a client that does not change.
LEMMA TalkStays ==
    ASSUME Inv, TalksInv, NEW fd \in DOMAIN fds,
           scenario' = scenario, fds'[fd] = fds[fd], clients'[fd] = clients[fd],
           NEW c, c = fds[fd], received'[c] = received[c],
           peer[c] # "open" => sent'[c] = sent[c] /\ peer'[c] # "open",
           peer'[c] # "reset" => peer[c] # "reset" /\ got'[c] \o tx'[c] = got[c] \o tx[c]
    PROVE  Talks(fd)'
<1>1. PICK k \in 0 .. Len(scenario.requests[fds[fd]]), refused \in BOOLEAN :
         Conversation(fds[fd], clients[fd], k, refused)
  BY DEF TalksInv, Talks
<1>2. PICK client : client = clients[fd]
  OBVIOUS
<1>3. Conversation(c, client, k, refused)
  BY <1>1, <1>2
<1>4. Conversation(c, client, k, refused)'
  BY <1>3, ConversationStays
<1> QED BY <1>1, <1>2, <1>4 DEF Talks

\* The same for all of them.
LEMMA TalksStay ==
    ASSUME Inv, TalksInv, UNCHANGED <<scenario, received, fds, clients>>,
           \A c \in Connection :
              /\ peer[c] # "open" => sent'[c] = sent[c] /\ peer'[c] # "open"
              /\ peer'[c] # "reset" =>
                    peer[c] # "reset" /\ got'[c] \o tx'[c] = got[c] \o tx[c]
    PROVE  TalksInv'
<1>1. ASSUME NEW fd \in DOMAIN fds PROVE Talks(fd)'
  <2>1. PICK c : c = fds[fd]
    OBVIOUS
  <2>2. c \in Connection
    BY <2>1 DEF Inv, Shape, DescriptorInv
  <2> QED BY <2>1, <2>2, TalkStays
<1> QED BY <1>1 DEF TalksInv

\* Steps that change neither the kernel nor a client.
LEMMA OrderMove ==
    ASSUME Inv, OrderInv, UNCHANGED <<netVars, clients>>, ErrInv', LeaveInv'
    PROVE  OrderInv'
<1>1. UNCHANGED <<scenario, status, peer, sent, received, tx, got, fds, clients>>
  BY DEF netVars
<1>2. TalksInv'
  BY <1>1, TalksStay DEF OrderInv
<1>3. HandedInv'
  BY <1>1, SameRequests DEF OrderInv, HandedInv
<1>4. FreshInv'
  BY <1>1 DEF OrderInv, FreshInv
<1> QED BY <1>2, <1>3, <1>4 DEF OrderInv

\* Steps that neither report events nor decide to close.
LEMMA OrderControl ==
    ASSUME Inv, OrderInv,
           \/ CronTimeReached \/ handleShutdownSignal \/ PollFails \/ LoopTest \/ CallPoll
           \/ AcceptReturns \/ CallFlush \/ Cron \/ Exit
    PROVE  OrderInv'
<1>1. /\ UNCHANGED <<netVars, clients, todo>>
      /\ pc' \notin {"close", "processLast"}
  BY DEF CronTimeReached, handleShutdownSignal, PollFails, LoopTest, CallPoll,
     AcceptReturns, CallFlush, Cron, Exit, Goto
<1>2. ErrInv'
  BY <1>1 DEF OrderInv, ErrInv, netVars
<1>3. LeaveInv'
  BY <1>1 DEF LeaveInv
<1> QED BY <1>1, <1>2, <1>3, OrderMove

\* The steps of the file, and those that change nothing.
LEMMA OrderUnchanged ==
    ASSUME Inv, OrderInv, UNCHANGED <<netVars, loopVars>> PROVE OrderInv'
<1>1. UNCHANGED <<netVars, clients, todo, socket, pc>>
  BY DEF loopVars
<1>2. ErrInv'
  BY <1>1 DEF OrderInv, ErrInv, netVars
<1>3. LeaveInv'
  BY <1>1 DEF OrderInv, LeaveInv, CloseReason, AllRead, Me, pendingOutput, netVars
<1> QED BY <1>1, <1>2, <1>3, OrderMove

\* poll reports an error only for a peer that is gone.
LEMMA OrderPollReturns ==
    ASSUME Inv, OrderInv, PollReturns PROVE OrderInv'
<1>1. /\ UNCHANGED <<netVars, clients>> /\ pc' \notin {"close", "processLast"}
  BY DEF PollReturns, Goto
<1>2. PICK onReset \in {{"ERR"}, {"HUP"}, {"ERR", "HUP"}} : todo' = Descriptors(onReset)
  BY DEF PollReturns
<1>3. ASSUME NEW d \in todo', "ERR" \in d.revents PROVE peer'[fds'[d.fd]] = "reset"
  <2>1. PICK fd \in DOMAIN clients :
           d = [fd |-> fd, revents |->
                   ReturnedEvents(fds[fd], RequestedEvents(clients[fd]), onReset)]
    BY <1>2, <1>3 DEF Descriptors
  <2>2. d.fd = fd /\ d.revents = ReturnedEvents(fds[fd], RequestedEvents(clients[fd]), onReset)
    BY <2>1
  <2>3. "ERR" \notin RequestedEvents(clients[fd])
    BY DEF RequestedEvents
  <2>4. peer[fds[fd]] = "reset"
    BY <1>3, <2>2, <2>3 DEF ReturnedEvents
  <2> QED BY <1>1, <2>2, <2>4 DEF netVars
<1>4. ErrInv'
  BY <1>3 DEF ErrInv
<1>5. LeaveInv'
  BY <1>1 DEF LeaveInv
<1> QED BY <1>1, <1>4, <1>5, OrderMove

\* A client is closed at once only for such an error.
LEMMA OrderEvents ==
    ASSUME Inv, OrderInv, handleClientEvents PROVE OrderInv'
<1>1. PICK d \in todo : /\ todo' = todo \ {d} /\ socket' = d.fd
                        /\ pc' = FirstStep(d.revents)
  BY DEF handleClientEvents, Goto
<1>2. UNCHANGED <<netVars, clients>>
  BY DEF handleClientEvents
<1>3. ErrInv'
  BY <1>1, <1>2 DEF OrderInv, ErrInv, netVars
<1>4. pc' = "close" => "ERR" \in d.revents
  BY <1>1 DEF FirstStep
<1>5. pc' = "close" => peer'[fds'[socket']] = "reset"
  BY <1>1, <1>2, <1>4 DEF OrderInv, ErrInv, netVars
<1>6. pc' # "processLast"
  BY <1>1 DEF FirstStep
<1>7. LeaveInv'
  BY <1>5, <1>6 DEF LeaveInv, CloseReason
<1> QED BY <1>2, <1>3, <1>7, OrderMove

\* The handling goes on without a change of the client: the reads end, or the
\* reply does.
LEMMA OrderHandling ==
    ASSUME Inv, OrderInv,
           RecvWouldBlock \/ RecvEnd \/ RecvError \/ NothingToReply \/ SendError
    PROVE  OrderInv'
<1>1. UNCHANGED <<netVars, clients, todo, socket>> /\ Handling
  BY DEF RecvWouldBlock, RecvEnd, RecvError, NothingToReply, SendError, Sending, Handling
<1>2. ErrInv'
  BY <1>1 DEF OrderInv, ErrInv, netVars
<1>3. UNCHANGED <<peer, sent, received, fds, clients, socket>>
  BY <1>1 DEF netVars
<1>4. /\ CloseReason => CloseReason'
      /\ AllRead => AllRead'
  BY <1>3 DEF CloseReason, AllRead, Me, pendingOutput
<1>5. CASE RecvWouldBlock
  <2>1. pc' # "processLast" /\ (pc' = "close" => CloseReason)
    BY <1>5 DEF RecvWouldBlock, Goto, AfterReading, CloseReason
  <2> QED BY <1>1, <1>2, <1>4, <2>1, OrderMove DEF LeaveInv
<1>6. CASE RecvEnd
  <2>1. fds[socket] \in Connection
    BY <1>1, MyClient
  <2>2. pc' = "processLast" /\ AllRead
    BY <1>6, <2>1 DEF RecvEnd, Goto, AllRead, Unread, Inv, Shape, NetInv
  <2> QED BY <1>1, <1>2, <1>4, <2>2, OrderMove DEF LeaveInv
<1>7. CASE RecvError \/ SendError
  <2>1. pc' = "close" /\ CloseReason
    BY <1>7 DEF RecvError, SendError, Goto, CloseReason
  <2> QED BY <1>1, <1>2, <1>4, <2>1, OrderMove DEF LeaveInv
<1>8. CASE NothingToReply
  <2>1. pc' # "processLast" /\ (pc' = "close" => CloseReason)
    BY <1>8 DEF NothingToReply, Goto, CloseWhenAnswered, CloseReason
  <2> QED BY <1>1, <1>2, <1>4, <2>1, OrderMove DEF LeaveInv
<1> QED BY <1>5, <1>6, <1>7, <1>8

-----------------------------------------------------------------------------
(***************************************************************************)
(* Replies on their way: none is lost, doubled or moved.                   *)
(***************************************************************************)
\* A peer that reads takes the first reply out of the socket.
LEMMA ReadMoves ==
    ASSUME NEW E, NEW g \in Seq(E), NEW t \in Seq(E), t # <<>>
    PROVE  Append(g, Head(t)) \o Tail(t) = g \o t
<1> DEFINE a == Append(g, Head(t))
           u == Tail(t)
<1>1. /\ Head(t) \in E /\ u \in Seq(E) /\ Len(u) = Len(t) - 1
      /\ \A i \in 1 .. Len(u) : u[i] = t[i + 1]
  BY HeadTailProperties
<1>2. Len(g) \in Nat /\ Len(t) \in Nat \ {0} /\ Head(t) = t[1]
  BY LenProperties, EmptySeq
<1>3. /\ a \in Seq(E) /\ Len(a) = Len(g) + 1 /\ \A i \in 1 .. Len(g) : a[i] = g[i]
      /\ a[Len(g) + 1] = t[1]
  BY <1>1, <1>2, AppendProperties
<1> HIDE DEF a, u
<1>4. /\ a \o u \in Seq(E) /\ Len(a \o u) = Len(a) + Len(u)
      /\ \A i \in 1 .. Len(a) + Len(u) : (a \o u)[i] = IF i <= Len(a) THEN a[i] ELSE u[i - Len(a)]
  BY <1>1, <1>3, ConcatProperties
<1>5. /\ g \o t \in Seq(E) /\ Len(g \o t) = Len(g) + Len(t)
      /\ \A i \in 1 .. Len(g) + Len(t) : (g \o t)[i] = IF i <= Len(g) THEN g[i] ELSE t[i - Len(g)]
  BY ConcatProperties
<1>6. Len(a \o u) = Len(g \o t) /\ Len(a) + Len(u) = Len(g) + Len(t)
  BY <1>1, <1>2, <1>3, <1>4, <1>5
<1>7. ASSUME NEW i \in 1 .. Len(g) + Len(t) PROVE (a \o u)[i] = (g \o t)[i]
  <2>1. CASE i <= Len(g)
    <3>1. i \in 1 .. Len(g) /\ i <= Len(a) /\ i \in 1 .. Len(a) + Len(u)
      BY <1>2, <1>3, <1>6, <2>1
    <3>2. (a \o u)[i] = a[i]
      BY <1>4, <3>1
    <3>3. (g \o t)[i] = g[i]
      BY <1>5, <2>1
    <3> QED BY <1>3, <3>1, <3>2, <3>3
  <2>2. CASE i = Len(g) + 1
    <3>1. (a \o u)[i] = a[Len(g) + 1]
      BY <1>2, <1>3, <1>4, <1>6, <2>2
    <3>2. (g \o t)[i] = t[1]
      <4>1. i - Len(g) = 1 /\ ~(i <= Len(g))
        BY <1>2, <2>2
      <4> QED BY <1>5, <4>1
    <3> QED BY <1>3, <3>1, <3>2
  <2>3. CASE i > Len(g) + 1
    <3>1. /\ ~(i <= Len(g)) /\ ~(i <= Len(a)) /\ i - Len(a) \in 1 .. Len(u)
          /\ (i - Len(a)) + 1 = i - Len(g)
      BY <1>1, <1>2, <1>3, <2>3
    <3>2. (a \o u)[i] = u[i - Len(a)]
      BY <1>4, <1>6, <3>1
    <3>3. u[i - Len(a)] = t[i - Len(g)]
      BY <1>1, <3>1
    <3>4. (g \o t)[i] = t[i - Len(g)]
      BY <1>5, <3>1
    <3> QED BY <3>2, <3>3, <3>4
  <2>4. i <= Len(g) \/ i = Len(g) + 1 \/ i > Len(g) + 1
    BY <1>2
  <2> QED BY <2>1, <2>2, <2>3, <2>4
<1>8. a \o u = g \o t
  BY <1>4, <1>5, <1>6, <1>7, SeqEqual
<1> QED BY <1>8 DEF a, u

\* One reply was put into the output, at its end.
OneMore(old, new, r) ==
    new.output = Append(old.output, r) /\ new.outputOffset = old.outputOffset

\* An answer is put behind the replies that are pending.
LEMMA PendingAppend ==
    ASSUME NEW P, NEW E, NEW old \in ClientWith(P, E), NEW new \in ClientWith(P, E),
           old.outputOffset <= Len(old.output), NEW r, OneMore(old, new, r)
    PROVE  /\ r \in E
           /\ PendingReplies(new) = Append(PendingReplies(old), r)
<1> DEFINE p == PendingReplies(old)
           q == PendingReplies(new)
<1>1. /\ old.output \in Seq(E) /\ new.output \in Seq(E) /\ old.outputOffset \in Nat
  BY DEF ClientWith
<1>2. /\ Len(old.output) \in Nat /\ Len(new.output) = Len(old.output) + 1
      /\ \A i \in 1 .. Len(old.output) : new.output[i] = old.output[i]
      /\ new.output[Len(old.output) + 1] = r
  <2>1. new.output = Append(old.output, r)
    BY DEF OneMore
  <2> QED BY <1>1, <2>1
<1>3. r \in E
  <2>1. Len(old.output) + 1 \in 1 .. Len(new.output)
    BY <1>2
  <2> QED BY <1>1, <1>2, <2>1, ElementOfSeq
<1>4. new.outputOffset <= Len(new.output) /\ new.outputOffset = old.outputOffset
  BY <1>1, <1>2 DEF OneMore
<1>5. /\ p \in Seq(E) /\ Len(p) = Len(old.output) - old.outputOffset
      /\ \A i \in 1 .. Len(p) : p[i] = old.output[old.outputOffset + i]
  BY PendingType DEF pendingOutput
<1>6. /\ q \in Seq(E) /\ Len(q) = Len(new.output) - old.outputOffset
      /\ \A i \in 1 .. Len(q) : q[i] = new.output[old.outputOffset + i]
  <2>1. /\ q \in Seq(E) /\ Len(q) = pendingOutput(new)
        /\ \A i \in 1 .. pendingOutput(new) : q[i] = new.output[new.outputOffset + i]
    <3>1. new \in ClientWith(P, E)
      OBVIOUS
    <3> QED BY ONLY <1>4, <3>1, PendingType DEF q
  <2> QED BY <1>4, <2>1 DEF pendingOutput
<1> HIDE DEF p, q
<1>7. /\ Append(p, r) \in Seq(E) /\ Len(Append(p, r)) = Len(p) + 1
      /\ \A i \in 1 .. Len(p) : Append(p, r)[i] = p[i]
      /\ Append(p, r)[Len(p) + 1] = r
  BY <1>3, <1>5, AppendProperties
<1>8. Len(q) = Len(Append(p, r)) /\ Len(p) \in Nat /\ Len(q) = Len(p) + 1
  BY <1>1, <1>2, <1>5, <1>6, <1>7
<1>9. ASSUME NEW i \in 1 .. Len(q) PROVE q[i] = Append(p, r)[i]
  <2>1. CASE i <= Len(p)
    <3>1. i \in 1 .. Len(p) /\ old.outputOffset + i \in 1 .. Len(old.output)
      BY <1>1, <1>2, <1>5, <1>8, <2>1, SMTT(30)
    <3> QED BY <1>2, <1>5, <1>6, <1>7, <3>1
  <2>2. CASE i = Len(p) + 1
    <3>1. old.outputOffset + i = Len(old.output) + 1
      BY <1>1, <1>2, <1>5, <1>8, <2>2
    <3> QED BY <1>2, <1>6, <1>7, <2>2, <3>1
  <2> QED BY <1>8, <2>1, <2>2
<1>10. q = Append(p, r)
  BY <1>6, <1>7, <1>8, <1>9, SeqEqual
<1> QED BY <1>3, <1>10 DEF p, q

\* What is sent and what is left of the pending replies are the pending replies.
LEMMA PendingSent ==
    ASSUME NEW P, NEW E, NEW old \in ClientWith(P, E), NEW new \in ClientWith(P, E),
           old.outputOffset <= Len(old.output), NEW n \in 1 .. pendingOutput(old),
           new.output = old.output, new.outputOffset = old.outputOffset + n
    PROVE  /\ SubSeq(PendingReplies(old), 1, n) \in Seq(E)
           /\ PendingReplies(new) \in Seq(E)
           /\ SubSeq(PendingReplies(old), 1, n) \o PendingReplies(new) = PendingReplies(old)
<1> DEFINE p == PendingReplies(old)
           q == PendingReplies(new)
           s == SubSeq(p, 1, n)
<1>1. old.output \in Seq(E) /\ old.outputOffset \in Nat /\ Len(old.output) \in Nat
  BY LenProperties DEF ClientWith
<1>2. new.outputOffset <= Len(new.output) /\ n \in Nat \ {0}
  BY <1>1 DEF pendingOutput
<1>3. /\ p \in Seq(E) /\ Len(p) = Len(old.output) - old.outputOffset
      /\ \A i \in 1 .. Len(p) : p[i] = old.output[old.outputOffset + i]
  BY PendingType DEF pendingOutput
<1>4. /\ q \in Seq(E) /\ Len(q) = Len(old.output) - (old.outputOffset + n)
      /\ \A i \in 1 .. Len(q) : q[i] = old.output[(old.outputOffset + n) + i]
  BY <1>2, PendingType DEF pendingOutput
<1>5. n <= Len(p) /\ Len(p) \in Nat /\ Len(q) = Len(p) - n /\ Len(q) \in Nat
  BY <1>1, <1>2, <1>3, <1>4 DEF pendingOutput
<1> HIDE DEF p, q
<1>6. /\ s \in Seq(E) /\ Len(s) = n /\ \A i \in 1 .. n : s[i] = p[i]
  <2>1. \A i \in 1 .. n : p[i] \in E
    BY <1>3, <1>5, ElementOfSeq
  <2>2. /\ s \in Seq(E) /\ Len(s) = (IF 1 <= n THEN n - 1 + 1 ELSE 0)
        /\ \A i \in 1 .. n - 1 + 1 : s[i] = p[1 + i - 1]
    BY <1>2, <2>1, SubSeqProperties
  <2>3. n - 1 + 1 = n /\ \A i \in 1 .. n : 1 + i - 1 = i
    BY <1>2
  <2> QED BY <1>2, <2>2, <2>3
<1> HIDE DEF s
<1>7. /\ s \o q \in Seq(E) /\ Len(s \o q) = Len(s) + Len(q)
      /\ \A i \in 1 .. Len(s) + Len(q) : (s \o q)[i] = IF i <= Len(s) THEN s[i] ELSE q[i - Len(s)]
  <2>1. s \in Seq(E) /\ q \in Seq(E)
    BY <1>4, <1>6
  <2> QED BY <2>1, ConcatProperties
<1>8. Len(s \o q) = Len(p) /\ Len(s) + Len(q) = Len(p)
  BY <1>2, <1>5, <1>6, <1>7
<1>9. ASSUME NEW i \in 1 .. Len(p) PROVE (s \o q)[i] = p[i]
  <2>1. CASE i <= n
    BY <1>2, <1>6, <1>7, <1>8, <2>1
  <2>2. CASE ~(i <= n)
    <3>1. i - n \in 1 .. Len(q) /\ (old.outputOffset + n) + (i - n) = old.outputOffset + i
      <4>1. \A o, l \in Nat : \A j \in 1 .. l : ~(j <= n) =>
               j - n \in 1 .. l - n /\ (o + n) + (j - n) = o + j
        BY <1>2
      <4> QED BY <1>1, <1>5, <2>2, <4>1
    <3>2. (s \o q)[i] = q[i - n]
      BY <1>6, <1>7, <1>8, <2>2
    <3> QED BY <1>3, <1>4, <3>1, <3>2
  <2> QED BY <2>1, <2>2
<1>10. s \o q = p
  BY <1>3, <1>7, <1>8, <1>9, SeqEqual
<1> QED BY <1>4, <1>6, <1>10 DEF p, q, s

\* Compaction throws away only what was sent.
LEMMA PendingCompacted ==
    ASSUME NEW P, NEW E, NEW client \in ClientWith(P, E),
           client.outputOffset <= Len(client.output)
    PROVE  PendingReplies(Compacted(client)) = PendingReplies(client)
<1> DEFINE new == Compacted(client)
           p == PendingReplies(client)
           q == PendingReplies(new)
<1>1. /\ new \in ClientWith(P, E) /\ new.outputOffset <= Len(new.output) \div 2
      /\ pendingOutput(new) = pendingOutput(client)
  BY CompactedType
<1>2. /\ client.outputOffset \in Nat /\ Len(client.output) \in Nat
      /\ client = [input |-> client.input, output |-> client.output,
                   outputOffset |-> client.outputOffset,
                   closeAfterWrite |-> client.closeAfterWrite]
  BY LenProperties DEF ClientWith
<1>3. \/ pendingOutput(client) = 0
      \/ new.output = p /\ new.outputOffset = 0
      \/ new = client
  BY <1>2 DEF Compacted, pendingOutput
<1> HIDE DEF new
<1>4. new.outputOffset <= Len(new.output)
  <2>1. new.outputOffset \in Nat /\ Len(new.output) \in Nat
    BY <1>1, LenProperties DEF ClientWith
  <2>2. \A a, b \in Nat : a <= b \div 2 => a <= b
    OBVIOUS
  <2> QED BY <1>1, <2>1, <2>2
<1>5. p \in Seq(E) /\ Len(p) = pendingOutput(client) /\ pendingOutput(client) \in Nat
  BY PendingType
<1>6. /\ q \in Seq(E) /\ Len(q) = pendingOutput(client)
      /\ \A i \in 1 .. pendingOutput(client) : q[i] = new.output[new.outputOffset + i]
  BY <1>1, <1>4, PendingType
<1>7. CASE pendingOutput(client) = 0
  <2>1. \A i \in 1 .. Len(q) : q[i] = p[i]
    BY <1>6, <1>7
  <2> HIDE DEF p, q
  <2>2. q = p
    BY <1>5, <1>6, <2>1, SeqEqual
  <2> QED BY <2>2 DEF p, q, new
<1>8. CASE new.output = p /\ new.outputOffset = 0
  <2> HIDE DEF p, q
  <2>1. \A i \in 1 .. pendingOutput(client) : 0 + i = i
    BY <1>5
  <2>2. \A i \in 1 .. Len(q) : q[i] = p[i]
    BY <1>6, <1>8, <2>1
  <2>3. q = p
    BY <1>5, <1>6, <2>2, SeqEqual
  <2> QED BY <2>3 DEF p, q, new
<1>9. CASE new = client
  BY <1>9 DEF new
<1> QED BY <1>3, <1>7, <1>8, <1>9

-----------------------------------------------------------------------------
(***************************************************************************)
(* The peers, and connections that come and go.                            *)
(***************************************************************************)
\* What a peer has read stays in order when the rest is lost.
LEMMA HandedLost ==
    ASSUME Inv, HandedInv, NEW c \in Connection
    PROVE  AnswersFirst(got[c] \o <<>>, c, Due(c, received[c]))
<1>1. PICK g, t, n : g = got[c] /\ t = tx[c] /\ n = received[c]
  OBVIOUS
<1>2. g \in Seq(Earned(c)) /\ t \in Seq(Earned(c)) /\ scenario \in Scenarios
  BY <1>1 DEF Inv, Shape, NetInv
<1>3. AnswersFirst(g \o t, c, Due(c, n))
  BY <1>1 DEF HandedInv
<1>4. Numbered(Earned(c))
  BY <1>2, EarnedNumbered
<1>5. AnswersFirst(g, c, Due(c, n))
  BY <1>2, <1>3, <1>4, FirstPrefix
<1>6. g \o <<>> = g
  BY <1>2, ConcatEmptySeq
<1>7. AnswersFirst(g \o <<>>, c, Due(c, n))
  BY <1>5, <1>6, Zenon
<1> QED BY <1>1, <1>7, Zenon

\* Nothing is added to what the peers were given.
LEMMA HandedStay ==
    ASSUME Inv, HandedInv, UNCHANGED <<scenario, received>>,
           \A c \in Connection : \/ got'[c] \o tx'[c] = got[c] \o tx[c]
                                 \/ got'[c] = got[c] /\ tx'[c] = <<>>
    PROVE  HandedInv'
<1> SUFFICES ASSUME NEW c \in Connection
             PROVE  AnswersFirst(got'[c] \o tx'[c], c, Due(c, received[c])')
  BY DEF HandedInv
<1>1. Due(c, received[c])' = Due(c, received[c])
  <2>1. PICK n : n = received[c]
    OBVIOUS
  <2>2. Due(c, n)' = Due(c, n)
    BY SameRequests
  <2> QED BY <2>1, <2>2
<1>2. AnswersFirst(got[c] \o tx[c], c, Due(c, received[c]))
  BY DEF HandedInv
<1>3. AnswersFirst(got[c] \o <<>>, c, Due(c, received[c]))
  BY HandedLost
<1> QED BY <1>1, <1>2, <1>3, Zenon

\* A peer's step for one connection: the replies are the same, or it is gone.
LEMMA PeerEffect ==
    ASSUME Inv, NEW p \in Connection, Peers(p), NEW c \in Connection
    PROVE  /\ peer[c] # "open" => sent'[c] = sent[c] /\ peer'[c] # "open"
           /\ peer[c] = "reset" => peer'[c] = "reset"
           /\ \/ got'[c] \o tx'[c] = got[c] \o tx[c]
              \/ peer'[c] = "reset" /\ got'[c] = got[c] /\ tx'[c] = <<>>
           /\ status'[c] \in {"new", "backlog"} => status[c] \in {"new", "backlog"}
           /\ tx[c] = <<>> => tx'[c] = <<>> /\ got'[c] = got[c]
<1>0. /\ status = [x \in Connection |-> status[x]] /\ peer = [x \in Connection |-> peer[x]]
      /\ sent = [x \in Connection |-> sent[x]]
      /\ tx = [x \in Connection |-> tx[x]] /\ got = [x \in Connection |-> got[x]]
      /\ tx[c] \in Seq(Earned(c)) /\ got[c] \in Seq(Earned(c))
  BY DEF Inv, Shape, NetInv
<1>1. CASE Connect(p)
  BY <1>0, <1>1 DEF Connect
<1>2. CASE PeerSends(p)
  BY <1>0, <1>2 DEF PeerSends
<1>3. CASE PeerFinishes(p)
  BY <1>0, <1>3 DEF PeerFinishes
<1>4. CASE PeerResets(p)
  BY <1>0, <1>4 DEF PeerResets
<1>5. CASE PeerReads(p)
  <2>1. UNCHANGED <<status, peer, sent>> /\ tx[p] # <<>>
    BY <1>5 DEF PeerReads
  <2>2. c # p => tx'[c] = tx[c] /\ got'[c] = got[c]
    BY <1>0, <1>5 DEF PeerReads
  <2>3. c = p => tx'[c] = Tail(tx[c]) /\ got'[c] = Append(got[c], Head(tx[c]))
    BY <1>0, <1>5 DEF PeerReads
  <2>4. c = p => Append(got[c], Head(tx[c])) \o Tail(tx[c]) = got[c] \o tx[c]
    <3>1. PICK g, t : g = got[c] /\ t = tx[c]
      OBVIOUS
    <3>2. g \in Seq(Earned(c)) /\ t \in Seq(Earned(c)) /\ (c = p => t # <<>>)
      BY <1>0, <2>1, <3>1, Zenon
    <3>3. c = p => Append(g, Head(t)) \o Tail(t) = g \o t
      BY <3>2, ReadMoves
    <3> QED BY <3>1, <3>3, Zenon
  <2>5. got'[c] \o tx'[c] = got[c] \o tx[c]
    BY <2>2, <2>3, <2>4, Zenon
  <2>6. tx[c] = <<>> => c # p
    BY <2>1, Zenon
  <2> QED BY <2>1, <2>2, <2>5, <2>6
<1> QED BY <1>1, <1>2, <1>3, <1>4, <1>5 DEF Peers

\* The peers keep the order.
LEMMA OrderPeers ==
    ASSUME Inv, OrderInv, NEW p \in Connection, Peers(p) PROVE OrderInv'
<1>1. /\ UNCHANGED <<scenario, received, fds, clients, todo, socket, pc>>
      /\ pc \notin {"close", "processLast"}
  BY DEF Peers, Connect, PeerSends, PeerFinishes, PeerResets, PeerReads, loopVars,
     InSystemCall
<1>2. TalksInv'
  BY <1>1, PeerEffect, TalksStay DEF OrderInv
<1>3. HandedInv'
  BY <1>1, PeerEffect, HandedStay DEF OrderInv
<1>4. FreshInv'
  BY <1>1, PeerEffect DEF OrderInv, FreshInv
<1>5. ErrInv'
  <2> SUFFICES ASSUME NEW d \in todo, "ERR" \in d.revents PROVE peer'[fds[d.fd]] = "reset"
    BY <1>1 DEF ErrInv
  <2>1. d.fd \in DOMAIN fds /\ fds[d.fd] \in Connection
    BY DEF Inv, Shape, LoopInv, DescriptorInv
  <2>2. peer[fds[d.fd]] = "reset"
    BY DEF OrderInv, ErrInv
  <2> QED BY <2>1, <2>2, PeerEffect
<1>6. LeaveInv'
  BY <1>1 DEF LeaveInv
<1> QED BY <1>2, <1>3, <1>4, <1>5, <1>6 DEF OrderInv

\* A new client is at the beginning.
LEMMA NewConversation ==
    ASSUME scenario \in Scenarios, NEW c \in Connection,
           received[c] = 0, got[c] = <<>>, tx[c] = <<>>
    PROVE  Conversation(c, Client, 0, FALSE)
<1>1. EndOf(c, 0) = 0
  <2>1. PICK m : m = Len(scenario.requests[c])
    OBVIOUS
  <2> QED BY <2>1, StreamLayout
<1>2. Client.input = <<>> /\ Client.output = <<>> /\ Client.outputOffset = 0
      /\ ~Client.closeAfterWrite
  BY DEF Client
<1>3. Len(Client.input) = 0
  BY <1>2
<1>4. Taken(c, Client, 0)
  BY <1>1, <1>3 DEF Taken
<1>5. Closing(c, Client, 0, FALSE)
  BY <1>2 DEF Closing, QuitAt
<1>6. Replied(c, Client) = <<>>
  <2>1. PendingReplies(Client) = <<>>
    BY <1>2 DEF PendingReplies
  <2>2. <<>> \o <<>> = <<>>
    OBVIOUS
  <2> QED BY <2>1, <2>2, Zenon DEF Replied
<1>7. AnswersAll(Replied(c, Client), c, Given(c, 0, FALSE))
  <2>1. Given(c, 0, FALSE) = {}
    BY DEF Given
  <2>2. DOMAIN <<>> = {}
    OBVIOUS
  <2>3. DOMAIN Replied(c, Client) = {}
    BY <1>6, <2>2, Zenon
  <2> QED BY <2>1, <2>3, Zenon DEF AnswersAll, Answered
<1> QED BY <1>4, <1>5, <1>7 DEF Conversation

\* Accepting begins a conversation and leaves the others as they are.
LEMMA OrderAccept ==
    ASSUME Inv, OrderInv, NEW c \in Connection, Accept(c) PROVE OrderInv'
<1> PICK n : n = Min(FreeFds)
  OBVIOUS
<1>1. scenario.fds \in Nat /\ FreeFds \subseteq Nat /\ FreeFds # {}
  BY ScenariosAssumption DEF Inv, Shape, NetInv, Accept, FreeFds
<1>2. n \notin DOMAIN fds
  BY <1>1, MinProperties DEF FreeFds
<1>3. /\ fds' = Emplaced(fds, n, c) /\ clients' = Emplaced(clients, n, Client)
      /\ status' = [status EXCEPT ![c] = "open"] /\ status[c] = "backlog"
      /\ pc = "accept" /\ pc' = pc
      /\ UNCHANGED <<scenario, peer, sent, received, tx, got, todo>>
  BY DEF Accept, Backlog
<1>4. /\ DOMAIN fds' = DOMAIN fds \cup {n} /\ fds'[n] = c /\ clients'[n] = Client
      /\ \A fd \in DOMAIN fds : fds'[fd] = fds[fd] /\ clients'[fd] = clients[fd]
  BY <1>2, <1>3 DEF Emplaced, Inv, Shape, ClientInv
<1>5. Talks(n)'
  <2>1. received[c] = 0 /\ got[c] = <<>> /\ tx[c] = <<>> /\ scenario \in Scenarios
    BY <1>3 DEF OrderInv, FreshInv, Inv, Shape, NetInv
  <2>2. Conversation(c, Client, 0, FALSE)
    BY <2>1, NewConversation
  <2>3. Conversation(c, Client, 0, FALSE)'
    <3>1. PICK client, k, refused : client = Client /\ k = 0 /\ refused = FALSE
      OBVIOUS
    <3>2. Conversation(c, client, k, refused)
      BY <2>2, <3>1
    <3>3. Conversation(c, client, k, refused)'
      BY <1>3, <3>2, ConversationStays
    <3> QED BY <3>1, <3>3
  <2>4. 0 \in 0 .. Len(scenario.requests[c])
    BY <2>1, RequestType
  <2> QED BY <1>3, <1>4, <2>3, <2>4 DEF Talks
<1>6. ASSUME NEW fd \in DOMAIN fds PROVE Talks(fd)'
  <2>1. PICK x : x = fds[fd]
    OBVIOUS
  <2> QED BY <1>3, <1>4, <2>1, TalkStays DEF OrderInv
<1>7. TalksInv'
  BY <1>4, <1>5, <1>6 DEF TalksInv
<1>8. HandedInv'
  BY <1>3, HandedStay DEF OrderInv
<1>9. FreshInv'
  BY <1>3 DEF OrderInv, FreshInv, Inv, Shape, NetInv
<1>10. ErrInv'
  <2>1. \A d \in todo : d.fd \in DOMAIN fds
    BY DEF Inv, Shape, LoopInv
  <2> QED BY <1>3, <1>4, <2>1 DEF OrderInv, ErrInv
<1>11. LeaveInv'
  BY <1>3 DEF LeaveInv
<1> QED BY <1>7, <1>8, <1>9, <1>10, <1>11 DEF OrderInv

\* Hanging up ends one conversation and leaves the others as they are.
LEMMA OrderClose ==
    ASSUME Inv, OrderInv, CloseClient PROVE OrderInv'
<1> PICK c : c = fds[socket]
  OBVIOUS
<1>1. socket \in DOMAIN fds /\ c \in Connection /\ pc = "close"
  BY MyClient DEF CloseClient, Handling
<1>2. /\ fds' = Without(fds, socket) /\ clients' = Without(clients, socket)
      /\ status' = [status EXCEPT ![c] = "closed"] /\ pc' = "events"
      /\ tx' = tx \/ tx' = [tx EXCEPT ![c] = <<>>]
      /\ UNCHANGED <<scenario, peer, sent, received, got, todo, socket>>
  BY DEF CloseClient, Goto
<1>3. /\ DOMAIN fds' = DOMAIN fds \ {socket}
      /\ \A fd \in DOMAIN fds' : fds'[fd] = fds[fd] /\ clients'[fd] = clients[fd]
  BY <1>2 DEF Without, Inv, Shape, ClientInv
<1>4. \A x \in Connection : /\ x # c => tx'[x] = tx[x]
                            /\ tx'[x] = tx[x] \/ tx'[x] = <<>>
  BY <1>1, <1>2 DEF Inv, Shape, NetInv
<1>5. ASSUME NEW fd \in DOMAIN fds' PROVE Talks(fd)'
  <2>1. PICK x : x = fds[fd]
    OBVIOUS
  <2>2. fd \in DOMAIN fds /\ x \in Connection /\ x # c
    BY <1>1, <1>3, <2>1 DEF Inv, Shape, DescriptorInv
  <2>3. tx'[x] = tx[x] /\ fds'[fd] = fds[fd] /\ clients'[fd] = clients[fd]
    BY <1>3, <1>4, <2>2
  <2> QED BY <1>2, <2>1, <2>2, <2>3, TalkStays DEF OrderInv
<1>6. TalksInv'
  BY <1>5 DEF TalksInv
<1>7. HandedInv'
  BY <1>2, <1>4, HandedStay DEF OrderInv
<1>8. FreshInv'
  BY <1>1, <1>2, <1>4 DEF OrderInv, FreshInv, Inv, Shape, NetInv
<1>9. ErrInv'
  <2>1. \A d \in todo : d.fd \in DOMAIN fds'
    BY <1>1, <1>3 DEF Inv, Shape, LoopInv, Handling
  <2> QED BY <1>2, <1>3, <2>1 DEF OrderInv, ErrInv
<1>10. LeaveInv'
  BY <1>2 DEF LeaveInv
<1> QED BY <1>6, <1>7, <1>8, <1>9, <1>10 DEF OrderInv

\* At the end there are no clients, and what was handed over may be lost.
LEMMA OrderStop ==
    ASSUME Inv, OrderInv, Stop PROVE OrderInv'
<1>1. /\ fds' = <<>> /\ pc' = "exit" /\ pc = "stop"
      /\ UNCHANGED <<scenario, peer, sent, received, got, todo>>
  BY DEF Stop, Goto
<1>2. /\ \A c \in Connection : tx'[c] = tx[c] \/ tx'[c] = <<>>
      /\ \A c \in Connection : status'[c] \in {"new", "backlog"} => status[c] \in {"new", "backlog"}
  BY DEF Stop, Connected
<1>3. DOMAIN fds' = {} /\ todo = {}
  BY <1>1 DEF Inv, Shape, LoopInv
<1>4. TalksInv'
  BY <1>3 DEF TalksInv
<1>5. HandedInv'
  BY <1>1, <1>2, HandedStay DEF OrderInv
<1>6. FreshInv'
  BY <1>1, <1>2 DEF OrderInv, FreshInv
<1>7. ErrInv'
  BY <1>1, <1>3 DEF ErrInv
<1>8. LeaveInv'
  BY <1>1 DEF LeaveInv
<1> QED BY <1>4, <1>5, <1>6, <1>7, <1>8 DEF OrderInv

-----------------------------------------------------------------------------
(***************************************************************************)
(* The steps that change a client.                                         *)
(***************************************************************************)
\* A step that moves the conversation of the client being handled.
LEMMA OrderSetClient ==
    ASSUME Inv, OrderInv, Handling, NEW client, SetClient(client), NEW c, c = fds[socket],
           UNCHANGED <<scenario, status, peer, sent, got, fds, todo, socket>>,
           \A x \in Connection : x # c => received'[x] = received[x] /\ tx'[x] = tx[x],
           NEW k \in 0 .. Len(scenario.requests[c]), NEW refused \in BOOLEAN,
           Conversation(c, client, k, refused)',
           NEW n, n = received'[c], AnswersFirst(got[c] \o tx'[c], c, Due(c, n)),
           LeaveInv'
    PROVE  OrderInv'
<1>1. socket \in DOMAIN fds /\ c \in Connection
  BY MyClient
<1>2. /\ clients'[socket] = client
      /\ \A fd \in DOMAIN fds : fd # socket => clients'[fd] = clients[fd]
  BY <1>1 DEF SetClient, Inv, Shape, ClientInv
<1>3. ASSUME NEW fd \in DOMAIN fds PROVE Talks(fd)'
  <2>1. CASE fd = socket
    <3>1. fds'[fd] = c /\ clients'[fd] = client
      BY <1>2, <2>1
    <3> QED BY <3>1 DEF Talks
  <2>2. CASE fd # socket
    <3>1. PICK x : x = fds[fd]
      OBVIOUS
    <3>2. x \in Connection /\ x # c
      BY <1>1, <2>2, <3>1 DEF Inv, Shape, DescriptorInv
    <3>3. received'[x] = received[x] /\ tx'[x] = tx[x] /\ clients'[fd] = clients[fd]
      BY <1>2, <2>2, <3>2
    <3> QED BY <3>1, <3>2, <3>3, TalkStays DEF OrderInv
  <2> QED BY <2>1, <2>2
<1>4. TalksInv'
  BY <1>3 DEF TalksInv
<1>5. HandedInv'
  <2> SUFFICES ASSUME NEW x \in Connection
               PROVE  AnswersFirst(got'[x] \o tx'[x], x, Due(x, received[x])')
    BY DEF HandedInv
  <2>1. PICK m : m = received'[x]
    OBVIOUS
  <2>2. Due(x, received[x])' = Due(x, m)
    BY <2>1, SameRequests
  <2>3. CASE x = c
    BY <2>1, <2>2, <2>3
  <2>4. CASE x # c
    <3>1. m = received[x] /\ tx'[x] = tx[x] /\ got'[x] = got[x]
      BY <2>1, <2>4
    <3>2. AnswersFirst(got[x] \o tx[x], x, Due(x, m))
      BY <3>1 DEF OrderInv, HandedInv
    <3> QED BY <2>2, <3>1, <3>2
  <2> QED BY <2>3, <2>4
<1>6. FreshInv'
  <2>1. status[c] = "open"
    BY <1>1 DEF Inv, Shape, DescriptorInv
  <2> QED BY <2>1 DEF OrderInv, FreshInv
<1>7. ErrInv'
  BY DEF OrderInv, ErrInv
<1> QED BY <1>4, <1>5, <1>6, <1>7 DEF OrderInv

\* What recv does to the client: the next n units of the stream go to the end
\* of its input.
Receives(c, client, n) ==
    /\ SetClient(client) /\ n \in Nat \ {0} /\ received[c] + n <= sent[c]
    /\ received' = [received EXCEPT ![c] = received[c] + n]
    /\ client.input \in Seq(Piece(c)) /\ Len(client.input) = Len(Me.input) + n
    /\ \A i \in 1 .. Len(Me.input) : client.input[i] = Me.input[i]
    /\ \A i \in 1 .. n : client.input[Len(Me.input) + i] = Stream(c)[received[c] + i]
    /\ client.output = Me.output /\ client.outputOffset = Me.outputOffset
    /\ client.closeAfterWrite = Me.closeAfterWrite
    /\ pc' = "close" => Len(client.input) > MaxQueryBuffer
    /\ pc' # "processLast"

\* readFromClient does that.
LEMMA RecvEffect ==
    ASSUME Inv, RecvData, NEW c, c = fds[socket] PROVE \E client, n : Receives(c, client, n)
<1> DEFINE n == Min({Unread(c), ReadChunkSize})
           more == SubSeq(Stream(c), received[c] + 1, received[c] + n)
           input == Me.input \o more
           client == [Me EXCEPT !.input = input]
<1>0. Handling
  BY DEF RecvData, Handling
<1>1. /\ c \in Connection /\ Me \in ClientOf(c)
      /\ Me.input \in Seq(Piece(c)) /\ Len(Me.input) \in Nat
  BY <1>0, MyClient
<1>2. /\ n > 0 /\ received' = [received EXCEPT ![c] = @ + n] /\ SetClient(client)
      /\ pc' = (IF n < ReadChunkSize \/ reads + 1 = MaxReadsPerEvent
                THEN AfterReading(input) ELSE "read")
  BY DEF RecvData, Goto
<1>3. /\ received[c] \in Nat /\ sent[c] \in Nat /\ received[c] <= sent[c]
      /\ sent[c] <= Len(Stream(c)) /\ Stream(c) \in Seq(Piece(c))
      /\ received \in [Connection -> Nat]
  BY <1>1, StreamType DEF Inv, Shape, NetInv
<1>4. n \in Nat /\ n <= sent[c] - received[c]
  <2>1. {Unread(c), ReadChunkSize} \subseteq Nat
    BY <1>3, LimitsAssumption DEF Unread
  <2> QED BY <2>1, MinProperties DEF Unread
<1> HIDE DEF n
<1>5. received[c] + n \in Nat /\ received[c] + n <= sent[c]
  BY <1>3, <1>4
<1>6. /\ more \in Seq(Piece(c)) /\ Len(more) = n
      /\ \A i \in 1 .. n : more[i] = Stream(c)[received[c] + i]
  <2>1. Len(Stream(c)) \in Nat
    BY <1>3, LenProperties
  <2>2. \A i \in received[c] + 1 .. received[c] + n : i \in 1 .. Len(Stream(c))
    BY <1>3, <1>5, <2>1
  <2>3. \A i \in received[c] + 1 .. received[c] + n : Stream(c)[i] \in Piece(c)
    BY <1>3, <2>2, ElementOfSeq
  <2>4. received[c] + 1 \in Int /\ received[c] + n \in Int
    BY <1>3, <1>5
  <2>5. /\ more \in Seq(Piece(c))
        /\ Len(more) = (IF received[c] + 1 <= received[c] + n
                        THEN (received[c] + n) - (received[c] + 1) + 1 ELSE 0)
        /\ \A i \in 1 .. (received[c] + n) - (received[c] + 1) + 1 :
              more[i] = Stream(c)[(received[c] + 1) + i - 1]
    BY <2>3, <2>4, SubSeqProperties
  <2> HIDE DEF more
  <2>6. \A x, m \in Nat : m > 0 => x + 1 <= x + m /\ (x + m) - (x + 1) + 1 = m
    OBVIOUS
  <2>7. \A x \in Nat : \A i \in 1 .. n : (x + 1) + i - 1 = x + i
    BY <1>4
  <2>8. (received[c] + n) - (received[c] + 1) + 1 = n /\ received[c] + 1 <= received[c] + n
    BY <1>2, <1>3, <1>4, <2>6
  <2>9. Len(more) = n
    BY <2>5, <2>8
  <2>10. ASSUME NEW i \in 1 .. n PROVE more[i] = Stream(c)[received[c] + i]
    <3>1. more[i] = Stream(c)[(received[c] + 1) + i - 1]
      BY <2>5, <2>8
    <3>2. (received[c] + 1) + i - 1 = received[c] + i
      BY <1>3, <2>7
    <3> QED BY <3>1, <3>2
  <2> QED BY <2>5, <2>9, <2>10
<1> HIDE DEF more
<1>7. /\ input \in Seq(Piece(c)) /\ Len(input) = Len(Me.input) + Len(more)
      /\ \A i \in 1 .. Len(Me.input) + Len(more) :
            input[i] = IF i <= Len(Me.input) THEN Me.input[i] ELSE more[i - Len(Me.input)]
  <2>1. Me.input \in Seq(Piece(c)) /\ more \in Seq(Piece(c))
    BY <1>1, <1>6
  <2> QED BY ONLY <2>1, ConcatProperties DEF input
<1> HIDE DEF input
<1>8. \A i \in 1 .. Len(Me.input) : input[i] = Me.input[i]
  BY <1>1, <1>4, <1>6, <1>7
<1>9. \A i \in 1 .. n : input[Len(Me.input) + i] = Stream(c)[received[c] + i]
  <2> SUFFICES ASSUME NEW i \in 1 .. n
               PROVE  input[Len(Me.input) + i] = Stream(c)[received[c] + i]
    OBVIOUS
  <2>1. /\ Len(Me.input) + i \in 1 .. Len(Me.input) + n
        /\ ~(Len(Me.input) + i <= Len(Me.input))
        /\ (Len(Me.input) + i) - Len(Me.input) = i
    BY <1>1, <1>4
  <2>2. input[Len(Me.input) + i] = more[i]
    BY <1>6, <1>7, <2>1
  <2> QED BY <1>6, <2>2
<1>10. /\ client.input = input /\ client.output = Me.output
       /\ client.outputOffset = Me.outputOffset
       /\ client.closeAfterWrite = Me.closeAfterWrite
  BY <1>1 DEF ClientOf, ClientWith
<1>11. pc' # "processLast" /\ (pc' = "close" => Len(input) > MaxQueryBuffer)
  BY <1>2 DEF AfterReading
<1>12. received' = [received EXCEPT ![c] = received[c] + n]
  BY <1>1, <1>2, <1>3
<1>13. SetClient(client) /\ n \in Nat \ {0}
  BY <1>2, <1>4
<1> HIDE DEF client
<1>14. Len(input) = Len(Me.input) + n
  BY <1>6, <1>7
<1>15. Receives(c, client, n)
  BY <1>5, <1>7, <1>8, <1>9, <1>10, <1>11, <1>12, <1>13, <1>14, Zenon DEF Receives
<1> QED BY <1>15, Zenon

\* The conversation of the client being handled.
LEMMA MyConversation ==
    ASSUME Inv, OrderInv, Handling, NEW c, c = fds[socket]
    PROVE  /\ scenario \in Scenarios /\ c \in Connection
           /\ received[c] \in Nat /\ received[c] <= Len(Stream(c))
           /\ AnswersFirst(got[c] \o tx[c], c, Due(c, received[c]))
           /\ \E k \in 0 .. Len(scenario.requests[c]), refused \in BOOLEAN :
                 Conversation(c, Me, k, refused)
<1>1. socket \in DOMAIN fds /\ c \in Connection
  BY MyClient
<1>2. /\ scenario \in Scenarios /\ received[c] \in Nat /\ received[c] <= Len(Stream(c))
  <2>1. /\ received[c] \in Nat /\ sent[c] \in Nat /\ received[c] <= sent[c]
        /\ sent[c] <= Len(Stream(c)) /\ scenario \in Scenarios
    BY <1>1 DEF Inv, Shape, NetInv
  <2>2. Len(Stream(c)) \in Nat
    BY <1>1, <2>1, StreamType, LenProperties
  <2> QED BY <2>1, <2>2
<1>3. AnswersFirst(got[c] \o tx[c], c, Due(c, received[c]))
  BY <1>1 DEF OrderInv, HandedInv
<1> QED BY <1>1, <1>2, <1>3 DEF OrderInv, TalksInv, Talks, Me

\* Reading adds to what was received behind the same requests.
LEMMA OrderRecvData ==
    ASSUME Inv, OrderInv, RecvData PROVE OrderInv'
<1> PICK c : c = fds[socket]
  OBVIOUS
<1> PICK me : me = Me
  OBVIOUS
<1>0. Handling /\ UNCHANGED <<scenario, status, peer, sent, tx, got, fds, todo, socket>>
  BY DEF RecvData, Handling
<1>1. PICK client, n : Receives(c, client, n)
  BY RecvEffect
<1>2. /\ scenario \in Scenarios /\ c \in Connection
      /\ received[c] \in Nat /\ AnswersFirst(got[c] \o tx[c], c, Due(c, received[c]))
  BY <1>0, MyConversation
<1>3. PICK k \in 0 .. Len(scenario.requests[c]), refused \in BOOLEAN :
         Conversation(c, me, k, refused)
  BY <1>0, MyConversation
<1>4. me.input \in Seq(Piece(c)) /\ Len(me.input) \in Nat /\ me.closeAfterWrite \in BOOLEAN
  BY <1>0, MyClient
<1>5. /\ SetClient(client) /\ n \in Nat \ {0} /\ received[c] + n <= sent[c]
      /\ received' = [received EXCEPT ![c] = received[c] + n]
      /\ client.input \in Seq(Piece(c)) /\ Len(client.input) = Len(me.input) + n
      /\ \A i \in 1 .. Len(me.input) : client.input[i] = me.input[i]
      /\ \A i \in 1 .. n : client.input[Len(me.input) + i] = Stream(c)[received[c] + i]
      /\ client.output = me.output /\ client.outputOffset = me.outputOffset
      /\ client.closeAfterWrite = me.closeAfterWrite
      /\ pc' = "close" => Len(client.input) > MaxQueryBuffer
      /\ pc' # "processLast"
  BY <1>1 DEF Receives
<1>6. /\ received'[c] = received[c] + n /\ sent[c] \in Nat
      /\ \A x \in Connection : x # c => received'[x] = received[x]
  BY <1>2, <1>5 DEF Inv, Shape, NetInv
<1>7. Taken(c, me, k) /\ Closing(c, me, k, refused)
      /\ (peer[c] # "reset" => AnswersAll(Replied(c, me), c, Given(c, k, refused)))
  BY <1>3 DEF Conversation
<1>8. EndOf(c, k) \in Nat
  <2>1. PICK m : m = Len(scenario.requests[c])
    OBVIOUS
  <2> QED BY <1>2, <1>3, <2>1, StreamLayout
<1>9. Taken(c, client, k)'
  <2>1. /\ Stream(c)' = Stream(c) /\ EndOf(c, k)' = EndOf(c, k)
        /\ \A j : Kind(c, j)' = Kind(c, j)
    BY <1>0, SameConversations, SameRequests
  <2>2. received'[c] = EndOf(c, k) + Len(client.input)
    <3>1. received[c] = EndOf(c, k) + Len(me.input)
      BY <1>7 DEF Taken
    <3>2. received'[c] = received[c] + n /\ Len(client.input) = Len(me.input) + n /\ n \in Nat
      BY <1>5, <1>6
    <3> QED BY <1>4, <1>8, <3>1, <3>2
  <2>3. ASSUME NEW i \in 1 .. Len(client.input)
        PROVE  client.input[i] = Stream(c)[EndOf(c, k) + i]
    <3>1. CASE i <= Len(me.input)
      <4>1. i \in 1 .. Len(me.input)
        BY <1>4, <3>1
      <4> QED BY <1>5, <1>7, <4>1 DEF Taken
    <3>2. CASE ~(i <= Len(me.input))
      <4>1. i - Len(me.input) \in 1 .. n /\ Len(me.input) + (i - Len(me.input)) = i
        BY <1>4, <1>5, <3>2
      <4>2. client.input[i] = Stream(c)[received[c] + (i - Len(me.input))]
        BY <1>5, <4>1
      <4>3. received[c] + (i - Len(me.input)) = EndOf(c, k) + i
        BY <1>4, <1>7, <1>8, <4>1 DEF Taken
      <4> QED BY <4>2, <4>3
    <3> QED BY <3>1, <3>2
  <2> QED BY <1>7, <2>1, <2>2, <2>3 DEF Taken
<1>10. Closing(c, client, k, refused)'
  <2>1. QuitAt(c, k)' <=> QuitAt(c, k)
    BY <1>0, SameRequests
  <2>2. IsBad(me.input) => IsBad(client.input)
    <3> SUFFICES ASSUME IsBad(me.input) PROVE IsBad(client.input)
      OBVIOUS
    <3>1. 1 \in 1 .. Len(me.input)
      BY <1>4 DEF IsBad
    <3>2. client.input[1] = me.input[1] /\ Len(client.input) # 0
      BY <1>4, <1>5, <3>1
    <3>3. client.input # <<>> /\ Head(client.input) = client.input[1]
      BY <1>5, <3>2
    <3>4. Head(me.input) = me.input[1]
      BY <1>4, <3>1
    <3> QED BY <3>2, <3>3, <3>4 DEF IsBad
  <2>3. IsBad(client.input)' <=> IsBad(client.input)
    BY <1>0, SameRequests
  <2>4. received[c] # sent[c]
    BY <1>2, <1>5, <1>6
  <2> QED BY <1>5, <1>7, <2>1, <2>2, <2>3, <2>4 DEF Closing
<1>11. (peer[c] # "reset" => AnswersAll(Replied(c, client), c, Given(c, k, refused)))'
  <2>1. Replied(c, client)' = Replied(c, me)
    BY <1>0, <1>5 DEF Replied, PendingReplies
  <2>2. Given(c, k, refused)' = Given(c, k, refused)
    BY <1>0, SameRequests
  <2> QED BY <1>0, <1>7, <2>1, <2>2 DEF AnswersAll, Answered
<1>12. Conversation(c, client, k, refused)'
  BY <1>9, <1>10, <1>11 DEF Conversation
<1>13. PICK old, new : old = received[c] /\ new = received'[c]
  OBVIOUS
<1>14. AnswersFirst(got[c] \o tx'[c], c, Due(c, new))
  <2>1. PICK r : r = got[c] \o tx[c]
    OBVIOUS
  <2>2. old \in Nat /\ new \in Nat /\ old <= new /\ AnswersFirst(r, c, Due(c, old))
    BY <1>2, <1>5, <1>6, <1>13, <2>1
  <2>3. AnswersFirst(r, c, Due(c, new))
    BY <1>2, <2>2, FirstStay
  <2> QED BY <1>0, <2>1, <2>3
<1>15. LeaveInv'
  <2>1. Me' = client
    BY <1>0, <1>5, MeAfter
  <2> QED BY <1>5, <2>1 DEF LeaveInv, CloseReason
<1> QED BY <1>0, <1>3, <1>5, <1>6, <1>12, <1>13, <1>14, <1>15, OrderSetClient, ZenonT(30)

\* An element put at the end of the last piece is at the end of the whole.
LEMMA AppendLast ==
    ASSUME NEW E, NEW s \in Seq(E), NEW t \in Seq(E), NEW e \in E
    PROVE  s \o Append(t, e) = Append(s \o t, e)
<1>1. <<e>> \in Seq(E)
  OBVIOUS
<1>2. Append(t, e) = t \o <<e>>
  BY AppendIsConcat
<1>3. s \o t \in Seq(E)
  BY ConcatProperties
<1>4. Append(s \o t, e) = (s \o t) \o <<e>>
  BY <1>3, AppendIsConcat
<1>5. (s \o t) \o <<e>> = s \o (t \o <<e>>)
  BY <1>1, ConcatAssociative
<1> QED BY <1>2, <1>4, <1>5, Zenon

\* A request taken out of the input is one more of the requests taken.
LEMMA TakeNext ==
    ASSUME scenario \in Scenarios, NEW c \in Connection, NEW m, m = Len(scenario.requests[c]),
           NEW old, old.input \in Seq(Piece(c)), Whole(old.input),
           NEW k \in 0 .. m, Taken(c, old, k), ~QuitAt(c, k), received[c] <= Len(Stream(c)),
           KindOf(Head(old.input)) # "bad", NEW new, new.input = Behind(old.input)
    PROVE  /\ k + 1 \in 0 .. m /\ Head(old.input) = <<c, k + 1, 1>>
           /\ Kind(c, k + 1) = KindOf(Head(old.input))
           /\ Taken(c, new, k + 1)
<1> DEFINE n == RequestLength(KindOf(Head(old.input)))
           L == Len(old.input)
<1>1. /\ k + 1 \in 1 .. m /\ Head(old.input) = <<c, k + 1, 1>>
      /\ KindOf(Head(old.input)) = Kind(c, k + 1)
      /\ n = EndOf(c, k + 1) - EndOf(c, k)
  BY NextRequest DEF Whole
<1>2. m \in Nat /\ EndOf(c, k) \in Nat /\ EndOf(c, k + 1) \in Nat
  <2>1. m \in Nat /\ \A i \in 0 .. m : EndOf(c, i) \in Nat
    BY StreamLayout
  <2>2. k + 1 \in 0 .. m
    BY <1>1
  <2> QED BY <2>1, <2>2
<1>3. L \in Nat /\ n <= L
  BY LenProperties DEF Whole
<1>4. n \in Nat \ {0}
  BY HeadRequest DEF Whole
<1>5. received[c] = EndOf(c, k) + L
  BY DEF Taken
<1>6. \A i \in 1 .. L : old.input[i] \in Piece(c) /\ old.input[i] = Stream(c)[EndOf(c, k) + i]
  BY ElementOfSeq DEF Taken
<1> HIDE DEF n
<1>7. /\ Len(new.input) = L - n
      /\ \A i \in 1 .. L - n : new.input[i] = old.input[n + i]
  <2>1. n + 1 \in Int /\ L \in Int /\ \A i \in n + 1 .. L : old.input[i] \in Piece(c)
    BY <1>3, <1>4, <1>6
  <2> DEFINE b == SubSeq(old.input, n + 1, L)
  <2>2. /\ Len(b) = (IF n + 1 <= L THEN L - (n + 1) + 1 ELSE 0)
        /\ \A i \in 1 .. L - (n + 1) + 1 : b[i] = old.input[(n + 1) + i - 1]
    <3> HIDE DEF L
    <3> QED BY <2>1, SubSeqProperties, SMTT(30)
  <2>3. new.input = b
    BY DEF Behind, n
  <2> HIDE DEF b, L
  <2>4. L - (n + 1) + 1 = L - n /\ (~(n + 1 <= L) => L - n = 0)
    BY <1>3, <1>4
  <2>5. \A i \in 1 .. L - n : (n + 1) + i - 1 = n + i
    BY <1>3, <1>4
  <2>6. Len(b) = L - n
    BY <2>2, <2>4
  <2>7. ASSUME NEW i \in 1 .. L - n PROVE b[i] = old.input[n + i]
    <3>1. b[i] = old.input[(n + 1) + i - 1]
      BY <2>2, <2>4
    <3> QED BY <2>5, <3>1
  <2> QED BY <2>3, <2>6, <2>7
<1> HIDE DEF L
<1>8. received[c] = EndOf(c, k + 1) + Len(new.input)
  BY <1>1, <1>2, <1>3, <1>4, <1>5, <1>7, SMTT(30)
<1>9. ASSUME NEW i \in 1 .. Len(new.input)
      PROVE  new.input[i] = Stream(c)[EndOf(c, k + 1) + i]
  <2>1. i \in 1 .. L - n /\ n + i \in 1 .. L
    BY <1>3, <1>4, <1>7
  <2>4. EndOf(c, k) + (n + i) = EndOf(c, k + 1) + i
    <3>1. i \in Nat
      BY <1>3, <1>4, <2>1
    <3>2. \A a, b \in Nat : n = b - a => a + (n + i) = b + i
      BY <1>4, <3>1
    <3> QED BY <1>1, <1>2, <3>2
  <2>2. new.input[i] = old.input[n + i]
    BY <1>7, <2>1
  <2>3. old.input[n + i] = Stream(c)[EndOf(c, k) + (n + i)]
    BY <1>6, <2>1
  <2> QED BY <2>2, <2>3, <2>4
<1>10. ASSUME NEW j \in 1 .. k + 1
       PROVE  Kind(c, j) # "bad" /\ (j < k + 1 => Kind(c, j) # "quit")
  <2>1. CASE j = k + 1
    BY <1>1, <2>1
  <2>2. CASE j = k
    BY <2>2 DEF Taken, QuitAt
  <2>3. CASE j < k
    BY <2>3 DEF Taken
  <2> QED BY <2>1, <2>2, <2>3
<1>11. Taken(c, new, k + 1)
  BY <1>8, <1>9, <1>10 DEF Taken
<1> QED BY <1>1, <1>2, <1>11

\* A reply more than the ones given: to the request behind the first k.
LEMMA GivenGrows ==
    ASSUME scenario \in Scenarios, NEW c \in Connection, NEW k \in Nat
    PROVE  /\ \A i \in Given(c, k, FALSE) : i < k + 1
           /\ Given(c, k, TRUE) = Given(c, k, FALSE) \cup {k + 1}
           /\ Kind(c, k + 1) # "blank" =>
                 Given(c, k + 1, FALSE) = Given(c, k, FALSE) \cup {k + 1}
           /\ Kind(c, k + 1) = "blank" => Given(c, k + 1, FALSE) = Given(c, k, FALSE)
<1>1. 1 .. k + 1 = (1 .. k) \cup {k + 1}
  OBVIOUS
<1> QED BY <1>1 DEF Given

\* The answer to a request goes behind all the replies given before.
LEMMA AnswerGiven ==
    ASSUME NEW c \in Connection, NEW P, NEW E, Numbered(E),
           NEW old \in ClientWith(P, E), NEW new \in ClientWith(P, E),
           old.outputOffset <= Len(old.output), got[c] \in Seq(E), tx[c] \in Seq(E),
           NEW r, OneMore(old, new, r), r[1] = c,
           NEW S, AnswersAll(Replied(c, old), c, S), \A i \in S : i < r[2]
    PROVE  AnswersAll(Replied(c, new), c, S \cup {r[2]})
<1>1. PICK s, p, q : s = got[c] \o tx[c] /\ p = PendingReplies(old) /\ q = PendingReplies(new)
  OBVIOUS
<1>2. s \in Seq(E)
  BY <1>1, ConcatProperties
<1>3. p \in Seq(E)
  BY <1>1, PendingType
<1>4. r \in E /\ q = Append(p, r)
  BY <1>1, PendingAppend
<1>5. s \o q = Append(s \o p, r)
  BY <1>2, <1>3, <1>4, AppendLast
<1>6. s \o p \in Seq(E)
  BY <1>2, <1>3, ConcatProperties
<1>7. Replied(c, old) = s \o p /\ Replied(c, new) = s \o q
  BY <1>1, Zenon DEF Replied
<1>8. AnswersAll(s \o p, c, S)
  BY <1>7
<1>9. AnswersAll(Append(s \o p, r), c, S \cup {r[2]})
  BY <1>4, <1>6, <1>8, OneAnswerMore
<1> QED BY <1>5, <1>7, <1>9, Zenon

\* One request handled: refused, answered or skipped.
LEMMA NextConversation ==
    ASSUME scenario \in Scenarios, NEW c \in Connection, NEW m, m = Len(scenario.requests[c]),
           NEW E, Numbered(E), got[c] \in Seq(E), tx[c] \in Seq(E),
           NEW old \in ClientWith(Piece(c), E), NEW new \in ClientWith(Piece(c), E),
           old.outputOffset <= Len(old.output), new.outputOffset = old.outputOffset,
           ~old.closeAfterWrite, received[c] <= Len(Stream(c)),
           Refusal(old, new) \/ Reply(old, new) \/ Skip(old, new),
           NEW k \in 0 .. m, NEW refused \in BOOLEAN, Conversation(c, old, k, refused)
    PROVE  \E k2 \in 0 .. m, refused2 \in BOOLEAN : Conversation(c, new, k2, refused2)
<1>1. /\ old.input \in Seq(Piece(c)) /\ new.closeAfterWrite \in BOOLEAN
      /\ Taken(c, old, k) /\ refused = FALSE /\ ~QuitAt(c, k)
  BY DEF ClientWith, Conversation, Closing
<1>2. peer[c] # "reset" => AnswersAll(Replied(c, old), c, Given(c, k, FALSE))
  BY <1>1 DEF Conversation
<1>3. /\ \A i \in Given(c, k, FALSE) : i < k + 1
      /\ Given(c, k, TRUE) = Given(c, k, FALSE) \cup {k + 1}
      /\ Kind(c, k + 1) # "blank" =>
            Given(c, k + 1, FALSE) = Given(c, k, FALSE) \cup {k + 1}
      /\ Kind(c, k + 1) = "blank" => Given(c, k + 1, FALSE) = Given(c, k, FALSE)
  <2>1. k \in Nat
    OBVIOUS
  <2> QED BY <2>1, GivenGrows
<1>4. (k + 1) >= 1 /\ k \in Nat
  OBVIOUS
<1>5. ASSUME NEW r, OneMore(old, new, r), IsReplyTo(old.input, r),
             Head(old.input) = <<c, k + 1, 1>>
      PROVE  peer[c] # "reset" =>
                AnswersAll(Replied(c, new), c, Given(c, k, FALSE) \cup {k + 1})
  <2>1. r[1] = c /\ r[2] = k + 1
    BY <1>5 DEF IsReplyTo
  <2>2. \A i \in Given(c, k, FALSE) : i < r[2]
    BY <1>3, <2>1
  <2>3. peer[c] # "reset" => AnswersAll(Replied(c, new), c, Given(c, k, FALSE) \cup {r[2]})
    BY <1>2, <1>5, <2>1, <2>2, AnswerGiven
  <2> QED BY <2>1, <2>3
<1>6. CASE Refusal(old, new)
  <2>1. IsBad(old.input) /\ new.input = old.input /\ new.closeAfterWrite
    BY <1>6 DEF Refusal
  <2>2. PICK r : IsReplyTo(old.input, r) /\ new.output = Append(old.output, r)
    BY <1>6 DEF Refusal
  <2>3. Head(old.input) = <<c, k + 1, 1>>
    BY <1>1, <2>1, NextRequest DEF IsBad
  <2>4. OneMore(old, new, r)
    BY <2>2 DEF OneMore
  <2>5. peer[c] # "reset" => AnswersAll(Replied(c, new), c, Given(c, k, TRUE))
    BY <1>3, <1>5, <2>2, <2>3, <2>4
  <2>6. Taken(c, new, k)
    BY <1>1, <2>1 DEF Taken
  <2>7. Closing(c, new, k, TRUE)
    BY <1>1, <2>1 DEF Closing
  <2>8. Conversation(c, new, k, TRUE)
    BY <2>5, <2>6, <2>7 DEF Conversation
  <2> QED BY <2>8
<1>7. CASE Reply(old, new)
  <2>1. /\ Whole(old.input) /\ KindOf(Head(old.input)) \notin {"bad", "blank"}
        /\ new.input = Behind(old.input)
        /\ new.closeAfterWrite <=> KindOf(Head(old.input)) = "quit"
    BY <1>7 DEF Reply
  <2>2. PICK r : IsReplyTo(old.input, r) /\ new.output = Append(old.output, r)
    BY <1>7 DEF Reply
  <2>3. /\ k + 1 \in 0 .. m /\ Head(old.input) = <<c, k + 1, 1>>
        /\ Kind(c, k + 1) = KindOf(Head(old.input)) /\ Taken(c, new, k + 1)
    BY <1>1, <2>1, TakeNext
  <2>4. OneMore(old, new, r)
    BY <2>2 DEF OneMore
  <2>5. peer[c] # "reset" => AnswersAll(Replied(c, new), c, Given(c, k + 1, FALSE))
    BY <1>3, <1>5, <2>1, <2>2, <2>3, <2>4
  <2>6. Closing(c, new, k + 1, FALSE)
    BY <1>4, <2>1, <2>3 DEF Closing, QuitAt
  <2>7. Conversation(c, new, k + 1, FALSE)
    BY <2>3, <2>5, <2>6 DEF Conversation
  <2> QED BY <2>3, <2>7
<1>8. CASE Skip(old, new)
  <2>1. /\ Whole(old.input) /\ KindOf(Head(old.input)) = "blank"
        /\ new.input = Behind(old.input) /\ ~new.closeAfterWrite /\ new.output = old.output
    BY <1>8 DEF Skip
  <2>2. /\ k + 1 \in 0 .. m /\ Kind(c, k + 1) = "blank" /\ Taken(c, new, k + 1)
    BY <1>1, <2>1, TakeNext
  <2>3. Replied(c, new) = Replied(c, old)
    BY <2>1 DEF Replied, PendingReplies
  <2>4. Closing(c, new, k + 1, FALSE)
    BY <2>1, <2>2 DEF Closing, QuitAt
  <2>5. Conversation(c, new, k + 1, FALSE)
    BY <1>2, <1>3, <2>2, <2>3, <2>4 DEF Conversation
  <2> QED BY <2>2, <2>5
<1> QED BY <1>6, <1>7, <1>8

\* Requests are answered in their order.
LEMMA OrderRequests ==
    ASSUME Inv, Inv', OrderInv, RequestRefused \/ RequestAppends \/ RequestAnswered
    PROVE  OrderInv'
<1>1. /\ UNCHANGED <<scenario, status, peer, sent, received, tx, got, fds, todo, socket, pc>>
      /\ Handling /\ ~Me.closeAfterWrite /\ pc # "close"
  BY DEF RequestRefused, RequestAppends, RequestAnswered, MayProcess, Processing, Handling,
     netVars
<1>2. PICK c, client : RequestEffect(c, client)
  BY RefusedEffect, AppendsEffect, AnsweredEffect
<1>3. /\ c = fds[socket] /\ client \in ClientOf(c)' /\ SetClient(client)
      /\ client.outputOffset = Me.outputOffset
      /\ Refusal(Me, client) \/ Reply(Me, client) \/ Skip(Me, client)
  BY <1>2 DEF RequestEffect
<1>4. /\ scenario \in Scenarios /\ c \in Connection /\ received[c] <= Len(Stream(c))
      /\ AnswersFirst(got[c] \o tx[c], c, Due(c, received[c]))
  BY <1>1, <1>3, MyConversation
<1>5. PICK me, m, E : me = Me /\ m = Len(scenario.requests[c]) /\ E = Earned(c)'
  OBVIOUS
<1>6. PICK k \in 0 .. m, refused \in BOOLEAN : Conversation(c, me, k, refused)
  BY <1>1, <1>3, <1>5, MyConversation
<1>7. got[c] \in Seq(E) /\ tx[c] \in Seq(E)
  BY <1>1, <1>4, <1>5 DEF Inv, Shape, NetInv
<1>8. Numbered(E)
  <2>1. DOMAIN scenario.requests[c] \subseteq Int
    BY <1>4, RequestType
  <2> QED BY <1>1, <1>5, <2>1 DEF Numbered, Earned
<1>9. Piece(c)' = Piece(c)
  BY <1>1, SameConversations
<1>10. client \in ClientWith(Piece(c), E)
  <2>1. ClientOf(c)' = ClientWith(Piece(c), E)
    BY <1>5, <1>9 DEF ClientOf, ClientWith
  <2> QED BY <1>3, <2>1
<1>11. me \in ClientWith(Piece(c), E) /\ me.outputOffset <= Len(me.output)
  <2>1. me \in ClientOf(c) /\ me.outputOffset <= Len(me.output)
    BY <1>1, <1>3, <1>5, MyClient
  <2>2. ClientOf(c) \subseteq ClientOf(c)'
    <3>1. executed' = executed \/ \E x : executed' = Append(executed, x)
      BY DEF RequestRefused, RequestAppends, RequestAnswered
    <3> QED BY <1>1, <3>1, EarnedStays DEF Inv, LogInv
  <2>3. ClientOf(c)' = ClientWith(Piece(c), E)
    BY <1>5, <1>9 DEF ClientOf, ClientWith
  <2> QED BY <2>1, <2>2, <2>3
<1>12. ~me.closeAfterWrite /\ client.outputOffset = me.outputOffset
       /\ (Refusal(me, client) \/ Reply(me, client) \/ Skip(me, client))
  BY <1>1, <1>3, <1>5
<1>13. PICK k2 \in 0 .. m, refused2 \in BOOLEAN : Conversation(c, client, k2, refused2)
  BY <1>4, <1>5, <1>6, <1>7, <1>8, <1>10, <1>11, <1>12, NextConversation
<1>14. Conversation(c, client, k2, refused2)'
  BY <1>1, <1>13, ConversationStays
<1>15. LeaveInv'
  BY <1>1 DEF OrderInv, LeaveInv, AllRead
<1>16. PICK n : n = received'[c]
  OBVIOUS
<1>17. AnswersFirst(got[c] \o tx'[c], c, Due(c, n))
  BY <1>1, <1>4, <1>16
<1> QED BY <1>1, <1>3, <1>5, <1>13, <1>14, <1>15, <1>16, <1>17, OrderSetClient

\* processInput returns: the client of a peer that has ended its stream is to
\* be closed, and all that it asked for is answered.
LEMMA OrderProcessReturns ==
    ASSUME Inv, OrderInv, ProcessReturns PROVE OrderInv'
<1> PICK c, me : c = fds[socket] /\ me = Me
  OBVIOUS
<1> PICK client : client = [me EXCEPT !.closeAfterWrite = @ \/ pc = "processLast"]
  OBVIOUS
<1>1. /\ UNCHANGED <<scenario, status, peer, sent, received, tx, got, fds, todo, socket>>
      /\ Handling /\ pc' = "reply" /\ SetClient(client)
      /\ me.closeAfterWrite \/ ~(Whole(me.input) \/ IsBad(me.input))
  BY DEF ProcessReturns, Processing, Handling, netVars, Goto
<1>2. me \in ClientOf(c)
  BY <1>1, MyClient
<1>3. /\ client.input = me.input /\ client.output = me.output
      /\ client.outputOffset = me.outputOffset
      /\ client.closeAfterWrite <=> (me.closeAfterWrite \/ pc = "processLast")
  BY <1>2 DEF ClientOf, ClientWith
<1>4. PICK k \in 0 .. Len(scenario.requests[c]), refused \in BOOLEAN :
         Conversation(c, me, k, refused)
  BY <1>1, MyConversation
<1>5. Taken(c, client, k)
  BY <1>3, <1>4 DEF Conversation, Taken
<1>6. Closing(c, client, k, refused)
  <2>1. Closing(c, me, k, refused)
    BY <1>4 DEF Conversation
  <2>2. pc = "processLast" => peer[c] # "open" /\ received[c] = sent[c]
    BY DEF OrderInv, LeaveInv, AllRead
  <2> QED BY <1>1, <1>3, <2>1, <2>2 DEF Closing
<1>7. Conversation(c, client, k, refused)
  <2>1. Replied(c, client) = Replied(c, me)
    BY <1>3 DEF Replied, PendingReplies
  <2> QED BY <1>4, <1>5, <1>6, <2>1 DEF Conversation
<1>8. Conversation(c, client, k, refused)'
  BY <1>1, <1>7, ConversationStays
<1>9. LeaveInv'
  BY <1>1 DEF LeaveInv
<1>10. PICK n : n = received'[c]
  OBVIOUS
<1>11. AnswersFirst(got[c] \o tx'[c], c, Due(c, n))
  BY <1>1, <1>10, MyConversation
<1> QED BY <1>1, <1>4, <1>8, <1>9, <1>10, <1>11, OrderSetClient

IsConcat(x, s, t) == x = s \o t

\* What is sent moves from the client to its socket.
LEMMA SendMoves ==
    ASSUME NEW E, NEW g \in Seq(E), NEW t \in Seq(E), NEW s \in Seq(E), NEW q \in Seq(E),
           NEW ts, IsConcat(ts, t, s), NEW gt, IsConcat(gt, g, t), NEW p, IsConcat(p, s, q),
           NEW h, IsConcat(h, g, ts), NEW x, IsConcat(x, h, q)
    PROVE  IsConcat(x, gt, p)
<1>0. gt \in Seq(E)
  <2>1. g \o t \in Seq(E)
    BY ConcatProperties
  <2> QED BY <2>1 DEF IsConcat
<1>1. (g \o t) \o s = g \o (t \o s)
  BY ConcatAssociative
<1>2. (gt \o s) \o q = gt \o (s \o q)
  BY <1>0, ConcatAssociative, SMTT(30)
<1> QED BY <1>1, <1>2, Zenon DEF IsConcat

\* All that a peer was given and is to be given yet: first of what is due.
LEMMA RepliedFirst ==
    ASSUME scenario \in Scenarios, NEW c \in Connection, NEW m, m = Len(scenario.requests[c]),
           NEW client, client.input \in Seq(Piece(c)), received[c] <= Len(Stream(c)),
           NEW k \in 0 .. m, NEW refused \in BOOLEAN, Conversation(c, client, k, refused),
           peer[c] # "reset"
    PROVE  AnswersFirst(Replied(c, client), c, Due(c, received[c]))
<1>1. /\ Taken(c, client, k) /\ Closing(c, client, k, refused)
      /\ AnswersAll(Replied(c, client), c, Given(c, k, refused))
  BY DEF Conversation
<1>2. PICK S, D, r : S = Given(c, k, refused) /\ D = Due(c, received[c]) /\ r = Replied(c, client)
  OBVIOUS
<1>3. S \subseteq D /\ \A i \in D : \A g \in S : i < g => i \in S
  BY <1>1, <1>2, GivenIsDue
<1>4. AnswersFirst(r, c, D)
  BY <1>1, <1>2, <1>3, AllAreFirst
<1> QED BY <1>2, <1>4

\* Sending moves the first of the pending replies to the socket.
LEMMA OrderSendSome ==
    ASSUME Inv, OrderInv, SendSome PROVE OrderInv'
<1> PICK c, me, m : c = fds[socket] /\ me = Me /\ m = Len(scenario.requests[c])
  OBVIOUS
<1>1. /\ UNCHANGED <<scenario, status, peer, sent, received, got, fds, todo, socket, pc>>
      /\ Handling /\ pc = "send" /\ peer[c] # "reset"
  BY DEF SendSome, Sending, Handling
<1>2. /\ scenario \in Scenarios /\ c \in Connection /\ received[c] <= Len(Stream(c))
  BY <1>1, MyConversation
<1>3. /\ me \in ClientWith(Piece(c), Earned(c)) /\ me.outputOffset <= Len(me.output)
      /\ me.input \in Seq(Piece(c)) /\ pendingOutput(me) \in Nat
  BY <1>1, MyClient DEF ClientOf
<1>4. tx[c] \in Seq(Earned(c)) /\ got[c] \in Seq(Earned(c)) /\ Len(tx[c]) \in Nat
      /\ Len(tx[c]) <= SendBuffer /\ Numbered(Earned(c))
  BY <1>2, LenProperties, EarnedNumbered DEF Inv, Shape, NetInv
<1>5. PICK n \in 1 .. Min({pendingOutput(me), SendRoom(c)}) :
         /\ tx' = [tx EXCEPT ![c] = @ \o SubSeq(PendingReplies(me), 1, n)]
         /\ SetClient([me EXCEPT !.outputOffset = @ + n])
  BY DEF SendSome
<1>6. n \in 1 .. pendingOutput(me)
  <2>1. {pendingOutput(me), SendRoom(c)} \subseteq Nat
    BY <1>3, <1>4, LimitsAssumption DEF SendRoom
  <2>2. /\ Min({pendingOutput(me), SendRoom(c)}) \in Nat
        /\ Min({pendingOutput(me), SendRoom(c)}) <= pendingOutput(me)
    BY <2>1, MinProperties
  <2> QED BY <1>3, <2>2
<1>7. PICK client : client = [me EXCEPT !.outputOffset = @ + n]
  OBVIOUS
<1>8. /\ client \in ClientWith(Piece(c), Earned(c)) /\ client.input = me.input
      /\ client.output = me.output /\ client.outputOffset = me.outputOffset + n
      /\ client.closeAfterWrite = me.closeAfterWrite
  BY <1>3, <1>6, <1>7, SMTT(30) DEF ClientWith
<1>9. PICK g, t, s, q, p : /\ g = got[c] /\ t = tx[c] /\ s = SubSeq(PendingReplies(me), 1, n)
                           /\ q = PendingReplies(client) /\ p = PendingReplies(me)
  OBVIOUS
<1>10. /\ tx'[c] = t \o s
       /\ \A x \in Connection : x # c => tx'[x] = tx[x]
  BY <1>2, <1>5, <1>9 DEF Inv, Shape, NetInv
<1>11. s \in Seq(Earned(c)) /\ q \in Seq(Earned(c)) /\ s \o q = p
  BY <1>3, <1>6, <1>8, <1>9, PendingSent, SMTT(30)
<1>12. (g \o (t \o s)) \o q = (g \o t) \o p
  <2>1. PICK ts, gt, h, x : /\ IsConcat(ts, t, s) /\ IsConcat(gt, g, t)
                            /\ IsConcat(h, g, ts) /\ IsConcat(x, h, q)
    BY Zenon DEF IsConcat
  <2>2. g \in Seq(Earned(c)) /\ t \in Seq(Earned(c))
    BY <1>4, <1>9
  <2>3. s \in Seq(Earned(c)) /\ q \in Seq(Earned(c)) /\ IsConcat(p, s, q)
    BY <1>11, Zenon DEF IsConcat
  <2>4. IsConcat(x, gt, p)
    BY ONLY <2>1, <2>2, <2>3, SendMoves
  <2> QED BY <2>1, <2>4, Zenon DEF IsConcat
<1>13. PICK k \in 0 .. m, refused \in BOOLEAN : Conversation(c, me, k, refused)
  BY <1>1, MyConversation
<1>14. Replied(c, me) = (g \o t) \o p /\ Replied(c, client)' = (g \o (t \o s)) \o q
  BY <1>1, <1>9, <1>10, Zenon DEF Replied, PendingReplies
<1>15. Conversation(c, client, k, refused)'
  <2>1. /\ Taken(c, me, k) /\ Closing(c, me, k, refused)
        /\ AnswersAll(Replied(c, me), c, Given(c, k, refused))
    BY <1>1, <1>13 DEF Conversation
  <2>2. Taken(c, client, k)'
    <3>1. Stream(c)' = Stream(c) /\ EndOf(c, k)' = EndOf(c, k) /\ \A j : Kind(c, j)' = Kind(c, j)
      BY <1>1, SameConversations, SameRequests
    <3> QED BY <1>1, <1>8, <2>1, <3>1 DEF Taken
  <2>3. Closing(c, client, k, refused)'
    <3>1. /\ QuitAt(c, k)' <=> QuitAt(c, k)
          /\ Whole(client.input)' <=> Whole(client.input)
          /\ IsBad(client.input)' <=> IsBad(client.input)
      BY <1>1, SameRequests
    <3> QED BY <1>1, <1>8, <2>1, <3>1 DEF Closing
  <2>4. Replied(c, client)' = Replied(c, me)
    BY <1>12, <1>14, Zenon
  <2>5. Given(c, k, refused)' = Given(c, k, refused)
    BY <1>1, SameRequests
  <2>6. (peer[c] # "reset" => AnswersAll(Replied(c, client), c, Given(c, k, refused)))'
    BY <2>1, <2>4, <2>5 DEF AnswersAll, Answered
  <2> QED BY <2>2, <2>3, <2>6 DEF Conversation
<1>16. PICK rec : rec = received'[c]
  OBVIOUS
<1>17. AnswersFirst(got[c] \o tx'[c], c, Due(c, rec))
  <2>1. AnswersFirst(Replied(c, me), c, Due(c, received[c]))
    BY <1>1, <1>2, <1>3, <1>13, RepliedFirst
  <2>2. PICK D, h : D = Due(c, rec) /\ h = g \o (t \o s)
    OBVIOUS
  <2>3. AnswersFirst(h \o q, c, D)
    BY <1>1, <1>12, <1>14, <1>16, <2>1, <2>2
  <2>4. h \in Seq(Earned(c))
    <3>1. t \o s \in Seq(Earned(c))
      BY <1>4, <1>9, <1>11, ConcatProperties
    <3>2. g \in Seq(Earned(c))
      BY <1>4, <1>9
    <3> QED BY <2>2, <3>1, <3>2, ConcatProperties
  <2>5. AnswersFirst(h, c, D)
    BY <1>4, <1>11, <2>3, <2>4, FirstPrefix
  <2> QED BY <1>9, <1>10, <2>2, <2>5, Zenon
<1>18. LeaveInv'
  BY <1>1 DEF LeaveInv
<1>19. SetClient(client)
  BY <1>5, <1>7
<1> QED BY <1>1, <1>10, <1>13, <1>15, <1>16, <1>17, <1>18, <1>19, OrderSetClient

\* The end of writeToClient: all is sent, or the socket is full.
LEMMA OrderWriteReturns ==
    ASSUME Inv, OrderInv, WriteReturns PROVE OrderInv'
<1> PICK c, me, client : c = fds[socket] /\ me = Me /\ client = Compacted(Me)
  OBVIOUS
<1>1. /\ UNCHANGED <<scenario, status, peer, sent, received, tx, got, fds, todo, socket>>
      /\ Handling /\ SetClient(client) /\ pc' = CloseWhenAnswered(me)
  BY DEF WriteReturns, Sending, Handling, netVars, Goto
<1>2. me \in ClientWith(Piece(c), Earned(c)) /\ me.outputOffset <= Len(me.output)
  BY <1>1, MyClient DEF ClientOf
<1>3. /\ PendingReplies(client) = PendingReplies(me) /\ client.input = me.input
      /\ client.closeAfterWrite = me.closeAfterWrite
      /\ pendingOutput(client) = pendingOutput(me)
  BY <1>2, CompactedType, PendingCompacted, ZenonT(30)
<1>4. PICK k \in 0 .. Len(scenario.requests[c]), refused \in BOOLEAN :
         Conversation(c, me, k, refused)
  BY <1>1, MyConversation
<1>5. Conversation(c, client, k, refused)
  BY <1>3, <1>4 DEF Conversation, Taken, Closing, Replied
<1>6. Conversation(c, client, k, refused)'
  BY <1>1, <1>5, ConversationStays
<1>7. LeaveInv'
  <2>1. Me' = client
    BY <1>1, MeAfter
  <2>2. pc' # "processLast" /\ (pc' = "close" => me.closeAfterWrite /\ pendingOutput(me) = 0)
    BY <1>1 DEF CloseWhenAnswered
  <2>3. pendingOutput(Me)' = pendingOutput(client)
    BY <2>1 DEF pendingOutput
  <2> QED BY <1>3, <2>1, <2>2, <2>3 DEF LeaveInv, CloseReason
<1>8. PICK n : n = received'[c]
  OBVIOUS
<1>9. AnswersFirst(got[c] \o tx'[c], c, Due(c, n))
  BY <1>1, <1>8, MyConversation
<1> QED BY <1>1, <1>4, <1>6, <1>7, <1>8, <1>9, OrderSetClient

-----------------------------------------------------------------------------
\* Every step keeps the order.
LEMMA OrderNext == Inv /\ Inv' /\ OrderInv /\ [Next]_vars => OrderInv'
<1> SUFFICES ASSUME Inv, Inv', OrderInv, [Next]_vars PROVE OrderInv'
  OBVIOUS
<1>1. CASE \E p \in Connection : Peers(p)
  BY <1>1, OrderPeers
<1>2. CASE \/ CronTimeReached \/ handleShutdownSignal \/ PollFails \/ LoopTest \/ CallPoll
           \/ AcceptReturns \/ CallFlush \/ Cron \/ Exit
  BY <1>2, OrderControl
<1>3. CASE FlushStep \/ Stopped \/ UNCHANGED vars
  <2>1. UNCHANGED <<netVars, loopVars>>
    BY <1>3 DEF FlushStep, Stopped, vars
  <2> QED BY <2>1, OrderUnchanged
<1>4. CASE PollReturns
  BY <1>4, OrderPollReturns
<1>5. CASE handleClientEvents
  BY <1>5, OrderEvents
<1>6. CASE RecvWouldBlock \/ RecvEnd \/ RecvError \/ NothingToReply \/ SendError
  BY <1>6, OrderHandling
<1>7. CASE \E c \in Connection : Accept(c)
  BY <1>7, OrderAccept
<1>8. CASE RecvData
  BY <1>8, OrderRecvData
<1>9. CASE RequestRefused \/ RequestAppends \/ RequestAnswered
  BY <1>9, OrderRequests
<1>10. CASE ProcessReturns
  BY <1>10, OrderProcessReturns
<1>11. CASE SendSome
  BY <1>11, OrderSendSome
<1>12. CASE WriteReturns
  BY <1>12, OrderWriteReturns
<1>13. CASE CloseClient
  BY <1>13, OrderClose
<1>14. CASE Stop
  BY <1>14, OrderStop
<1> QED BY <1>1, <1>2, <1>3, <1>4, <1>5, <1>6, <1>7, <1>8, <1>9, <1>10, <1>11, <1>12,
           <1>13, <1>14 DEF Next, Loop

\* Nobody has said anything yet.
LEMMA OrderInit == Init => OrderInv
<1> SUFFICES ASSUME Init PROVE OrderInv
  OBVIOUS
<1>1. /\ DOMAIN fds = {} /\ todo = {} /\ pc = "test"
      /\ \A c \in Connection : received[c] = 0 /\ got[c] = <<>> /\ tx[c] = <<>>
  BY DEF Init
<1>2. HandedInv
  <2> SUFFICES ASSUME NEW c \in Connection
               PROVE  AnswersFirst(got[c] \o tx[c], c, Due(c, received[c]))
    BY DEF HandedInv
  <2>1. <<>> \o <<>> = <<>> /\ DOMAIN <<>> = {}
    OBVIOUS
  <2>2. DOMAIN (got[c] \o tx[c]) = {}
    BY <1>1, <2>1, Zenon
  <2> QED BY <2>2, Zenon DEF AnswersFirst
<1> QED BY <1>1, <1>2 DEF OrderInv, TalksInv, FreshInv, ErrInv, LeaveInv

\* The order is kept in every behaviour.
THEOREM ConversationsInvariant == Spec => [](Inv /\ OutputInv /\ OrderInv)
<1>1. Init => Inv /\ OutputInv /\ OrderInv
  BY InitInv, OutputInit, OrderInit
<1>2. Inv /\ OutputInv /\ OrderInv /\ [Next]_vars => (Inv /\ OutputInv /\ OrderInv)'
  BY NextInv, OutputNext, OrderNext
<1> QED BY <1>1, <1>2, PTL DEF Spec

\* The descriptor of an open connection.
LEMMA SocketOfOpen ==
    ASSUME Inv, NEW c \in Connection, status[c] = "open"
    PROVE  SocketOf(c) \in DOMAIN fds /\ fds[SocketOf(c)] = c
<1>1. \E fd \in DOMAIN fds : fds[fd] = c
  BY DEF Inv, Shape, DescriptorInv
<1> QED BY <1>1 DEF SocketOf

\* The conversation of an open connection.
LEMMA OpenConversation ==
    ASSUME Inv, OrderInv, NEW c \in Connection, status[c] = "open"
    PROVE  /\ scenario \in Scenarios /\ received[c] <= Len(Stream(c))
           /\ clients[SocketOf(c)].input \in Seq(Piece(c))
           /\ \E k \in 0 .. Len(scenario.requests[c]), refused \in BOOLEAN :
                 Conversation(c, clients[SocketOf(c)], k, refused)
<1>1. SocketOf(c) \in DOMAIN fds /\ fds[SocketOf(c)] = c
  BY SocketOfOpen
<1>2. scenario \in Scenarios /\ received[c] <= Len(Stream(c))
  <2>1. /\ received[c] \in Nat /\ sent[c] \in Nat /\ received[c] <= sent[c]
        /\ sent[c] <= Len(Stream(c)) /\ scenario \in Scenarios
    BY DEF Inv, Shape, NetInv
  <2>2. Len(Stream(c)) \in Nat
    BY <2>1, StreamType, LenProperties
  <2> QED BY <2>1, <2>2
<1>3. clients[SocketOf(c)] \in ClientOf(c)
  BY <1>1 DEF Inv, Shape, ClientInv
<1> QED BY <1>1, <1>2, <1>3 DEF OrderInv, TalksInv, Talks, ClientOf, ClientWith

\* Replies reach a peer in the order of its requests, one to each of the first
\* that are due, and a sleeping server owes nobody an answer: however recv
\* splits the requests and send the replies, for every pipeline and every
\* choice of the limits.
THEOREM RepliesAreInOrder == Spec => []RepliesInOrder
<1>1. Inv /\ OutputInv /\ OrderInv => RepliesInOrder
  <2> SUFFICES ASSUME Inv, OutputInv, OrderInv, NEW c \in Connection,
                      NEW due, due = Due(c, received[c]),
                      NEW client, client = clients[SocketOf(c)],
                      NEW all, all = Replied(c, client)
               PROVE  IF status[c] = "open" /\ peer[c] # "reset"
                      THEN AnswersFirst(all, c, due) /\ (pc = "poll" => Answered(all) = due)
                      ELSE AnswersFirst(got[c], c, due)
    BY DEF RepliesInOrder, Replied
  <2>1. CASE status[c] = "open" /\ peer[c] # "reset"
    <3> PICK m : m = Len(scenario.requests[c])
      OBVIOUS
    <3>1. /\ scenario \in Scenarios /\ received[c] <= Len(Stream(c))
          /\ client.input \in Seq(Piece(c))
      BY <2>1, OpenConversation
    <3>2. PICK k \in 0 .. m, refused \in BOOLEAN : Conversation(c, client, k, refused)
      BY <2>1, OpenConversation
    <3>3. AnswersFirst(all, c, due)
      BY <2>1, <3>1, <3>2, RepliedFirst
    <3>4. ASSUME pc = "poll" PROVE Answered(all) = due
      <4>1. InputSettled(client)
        <5>1. SocketOf(c) \in DOMAIN fds
          BY <2>1, SocketOfOpen
        <5> QED BY <3>4, <5>1 DEF OutputInv, Settled, Handling
      <4>2. Taken(c, client, k) /\ Closing(c, client, k, refused)
        BY <3>2 DEF Conversation
      <4>3. Given(c, k, refused) = due
        BY <3>1, <3>2, <4>1, <4>2, GivenIsDue
      <4>4. AnswersAll(all, c, Given(c, k, refused))
        BY <2>1, <3>2 DEF Conversation
      <4> QED BY <4>3, <4>4 DEF AnswersAll
    <3> QED BY <2>1, <3>3, <3>4
  <2>2. CASE ~(status[c] = "open" /\ peer[c] # "reset")
    <3>1. AnswersFirst(got[c] \o <<>>, c, due)
      BY HandedLost DEF OrderInv
    <3>2. got[c] \o <<>> = got[c]
      <4>1. got[c] \in Seq(Earned(c))
        BY DEF Inv, Shape, NetInv
      <4> QED BY <4>1, ConcatEmptySeq
    <3>3. AnswersFirst(got[c], c, due)
      BY <3>1, <3>2, Zenon
    <3> QED BY <2>2, <3>3
  <2> QED BY <2>1, <2>2
<1> QED BY <1>1, ConversationsInvariant, PTL

\* Only closeClient hangs up on a peer while the loop closes, and only on the
\* peer of the client that is handled.
LEMMA HangsUpOnMine ==
    ASSUME Inv, [Next]_vars, NEW c \in Connection,
           pc = "close", status[c] = "open", status'[c] = "closed"
    PROVE  c = fds[socket] /\ SocketOf(c) = socket
<1>1. CASE CloseClient
  <2>1. socket \in DOMAIN fds /\ fds[socket] \in Connection
    BY MyClient DEF Handling
  <2>2. status' = [status EXCEPT ![fds[socket]] = "closed"]
    BY <1>1 DEF CloseClient
  <2>3. c = fds[socket]
    BY <2>1, <2>2 DEF Inv, Shape, NetInv
  <2>4. SocketOf(c) \in DOMAIN fds /\ fds[SocketOf(c)] = c
    BY SocketOfOpen
  <2> QED BY <2>1, <2>3, <2>4 DEF Inv, Shape, DescriptorInv
<1>2. CASE UNCHANGED status
  BY <1>2
<1>3. CloseClient \/ UNCHANGED status
  BY DEF Next, Loop, Peers, Connect, PeerSends, PeerFinishes, PeerResets, PeerReads,
     InSystemCall, CronTimeReached, handleShutdownSignal, PollFails, Stopped, LoopTest,
     CallPoll, PollReturns, Accept, AcceptReturns, handleClientEvents, RecvData,
     RecvWouldBlock, RecvEnd, RecvError, RequestRefused, RequestAppends, RequestAnswered,
     ProcessReturns, NothingToReply, CallFlush, FlushStep, SendSome, WriteReturns, SendError,
     Cron, Stop, Exit, netVars, vars
<1> QED BY <1>1, <1>2, <1>3

\* The server hangs up on a peer that is still there and whose requests fit
\* only after handing all it may expect to its socket: over pipelines behind
\* QUIT or a protocol error, half-closed connections and partial sends.
THEOREM HangsUpWhenDone == Spec => HangsUpOnlyWhenDone
<1> DEFINE Done(c) ==
        \/ peer[c] = "reset"
        \/ Len(clients[SocketOf(c)].input) > MaxQueryBuffer
        \/ /\ Answered(got[c] \o tx[c]) = Due(c, received[c])
           /\ \/ peer[c] = "fin" /\ Unread(c) = 0
              \/ \E i \in Due(c, received[c]) : EndsConversation(c, i)
<1>1. ASSUME Inv, OrderInv, [Next]_vars, NEW c \in Connection,
             pc = "close", status[c] = "open", status'[c] = "closed",
             peer[c] # "reset", ~(Len(clients[SocketOf(c)].input) > MaxQueryBuffer)
      PROVE  /\ Answered(got[c] \o tx[c]) = Due(c, received[c])
             /\ \/ peer[c] = "fin" /\ Unread(c) = 0
                \/ \E i \in Due(c, received[c]) : EndsConversation(c, i)
  <2>0. c = fds[socket] /\ SocketOf(c) = socket
    BY <1>1, HangsUpOnMine
  <2> PICK client, m, due : client = Me /\ m = Len(scenario.requests[c]) /\ due = Due(c, received[c])
    OBVIOUS
  <2>1. client.closeAfterWrite /\ pendingOutput(client) = 0
    BY <1>1, <2>0 DEF OrderInv, LeaveInv, CloseReason, Me
  <2>2. /\ scenario \in Scenarios /\ received[c] <= Len(Stream(c))
        /\ client.input \in Seq(Piece(c))
    BY <1>1, <2>0, OpenConversation DEF Me
  <2>3. PICK k \in 0 .. m, refused \in BOOLEAN : Conversation(c, client, k, refused)
    BY <1>1, <2>0, OpenConversation DEF Me
  <2>4. /\ Taken(c, client, k) /\ Closing(c, client, k, refused)
        /\ AnswersAll(Replied(c, client), c, Given(c, k, refused))
    BY <1>1, <2>3 DEF Conversation
  <2>5. Given(c, k, refused) = due
    <3>1. InputSettled(client)
      BY <2>1 DEF InputSettled
    <3> QED BY <2>2, <2>3, <2>4, <3>1, GivenIsDue
  <2>6. Replied(c, client) = got[c] \o tx[c]
    <3>1. PICK E, s, p : E = Earned(c) /\ s = got[c] \o tx[c] /\ p = PendingReplies(client)
      OBVIOUS
    <3>2. s \in Seq(E)
      <4>1. got[c] \in Seq(E) /\ tx[c] \in Seq(E)
        BY <1>1, <3>1 DEF Inv, Shape, NetInv
      <4> QED BY <3>1, <4>1, ConcatProperties
    <3>3. p \in Seq(E) /\ Len(p) = 0
      <4>1. client \in ClientWith(Piece(c), E) /\ client.outputOffset <= Len(client.output)
        BY <1>1, <2>0, <3>1, MyClient DEF Handling, ClientOf
      <4> QED BY <2>1, <3>1, <4>1, PendingType
    <3>4. p = <<>>
      BY <3>3, EmptySeq
    <3>5. s \o <<>> = s
      BY <3>2, ConcatEmptySeq
    <3> QED BY <3>1, <3>4, <3>5, Zenon DEF Replied
  <2>7. Answered(got[c] \o tx[c]) = due
    BY <2>4, <2>5, <2>6 DEF AnswersAll
  <2>8. CASE refused
    <3>1. k + 1 \in due
      BY <2>5, <2>8 DEF Given
    <3>2. EndsConversation(c, k + 1)
      <4>1. client.input # <<>> /\ KindOf(Head(client.input)) = "bad"
        BY <2>4, <2>8 DEF Closing, IsBad
      <4>2. Kind(c, k + 1) = "bad"
        BY <1>1, <2>2, <2>3, <2>4, <4>1, NextRequest
      <4> QED BY <4>2 DEF EndsConversation
    <3> QED BY <2>7, <3>1, <3>2
  <2>9. CASE QuitAt(c, k)
    <3>1. k \in due /\ EndsConversation(c, k)
      BY <2>3, <2>5, <2>9 DEF Given, QuitAt, EndsConversation
    <3> QED BY <2>7, <3>1
  <2>10. CASE ~refused /\ ~QuitAt(c, k)
    <3>1. peer[c] # "open" /\ received[c] = sent[c]
      BY <2>1, <2>4, <2>10 DEF Closing
    <3>2. peer[c] = "fin" /\ Unread(c) = 0
      BY <1>1, <3>1 DEF Inv, Shape, NetInv, Unread
    <3> QED BY <2>7, <3>2
  <2> QED BY <2>8, <2>9, <2>10
<1>2. ASSUME Inv, OrderInv, [Next]_vars, NEW c \in Connection,
             pc = "close", status[c] = "open", status'[c] = "closed"
      PROVE  Done(c)
  BY <1>1, <1>2, Zenon
<1> HIDE DEF Done
<1>3. Inv /\ OrderInv /\ [Next]_vars =>
         [\A c \in Connection :
             pc = "close" /\ status[c] = "open" /\ status'[c] = "closed" => Done(c)]_vars
  BY <1>2
<1>4. Spec => [][\A c \in Connection :
             pc = "close" /\ status[c] = "open" /\ status'[c] = "closed" => Done(c)]_vars
  BY <1>3, ConversationsInvariant, PTL DEF Spec
<1> QED BY <1>4 DEF HangsUpOnlyWhenDone, Done

=============================================================================
