------------------------ MODULE AppendOnlyFileProofs -------------------------
(***************************************************************************)
(* What AppendOnlyFile keeps for every number of commands, units and       *)
(* crashes.  The invariant adds to the two properties where flush's local  *)
(* variable is zero and where the buffer is empty: a command may only be   *)
(* appended, and a file only be loaded, in such a state.                   *)
(***************************************************************************)
EXTENDS AppendOnlyFile, SequenceTheorems, TLAPS

AtRest ==
    /\ pc # "flush" => written = 0
    /\ pc = "down" => buffer = <<>>

\* Everything ever given to append is in order, numbered below the next
\* command, and complete unless a crash has cut it.
HistoryInOrder ==
    /\ InOrder(appended)
    /\ \A i \in 1 .. Len(appended) : appended[i][1] < next
    /\ pc # "down" => Len(appended) % Units = 0

Inv ==
    /\ TypeOK /\ AtRest
    /\ NothingLostOrRepeated /\ UnhealthyHasPending /\ HistoryInOrder

\* The product and the rest of a division determine the number: the
\* arithmetic behind the length of the whole commands of a file.
LEMMA RemainderUnique ==
    ASSUME NEW U \in Nat \ {0}, NEW q \in Nat, NEW r \in 0 .. U - 1
    PROVE  (U * q + r) % U = r
<1> DEFINE a == U * q + r
           p == a \div U
           m == a % U
<1>1. a \in Nat
  OBVIOUS
<1>2. U * q + r = U * p + m /\ m \in 0 .. U - 1 /\ p \in Nat
  BY <1>1
<1> HIDE DEF a, p, m
<1>3. U * p \in Nat /\ U * q \in Nat
  BY <1>2
<1>4. ~(p < q)
  <2> SUFFICES ASSUME p + 1 <= q PROVE FALSE
    BY <1>2
  <2>1. U * (p + 1) <= U * q /\ U * (p + 1) = U * p + U
    BY <1>2
  <2> QED BY <1>2, <1>3, <2>1
<1>5. ~(q < p)
  <2> SUFFICES ASSUME q + 1 <= p PROVE FALSE
    BY <1>2
  <2>1. U * (q + 1) <= U * p /\ U * (q + 1) = U * q + U
    BY <1>2
  <2> QED BY <1>2, <1>3, <2>1
<1>6. p = q
  BY <1>2, <1>4, <1>5
<1>7. m = r
  BY <1>2, <1>6
<1> QED BY <1>7 DEF m, a

\* Lengths and positions: a whole number of commands plus the position in
\* one command, and the length that load keeps grows with the length.
LEMMA Remainders ==
    ASSUME NEW U \in Nat \ {0}, NEW a \in Nat
    PROVE  /\ a % U \in 0 .. U - 1
           /\ a - (a % U) \in 0 .. a
           /\ (a - (a % U)) % U = 0
           /\ a % U = 0 => /\ (a + U) % U = 0
                           /\ \A b \in 0 .. U - 1 : (a + b) % U = b
           /\ \A c \in Nat : c <= a => c - (c % U) <= a - (a % U)
<1> DEFINE q == a \div U
           m == a % U
<1>1. a = U * q + m /\ m \in 0 .. U - 1 /\ q \in Nat
  OBVIOUS
<1> HIDE DEF q, m
<1>2. U * q \in Nat /\ U * (q + 1) = U * q + U /\ q + 1 \in Nat
  BY <1>1
<1>3. (U * q + 0) % U = 0 /\ (U * (q + 1) + 0) % U = 0
  BY <1>1, <1>2, RemainderUnique
<1>4. (a - m) % U = 0
  <2>1. a - m = U * q + 0
    BY <1>1, <1>2
  <2> QED BY <1>3, <2>1
<1>5. m \in 0 .. U - 1 /\ a - m \in 0 .. a
  BY <1>1, <1>2
<1>6. ASSUME m = 0 PROVE (a + U) % U = 0
  <2>1. a + U = U * (q + 1) + 0
    BY <1>1, <1>2, <1>6
  <2> QED BY <1>3, <2>1
<1>7. ASSUME m = 0, NEW b \in 0 .. U - 1 PROVE (a + b) % U = b
  <2>1. a + b = U * q + b
    BY <1>1, <1>2, <1>7
  <2> QED BY <1>1, <2>1, RemainderUnique
<1>8. ASSUME NEW c \in Nat, c <= a PROVE c - (c % U) <= a - m
  <2> DEFINE p == c \div U
             n == c % U
  <2>1. c = U * p + n /\ n \in 0 .. U - 1 /\ p \in Nat
    OBVIOUS
  <2> HIDE DEF p, n
  <2>2. U * p \in Nat
    BY <2>1
  <2>3. ~(q + 1 <= p)
    <3> SUFFICES ASSUME q + 1 <= p PROVE FALSE
      OBVIOUS
    <3>1. U * (q + 1) <= U * p
      BY <1>1, <2>1
    <3> QED BY <1>1, <1>2, <1>8, <2>1, <2>2, <3>1
  <2>4. U * p <= U * q
    BY <1>1, <2>1, <2>3
  <2>5. c - n <= a - m
    BY <1>1, <1>2, <2>1, <2>2, <2>4
  <2> QED BY <2>5 DEF n
<1> QED BY <1>4, <1>5, <1>6, <1>7, <1>8 DEF m

\* Cutting a truncated command off a file (load's truncate) leaves a file
\* that is no longer than it was.
LEMMA WholeProperties ==
    ASSUME NEW S, NEW s \in Seq(S)
    PROVE  /\ WholeLength(s) \in 0 .. Len(s)
           /\ Whole(s) \in Seq(S)
           /\ Len(Whole(s)) = WholeLength(s)
<1>1. Len(s) \in Nat /\ \A i \in 1 .. Len(s) : s[i] \in S
  BY LenProperties
<1>2. ASSUME NEW n \in Nat PROVE n - (n % Units) \in 0 .. n
  BY UnitsAssumption
<1>3. WholeLength(s) \in 0 .. Len(s)
  BY <1>1, <1>2 DEF WholeLength
<1>4. \A i \in 1 .. WholeLength(s) : s[i] \in S
  BY <1>1, <1>3
<1> QED BY <1>3, <1>4, SubSeqProperties DEF Whole

\* A command is encoded (append's respArray) as a sequence of units.
LEMMA EncodeType ==
    ASSUME NEW c \in 1 .. MaxCommands
    PROVE  Encode(c) \in Seq(Unit)
<1>1. Encode(c) \in [1 .. Units -> Unit]
  BY UnitsAssumption DEF Encode, Unit
<1> QED BY <1>1, SeqDef, UnitsAssumption

\* An encoded command has Units units, numbered from 1.
LEMMA EncodeProperties ==
    ASSUME NEW c
    PROVE  Len(Encode(c)) = Units /\ \A p \in 1 .. Units : Encode(c)[p] = <<c, p>>
BY UnitsAssumption DEF Encode

\* A file cut anywhere, by a crash or by load, is still in order.
LEMMA PrefixInOrder ==
    ASSUME NEW s \in Seq(Unit), NEW n \in 0 .. Len(s), InOrder(s)
    PROVE  /\ SubSeq(s, 1, n) \in Seq(Unit) /\ Len(SubSeq(s, 1, n)) = n
           /\ \A i \in 1 .. n : SubSeq(s, 1, n)[i] = s[i]
           /\ InOrder(SubSeq(s, 1, n))
<1> DEFINE r == SubSeq(s, 1, n)
<1>1. Len(s) \in Nat /\ \A i \in 1 .. Len(s) : s[i] \in Unit
  BY LenProperties
<1>2. r \in Seq(Unit) /\ Len(r) = n /\ \A i \in 1 .. n : r[i] = s[i]
  BY <1>1, SubSeqProperties
<1> HIDE DEF r
<1>3. ASSUME NEW i \in 1 .. n
      PROVE  i \in 1 .. Len(s) /\ (i > 1 => i - 1 \in 1 .. n)
  BY <1>1
<1>4. InOrder(r)
  BY <1>2, <1>3 DEF InOrder
<1> QED BY <1>2, <1>4 DEF r

\* append to a complete run of earlier commands.
LEMMA ExtendInOrder ==
    ASSUME NEW s \in Seq(Unit), InOrder(s), Len(s) % Units = 0,
           NEW c \in 1 .. MaxCommands, \A i \in 1 .. Len(s) : s[i][1] < c
    PROVE  /\ InOrder(s \o Encode(c))
           /\ \A i \in 1 .. Len(s \o Encode(c)) : (s \o Encode(c))[i][1] < c + 1
           /\ Len(s \o Encode(c)) % Units = 0
<1> DEFINE n == Len(s)
           r == s \o Encode(c)
<1>1. n \in Nat /\ Units \in Nat \ {0} /\ c \in Int
  BY LenProperties, UnitsAssumption
<1>2. /\ Len(r) = n + Units
      /\ \A i \in 1 .. n + Units : r[i] = IF i <= n THEN s[i] ELSE Encode(c)[i - n]
  BY <1>1, EncodeType, EncodeProperties, ConcatProperties, ZenonT(40)
<1>3. \A i \in 1 .. n : s[i] \in Unit /\ s[i][1] \in Int /\ s[i][1] < c
  BY <1>1, UnitsAssumption, LenProperties DEF Unit
<1>0. n % Units = 0
  OBVIOUS
<1> HIDE DEF n, r
<1>4. Len(r) % Units = 0
  <2>1. (n + Units) % Units = 0
    BY <1>0, <1>1, Remainders
  <2> QED BY <1>2, <2>1
<1>5. ASSUME NEW i \in 1 .. n + Units, ~(i <= n)
      PROVE  /\ i - n \in 1 .. Units /\ r[i] = <<c, i - n>>
             /\ i - n = ((i - 1) % Units) + 1
  <2>1. i - n \in 1 .. Units /\ (i - n) - 1 \in 0 .. Units - 1
    BY <1>1, <1>5
  <2>2. r[i] = <<c, i - n>>
    BY <1>2, <1>5, <2>1, EncodeProperties
  <2>3. \A b \in 0 .. Units - 1 : (n + b) % Units = b
    BY <1>0, <1>1, Remainders
  <2>4. (n + ((i - n) - 1)) % Units = (i - n) - 1
    BY <2>1, <2>3
  <2>5. n + ((i - n) - 1) = i - 1
    BY <1>1
  <2> QED BY <1>1, <2>1, <2>2, <2>4, <2>5
<1>6. ASSUME NEW i \in 1 .. n PROVE r[i] = s[i] /\ i \in 1 .. n + Units
  BY <1>1, <1>2
<1>7. ASSUME NEW i \in 1 .. n + Units PROVE r[i][1] < c + 1
  <2>1. CASE i <= n
    <3>1. i \in 1 .. n
      BY <1>1, <2>1
    <3> QED BY <1>1, <1>3, <1>6, <3>1
  <2>2. CASE ~(i <= n)
    BY <1>1, <1>5, <2>2
  <2> QED BY <2>1, <2>2
<1>8. ASSUME NEW i \in 1 .. n + Units
      PROVE  /\ r[i][2] = ((i - 1) % Units) + 1
             /\ i > 1 => IF r[i][2] = 1 THEN r[i][1] > r[i - 1][1]
                                       ELSE r[i][1] = r[i - 1][1]
  <2>1. CASE i <= n
    <3>1. i \in 1 .. n /\ (i > 1 => i - 1 \in 1 .. n)
      BY <1>1, <2>1
    <3>2. r[i] = s[i] /\ (i > 1 => r[i - 1] = s[i - 1])
      BY <1>6, <3>1
    <3> QED BY <3>1, <3>2 DEF InOrder, n
  <2>2. CASE i = n + 1
    <3>1. ~(i <= n) /\ i - n = 1 /\ (i > 1 => i - 1 \in 1 .. n)
      BY <1>1, <2>2
    <3>2. r[i] = <<c, 1>> /\ 1 = ((i - 1) % Units) + 1
      BY <1>5, <3>1
    <3>3. i > 1 => r[i - 1][1] < c /\ r[i - 1][1] \in Int
      BY <1>3, <1>6, <3>1
    <3> QED BY <1>1, <3>2, <3>3
  <2>3. CASE i > n + 1
    <3>1. /\ ~(i <= n) /\ ~(i - 1 <= n) /\ i - 1 \in 1 .. n + Units /\ i - n # 1
      BY <1>1, <2>3
    <3>2. r[i] = <<c, i - n>> /\ i - n = ((i - 1) % Units) + 1 /\ r[i - 1] = <<c, (i - 1) - n>>
      BY <1>5, <3>1
    <3> QED BY <3>1, <3>2
  <2> QED BY <1>1, <2>1, <2>2, <2>3
<1>9. InOrder(r)
  BY <1>2, <1>8 DEF InOrder
<1> QED BY <1>2, <1>4, <1>7, <1>9 DEF r

\* A step that appends nothing and does not restart keeps the history.
LEMMA SameHistory ==
    ASSUME HistoryInOrder, appended' = appended, next' = next,
           pc' # "down" => pc # "down"
    PROVE  HistoryInOrder'
BY DEF HistoryInOrder, InOrder

\* The file is the beginning of the history.
LEMMA FileIsPrefix ==
    ASSUME TypeOK, NothingLostOrRepeated
    PROVE  /\ Len(file) \in 0 .. Len(appended)
           /\ \A i \in 1 .. Len(file) : file[i] = appended[i]
<1>1. Len(buffer) \in Nat /\ \A i \in 1 .. Len(buffer) : buffer[i] \in Unit
  BY LenProperties DEF TypeOK
<1>2. Pending \in Seq(Unit)
  BY <1>1, SubSeqProperties DEF Pending, TypeOK
<1>3. Len(file) \in Nat /\ Len(Pending) \in Nat
  BY <1>2, LenProperties DEF TypeOK
<1>4. /\ Len(appended) = Len(file) + Len(Pending)
      /\ \A i \in 1 .. Len(file) + Len(Pending) :
            appended[i] = IF i <= Len(file) THEN file[i] ELSE Pending[i - Len(file)]
  BY <1>2, ConcatProperties DEF NothingLostOrRepeated, TypeOK
<1>5. ASSUME NEW i \in 1 .. Len(file)
      PROVE  i \in 1 .. Len(file) + Len(Pending) /\ i <= Len(file)
  BY <1>3
<1> QED BY <1>3, <1>4, <1>5

\* So the file is in order if the history is.
LEMMA FileInOrder ==
    ASSUME TypeOK, NothingLostOrRepeated, HistoryInOrder
    PROVE  /\ InOrder(file)
           /\ \A i \in 1 .. Len(file) : file[i][1] < next
<1>1. /\ Len(file) \in 0 .. Len(appended) /\ Len(appended) \in Nat
      /\ \A i \in 1 .. Len(file) : file[i] = appended[i]
  BY FileIsPrefix, LenProperties DEF TypeOK
<1>2. ASSUME NEW i \in 1 .. Len(file)
      PROVE  i \in 1 .. Len(appended) /\ (i > 1 => i - 1 \in 1 .. Len(file))
  BY <1>1
<1> QED BY <1>1, <1>2 DEF HistoryInOrder, InOrder

\* The constructor leaves an object in which the invariant holds.
LEMMA InitInv == Init => Inv
<1> SUFFICES ASSUME Init PROVE Inv
  OBVIOUS
<1>0. <<>> \in Seq(Unit) /\ Len(<<>>) = 0
  BY EmptySeq
<1>1. TypeOK
  <2>1. buffer \in Seq(Unit) /\ file \in Seq(Unit) /\ appended \in Seq(Unit)
    BY <1>0 DEF Init
  <2>2. written \in 0 .. Len(buffer) /\ synced \in 0 .. Len(file)
    BY <1>0 DEF Init
  <2>3. next \in 1 .. MaxCommands + 1 /\ crashes \in 0 .. MaxCrashes
    BY UnitsAssumption DEF Init
  <2> QED BY <2>1, <2>2, <2>3 DEF Init, TypeOK
<1>2. AtRest /\ UnhealthyHasPending
  BY DEF Init, AtRest, UnhealthyHasPending
<1>3. Pending = <<>>
  BY SubSeqEmpty, EmptySeq DEF Init, Pending
<1>4. NothingLostOrRepeated
  BY <1>3, EmptySeq, ConcatEmptySeq DEF Init, NothingLostOrRepeated
<1>5. HistoryInOrder
  BY <1>0, UnitsAssumption DEF Init, HistoryInOrder, InOrder
<1> QED BY <1>1, <1>2, <1>4, <1>5 DEF Inv

\* append adds the command at the end of the buffer.
LEMMA AppendInv == Inv /\ AppendCommand => Inv'
<1> SUFFICES ASSUME Inv, AppendCommand PROVE Inv'
  OBVIOUS
<1> USE DEF Inv
<1>1. next \in 1 .. MaxCommands /\ next' \in 1 .. MaxCommands + 1
  BY UnitsAssumption DEF AppendCommand, TypeOK
<1>2. Encode(next) \in Seq(Unit)
  BY <1>1, EncodeType
<1>3. /\ buffer' \in Seq(Unit) /\ appended' \in Seq(Unit)
      /\ Len(buffer') = Len(buffer) + Len(Encode(next))
      /\ Len(buffer) \in Nat /\ Len(Encode(next)) \in Nat
  BY <1>2, ConcatProperties, LenProperties DEF AppendCommand, TypeOK
<1>4. written = 0 /\ written' = 0
  BY DEF AppendCommand, AtRest
<1>5. TypeOK'
  BY <1>1, <1>3, <1>4 DEF AppendCommand, TypeOK
<1>6. AtRest'
  BY <1>4 DEF AppendCommand, AtRest
<1>7. Pending = buffer /\ Pending' = buffer'
  BY <1>3, <1>4, SubSeqFull DEF Pending, TypeOK
<1>8. NothingLostOrRepeated'
  <2>1. (file \o buffer) \o Encode(next) = file \o (buffer \o Encode(next))
    BY <1>2, ConcatAssociative, SMTT(30) DEF TypeOK
  <2> QED BY <1>7, <2>1 DEF AppendCommand, NothingLostOrRepeated
<1>9. UnhealthyHasPending'
  BY <1>2, ConcatEqualIffEmpty DEF AppendCommand, UnhealthyHasPending, TypeOK
<1>10. HistoryInOrder'
  <2>1. appended \in Seq(Unit) /\ InOrder(appended) /\ Len(appended) % Units = 0
    BY DEF HistoryInOrder, AppendCommand, TypeOK
  <2>2. /\ InOrder(appended \o Encode(next))
        /\ \A i \in 1 .. Len(appended \o Encode(next)) :
              (appended \o Encode(next))[i][1] < next + 1
        /\ Len(appended \o Encode(next)) % Units = 0
    BY <1>1, <2>1, ExtendInOrder DEF HistoryInOrder
  <2>3. appended' = appended \o Encode(next) /\ next' = next + 1
    BY DEF AppendCommand
  <2>4. InOrder(appended')
    BY <2>2, <2>3
  <2>5. InOrder(appended)'
    BY <2>4 DEF InOrder
  <2> QED BY <2>2, <2>3, <2>5 DEF HistoryInOrder
<1> QED BY <1>5, <1>6, <1>8, <1>9, <1>10

\* A write, whole or partial, moves units from the buffer to the file.
LEMMA WriteSomeInv == Inv /\ WriteSome => Inv'
<1> SUFFICES ASSUME Inv, WriteSome PROVE Inv'
  OBVIOUS
<1> USE DEF Inv
<1>1. PICK n \in 1 .. Len(buffer) - written :
         /\ file' = file \o SubSeq(buffer, written + 1, written + n)
         /\ written' = written + n
  BY DEF WriteSome
<1>2. /\ Len(buffer) \in Nat /\ Len(file) \in Nat
      /\ \A i \in 1 .. Len(buffer) : buffer[i] \in Unit
  BY LenProperties DEF TypeOK
<1>3. /\ written \in Nat /\ written + n <= Len(buffer) /\ n \in Nat /\ n > 0
      /\ written + 1 \in 1 .. Len(buffer) + 1
      /\ written + n \in (written + 1) - 1 .. Len(buffer)
      /\ Len(buffer) \in written + n .. Len(buffer)
  BY <1>2 DEF TypeOK
<1> DEFINE piece == SubSeq(buffer, written + 1, written + n)
           rest == SubSeq(buffer, written + n + 1, Len(buffer))
<1>4. piece \in Seq(Unit)
  BY <1>2, <1>3, SubSeqProperties
<1>5. rest \in Seq(Unit)
  BY <1>2, <1>3, SubSeqProperties
<1>6. piece \o rest = Pending
  BY <1>3, ConcatAdjacentSubSeq DEF Pending, TypeOK
<1>7. Pending' = rest
  BY <1>1, <1>3 DEF Pending, WriteSome
<1> HIDE DEF piece, rest
<1>8. /\ file' = file \o piece /\ file' \in Seq(Unit)
      /\ Len(file') = Len(file) + Len(piece) /\ Len(piece) \in Nat
  BY <1>1, <1>4, ConcatProperties, LenProperties DEF piece, TypeOK
<1>9. TypeOK'
  BY <1>1, <1>2, <1>3, <1>8 DEF WriteSome, TypeOK
<1>10. AtRest'
  BY DEF WriteSome, AtRest
<1>11. file' \o Pending' = file \o (piece \o rest)
  <2>1. file \in Seq(Unit)
    BY DEF TypeOK
  <2>2. \A s, t, u \in Seq(Unit) : (s \o t) \o u = s \o (t \o u)
    BY ConcatAssociative
  <2>3. (file \o piece) \o rest = file \o (piece \o rest)
    BY <2>1, <1>4, <1>5, <2>2
  <2> QED BY <2>3, <1>7, <1>8
<1>12. NothingLostOrRepeated'
  BY <1>6, <1>11 DEF WriteSome, NothingLostOrRepeated
<1>13. UnhealthyHasPending'
  BY DEF WriteSome, UnhealthyHasPending
<1>14. HistoryInOrder'
  BY SameHistory DEF WriteSome
<1> QED BY <1>9, <1>10, <1>12, <1>13, <1>14

\* A failed write keeps the unwritten rest for the next flush.
LEMMA WriteFailsInv == Inv /\ WriteFails => Inv'
<1> SUFFICES ASSUME Inv, WriteFails PROVE Inv'
  OBVIOUS
<1> USE DEF Inv
<1>1. /\ Len(buffer) \in Nat
      /\ \A i \in 1 .. Len(buffer) : buffer[i] \in Unit
  BY LenProperties DEF TypeOK
<1>2. /\ Pending \in Seq(Unit)
      /\ Len(Pending) = Len(buffer) - written
      /\ Len(Pending) > 0 /\ Len(Pending) \in Nat
  BY <1>1, SubSeqProperties DEF Pending, TypeOK, WriteFails
<1>3. buffer' = Pending /\ written' = 0 /\ pc' \in {"ready", "sync"}
  BY DEF WriteFails, AfterFlush
<1>4. TypeOK'
  BY <1>2, <1>3 DEF WriteFails, TypeOK
<1>5. AtRest'
  BY <1>3 DEF AtRest
<1>6. Pending' = Pending
  <2>1. SubSeq(Pending, 1, Len(Pending)) = Pending
    BY <1>2, SubSeqFull
  <2>2. Pending' = SubSeq(buffer', 1, Len(buffer'))
    BY <1>3 DEF Pending
  <2> QED BY <1>3, <2>1, <2>2
<1>7. NothingLostOrRepeated'
  BY <1>6 DEF WriteFails, NothingLostOrRepeated
<1>8. UnhealthyHasPending'
  BY <1>2, <1>3, EmptySeq DEF UnhealthyHasPending
<1>9. HistoryInOrder'
  BY SameHistory DEF WriteFails
<1> QED BY <1>4, <1>5, <1>7, <1>8, <1>9

\* flush returns with an empty buffer once everything is written.
LEMMA FlushReturnsInv == Inv /\ FlushReturns => Inv'
<1> SUFFICES ASSUME Inv, FlushReturns PROVE Inv'
  OBVIOUS
<1> USE DEF Inv
<1>1. Len(buffer) \in Nat /\ Len(file) \in Nat
  BY LenProperties DEF TypeOK
<1>2. Pending = <<>>
  BY <1>1, SubSeqEmpty DEF Pending, FlushReturns, TypeOK
<1>3. buffer' = <<>> /\ written' = 0 /\ pc' \in {"ready", "sync"} /\ ~writeFailed'
  BY DEF FlushReturns, AfterFlush
<1>4. Pending' = <<>>
  BY <1>3, SubSeqEmpty, EmptySeq DEF Pending
<1>5. TypeOK'
  <2>1. <<>> \in Seq(Unit) /\ Len(<<>>) = 0
    BY EmptySeq
  <2>2. written' \in 0 .. Len(buffer') /\ buffer' \in Seq(Unit)
    BY <1>3, <2>1
  <2> QED BY <1>3, <2>2 DEF FlushReturns, TypeOK
<1>6. AtRest' /\ UnhealthyHasPending'
  BY <1>3 DEF AtRest, UnhealthyHasPending
<1>7. NothingLostOrRepeated'
  BY <1>2, <1>4 DEF FlushReturns, NothingLostOrRepeated
<1>8. HistoryInOrder'
  BY SameHistory DEF FlushReturns
<1> QED BY <1>5, <1>6, <1>7, <1>8

\* The end of a process, and of a machine, leaves an object whose history
\* is the file.
LEMMA GoDownInv ==
    ASSUME Inv, NEW contents \in Seq(Unit), synced \in 0 .. Len(contents),
           InOrder(contents), \A i \in 1 .. Len(contents) : contents[i][1] < next,
           GoDown(contents)
    PROVE  Inv'
<1> USE DEF Inv
<1>1. Pending' = <<>>
  BY SubSeqEmpty, EmptySeq DEF Pending, GoDown
<1>2. TypeOK'
  BY EmptySeq, UnitsAssumption DEF GoDown, TypeOK
<1>3. AtRest' /\ UnhealthyHasPending'
  BY DEF GoDown, AtRest, UnhealthyHasPending
<1>4. NothingLostOrRepeated'
  BY <1>1, ConcatEmptySeq DEF GoDown, NothingLostOrRepeated
<1>5. HistoryInOrder'
  <2>1. appended' = contents /\ next' = next /\ pc' = "down"
    BY DEF GoDown
  <2>2. InOrder(appended)'
    BY <2>1 DEF InOrder
  <2> QED BY <2>1, <2>2 DEF HistoryInOrder
<1> QED BY <1>2, <1>3, <1>4, <1>5

\* A power failure keeps what is synced and a prefix of the rest.
LEMMA PowerFailureInv == Inv /\ PowerFailure => Inv'
<1> SUFFICES ASSUME Inv, PowerFailure PROVE Inv'
  OBVIOUS
<1>1. PICK n \in synced .. Len(file) : GoDown(SubSeq(file, 1, n))
  BY DEF PowerFailure
<1>2. Len(file) \in Nat /\ \A i \in 1 .. Len(file) : file[i] \in Unit
  BY LenProperties DEF Inv, TypeOK
<1>3. n \in Nat /\ n <= Len(file) /\ synced <= n /\ synced \in Nat
  BY <1>2 DEF Inv, TypeOK
<1>4. SubSeq(file, 1, n) \in Seq(Unit) /\ Len(SubSeq(file, 1, n)) = n
  BY <1>2, <1>3, SubSeqProperties
<1>5. synced \in 0 .. Len(SubSeq(file, 1, n))
  BY <1>3, <1>4
<1>6. InOrder(file) /\ \A i \in 1 .. Len(file) : file[i][1] < next
  BY FileInOrder DEF Inv
<1>7. /\ InOrder(SubSeq(file, 1, n))
      /\ \A i \in 1 .. n : SubSeq(file, 1, n)[i] = file[i] /\ i \in 1 .. Len(file)
  BY <1>2, <1>3, <1>6, PrefixInOrder, SMTT(30) DEF Inv, TypeOK
<1> QED BY <1>1, <1>4, <1>5, <1>6, <1>7, GoDownInv

\* load and open start a new object on the repaired file.
LEMMA LoadInv == Inv /\ LoadAndOpen => Inv'
<1> SUFFICES ASSUME Inv, LoadAndOpen PROVE Inv'
  OBVIOUS
<1> USE DEF Inv
<1>1. /\ WholeLength(file) \in 0 .. Len(file)
      /\ Whole(file) \in Seq(Unit)
      /\ Len(Whole(file)) = WholeLength(file)
      /\ Len(file) \in Nat
  BY WholeProperties, LenProperties DEF TypeOK
<1>2. /\ file' = Whole(file) /\ appended' = Whole(file)
      /\ buffer' = <<>> /\ written' = 0 /\ ~writeFailed' /\ pc' = "ready"
  BY DEF LoadAndOpen, AtRest
<1>3. synced' \in 0 .. Len(file')
  BY <1>1, <1>2 DEF LoadAndOpen, TypeOK
<1>4. TypeOK'
  BY <1>1, <1>2, <1>3, EmptySeq DEF LoadAndOpen, TypeOK
<1>5. AtRest' /\ UnhealthyHasPending'
  BY <1>2 DEF AtRest, UnhealthyHasPending
<1>6. Pending' = <<>>
  BY <1>2, SubSeqEmpty, EmptySeq DEF Pending
<1>7. NothingLostOrRepeated'
  BY <1>1, <1>2, <1>6, ConcatEmptySeq DEF NothingLostOrRepeated
<1>8. HistoryInOrder'
  <2>1. InOrder(file) /\ \A i \in 1 .. Len(file) : file[i][1] < next
    BY FileInOrder
  <2>2. /\ InOrder(Whole(file))
        /\ \A i \in 1 .. WholeLength(file) : Whole(file)[i] = file[i] /\ i \in 1 .. Len(file)
    BY <1>1, <2>1, PrefixInOrder DEF Whole, TypeOK
  <2>3. WholeLength(file) % Units = 0
    BY <1>1, Remainders, UnitsAssumption DEF WholeLength
  <2>4. next' = next
    BY DEF LoadAndOpen
  <2>5. InOrder(appended)'
    BY <1>2, <2>2 DEF InOrder
  <2> QED BY <1>1, <1>2, <2>1, <2>2, <2>3, <2>4, <2>5 DEF HistoryInOrder
<1> QED BY <1>4, <1>5, <1>7, <1>8

\* Starting a flush or the destructor and syncing leave the data alone.
LEMMA ControlInv ==
    Inv /\ (FlushStart \/ Destroy \/ Sync(TRUE) \/ Sync(FALSE) \/ UNCHANGED vars)
        => Inv'
<1> SUFFICES ASSUME Inv, FlushStart \/ Destroy \/ Sync(TRUE) \/ Sync(FALSE)
                         \/ UNCHANGED vars
             PROVE  Inv'
  OBVIOUS
<1> USE DEF Inv
<1>1. Len(file) \in Nat
  BY LenProperties DEF TypeOK
<1>2. /\ buffer' = buffer /\ written' = written /\ file' = file
      /\ appended' = appended /\ writeFailed' = writeFailed
      /\ next' = next /\ crashes' = crashes
      /\ synced' \in 0 .. Len(file)
      /\ needsSync' \in BOOLEAN /\ closing' \in BOOLEAN
      /\ pc' \in {"ready", "flush", "sync", "down"}
      /\ pc' = "down" <=> pc = "down"
      /\ pc' # "flush" => pc # "flush"
  <2>1. CASE FlushStart
    BY <2>1 DEF FlushStart, TypeOK
  <2>2. CASE Destroy
    BY <2>2 DEF Destroy, TypeOK
  <2>3. CASE Sync(TRUE)
    <3>1. synced' = Len(file)
      BY <2>3 DEF Sync
    <3>2. synced' \in 0 .. Len(file)
      BY <1>1, <3>1
    <3>3. needsSync' \in BOOLEAN /\ closing' \in BOOLEAN
      BY <2>3 DEF Sync, TypeOK
    <3> QED BY <2>3, <3>2, <3>3 DEF Sync, TypeOK
  <2>4. CASE Sync(FALSE)
    BY <2>4 DEF Sync, TypeOK
  <2>5. CASE UNCHANGED vars
    BY <2>5 DEF vars, TypeOK
  <2> QED BY <2>1, <2>2, <2>3, <2>4, <2>5
<1>3. TypeOK'
  BY <1>2 DEF TypeOK
<1>4. AtRest'
  BY <1>2 DEF AtRest
<1>5. UnhealthyHasPending'
  BY <1>2 DEF UnhealthyHasPending
<1>6. NothingLostOrRepeated'
  BY <1>2 DEF NothingLostOrRepeated, Pending
<1>7. HistoryInOrder'
  BY <1>2, SameHistory
<1> QED BY <1>3, <1>4, <1>5, <1>6, <1>7

\* Every step of the object and of its environment keeps the invariant.
LEMMA NextInv == Inv /\ [Next]_vars => Inv'
<1> SUFFICES ASSUME Inv, [Next]_vars PROVE Inv'
  OBVIOUS
<1>1. CASE AppendCommand
  BY <1>1, AppendInv
<1>2. CASE FlushStart \/ Destroy \/ Sync(TRUE) \/ Sync(FALSE) \/ UNCHANGED vars
  BY <1>2, ControlInv
<1>3. CASE WriteSome
  BY <1>3, WriteSomeInv
<1>4. CASE WriteFails
  BY <1>4, WriteFailsInv
<1>5. CASE FlushReturns
  BY <1>5, FlushReturnsInv
<1>6. CASE CloseFile \/ Crash
  BY <1>6, GoDownInv, FileInOrder DEF CloseFile, Crash, Inv, TypeOK
<1>7. CASE PowerFailure
  BY <1>7, PowerFailureInv
<1>8. CASE LoadAndOpen
  BY <1>8, LoadInv
<1> QED BY <1>1, <1>2, <1>3, <1>4, <1>5, <1>6, <1>7, <1>8 DEF Next, FlushNothing

\* The object's variables keep their types: flush's cursor stays within the
\* buffer and the synced length within the file.
THEOREM TypeInvariant == Spec => []TypeOK
<1>1. Inv => TypeOK
  BY DEF Inv
<1> QED BY InitInv, NextInv, <1>1, PTL DEF Spec

\* Partial writes, failed writes and retries by flush lose and repeat
\* nothing of what append was given.
THEOREM NothingLost == Spec => []NothingLostOrRepeated
<1>1. Inv => NothingLostOrRepeated
  BY DEF Inv
<1> QED BY InitInv, NextInv, <1>1, PTL DEF Spec

\* As long as healthy() is false there is something for flush to retry, so
\* that a recovered disk can end the refusal of write commands.
THEOREM UnhealthyCanRecover == Spec => []UnhealthyHasPending
<1>1. Inv => UnhealthyHasPending
  BY DEF Inv
<1> QED BY InitInv, NextInv, <1>1, PTL DEF Spec

\* Whatever partial writes, crashes and power failures do, the file that load
\* reads is a run of whole commands in the order they were appended, with at
\* most its last one truncated.
THEOREM FileWellFormed == Spec => []FileIsWellFormed
<1>1. Inv => FileIsWellFormed
  BY FileInOrder DEF Inv, FileIsWellFormed
<1> QED BY InitInv, NextInv, <1>1, PTL DEF Spec

\* The whole commands among the synced units are a prefix of every file that
\* agrees with the old one as far as load would keep it.
LEMMA SyncedPrefix ==
    ASSUME Inv, NEW r \in Seq(Unit), NEW n \in 0 .. Len(file),
           synced - (synced % Units) <= n, n <= Len(r),
           \A i \in 1 .. n : r[i] = file[i]
    PROVE  IsPrefix(Whole(SubSeq(file, 1, synced)), r)
<1> DEFINE w == synced - (synced % Units)
           s == SubSeq(file, 1, synced)
           p == Whole(s)
<1>1. /\ Len(file) \in Nat /\ synced \in 0 .. Len(file) /\ file \in Seq(Unit)
      /\ \A i \in 1 .. Len(file) : file[i] \in Unit
  BY LenProperties DEF Inv, TypeOK
<1>2. s \in Seq(Unit) /\ Len(s) = synced /\ \A i \in 1 .. synced : s[i] = file[i]
  BY <1>1, SubSeqProperties
<1>0. synced \in Nat /\ Units \in Nat \ {0}
  BY <1>1, UnitsAssumption
<1>3. w \in 0 .. synced
  BY <1>0, Remainders
<1> HIDE DEF s
<1>4. p = SubSeq(s, 1, w)
  BY <1>2 DEF Whole, WholeLength
<1> HIDE DEF p, w
<1>5. /\ p \in Seq(Unit) /\ Len(p) = w
      /\ \A i \in 1 .. w : p[i] = s[i]
  <2>1. \A i \in 1 .. w : s[i] \in Unit
    BY <1>1, <1>2, <1>3
  <2> QED BY <1>1, <1>2, <1>3, <1>4, <2>1, SubSeqProperties
<1>6. Len(r) \in Nat /\ w <= n /\ w \in Nat /\ n \in Nat
      /\ \A i \in 1 .. Len(r) : r[i] \in Unit
  BY <1>1, <1>3, LenProperties DEF w
<1>7. /\ SubSeq(r, 1, w) \in Seq(Unit) /\ Len(SubSeq(r, 1, w)) = w
      /\ \A i \in 1 .. w : SubSeq(r, 1, w)[i] = r[i]
  BY <1>6, SubSeqProperties
<1>8. ASSUME NEW i \in 1 .. w PROVE p[i] = SubSeq(r, 1, w)[i]
  <2>1. i \in 1 .. synced /\ i \in 1 .. n
    BY <1>1, <1>3, <1>6
  <2> QED BY <1>2, <1>5, <1>7, <2>1
<1>9. p = SubSeq(r, 1, w)
  BY <1>5, <1>7, <1>8, SeqEqual
<1>10. SubSeq(p, 1, Len(p)) = p
  BY <1>5, SubSeqFull
<1>11. IsPrefix(p, r)
  BY <1>5, <1>6, <1>9, <1>10 DEF IsPrefix
<1> QED BY <1>11 DEF p, s

\* No step takes a whole command that fsync has put on the disk out of the
\* file or moves it: neither a crash, nor a power failure, nor load's cut.
THEOREM SyncedSurvive == Spec => SyncedCommandsSurvive
<1> DEFINE Kept == IsPrefix(Whole(SubSeq(file, 1, synced)), file')
<1>1. Inv /\ Inv' /\ [Next]_vars => [Kept]_vars
  <2> SUFFICES ASSUME Inv, Inv', Next PROVE Kept
    OBVIOUS
  <2>1. /\ Len(file) \in Nat /\ synced \in 0 .. Len(file)
        /\ file \in Seq(Unit) /\ file' \in Seq(Unit) /\ Len(file') \in Nat
        /\ \A i \in 1 .. Len(file) : file[i] \in Unit
    BY LenProperties DEF Inv, TypeOK
  <2>0. synced \in Nat /\ Units \in Nat \ {0} /\ synced <= Len(file)
    BY <2>1, UnitsAssumption
  <2>2. synced - (synced % Units) \in 0 .. synced
    BY <2>0, Remainders
  <2>3. CASE file' = file
    BY <2>1, <2>2, <2>3, SyncedPrefix
  <2>4. CASE WriteSome
    <3>1. PICK n \in 1 .. Len(buffer) - written :
             file' = file \o SubSeq(buffer, written + 1, written + n)
      BY <2>4 DEF WriteSome
    <3>2. /\ Len(buffer) \in Nat /\ written \in 0 .. Len(buffer)
          /\ buffer \in Seq(Unit) /\ \A i \in 1 .. Len(buffer) : buffer[i] \in Unit
      BY LenProperties DEF Inv, TypeOK
    <3> DEFINE piece == SubSeq(buffer, written + 1, written + n)
    <3>3. piece \in Seq(Unit)
      BY <3>2, SubSeqProperties
    <3> HIDE DEF piece
    <3>4. Len(piece) \in Nat
      BY <3>3, LenProperties
    <3>5. /\ Len(file') = Len(file) + Len(piece)
          /\ \A i \in 1 .. Len(file) + Len(piece) :
                file'[i] = IF i <= Len(file) THEN file[i] ELSE piece[i - Len(file)]
      BY <2>1, <3>1, <3>3, ConcatProperties DEF piece
    <3>6. \A i \in 1 .. Len(file) : i \in 1 .. Len(file) + Len(piece) /\ i <= Len(file)
      BY <2>1, <3>4
    <3>7. Len(file) <= Len(file') /\ Len(file) \in 0 .. Len(file)
          /\ synced - (synced % Units) <= Len(file)
      BY <2>1, <2>2, <3>4, <3>5
    <3> QED BY <2>1, <3>5, <3>6, <3>7, SyncedPrefix
  <2>5. CASE PowerFailure
    <3>1. PICK n \in synced .. Len(file) : file' = SubSeq(file, 1, n)
      BY <2>5 DEF PowerFailure, GoDown
    <3>2. n \in 0 .. Len(file) /\ synced <= n /\ n \in Int
      BY <2>1
    <3>3. Len(file') = n /\ \A i \in 1 .. n : file'[i] = file[i]
      BY <2>1, <3>1, <3>2, SubSeqProperties
    <3>4. synced - (synced % Units) <= n /\ n <= Len(file')
      BY <2>1, <2>2, <3>2, <3>3
    <3> QED BY <2>1, <3>2, <3>3, <3>4, SyncedPrefix
  <2>6. CASE LoadAndOpen
    <3> DEFINE n == WholeLength(file)
    <3>1. file' = SubSeq(file, 1, n)
      BY <2>6 DEF LoadAndOpen, Whole
    <3>2. n \in 0 .. Len(file) /\ synced - (synced % Units) <= n
      <4>1. /\ Len(file) - (Len(file) % Units) \in 0 .. Len(file)
            /\ \A c \in Nat : c <= Len(file) =>
                  c - (c % Units) <= Len(file) - (Len(file) % Units)
        BY <2>0, <2>1, Remainders
      <4> QED BY <2>0, <4>1 DEF WholeLength
    <3> HIDE DEF n
    <3>3. Len(file') = n /\ \A i \in 1 .. n : file'[i] = file[i]
      BY <2>1, <3>1, <3>2, SubSeqProperties
    <3>4. n <= Len(file')
      BY <2>1, <3>2, <3>3
    <3> QED BY <2>1, <3>2, <3>3, <3>4, SyncedPrefix
  <2>7. file' = file \/ WriteSome \/ PowerFailure \/ LoadAndOpen
    BY DEF Next, AppendCommand, FlushNothing, FlushStart, WriteFails, FlushReturns,
           Sync, Destroy, CloseFile, Crash, GoDown, vars
  <2> QED BY <2>3, <2>4, <2>5, <2>6, <2>7
<1> QED BY InitInv, NextInv, <1>1, PTL DEF Spec, SyncedCommandsSurvive
=============================================================================
