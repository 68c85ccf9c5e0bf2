-------------------------- MODULE DatabaseOpsProofs --------------------------
(***************************************************************************)
(* What the methods of the object do, for every set of keys and words: the *)
(* lemmas that the proofs about Database and about CommandProcessor share. *)
(*                                                                         *)
(* Each of the three parts has one lemma per private helper and one per    *)
(* method.  The first shows that the containers stay well-formed.  The     *)
(* second shows that the object stays Sound: memoryUsed moves by the bytes *)
(* that the value of the key gained or lost.  It begins with what the      *)
(* loops that count bytes compute: the size of a text, and the cost of a   *)
(* list, a hash or a set when elements are added, replaced or removed.     *)
(* The third shows what a method leaves of the other keys.                 *)
(***************************************************************************)
EXTENDS DatabaseOps, Sums, SequenceTheorems, FiniteSetTheorems, TLAPS

(***************************************************************************)
(* The containers.                                                         *)
(***************************************************************************)
\* The invariant as a predicate on an object; data has keys only.
WellFormed(d) ==
    /\ LruConsistent(d)
    /\ VolatileConsistent(d)
    /\ DOMAIN d.data \subseteq Key

\* What removing one element does to a sequence: the list erase that
\* Unlink models.
LEMMA RemoveAtProperties ==
    ASSUME NEW S, NEW s \in Seq(S), NEW p \in 1 .. Len(s)
    PROVE  /\ RemoveAt(s, p) \in Seq(S)
           /\ Len(RemoveAt(s, p)) = Len(s) - 1
           /\ \A i \in 1 .. Len(s) - 1 :
                 RemoveAt(s, p)[i] = IF i < p THEN s[i] ELSE s[i + 1]
<1> DEFINE a == SubSeq(s, 1, p - 1)
           b == SubSeq(s, p + 1, Len(s))
           r == RemoveAt(s, p)
<1>1. /\ a \in Seq(S) /\ Len(a) = p - 1
      /\ \A i \in 1 .. p - 1 : a[i] = s[i]
  BY SubSeqProperties
<1>2. /\ b \in Seq(S) /\ Len(b) = Len(s) - p
      /\ \A i \in 1 .. Len(s) - p : b[i] = s[p + i]
  BY SubSeqProperties
<1>3. r = a \o b
  BY DEF RemoveAt
<1> HIDE DEF a, b, r
<1>4. /\ r \in Seq(S) /\ Len(r) = Len(a) + Len(b)
      /\ \A i \in 1 .. Len(a) + Len(b) :
             r[i] = IF i <= Len(a) THEN a[i] ELSE b[i - Len(a)]
  BY <1>1, <1>2, <1>3, ConcatProperties
<1>5. ASSUME NEW i \in 1 .. Len(s) - 1
      PROVE  r[i] = IF i < p THEN s[i] ELSE s[i + 1]
  <2>1. /\ Len(s) \in Nat /\ i \in Int /\ 1 <= i /\ i <= Len(s) - 1
        /\ p \in Int /\ 1 <= p /\ p <= Len(s)
    BY LenProperties
  <2>2. r[i] = IF i <= p - 1 THEN a[i] ELSE b[i - (p - 1)]
    BY <2>1, <1>1, <1>2, <1>4
  <2>3. CASE i < p
    <3>1. i \in 1 .. p - 1 /\ i <= p - 1
      BY <2>1, <2>3
    <3> QED BY <2>2, <2>3, <3>1, <1>1
  <2>4. CASE ~(i < p)
    <3>1. i - (p - 1) \in 1 .. Len(s) - p /\ ~(i <= p - 1) /\ p + (i - (p - 1)) = i + 1
      BY <2>1, <2>4
    <3> QED BY <2>2, <2>4, <3>1, <1>2
  <2> QED BY <2>3, <2>4
<1>6. r \in Seq(S) /\ Len(r) = Len(s) - 1
  BY <1>1, <1>2, <1>4
<1> QED BY <1>5, <1>6 DEF r

\* Changing a value and its memory (addMemory, removeMemory) touches no
\* index.
LEMMA AssignWF ==
    ASSUME NEW d, WellFormed(d), NEW k \in DOMAIN d.data, NEW v, NEW n
    PROVE  WellFormed(assign(d, k, v, n)) /\ Has(assign(d, k, v, n), k)
<1> DEFINE c == assign(d, k, v, n)
<1>1. /\ c.lru = d.lru /\ c.volatileKeys = d.volatileKeys
      /\ DOMAIN c.data = DOMAIN d.data
      /\ \A x \in DOMAIN d.data : /\ c.data[x].volatileIndex = d.data[x].volatileIndex
                                 /\ c.data[x].expiresAtMs = d.data[x].expiresAtMs
  BY DEF assign, DB, Entry, With
<1> HIDE DEF c
<1>2. LruConsistent(c)
  BY <1>1 DEF WellFormed, LruConsistent
<1>3. VolatileConsistent(c)
  BY <1>1 DEF WellFormed, VolatileConsistent
<1> QED BY <1>1, <1>2, <1>3 DEF WellFormed, Has, c

\* What putting an element in front does to a sequence: push_front.
LEMMA ConsProperties ==
    ASSUME NEW S, NEW s \in Seq(S), NEW x \in S
    PROVE  /\ <<x>> \o s \in Seq(S)
           /\ Len(<<x>> \o s) = Len(s) + 1
           /\ (<<x>> \o s)[1] = x
           /\ \A i \in 1 .. Len(s) : (<<x>> \o s)[i + 1] = s[i]
<1>1. <<x>> \in Seq(S) /\ Len(<<x>>) = 1 /\ <<x>>[1] = x
  OBVIOUS
<1> DEFINE r == <<x>> \o s
<1>2. /\ r \in Seq(S) /\ Len(r) = 1 + Len(s)
      /\ \A i \in 1 .. 1 + Len(s) : r[i] = IF i <= 1 THEN <<x>>[i] ELSE s[i - 1]
  BY <1>1, ConcatProperties
<1>3. Len(s) \in Nat
  BY LenProperties
<1> HIDE DEF r
<1>4. r[1] = x
  BY <1>1, <1>2, <1>3
<1>5. ASSUME NEW i \in 1 .. Len(s) PROVE r[i + 1] = s[i]
  <2>1. i + 1 \in 1 .. 1 + Len(s) /\ ~(i + 1 <= 1) /\ (i + 1) - 1 = i
    BY <1>3
  <2> QED BY <2>1, <1>2
<1> QED BY <1>2, <1>3, <1>4, <1>5 DEF r

\* create enters a missing key into data and at the front of lru, without
\* an expiry.
LEMMA CreateWF ==
    ASSUME NEW d, WellFormed(d), NEW k \in Key, k \notin DOMAIN d.data, NEW v
    PROVE  WellFormed(create(d, k, v)) /\ Has(create(d, k, v), k)
<1> DEFINE c == create(d, k, v)
<1>1. /\ c.lru = <<k>> \o d.lru
      /\ c.volatileKeys = d.volatileKeys
      /\ DOMAIN c.data = DOMAIN d.data \cup {k}
      /\ c.data[k].volatileIndex = NOT_VOLATILE
      /\ c.data[k].expiresAtMs = NO_EXPIRY
      /\ \A x \in DOMAIN d.data : c.data[x] = d.data[x]
  BY DEF create, DB, With, Entry, WellFormed
<1> HIDE DEF c
<1>2. LruConsistent(c)
  <2>1. /\ c.lru \in Seq(Key) /\ Len(c.lru) = Len(d.lru) + 1 /\ c.lru[1] = k
        /\ \A i \in 1 .. Len(d.lru) : c.lru[i + 1] = d.lru[i]
    BY <1>1, ConsProperties DEF WellFormed, LruConsistent
  <2> DEFINE n == Len(d.lru)
  <2>a. n \in Nat
    BY LenProperties DEF WellFormed, LruConsistent
  <2>2. ASSUME NEW i \in 1 .. Len(c.lru), i # 1
        PROVE  i - 1 \in 1 .. n /\ c.lru[i] = d.lru[i - 1] /\ c.lru[i] # k
    <3>1. i - 1 \in 1 .. n /\ (i - 1) + 1 = i
      BY <2>1, <2>2, <2>a
    <3>2. c.lru[i] = d.lru[i - 1]
      BY <3>1, <2>1
    <3>3. d.lru[i - 1] \in Key /\ d.lru[i - 1] # k
      BY <3>1 DEF WellFormed, LruConsistent
    <3> QED BY <3>1, <3>2, <3>3
  <2>3. ASSUME NEW i \in 1 .. Len(c.lru), NEW j \in 1 .. Len(c.lru),
               c.lru[i] = c.lru[j]
        PROVE  i = j
    <3>1. CASE i = 1 \/ j = 1
      BY <3>1, <2>1, <2>2, <2>3
    <3>2. CASE i # 1 /\ j # 1
      <4>1. i - 1 = j - 1
        BY <3>2, <2>2, <2>3 DEF WellFormed, LruConsistent
      <4> QED BY <4>1, <2>1, <2>a
    <3> QED BY <3>1, <3>2
  <2>4. ASSUME NEW x \in Key
        PROVE  x \in DOMAIN c.data <=> \E i \in 1 .. Len(c.lru) : c.lru[i] = x
    <3>1. x \in DOMAIN d.data <=> \E i \in 1 .. n : d.lru[i] = x
      BY DEF WellFormed, LruConsistent
    <3>2. ASSUME NEW i \in 1 .. n
          PROVE  i + 1 \in 1 .. Len(c.lru) /\ c.lru[i + 1] = d.lru[i]
      BY <2>1, <2>a
    <3>3. 1 \in 1 .. Len(c.lru)
      BY <2>1, <2>a
    <3>4. CASE x = k
      BY <3>3, <3>4, <1>1, <2>1
    <3>5. CASE x # k /\ x \in DOMAIN d.data
      BY <3>1, <3>2, <3>5, <1>1
    <3>6. CASE x # k /\ x \notin DOMAIN d.data
      <4>1. ASSUME NEW i \in 1 .. Len(c.lru), c.lru[i] = x
            PROVE  FALSE
        <5>1. i # 1
          BY <4>1, <3>6, <2>1
        <5> QED BY <5>1, <4>1, <3>1, <3>6, <2>2
      <4> QED BY <4>1, <3>6, <1>1
    <3> QED BY <3>4, <3>5, <3>6
  <2> QED BY <2>1, <2>3, <2>4 DEF LruConsistent
<1>3. VolatileConsistent(c)
  BY <1>1 DEF WellFormed, VolatileConsistent, NOT_VOLATILE, NO_EXPIRY
<1> QED BY <1>1, <1>2, <1>3 DEF WellFormed, Has, c

\* setExpiry appends a key to volatileKeys at most once.
LEMMA SetExpiryWF ==
    ASSUME NEW d, WellFormed(d), NEW k \in DOMAIN d.data, NEW x, x # NO_EXPIRY
    PROVE  WellFormed(setExpiry(d, k, x))
<1> DEFINE s == setExpiry(d, k, x)
           n == Len(d.volatileKeys)
<1>1. /\ s.lru = d.lru
      /\ DOMAIN s.data = DOMAIN d.data
      /\ s.data[k].expiresAtMs = x
      /\ \A y \in DOMAIN d.data \ {k} : s.data[y] = d.data[y]
      /\ IF d.data[k].volatileIndex = NOT_VOLATILE
         THEN /\ s.volatileKeys = Append(d.volatileKeys, k)
              /\ s.data[k].volatileIndex = n + 1
         ELSE /\ s.volatileKeys = d.volatileKeys
              /\ s.data[k].volatileIndex = d.data[k].volatileIndex
  BY DEF setExpiry, DB, With, Entry, WellFormed
<1> HIDE DEF s
<1>2. LruConsistent(s)
  BY <1>1 DEF WellFormed, LruConsistent
<1>3. ASSUME d.data[k].volatileIndex = NOT_VOLATILE
      PROVE  VolatileConsistent(s)
  <2>1. s.volatileKeys = Append(d.volatileKeys, k) /\ s.data[k].volatileIndex = n + 1
    BY <1>1, <1>3
  <2>2. /\ s.volatileKeys \in Seq(Key) /\ Len(s.volatileKeys) = n + 1
        /\ s.volatileKeys[n + 1] = k /\ n \in Nat
        /\ \A i \in 1 .. n : s.volatileKeys[i] = d.volatileKeys[i]
    BY <2>1, AppendProperties, LenProperties DEF WellFormed, VolatileConsistent
  <2>3. ASSUME NEW i \in 1 .. Len(s.volatileKeys)
        PROVE  /\ s.volatileKeys[i] \in DOMAIN s.data
               /\ s.data[s.volatileKeys[i]].volatileIndex = i
    <3>1. CASE i = n + 1
      BY <3>1, <2>1, <2>2, <1>1
    <3>2. CASE i \in 1 .. n
      <4>1. /\ d.volatileKeys[i] \in DOMAIN d.data
            /\ d.data[d.volatileKeys[i]].volatileIndex = i
            /\ i # NOT_VOLATILE
        BY <3>2 DEF WellFormed, VolatileConsistent, NOT_VOLATILE
      <4> QED BY <4>1, <3>2, <2>2, <1>1, <1>3
    <3> QED BY <3>1, <3>2, <2>2
  <2>4. ASSUME NEW y \in DOMAIN s.data
        PROVE  LET e == s.data[y]
               IN  /\ e.volatileIndex \in 0 .. Len(s.volatileKeys)
                   /\ e.volatileIndex = NOT_VOLATILE <=> e.expiresAtMs = NO_EXPIRY
                   /\ e.volatileIndex # NOT_VOLATILE =>
                          s.volatileKeys[e.volatileIndex] = y
    <3>1. CASE y = k
      BY <3>1, <2>1, <2>2, <1>1 DEF NOT_VOLATILE
    <3>2. CASE y # k
      <4> DEFINE m == d.data[y].volatileIndex
      <4>1. /\ s.data[y] = d.data[y]
            /\ m \in 0 .. n
            /\ m = NOT_VOLATILE <=> d.data[y].expiresAtMs = NO_EXPIRY
            /\ m # NOT_VOLATILE => d.volatileKeys[m] = y
        BY <3>2, <1>1 DEF WellFormed, VolatileConsistent
      <4>2. m \in 0 .. n + 1 /\ (m # NOT_VOLATILE => s.volatileKeys[m] = y)
        BY <4>1, <2>2 DEF NOT_VOLATILE
      <4> QED BY <4>1, <4>2, <2>2
    <3> QED BY <3>1, <3>2
  <2> QED BY <2>2, <2>3, <2>4 DEF VolatileConsistent
<1>4. ASSUME d.data[k].volatileIndex # NOT_VOLATILE
      PROVE  VolatileConsistent(s)
  <2>1. s.volatileKeys = d.volatileKeys
        /\ s.data[k].volatileIndex = d.data[k].volatileIndex
    BY <1>1, <1>4
  <2> QED BY <1>1, <1>4, <2>1 DEF WellFormed, VolatileConsistent
<1> QED BY <1>1, <1>2, <1>3, <1>4 DEF WellFormed, s

\* The swap-and-pop of clearExpiry repairs the index of the key it moves,
\* also when that is the key it removes.
LEMMA ClearExpiryWF ==
    ASSUME NEW d, WellFormed(d), NEW k \in DOMAIN d.data
    PROVE  /\ WellFormed(clearExpiry(d, k))
           /\ clearExpiry(d, k).lru = d.lru
           /\ DOMAIN clearExpiry(d, k).data = DOMAIN d.data
           /\ clearExpiry(d, k).data[k].volatileIndex = NOT_VOLATILE
<1> DEFINE c == clearExpiry(d, k)
           n == Len(d.volatileKeys)
           index == d.data[k].volatileIndex
           last == d.volatileKeys[n]
<1>0. /\ n \in Nat
      /\ index \in 0 .. n
      /\ index # NOT_VOLATILE => d.volatileKeys[index] = k /\ last \in DOMAIN d.data
  <2>1. n \in Nat /\ index \in 0 .. n
        /\ (index # NOT_VOLATILE => d.volatileKeys[index] = k)
    BY LenProperties DEF WellFormed, VolatileConsistent
  <2>2. index # NOT_VOLATILE => n \in 1 .. n
    BY <2>1 DEF NOT_VOLATILE
  <2> QED BY <2>1, <2>2 DEF WellFormed, VolatileConsistent
<1>1. /\ c.lru = d.lru
      /\ DOMAIN c.data = DOMAIN d.data
      /\ c.data[k].expiresAtMs = NO_EXPIRY
      /\ c.data[k].volatileIndex = NOT_VOLATILE
  BY <1>0 DEF clearExpiry, DB, With, Entry, WellFormed
<1>2. ASSUME index = NOT_VOLATILE
      PROVE  /\ c.volatileKeys = d.volatileKeys
             /\ \A y \in DOMAIN d.data \ {k} : c.data[y] = d.data[y]
  BY <1>2 DEF clearExpiry, DB, With, Entry, WellFormed
<1>3. ASSUME index # NOT_VOLATILE
      PROVE  /\ c.volatileKeys = [i \in 1 .. n - 1 |-> IF i = index THEN last
                                                       ELSE d.volatileKeys[i]]
             /\ \A y \in DOMAIN d.data \ {k, last} : c.data[y] = d.data[y]
             /\ last # k => /\ c.data[last].volatileIndex = index
                            /\ c.data[last].expiresAtMs = d.data[last].expiresAtMs
  BY <1>0, <1>3 DEF clearExpiry, DB, With, Entry, WellFormed
<1> HIDE DEF c
<1>4. LruConsistent(c)
  BY <1>1 DEF WellFormed, LruConsistent
<1>5. CASE index = NOT_VOLATILE
  <2>1. ASSUME NEW i \in 1 .. Len(c.volatileKeys)
        PROVE  /\ c.volatileKeys[i] \in DOMAIN c.data
               /\ c.data[c.volatileKeys[i]].volatileIndex = i
    <3>1. /\ i \in 1 .. n
          /\ d.volatileKeys[i] \in DOMAIN d.data
          /\ d.data[d.volatileKeys[i]].volatileIndex = i
      BY <1>2, <1>5 DEF WellFormed, VolatileConsistent
    <3>2. d.volatileKeys[i] # k
      BY <3>1, <1>5 DEF NOT_VOLATILE
    <3> QED BY <3>1, <3>2, <1>1, <1>2, <1>5
  <2>2. ASSUME NEW x \in DOMAIN c.data
        PROVE  LET e == c.data[x]
               IN  /\ e.volatileIndex \in 0 .. Len(c.volatileKeys)
                   /\ e.volatileIndex = NOT_VOLATILE <=> e.expiresAtMs = NO_EXPIRY
                   /\ e.volatileIndex # NOT_VOLATILE =>
                         c.volatileKeys[e.volatileIndex] = x
    <3>1. CASE x = k
      BY <3>1, <1>0, <1>1, <1>2, <1>5 DEF NOT_VOLATILE
    <3>2. CASE x # k
      BY <3>2, <1>1, <1>2, <1>5 DEF WellFormed, VolatileConsistent
    <3> QED BY <3>1, <3>2
  <2>3. c.volatileKeys \in Seq(Key)
    BY <1>2, <1>5 DEF WellFormed, VolatileConsistent
  <2>4. VolatileConsistent(c)
    BY <2>1, <2>2, <2>3 DEF VolatileConsistent
  <2> QED BY <1>1, <1>4, <2>4 DEF WellFormed, c
<1>6. CASE index # NOT_VOLATILE
  <2> DEFINE v == c.volatileKeys
  <2>1. /\ n >= 1 /\ index \in 1 .. n
        /\ \A i \in 1 .. n : d.volatileKeys[i] \in Key
        /\ last \in Key
    BY <1>0, <1>6 DEF WellFormed, VolatileConsistent, NOT_VOLATILE
  <2>2. /\ v \in Seq(Key) /\ Len(v) = n - 1
        /\ \A i \in 1 .. n - 1 : v[i] = IF i = index THEN last ELSE d.volatileKeys[i]
    BY <1>0, <1>3, <1>6, <2>1, SMTT(30)
  <2>3. d.data[last].volatileIndex = n /\ (last = k <=> index = n)
    BY <1>0, <1>6, <2>1 DEF WellFormed, VolatileConsistent
  <2>4. ASSUME NEW i \in 1 .. Len(v)
        PROVE  /\ v[i] \in DOMAIN c.data
               /\ c.data[v[i]].volatileIndex = i
    <3>1. CASE i = index
      BY <3>1, <1>0, <1>1, <1>3, <1>6, <2>2, <2>3, SMTT(30)
    <3>2. CASE i # index
      <4>1. /\ v[i] = d.volatileKeys[i] /\ i \in 1 .. n /\ i # n
            /\ d.volatileKeys[i] \in DOMAIN d.data
            /\ d.data[d.volatileKeys[i]].volatileIndex = i
        BY <3>2, <1>0, <2>1, <2>2 DEF WellFormed, VolatileConsistent
      <4>2. d.volatileKeys[i] # k /\ d.volatileKeys[i] # last
        BY <4>1, <3>2, <2>3
      <4> QED BY <4>1, <4>2, <1>1, <1>3, <1>6
    <3> QED BY <3>1, <3>2
  <2>5. ASSUME NEW y \in DOMAIN c.data
        PROVE  LET e == c.data[y]
               IN  /\ e.volatileIndex \in 0 .. Len(v)
                   /\ e.volatileIndex = NOT_VOLATILE <=> e.expiresAtMs = NO_EXPIRY
                   /\ e.volatileIndex # NOT_VOLATILE => v[e.volatileIndex] = y
    <3>1. CASE y = k
      BY <3>1, <1>0, <1>1, <2>1, <2>2 DEF NOT_VOLATILE
    <3>2. CASE y = last /\ y # k
      <4>1. index \in 1 .. n - 1 /\ v[index] = last
        BY <3>2, <1>0, <2>1, <2>2, <2>3, SMTT(30)
      <4>2. d.data[last].expiresAtMs # NO_EXPIRY
        BY <1>0, <1>6, <2>1, <2>3 DEF WellFormed, VolatileConsistent, NOT_VOLATILE
      <4> QED BY <3>2, <4>1, <4>2, <1>3, <1>6, <2>2
    <3>3. CASE y # last /\ y # k
      <4> DEFINE m == d.data[y].volatileIndex
      <4>1. /\ c.data[y] = d.data[y] /\ y \in DOMAIN d.data
            /\ m \in 0 .. n
            /\ m = NOT_VOLATILE <=> d.data[y].expiresAtMs = NO_EXPIRY
            /\ m # NOT_VOLATILE => d.volatileKeys[m] = y
        BY <3>3, <1>1, <1>3, <1>6 DEF WellFormed, VolatileConsistent
      <4>2. m # n /\ m # index
        BY <4>1, <3>3, <1>0, <1>6, <2>1 DEF NOT_VOLATILE
      <4>3. m \in 0 .. n - 1
        BY <4>1, <4>2, <1>0
      <4>4. m # NOT_VOLATILE => v[m] = y
        BY <4>1, <4>2, <4>3, <2>2, SMTT(30) DEF NOT_VOLATILE
      <4> QED BY <4>1, <4>3, <4>4, <2>2
    <3> QED BY <3>1, <3>2, <3>3
  <2>6. VolatileConsistent(c)
    BY <2>2, <2>4, <2>5 DEF VolatileConsistent
  <2> QED BY <1>1, <1>4, <2>6 DEF WellFormed, c
<1> QED BY <1>5, <1>6

\* Unlinking a key from lru leaves every other key exactly once.
LEMMA UnlinkProperties ==
    ASSUME NEW d, LruConsistent(d), NEW k \in Key, k \in DOMAIN d.data
    PROVE  LET u == Unlink(d.lru, k)
           IN  /\ u \in Seq(Key)
               /\ \A i, j \in 1 .. Len(u) : u[i] = u[j] => i = j
               /\ \A x \in Key : (\E i \in 1 .. Len(u) : u[i] = x) <=>
                                     x # k /\ \E i \in 1 .. Len(d.lru) : d.lru[i] = x
<1> DEFINE s == d.lru
           p == CHOOSE i \in DOMAIN s : s[i] = k
           u == Unlink(s, k)
           n == Len(s)
<1>1. /\ s \in Seq(Key) /\ n \in Nat /\ DOMAIN s = 1 .. n
      /\ \A i, j \in 1 .. n : s[i] = s[j] => i = j
      /\ \E i \in 1 .. n : s[i] = k
  BY LenProperties DEF LruConsistent
<1>2. p \in 1 .. n /\ s[p] = k
  BY <1>1
<1>3. u = RemoveAt(s, p)
  BY DEF Unlink
<1> HIDE DEF s, p, u, n
<1>4. /\ u \in Seq(Key) /\ Len(u) = n - 1
      /\ \A i \in 1 .. n - 1 : u[i] = IF i < p THEN s[i] ELSE s[i + 1]
  BY <1>1, <1>2, <1>3, RemoveAtProperties, ZenonT(40) DEF n
<1>5. ASSUME NEW i \in 1 .. Len(u), NEW j \in 1 .. Len(u), u[i] = u[j]
      PROVE  i = j
  <2> DEFINE a == IF i < p THEN i ELSE i + 1
             b == IF j < p THEN j ELSE j + 1
  <2>1. a \in 1 .. n /\ b \in 1 .. n /\ u[i] = s[a] /\ u[j] = s[b]
    BY <1>1, <1>2, <1>4
  <2>2. a = b
    BY <1>1, <1>5, <2>1
  <2> QED BY <1>1, <1>2, <1>4, <2>2
<1>6. ASSUME NEW x \in Key, NEW i \in 1 .. Len(u), u[i] = x
      PROVE  x # k /\ \E j \in 1 .. n : s[j] = x
  <2> DEFINE a == IF i < p THEN i ELSE i + 1
  <2>1. a \in 1 .. n /\ s[a] = x /\ a # p
    BY <1>1, <1>2, <1>4, <1>6
  <2> HIDE DEF a
  <2> QED BY <1>1, <1>2, <2>1
<1>7. ASSUME NEW x \in Key, x # k, NEW j \in 1 .. n, s[j] = x
      PROVE  \E i \in 1 .. Len(u) : u[i] = x
  <2> DEFINE a == IF j < p THEN j ELSE j - 1
  <2>1. j # p
    BY <1>2, <1>7
  <2>2. a \in 1 .. n - 1 /\ u[a] = x
    BY <1>1, <1>2, <1>4, <1>7, <2>1
  <2> QED BY <2>2, <1>4
<1> QED BY <1>4, <1>5, <1>6, <1>7 DEF u, s, n

\* touch moves a key within lru and changes nothing else.
LEMMA TouchWF ==
    ASSUME NEW d, WellFormed(d), NEW k \in DOMAIN d.data
    PROVE  WellFormed(touch(d, k)) /\ touch(d, k).data = d.data
<1> DEFINE t == touch(d, k)
           u == Unlink(d.lru, k)
<1>1. t.data = d.data /\ t.volatileKeys = d.volatileKeys /\ t.lru = <<k>> \o u
  BY DEF touch, DB
<1>2. /\ u \in Seq(Key) /\ k \in Key
      /\ \A i, j \in 1 .. Len(u) : u[i] = u[j] => i = j
      /\ \A x \in Key : (\E i \in 1 .. Len(u) : u[i] = x) <=>
                             x # k /\ x \in DOMAIN d.data
  BY UnlinkProperties DEF WellFormed, LruConsistent
<1> HIDE DEF t, u
<1>3. /\ t.lru \in Seq(Key) /\ Len(t.lru) = Len(u) + 1 /\ t.lru[1] = k
      /\ \A i \in 1 .. Len(u) : t.lru[i + 1] = u[i]
      /\ Len(u) \in Nat
  BY <1>1, <1>2, ConsProperties, LenProperties
<1>4. ASSUME NEW i \in 1 .. Len(t.lru), i # 1
      PROVE  i - 1 \in 1 .. Len(u) /\ t.lru[i] = u[i - 1] /\ t.lru[i] # k
  <2>1. i - 1 \in 1 .. Len(u) /\ (i - 1) + 1 = i
    BY <1>3, <1>4
  <2>2. u[i - 1] \in Key
    BY <2>1, <1>2
  <2>3. t.lru[i] = u[i - 1]
    BY <2>1, <1>3
  <2>4. u[i - 1] # k
    BY <2>1, <2>2, <1>2
  <2> QED BY <2>1, <2>3, <2>4
<1>5. ASSUME NEW i \in 1 .. Len(t.lru), NEW j \in 1 .. Len(t.lru), t.lru[i] = t.lru[j]
      PROVE  i = j
  <2>1. CASE i = 1 \/ j = 1
    BY <2>1, <1>3, <1>4, <1>5
  <2>2. CASE i # 1 /\ j # 1
    <3>1. i - 1 = j - 1
      BY <2>2, <1>2, <1>4, <1>5
    <3> QED BY <3>1, <1>3
  <2> QED BY <2>1, <2>2
<1>6. ASSUME NEW x \in Key
      PROVE  x \in DOMAIN t.data <=> \E i \in 1 .. Len(t.lru) : t.lru[i] = x
  <2>1. CASE x = k
    BY <2>1, <1>1, <1>3
  <2>2. CASE x # k
    <3>1. ASSUME x \in DOMAIN d.data PROVE \E i \in 1 .. Len(t.lru) : t.lru[i] = x
      <4>1. PICK i \in 1 .. Len(u) : u[i] = x
        BY <3>1, <2>2, <1>2
      <4>2. i + 1 \in 1 .. Len(t.lru) /\ t.lru[i + 1] = x
        BY <4>1, <1>3
      <4> QED BY <4>2
    <3>2. ASSUME NEW i \in 1 .. Len(t.lru), t.lru[i] = x PROVE x \in DOMAIN d.data
      BY <3>2, <2>2, <1>2, <1>3, <1>4
    <3> QED BY <3>1, <3>2, <1>1
  <2> QED BY <2>1, <2>2
<1>7. LruConsistent(t)
  BY <1>3, <1>5, <1>6 DEF LruConsistent
<1>8. VolatileConsistent(t)
  BY <1>1 DEF WellFormed, VolatileConsistent
<1> QED BY <1>1, <1>7, <1>8 DEF WellFormed, t

\* erase takes a key out of all three containers.
LEMMA EraseWF ==
    ASSUME NEW d, WellFormed(d), NEW k \in DOMAIN d.data
    PROVE  WellFormed(erase(d, k)) /\ ~Has(erase(d, k), k)
<1> DEFINE c == clearExpiry(d, k)
           r == erase(d, k)
<1>1. /\ WellFormed(c) /\ DOMAIN c.data = DOMAIN d.data /\ k \in Key
      /\ c.data[k].volatileIndex = NOT_VOLATILE
  BY ClearExpiryWF DEF WellFormed
<1>2. /\ r.lru = Unlink(c.lru, k)
      /\ r.volatileKeys = c.volatileKeys
      /\ DOMAIN r.data = DOMAIN c.data \ {k}
      /\ \A x \in DOMAIN r.data : r.data[x] = c.data[x]
  BY DEF erase, DB
<1> HIDE DEF c, r
<1>3. LruConsistent(r)
  <2> DEFINE u == Unlink(c.lru, k)
  <2>1. /\ u \in Seq(Key)
        /\ \A i, j \in 1 .. Len(u) : u[i] = u[j] => i = j
        /\ \A x \in Key : (\E i \in 1 .. Len(u) : u[i] = x) <=>
                               x # k /\ \E i \in 1 .. Len(c.lru) : c.lru[i] = x
    BY <1>1, UnlinkProperties DEF WellFormed
  <2>2. \A x \in Key : x \in DOMAIN c.data <=> \E i \in 1 .. Len(c.lru) : c.lru[i] = x
    BY <1>1 DEF WellFormed, LruConsistent
  <2> HIDE DEF u
  <2>3. \A x \in Key : x \in DOMAIN r.data <=> \E i \in 1 .. Len(u) : u[i] = x
    BY <1>2, <2>1, <2>2
  <2>4. r.lru = u
    BY <1>2 DEF u
  <2> QED BY <2>1, <2>3, <2>4 DEF LruConsistent
<1>4. ASSUME NEW i \in 1 .. Len(r.volatileKeys)
      PROVE  r.volatileKeys[i] \in DOMAIN r.data
             /\ r.data[r.volatileKeys[i]].volatileIndex = i
  <2>1. /\ c.volatileKeys[i] \in DOMAIN c.data
        /\ c.data[c.volatileKeys[i]].volatileIndex = i
        /\ i # NOT_VOLATILE
    BY <1>1, <1>2 DEF WellFormed, VolatileConsistent, NOT_VOLATILE
  <2> QED BY <2>1, <1>1, <1>2
<1>5. VolatileConsistent(r)
  BY <1>1, <1>2, <1>4 DEF WellFormed, VolatileConsistent
<1> QED BY <1>1, <1>2, <1>3, <1>5 DEF WellFormed, Has, r

\* findLive, which may erase the key it looks up, keeps the containers
\* consistent.
LEMMA FindLiveWF ==
    ASSUME NEW d, WellFormed(d), NEW t, NEW k
    PROVE  WellFormed(findLive(d, t, k))
BY EraseWF DEF findLive, Has

\* A new or cleared object is consistent.
LEMMA EmptyWF == WellFormed(EmptyDB)
BY DEF WellFormed, EmptyDB, EmptyData, DB, LruConsistent, VolatileConsistent

\* The prologue of the writing methods: find the key or create it.
LEMMA FindOrCreateWF ==
    ASSUME NEW d, WellFormed(d), NEW t, NEW k \in Key, NEW v
    PROVE  /\ WellFormed(findOrCreate(d, t, k, v))
           /\ Has(findOrCreate(d, t, k, v), k)
BY FindLiveWF, CreateWF DEF findOrCreate, Has

(***************************************************************************)
(* What the helpers do to the entries: everything but the indexes.         *)
(***************************************************************************)
\* Two objects whose entries for x agree in what is not an index.
SameEntry(d, c, x) ==
    /\ c.data[x].value = d.data[x].value
    /\ c.data[x].memory = d.data[x].memory
    /\ c.data[x].expiresAtMs = d.data[x].expiresAtMs

\* create adds an entry without an expiry and its whole memory.
LEMMA CreateEffect ==
    ASSUME NEW d, NEW k, k \notin DOMAIN d.data, NEW v, NEW c, c = create(d, k, v)
    PROVE  /\ DOMAIN c.data = DOMAIN d.data \cup {k}
           /\ \A x \in DOMAIN d.data : SameEntry(d, c, x)
           /\ c.data[k].value = v /\ c.data[k].expiresAtMs = NO_EXPIRY
           /\ c.data[k].memory = ENTRY_OVERHEAD + Size[k] + payloadMemory(v)
           /\ c.memoryUsed = d.memoryUsed + c.data[k].memory
           /\ c.lru = <<k>> \o d.lru
BY DEF create, DB, With, Entry, SameEntry

\* assign changes the value of its key and moves both counts by the same
\* number of bytes.
LEMMA AssignEffect ==
    ASSUME NEW d, NEW k \in DOMAIN d.data, NEW v, NEW n, NEW c, c = assign(d, k, v, n)
    PROVE  /\ DOMAIN c.data = DOMAIN d.data
           /\ \A x \in DOMAIN d.data \ {k} : SameEntry(d, c, x)
           /\ c.data[k].value = v
           /\ c.data[k].expiresAtMs = d.data[k].expiresAtMs
           /\ c.data[k].memory = d.data[k].memory + n
           /\ c.memoryUsed = d.memoryUsed + n
           /\ c.lru = d.lru
BY DEF assign, DB, With, Entry, SameEntry

\* touch reorders lru only.
LEMMA TouchEffect ==
    ASSUME NEW d, NEW k
    PROVE  /\ touch(d, k).data = d.data
           /\ touch(d, k).memoryUsed = d.memoryUsed
           /\ touch(d, k).lru = <<k>> \o Unlink(d.lru, k)
BY DEF touch, DB

\* setExpiry changes the deadline of its key only.
LEMMA SetExpiryEffect ==
    ASSUME NEW d, NEW k \in DOMAIN d.data, NEW when, NEW c, c = setExpiry(d, k, when)
    PROVE  /\ DOMAIN c.data = DOMAIN d.data
           /\ \A x \in DOMAIN d.data \ {k} : SameEntry(d, c, x)
           /\ c.data[k].value = d.data[k].value
           /\ c.data[k].memory = d.data[k].memory
           /\ c.data[k].expiresAtMs = when
           /\ c.memoryUsed = d.memoryUsed
           /\ c.lru = d.lru
BY DEF setExpiry, DB, With, Entry, SameEntry

\* clearExpiry changes the deadline of its key only: the key that takes over
\* the slot keeps its own.
LEMMA ClearExpiryEffect ==
    ASSUME NEW d, WellFormed(d), NEW k \in DOMAIN d.data, NEW c, c = clearExpiry(d, k)
    PROVE  /\ DOMAIN c.data = DOMAIN d.data
           /\ \A x \in DOMAIN d.data \ {k} : SameEntry(d, c, x)
           /\ c.data[k].value = d.data[k].value
           /\ c.data[k].memory = d.data[k].memory
           /\ c.data[k].expiresAtMs = NO_EXPIRY
           /\ c.memoryUsed = d.memoryUsed
           /\ c.lru = d.lru
<1> DEFINE n == Len(d.volatileKeys)
           last == d.volatileKeys[n]
<1>1. CASE d.data[k].volatileIndex = NOT_VOLATILE
  BY <1>1 DEF clearExpiry, DB, With, Entry, SameEntry
<1>2. CASE d.data[k].volatileIndex # NOT_VOLATILE
  <2>1. n \in Nat /\ d.data[k].volatileIndex \in 0 .. n
    BY LenProperties DEF WellFormed, VolatileConsistent
  <2>2. n \in 1 .. n
    BY <1>2, <2>1 DEF NOT_VOLATILE
  <2>3. last \in DOMAIN d.data
    BY <2>2 DEF WellFormed, VolatileConsistent
  <2> HIDE DEF n
  <2> QED BY <1>2, <2>3 DEF clearExpiry, DB, With, Entry, SameEntry, n
<1> QED BY <1>1, <1>2

\* erase takes one entry out, with its memory.
LEMMA EraseEffect ==
    ASSUME NEW d, WellFormed(d), NEW k \in DOMAIN d.data, NEW c, c = erase(d, k)
    PROVE  /\ DOMAIN c.data = DOMAIN d.data \ {k}
           /\ \A x \in DOMAIN d.data \ {k} : SameEntry(d, c, x)
           /\ c.memoryUsed = d.memoryUsed - d.data[k].memory
           /\ c.lru = Unlink(d.lru, k)
<1> DEFINE e == clearExpiry(d, k)
<1>1. /\ DOMAIN e.data = DOMAIN d.data
      /\ \A x \in DOMAIN d.data \ {k} : SameEntry(d, e, x)
      /\ e.data[k].memory = d.data[k].memory
      /\ e.memoryUsed = d.memoryUsed /\ e.lru = d.lru
  BY ClearExpiryEffect
<1>2. /\ c.data = [x \in DOMAIN e.data \ {k} |-> e.data[x]]
      /\ c.lru = Unlink(e.lru, k)
      /\ c.memoryUsed = e.memoryUsed - e.data[k].memory
  BY DEF erase, DB
<1> HIDE DEF e
<1> QED BY <1>1, <1>2 DEF SameEntry

\* findLive leaves the object alone or erases a key whose deadline is over.
LEMMA FindLiveEffect ==
    ASSUME NEW d, NEW t, NEW k, NEW f, f = findLive(d, t, k)
    PROVE  \/ f = d /\ (Has(d, k) => ~IsExpired(d.data[k], t))
           \/ Has(d, k) /\ IsExpired(d.data[k], t) /\ f = erase(d, k)
BY DEF findLive

\* There are finitely many keys: lru names them all.
LEMMA DataFinite ==
    ASSUME NEW d, WellFormed(d)
    PROVE  IsFiniteSet(DOMAIN d.data)
<1>1. /\ d.lru \in Seq(Key) /\ DOMAIN d.data \subseteq Key
      /\ \A k \in Key : k \in DOMAIN d.data <=> \E i \in 1 .. Len(d.lru) : d.lru[i] = k
  BY DEF WellFormed, LruConsistent
<1>2. Len(d.lru) \in Nat /\ \A i \in 1 .. Len(d.lru) : d.lru[i] \in Key
  BY <1>1, LenProperties
<1> DEFINE S == 1 .. Len(d.lru)
           f == [i \in S |-> d.lru[i]]
<1>3. f \in Surjection(S, DOMAIN d.data)
  <2>1. f \in [S -> DOMAIN d.data]
    BY <1>1, <1>2
  <2>2. \A k \in DOMAIN d.data : \E i \in S : f[i] = k
    BY <1>1
  <2> QED BY <2>1, <2>2 DEF Surjection
<1>4. IsFiniteSet(S)
  BY <1>2, FS_Interval
<1> QED BY <1>3, <1>4, FS_Surjection

\* del, exists and type keep the containers consistent.
LEMMA KeyspaceWF ==
    ASSUME NEW d, WellFormed(d), NEW t, NEW k \in Key
    PROVE  /\ WellFormed(del(d, t, k).db)
           /\ WellFormed(exists(d, t, k).db)
           /\ WellFormed(type(d, t, k).db)
<1> DEFINE f == findLive(d, t, k)
<1>1. WellFormed(f) /\ (Has(f, k) => WellFormed(erase(f, k)))
  BY FindLiveWF, EraseWF DEF Has
<1> HIDE DEF f
<1>2. del(d, t, k).db = IF Has(f, k) THEN erase(f, k) ELSE f
  BY DEF del, Result, f
<1>3. exists(d, t, k).db = f /\ type(d, t, k).db = f
  BY DEF exists, type, Result, f
<1> QED BY <1>1, <1>2, <1>3

\* SET's erase followed by create keeps the containers consistent.
LEMMA ReplaceWF ==
    ASSUME NEW d, WellFormed(d), NEW k \in DOMAIN d.data, NEW v
    PROVE  WellFormed(create(erase(d, k), k, v))
BY EraseWF, CreateWF DEF WellFormed, Has

\* An update in place, touched or erased after it, keeps the containers
\* consistent.
LEMMA UpdateWF ==
    ASSUME NEW d, WellFormed(d), NEW k, Has(d, k), NEW v, NEW n
    PROVE  /\ WellFormed(assign(d, k, v, n))
           /\ WellFormed(touch(assign(d, k, v, n), k))
           /\ WellFormed(erase(assign(d, k, v, n), k))
           /\ WellFormed(touch(d, k))
BY AssignWF, TouchWF, EraseWF DEF Has

\* The string methods keep the containers consistent.
LEMMA StringWF ==
    ASSUME NEW d, WellFormed(d), NEW t, NEW k \in Key, NEW x
    PROVE  /\ WellFormed(set(d, t, k, x).db)
           /\ WellFormed(get(d, t, k).db)
           /\ WellFormed(incrementBy(d, t, k, x).db)
           /\ WellFormed(append(d, t, k, x).db)
           /\ WellFormed(stringLength(d, t, k).db)
<1> DEFINE f == findLive(d, t, k)
           g == findOrCreate(d, t, k, StringValue(<<0>>))
<1>1. WellFormed(f)
  BY FindLiveWF
<1>2. WellFormed(g) /\ Has(g, k)
  BY FindOrCreateWF
<1> HIDE DEF f, g
<1>3. WellFormed(set(d, t, k, x).db)
  BY <1>1, ReplaceWF, CreateWF DEF set, Result, Has, f
<1>4. WellFormed(get(d, t, k).db)
  BY <1>1, TouchWF DEF get, Result, Has, f
<1>5. WellFormed(incrementBy(d, t, k, x).db)
  BY <1>2, UpdateWF DEF incrementBy, AddOverflows, Result, g
<1>6. WellFormed(append(d, t, k, x).db)
  BY <1>1, CreateWF, UpdateWF DEF append, Result, Has, f
<1>7. WellFormed(stringLength(d, t, k).db)
  BY <1>1 DEF stringLength, Result, f
<1> QED BY <1>3, <1>4, <1>5, <1>6, <1>7

\* expireAtMs keeps the containers consistent: the deadline it stores is
\* later than a clock reading, so it is never the NO_EXPIRY mark.
LEMMA ExpireAtMsWF ==
    ASSUME NEW d, WellFormed(d), NEW t1, NEW t2 \in Nat, NEW k \in Key,
           NEW when \in Int
    PROVE  WellFormed(expireAtMs(d, t1, t2, k, when).db)
<1> DEFINE f == findLive(d, t1, k)
<1>1. WellFormed(f)
  BY FindLiveWF
<1> HIDE DEF f
<1>2. ~(when <= t2) => when # NO_EXPIRY
  BY DEF NO_EXPIRY
<1> QED BY <1>1, <1>2, EraseWF, SetExpiryWF DEF expireAtMs, Result, Has, f

\* persist, ttlMs and ttl keep the containers consistent.
LEMMA ExpirationWF ==
    ASSUME NEW d, WellFormed(d), NEW t1, NEW t2, NEW k \in Key
    PROVE  /\ WellFormed(persist(d, t1, k).db)
           /\ WellFormed(ttlMs(d, t1, t2, k).db)
           /\ WellFormed(ttl(d, t1, t2, k).db)
<1> DEFINE f == findLive(d, t1, k)
<1>1. WellFormed(f)
  BY FindLiveWF
<1> HIDE DEF f
<1>2. WellFormed(persist(d, t1, k).db)
  BY <1>1, ClearExpiryWF DEF persist, Result, Has, f
<1>3. ttlMs(d, t1, t2, k).db = f /\ ttl(d, t1, t2, k).db = f
  BY DEF ttlMs, ttl, Result, f
<1> QED BY <1>1, <1>2, <1>3

\* The list methods keep the containers consistent.
LEMMA ListWF ==
    ASSUME NEW d, WellFormed(d), NEW t, NEW k \in Key, NEW x, NEW y
    PROVE  /\ WellFormed(listPush(d, t, k, x, y).db)
           /\ WellFormed(listPop(d, t, k, x).db)
           /\ WellFormed(listRange(d, t, k, x, y).db)
           /\ WellFormed(listIndex(d, t, k, x).db)
           /\ WellFormed(listLength(d, t, k).db)
<1> DEFINE f == findLive(d, t, k)
           g == findOrCreate(d, t, k, ListValue(<<>>))
<1>1. WellFormed(f)
  BY FindLiveWF
<1>2. WellFormed(g) /\ Has(g, k)
  BY FindOrCreateWF
<1> HIDE DEF f, g
<1>3. WellFormed(listPush(d, t, k, x, y).db)
  BY <1>2, UpdateWF DEF listPush, Result, g
<1>4. WellFormed(listPop(d, t, k, x).db)
  BY <1>1, UpdateWF DEF listPop, Result, f
<1>5. WellFormed(listRange(d, t, k, x, y).db)
  BY <1>1, UpdateWF DEF listRange, Result, f
<1>6. WellFormed(listIndex(d, t, k, x).db)
  BY <1>1, UpdateWF DEF listIndex, Result, f
<1>7. WellFormed(listLength(d, t, k).db)
  BY <1>1 DEF listLength, Result, f
<1> QED BY <1>3, <1>4, <1>5, <1>6, <1>7

\* The hash methods keep the containers consistent.
LEMMA HashWF ==
    ASSUME NEW d, WellFormed(d), NEW t, NEW k \in Key, NEW x
    PROVE  /\ WellFormed(hashSet(d, t, k, x).db)
           /\ WellFormed(hashGet(d, t, k, x).db)
           /\ WellFormed(hashDelete(d, t, k, x).db)
           /\ WellFormed(hashGetAll(d, t, k).db)
           /\ WellFormed(hashLength(d, t, k).db)
           /\ WellFormed(hashExists(d, t, k, x).db)
<1> DEFINE f == findLive(d, t, k)
           g == findOrCreate(d, t, k, HashValue(<<>>))
<1>1. WellFormed(f)
  BY FindLiveWF
<1>2. WellFormed(g) /\ Has(g, k)
  BY FindOrCreateWF
<1> HIDE DEF f, g
<1>3. WellFormed(hashSet(d, t, k, x).db)
  BY <1>2, UpdateWF DEF hashSet, Result, g
<1>4. WellFormed(hashGet(d, t, k, x).db)
  BY <1>1, UpdateWF DEF hashGet, Result, f
<1>5. WellFormed(hashDelete(d, t, k, x).db)
  BY <1>1, UpdateWF DEF hashDelete, Result, f
<1>6. WellFormed(hashGetAll(d, t, k).db)
  BY <1>1, UpdateWF DEF hashGetAll, Result, f
<1>7. hashLength(d, t, k).db = f /\ hashExists(d, t, k, x).db = f
  BY DEF hashLength, hashExists, Result, f
<1> QED BY <1>1, <1>3, <1>4, <1>5, <1>6, <1>7

\* The set methods keep the containers consistent.
LEMMA SetWF ==
    ASSUME NEW d, WellFormed(d), NEW t, NEW k \in Key, NEW x
    PROVE  /\ WellFormed(setAdd(d, t, k, x).db)
           /\ WellFormed(setRemove(d, t, k, x).db)
           /\ WellFormed(setMembers(d, t, k).db)
           /\ WellFormed(setIsMember(d, t, k, x).db)
           /\ WellFormed(setCardinality(d, t, k).db)
<1> DEFINE f == findLive(d, t, k)
           g == findOrCreate(d, t, k, SetValue({}))
<1>1. WellFormed(f)
  BY FindLiveWF
<1>2. WellFormed(g) /\ Has(g, k)
  BY FindOrCreateWF
<1> HIDE DEF f, g
<1>3. WellFormed(setAdd(d, t, k, x).db)
  BY <1>2, UpdateWF DEF setAdd, Result, g
<1>4. WellFormed(setRemove(d, t, k, x).db)
  BY <1>1, UpdateWF DEF setRemove, Result, f
<1>5. WellFormed(setMembers(d, t, k).db)
  BY <1>1, UpdateWF DEF setMembers, Result, f
<1>6. setIsMember(d, t, k, x).db = f /\ setCardinality(d, t, k).db = f
  BY DEF setIsMember, setCardinality, Result, f
<1> QED BY <1>1, <1>3, <1>4, <1>5, <1>6

(***************************************************************************)
(* Values.                                                                 *)
(***************************************************************************)
IsValue(v) ==
    \/ \E text \in Seq(Piece) : v = StringValue(text)
    \/ \E items \in Seq(Word) : v = ListValue(items)
    \/ \E names \in SUBSET Word : \E fields \in [names -> Word] :
          IsFiniteSet(names) /\ v = HashValue(fields)
    \/ \E members \in SUBSET Word : IsFiniteSet(members) /\ v = SetValue(members)

\* The decimal form of a long long has at least one character.
LEMMA DecimalSizeType == \A n \in LLong : DecimalSize(n) \in Nat
<1> TAKE n \in LLong
<1> DEFINE magnitude == IF n < 0 THEN -n ELSE n
           IsLong(w) == magnitude < 10^w /\ (w = 1 \/ magnitude >= 10^(w - 1))
           T == {w \in 1 .. 19 : magnitude < 10^w}
<1>1. magnitude \in Int /\ magnitude <= LLongMax + 1 /\ LLongMax \in Int
  BY LLongAssumption DEF LLong, LLongMin
<1>2. \A w \in Nat : 10^w \in Int
  OBVIOUS
<1>3. PICK u \in 1 .. 19 : LLongMax + 1 < 10^u
  BY DigitsAssumption
<1>4. u \in T
  <2>1. u \in Nat /\ 10^u \in Int
    BY <1>2
  <2> QED BY <1>1, <1>3, <2>1
<1> HIDE DEF magnitude
<1>5. PICK w \in T : \A v \in T : w <= v
  <2>1. T \subseteq Nat /\ T # {}
    BY <1>4
  <2> HIDE DEF T
  <2> QED BY <2>1, LeastNatural
<1>6. IsLong(w)
  <2>1. CASE w = 1
    BY <1>5, <2>1
  <2>2. CASE w # 1
    <3>1. w - 1 \in 1 .. 19 /\ w - 1 \in Nat /\ ~(w <= w - 1)
      BY <2>2
    <3>2. w - 1 \notin T
      BY <1>5, <3>1
    <3>3. ~(magnitude < 10^(w - 1)) /\ 10^(w - 1) \in Int
      BY <1>2, <3>1, <3>2
    <3>4. magnitude >= 10^(w - 1)
      BY <1>1, <3>3
    <3> QED BY <1>5, <3>4
  <2> QED BY <2>1, <2>2
<1> DEFINE digits == CHOOSE x \in 1 .. 19 : IsLong(x)
<1>7. digits \in 1 .. 19
  <2>1. w \in 1 .. 19
    BY <1>5
  <2> HIDE DEF IsLong
  <2> QED BY <1>6, <2>1
<1>8. DecimalSize(n) = IF n < 0 THEN digits + 1 ELSE digits
  BY Zenon DEF DecimalSize, magnitude
<1> HIDE DEF digits
<1> QED BY <1>7, <1>8

\* Every piece of a text and every element has a size.
LEMMA CostTypes ==
    /\ \A w \in Word : Size[w] \in Nat /\ elementCost(w) \in Nat
    /\ \A p \in Piece : PieceSize(p) \in Nat
    /\ \A n \in LLong : PieceSize(n) = DecimalSize(n)
<1>1. \A w \in Word : Size[w] \in Nat
  BY SizeAssumption
<1>2. \A w \in Word : elementCost(w) \in Nat
  BY <1>1 DEF elementCost, ELEMENT_OVERHEAD
<1>3. \A n \in LLong : n \notin Word
  BY WordAssumption
<1> QED BY <1>1, <1>2, <1>3, DecimalSizeType DEF Piece, PieceSize

PieceSizes == [p \in Piece |-> PieceSize(p)]
WordCosts == [w \in Word |-> elementCost(w)]

\* The memory of a text is the sum of its pieces, of a list of its elements.
LEMMA SequenceMemory ==
    /\ PieceSizes \in [Piece -> Nat] /\ PieceSizes \in [Piece -> Int]
    /\ WordCosts \in [Word -> Nat] /\ WordCosts \in [Word -> Int]
    /\ \A text \in Seq(Piece) : TextSize(text) = SumOver(PieceSizes, text)
    /\ \A items \in Seq(Word) : SumCost(items) = SumOver(WordCosts, items)
<1>1. PieceSizes \in [Piece -> Nat] /\ WordCosts \in [Word -> Nat]
  BY CostTypes DEF PieceSizes, WordCosts
<1>2. ASSUME NEW text \in Seq(Piece) PROVE TextSize(text) = SumOver(PieceSizes, text)
  <2>1. \A i \in DOMAIN text : text[i] \in Piece
    BY LenProperties
  <2>2. \A i \in DOMAIN text : PieceSizes[text[i]] = PieceSize(text[i])
    BY <2>1 DEF PieceSizes
  <2>3. [i \in DOMAIN text |-> PieceSizes[text[i]]] = [i \in DOMAIN text |-> PieceSize(text[i])]
    BY <2>2
  <2> QED BY <2>3 DEF TextSize, SumOver
<1>3. ASSUME NEW items \in Seq(Word) PROVE SumCost(items) = SumOver(WordCosts, items)
  <2>1. \A i \in DOMAIN items : items[i] \in Word
    BY LenProperties
  <2>2. \A i \in DOMAIN items : WordCosts[items[i]] = elementCost(items[i])
    BY <2>1 DEF WordCosts
  <2>3. [i \in DOMAIN items |-> WordCosts[items[i]]] =
        [i \in DOMAIN items |-> elementCost(items[i])]
    BY <2>2
  <2> QED BY <2>3 DEF SumCost, SumOver
<1>4. PieceSizes \in [Piece -> Int] /\ WordCosts \in [Word -> Int]
  BY <1>1
<1> QED BY <1>1, <1>2, <1>3, <1>4

\* append and incrementBy: the size of a longer text and of one integer.
LEMMA TextMemory ==
    /\ \A text \in Seq(Piece) : TextSize(text) \in Nat
    /\ \A n \in LLong : <<n>> \in Seq(Piece) /\ TextSize(<<n>>) = DecimalSize(n)
    /\ \A s, t \in Seq(Piece) :
          s \o t \in Seq(Piece) /\ TextSize(s \o t) = TextSize(s) + TextSize(t)
<1>1. \A text \in Seq(Piece) : TextSize(text) \in Nat
  BY SequenceMemory, SumOverType
<1>2. ASSUME NEW n \in LLong
      PROVE  <<n>> \in Seq(Piece) /\ TextSize(<<n>>) = DecimalSize(n)
  <2>1. n \in Piece /\ <<n>> \in Seq(Piece)
    BY DEF Piece
  <2>2. SumOver(PieceSizes, <<n>>) = PieceSizes[n]
    BY <2>1, SequenceMemory, SumOverOne
  <2>3. PieceSizes[n] = DecimalSize(n)
    BY <2>1, CostTypes DEF PieceSizes
  <2> QED BY <2>1, <2>2, <2>3, SequenceMemory
<1>3. ASSUME NEW s \in Seq(Piece), NEW t \in Seq(Piece)
      PROVE  s \o t \in Seq(Piece) /\ TextSize(s \o t) = TextSize(s) + TextSize(t)
  <2>1. s \o t \in Seq(Piece)
    BY ConcatProperties
  <2>2. SumOver(PieceSizes, s \o t) = SumOver(PieceSizes, s) + SumOver(PieceSizes, t)
    BY SequenceMemory, SumOverConcat
  <2> QED BY <2>1, <2>2, SequenceMemory
<1> QED BY <1>1, <1>2, <1>3

\* listPush: the memory of a list with words at either end.
LEMMA ListMemory ==
    /\ \A items \in Seq(Word) : SumCost(items) \in Nat
    /\ \A s, t \in Seq(Word) :
          s \o t \in Seq(Word) /\ SumCost(s \o t) = SumCost(s) + SumCost(t)
    /\ \A s \in Seq(Word) : Reverse(s) \in Seq(Word) /\ SumCost(Reverse(s)) = SumCost(s)
    /\ \A w \in Word : <<w>> \in Seq(Word) /\ SumCost(<<w>>) = elementCost(w)
<1>1. \A items \in Seq(Word) : SumCost(items) \in Nat
  BY SequenceMemory, SumOverType
<1>2. ASSUME NEW s \in Seq(Word), NEW t \in Seq(Word)
      PROVE  s \o t \in Seq(Word) /\ SumCost(s \o t) = SumCost(s) + SumCost(t)
  <2>1. s \o t \in Seq(Word)
    BY ConcatProperties
  <2>2. SumOver(WordCosts, s \o t) = SumOver(WordCosts, s) + SumOver(WordCosts, t)
    BY SequenceMemory, SumOverConcat
  <2> QED BY <2>1, <2>2, SequenceMemory
<1>3. ASSUME NEW s \in Seq(Word)
      PROVE  Reverse(s) \in Seq(Word) /\ SumCost(Reverse(s)) = SumCost(s)
  <2>1. Reverse(s) \in Seq(Word) /\ SumOver(WordCosts, Reverse(s)) = SumOver(WordCosts, s)
    BY SequenceMemory, SumOverReverse
  <2> QED BY <2>1, SequenceMemory
<1>4. ASSUME NEW w \in Word
      PROVE  <<w>> \in Seq(Word) /\ SumCost(<<w>>) = elementCost(w)
  <2>1. <<w>> \in Seq(Word)
    OBVIOUS
  <2>2. SumOver(WordCosts, <<w>>) = WordCosts[w]
    BY SequenceMemory, SumOverOne
  <2> QED BY <2>1, <2>2, SequenceMemory DEF WordCosts
<1> QED BY <1>1, <1>2, <1>3, <1>4

\* listPop: the memory of a list without its first or last element.
LEMMA PopMemory ==
    ASSUME NEW s \in Seq(Word), s # <<>>
    PROVE  /\ Head(s) \in Word /\ Tail(s) \in Seq(Word)
           /\ SumCost(Tail(s)) = SumCost(s) - elementCost(Head(s))
           /\ Last(s) \in Word /\ Front(s) \in Seq(Word)
           /\ SumCost(Front(s)) = SumCost(s) - elementCost(Last(s))
<1>1. Len(s) \in Nat /\ Len(s) # 0 /\ \A i \in 1 .. Len(s) : s[i] \in Word
  BY LenProperties, EmptySeq
<1>2. Head(s) \in Word /\ Tail(s) \in Seq(Word) /\ s = <<Head(s)>> \o Tail(s)
  BY HeadTailProperties
<1>3. SumCost(s) = elementCost(Head(s)) + SumCost(Tail(s))
  <2> DEFINE h == Head(s)
             t == Tail(s)
  <2>1. h \in Word /\ t \in Seq(Word) /\ <<h>> \in Seq(Word) /\ s = <<h>> \o t
    BY <1>2
  <2> HIDE DEF h, t
  <2>2. SumCost(<<h>> \o t) = SumCost(<<h>>) + SumCost(t)
    BY <2>1, ListMemory
  <2>3. SumCost(<<h>>) = elementCost(h)
    BY <2>1, ListMemory
  <2>4. SumCost(s) = elementCost(h) + SumCost(t)
    BY <2>1, <2>2, <2>3
  <2> QED BY <2>4 DEF h, t
<1>4. Last(s) \in Word
  BY <1>1 DEF Last
<1> DEFINE n == Len(s)
           f == SubSeq(s, 1, n - 1)
<1>5. f \in Seq(Word) /\ Len(f) = n - 1 /\ \A i \in 1 .. n - 1 : f[i] = s[i]
  <2>1. 1 \in 1 .. n + 1 /\ n - 1 \in 0 .. n /\ (n - 1) - 1 + 1 = n - 1
    BY <1>1
  <2>2. \A i \in 1 .. n - 1 : s[i] \in Word
    BY <1>1
  <2> QED BY <1>1, <2>1, <2>2, SubSeqProperties
<1>6. Front(s) = f
  BY DEF Front
<1> HIDE DEF f
<1>7. f \o <<Last(s)>> = s
  <2>1. <<Last(s)>> \in Seq(Word) /\ Len(<<Last(s)>>) = 1 /\ <<Last(s)>>[1] = Last(s)
    BY <1>4
  <2> DEFINE r == f \o <<Last(s)>>
  <2>2. /\ r \in Seq(Word) /\ Len(r) = (n - 1) + 1
        /\ \A i \in 1 .. (n - 1) + 1 :
              r[i] = IF i <= n - 1 THEN f[i] ELSE <<Last(s)>>[i - (n - 1)]
    BY <1>5, <2>1, ConcatProperties
  <2> HIDE DEF r
  <2>3. ASSUME NEW i \in 1 .. n PROVE r[i] = s[i]
    <3>1. i \in 1 .. (n - 1) + 1
      BY <1>1
    <3>2. CASE i <= n - 1
      <4>1. i \in 1 .. n - 1
        BY <1>1, <3>2
      <4> QED BY <1>5, <2>2, <3>1, <3>2, <4>1
    <3>3. CASE ~(i <= n - 1)
      <4>1. i = n /\ i - (n - 1) = 1
        BY <1>1, <3>3
      <4> QED BY <2>1, <2>2, <3>1, <3>3, <4>1 DEF Last
    <3> QED BY <3>2, <3>3
  <2>4. Len(r) = n
    BY <1>1, <2>2
  <2>5. r = s
    BY <2>2, <2>3, <2>4, SeqEqual
  <2> QED BY <2>5 DEF r
<1>8. SumCost(s) = SumCost(f) + elementCost(Last(s))
  <2>1. SumCost(f \o <<Last(s)>>) = SumCost(f) + elementCost(Last(s))
    BY <1>4, <1>5, ListMemory, ZenonT(40)
  <2> QED BY <1>7, <2>1
<1>9. SumCost(Tail(s)) \in Nat /\ SumCost(f) \in Nat /\ elementCost(Head(s)) \in Nat
      /\ elementCost(Last(s)) \in Nat
  BY <1>2, <1>4, <1>5, ListMemory, CostTypes
<1> QED BY <1>2, <1>3, <1>4, <1>5, <1>6, <1>8, <1>9

\* The sum over a container of distinct elements.
FieldCosts(fields) == [f \in DOMAIN fields |-> elementCost(f) + Size[fields[f]]]

IsFields(fields) ==
    \E names \in SUBSET Word : IsFiniteSet(names) /\ fields \in [names -> Word]

\* What is known of a hash's fields: the hash table has finitely many.
LEMMA FieldsFacts ==
    ASSUME NEW fields, IsFields(fields)
    PROVE  /\ IsFiniteSet(DOMAIN fields) /\ DOMAIN fields \subseteq Word
           /\ \A f \in DOMAIN fields : fields[f] \in Word
           /\ \A f \in DOMAIN fields : FieldCosts(fields)[f] \in Nat
           /\ FieldsCost(fields) \in Nat
           /\ FieldsCost(fields) = SumFunctionOnSet(FieldCosts(fields), DOMAIN fields)
<1>1. /\ IsFiniteSet(DOMAIN fields) /\ DOMAIN fields \subseteq Word
      /\ \A f \in DOMAIN fields : fields[f] \in Word
  BY DEF IsFields
<1>2. \A f \in DOMAIN fields : FieldCosts(fields)[f] \in Nat
  BY <1>1, CostTypes DEF FieldCosts
<1>3. FieldsCost(fields) = SumFunctionOnSet(FieldCosts(fields), DOMAIN fields)
  BY DEF FieldsCost, FieldCosts, SumFunction
<1>4. SumFunctionOnSet(FieldCosts(fields), DOMAIN fields) \in Nat
  <2> DEFINE c == FieldCosts(fields)
  <2>1. \A f \in DOMAIN fields : c[f] \in Nat
    BY <1>2
  <2> HIDE DEF c
  <2>2. SumFunctionOnSet(c, DOMAIN fields) \in Nat
    BY <1>1, <2>1, SumType
  <2> QED BY <2>2 DEF c
<1> QED BY <1>1, <1>2, <1>3, <1>4

\* The memory of some of the fields is the sum of their costs.
LEMMA PartOfFields ==
    ASSUME NEW fields, NEW names, IsFields(fields), names \subseteq DOMAIN fields
    PROVE  /\ IsFields([x \in names |-> fields[x]])
           /\ FieldsCost([x \in names |-> fields[x]]) =
                 SumFunctionOnSet(FieldCosts(fields), names)
<1> DEFINE part == [x \in names |-> fields[x]]
           c == FieldCosts(fields)
           p == FieldCosts(part)
<1>1. IsFiniteSet(names)
  BY FieldsFacts, FS_Subset
<1>2. part \in [names -> Word] /\ names \in SUBSET Word
  BY FieldsFacts
<1>3. IsFields(part) /\ DOMAIN part = names
  <2> HIDE DEF part
  <2> QED BY <1>1, <1>2 DEF IsFields
<1>4. \A x \in names : p[x] = c[x]
  BY DEF FieldCosts
<1> HIDE DEF part, c, p
<1>5. SumFunctionOnSet(p, names) = SumFunctionOnSet(c, names)
  BY <1>1, <1>4, SumCongruent
<1>6. FieldsCost(part) = SumFunctionOnSet(p, names)
  BY <1>3, FieldsFacts DEF p
<1> QED BY <1>3, <1>5, <1>6 DEF part, c

\* hashDelete: the cost of the fields is that of the kept and of the gone.
LEMMA DeleteMemory ==
    ASSUME NEW fields, NEW gone, IsFields(fields), gone \subseteq DOMAIN fields
    PROVE  /\ IsFields([x \in DOMAIN fields \ gone |-> fields[x]])
           /\ FieldsCost([x \in DOMAIN fields \ gone |-> fields[x]]) =
                 FieldsCost(fields) - FieldsCost([x \in gone |-> fields[x]])
           /\ FieldsCost([x \in gone |-> fields[x]]) \in Int
<1> DEFINE A == DOMAIN fields \ gone
           B == gone
           c == FieldCosts(fields)
<1>1. IsFiniteSet(A) /\ IsFiniteSet(B) /\ A \cap B = {} /\ A \cup B = DOMAIN fields
  BY FieldsFacts, FS_Subset
<1>2. \A x \in A \cup B : c[x] \in Int
  BY <1>1, FieldsFacts
<1>3. /\ IsFields([x \in A |-> fields[x]])
      /\ FieldsCost([x \in A |-> fields[x]]) = SumFunctionOnSet(c, A)
      /\ FieldsCost([x \in B |-> fields[x]]) = SumFunctionOnSet(c, B)
      /\ FieldsCost(fields) = SumFunctionOnSet(c, A \cup B)
  BY <1>1, PartOfFields, FieldsFacts
<1> HIDE DEF A, B, c
<1>4. /\ SumFunctionOnSet(c, A \cup B) = SumFunctionOnSet(c, A) + SumFunctionOnSet(c, B)
      /\ SumFunctionOnSet(c, A) \in Int /\ SumFunctionOnSet(c, B) \in Int
  BY <1>1, <1>2, SumUnion
<1>5. /\ FieldsCost([x \in A |-> fields[x]]) =
            FieldsCost(fields) - FieldsCost([x \in B |-> fields[x]])
      /\ FieldsCost([x \in B |-> fields[x]]) \in Int
  BY <1>3, <1>4
<1> QED BY <1>3, <1>5 DEF A, B

\* setAdd and setRemove: the members are finitely many words.
LEMMA MembersMemory ==
    /\ \A m \in SUBSET Word : IsFiniteSet(m) => MembersCost(m) \in Nat
    /\ \A a, b \in SUBSET Word : IsFiniteSet(a) /\ IsFiniteSet(b) /\ a \cap b = {} =>
          /\ IsFiniteSet(a \cup b)
          /\ MembersCost(a \cup b) = MembersCost(a) + MembersCost(b)
<1> DEFINE c == [w \in Word |-> elementCost(w)]
<1>1. \A w \in Word : c[w] \in Nat /\ c[w] \in Int
  BY CostTypes
<1>2. ASSUME NEW m \in SUBSET Word, IsFiniteSet(m)
      PROVE  MembersCost(m) = SumFunctionOnSet(c, m) /\ MembersCost(m) \in Nat
  <2> DEFINE f == [x \in m |-> elementCost(x)]
  <2>1. DOMAIN f = m /\ \A x \in m : f[x] = c[x] /\ c[x] \in Nat
    BY <1>1
  <2> HIDE DEF f, c
  <2>2. SumFunctionOnSet(f, m) = SumFunctionOnSet(c, m)
    BY <1>2, <2>1, SumCongruent
  <2>3. SumFunctionOnSet(c, m) \in Nat
    BY <1>2, <2>1, SumType
  <2>4. MembersCost(m) = SumFunctionOnSet(f, m)
    BY <2>1 DEF MembersCost, SumFunction, f
  <2> QED BY <2>2, <2>3, <2>4
<1>3. ASSUME NEW a \in SUBSET Word, NEW b \in SUBSET Word,
             IsFiniteSet(a), IsFiniteSet(b), a \cap b = {}
      PROVE  /\ IsFiniteSet(a \cup b)
             /\ MembersCost(a \cup b) = MembersCost(a) + MembersCost(b)
  <2>1. IsFiniteSet(a \cup b) /\ a \cup b \in SUBSET Word
    BY <1>3, FS_Union
  <2>2. \A x \in a \cup b : c[x] \in Int
    BY <1>1
  <2> HIDE DEF c
  <2>3. SumFunctionOnSet(c, a \cup b) = SumFunctionOnSet(c, a) + SumFunctionOnSet(c, b)
    BY <1>3, <2>2, SumUnion
  <2> QED BY <1>2, <1>3, <2>1, <2>3
<1> QED BY <1>2, <1>3

\* One iteration of hashSet: the bytes it counts are those the hash gains.
LEMMA HashSetStepMemory ==
    ASSUME NEW acc, IsFields(acc.fields), acc.bytes \in Int,
           NEW pair \in Word \X Word
    PROVE  LET new == HashSetStep(acc, pair)
           IN  /\ IsFields(new.fields) /\ DOMAIN new.fields # {}
               /\ new.bytes \in Int
               /\ FieldsCost(new.fields) - new.bytes =
                     FieldsCost(acc.fields) - acc.bytes
<1> DEFINE field == pair[1]
           value == pair[2]
           old == acc.fields
           names == DOMAIN old
           new == [x \in names \cup {field} |-> IF x = field THEN value ELSE old[x]]
           rest == names \ {field}
           c == FieldCosts(old)
           e == FieldCosts(new)
           gained == Size[value] + (IF field \notin names THEN elementCost(field)
                                                          ELSE -Size[old[field]])
<1>1. field \in Word /\ value \in Word
  OBVIOUS
<1>2. /\ IsFiniteSet(names) /\ names \subseteq Word
      /\ \A x \in names : old[x] \in Word /\ c[x] \in Nat
      /\ FieldsCost(old) = SumFunctionOnSet(c, names) /\ FieldsCost(old) \in Nat
  BY FieldsFacts
<1>4. HashSetStep(acc, pair).fields = new
  BY DEF HashSetStep, With
<1>5. HashSetStep(acc, pair).bytes = acc.bytes + Size[value] +
          (IF field \notin names THEN elementCost(field) ELSE -Size[old[field]])
  BY DEF HashSetStep
<1>6. IsFiniteSet(names \cup {field})
  BY <1>2, FS_AddElement
<1>7. IsFields(new) /\ DOMAIN new = names \cup {field}
  <2>1. names \cup {field} \in SUBSET Word /\ new \in [names \cup {field} -> Word]
    BY <1>1, <1>2
  <2> HIDE DEF new
  <2> QED BY <1>6, <2>1 DEF IsFields
<1>8. /\ FieldsCost(new) = SumFunctionOnSet(e, names \cup {field})
      /\ \A x \in names \cup {field} : e[x] \in Nat
  <2> HIDE DEF new
  <2> QED BY <1>7, FieldsFacts
<1>9. /\ e[field] = elementCost(field) + Size[value]
      /\ \A x \in rest : e[x] = c[x]
      /\ field \in names => c[field] = elementCost(field) + Size[old[field]]
  BY DEF FieldCosts
<1>10. /\ Size[value] \in Nat /\ elementCost(field) \in Nat
       /\ field \in names => Size[old[field]] \in Nat
  BY <1>1, <1>2, CostTypes
<1>11. IsFiniteSet(rest) /\ (names \cup {field}) \ {field} = rest
       /\ field \in names \cup {field}
       /\ (field \notin names => rest = names)
  BY <1>2, FS_Subset
<1> HIDE DEF field, value, old, names, new, rest, c, e
<1>12. SumFunctionOnSet(e, names \cup {field}) = e[field] + SumFunctionOnSet(e, rest)
  <2>1. \A x \in names \cup {field} : e[x] \in Int
    BY <1>8
  <2> QED BY <1>6, <1>11, <2>1, SumSplit
<1>13. SumFunctionOnSet(e, rest) = SumFunctionOnSet(c, rest)
  BY <1>9, <1>11, SumCongruent
<1>14. field \in names => SumFunctionOnSet(c, names) = c[field] + SumFunctionOnSet(c, rest)
  <2>1. \A x \in names : c[x] \in Int
    BY <1>2
  <2> QED BY <1>2, <2>1, SumSplit DEF rest
<1>15. SumFunctionOnSet(c, rest) \in Nat
  <2>1. \A x \in rest : c[x] \in Nat
    BY <1>2 DEF rest
  <2> QED BY <1>11, <2>1, SumType
<1>16. FieldsCost(new) = FieldsCost(old) + gained /\ gained \in Int
  <2>1. CASE field \in names
    BY <1>2, <1>8, <1>9, <1>10, <1>12, <1>13, <1>14, <1>15, <2>1
  <2>2. CASE field \notin names
    BY <1>2, <1>8, <1>9, <1>10, <1>11, <1>12, <1>13, <1>15, <2>2
  <2> QED BY <2>1, <2>2
<1>17. HashSetStep(acc, pair).bytes = acc.bytes + gained
  BY <1>5, <1>10
<1>18. HashSetStep(acc, pair).bytes \in Int
  BY <1>16, <1>17
<1>19. FieldsCost(new) - (acc.bytes + gained) = FieldsCost(old) - acc.bytes
  <2> HIDE DEF gained
  <2> QED BY <1>2, <1>16
<1>20. DOMAIN new # {}
  BY <1>7
<1> QED BY <1>4, <1>7, <1>17, <1>18, <1>19, <1>20 DEF old

(***************************************************************************)
(* hashSet's loop.                                                         *)
(***************************************************************************)
\* A set of positions has a last one.
LEMMA MaxInSet ==
    ASSUME NEW n \in Nat, NEW s \in SUBSET (1 .. n), s # {}
    PROVE  Max(s) \in s
<1> DEFINE T == {m \in Nat : \A y \in s : y <= m}
<1>1. T \subseteq Nat /\ n \in T
  OBVIOUS
<1>2. PICK m \in T : \A u \in T : m <= u
  <2> HIDE DEF T
  <2> QED BY <1>1, LeastNatural
<1>3. m \in s
  <2> SUFFICES ASSUME m \notin s PROVE FALSE
    OBVIOUS
  <2>1. \A y \in s : y \in Int /\ 1 <= y /\ y <= m /\ y # m
    BY <1>2
  <2>2. m - 1 \in T
    <3>1. PICK z \in s : TRUE
      OBVIOUS
    <3>2. m \in Int /\ m - 1 \in Nat
      BY <1>2, <2>1, <3>1
    <3>3. \A y \in s : y <= m - 1
      BY <2>1, <3>2
    <3> QED BY <3>2, <3>3
  <2> QED BY <1>2, <2>2
<1>4. \A y \in s : m >= y
  BY <1>2
<1> QED BY <1>3, <1>4 DEF Max

\* One step of FoldLeft over the pairs, and the function it is defined by.
HashSetFold(base, pairs, g, s) ==
    IF s = {} THEN base ELSE HashSetStep(g[s \ {Max(s)}], pairs[Max(s)])
IsHashSetFold(base, pairs, S, g) == g = [s \in SUBSET S |-> HashSetFold(base, pairs, g, s)]

\* That function exists.
LEMMA HashSetFoldExists ==
    ASSUME NEW base, NEW pairs, NEW m \in Nat
    PROVE  \E g : IsHashSetFold(base, pairs, 1 .. m, g)
<1> DEFINE S == 1 .. m
           Step(g, s) == HashSetFold(base, pairs, g, s)
           Upto(n, g) == \A s \in SUBSET S : Cardinality(s) <= n => g[s] = Step(g, s)
           P == {n \in Nat : \E g : Upto(n, g)}
<1>a. IsFiniteSet(S)
  BY FS_Interval
<1>b. \A s \in SUBSET S : s # {} => Max(s) \in s
  BY MaxInSet
<1> HIDE DEF S
<1>0. \A s \in SUBSET S : IsFiniteSet(s) /\ Cardinality(s) \in Nat
  BY <1>a, FS_Subset, FS_CardinalityType
<1>1. 0 \in P
  <2> DEFINE g == [s \in SUBSET S |-> base]
  <2>1. ASSUME NEW s \in SUBSET S, Cardinality(s) <= 0 PROVE g[s] = Step(g, s)
    <3>1. s = {}
      BY <1>0, <2>1, FS_EmptySet
    <3> QED BY <3>1 DEF HashSetFold
  <2>2. Upto(0, g)
    BY <2>1
  <2> QED BY <2>2
<1>2. ASSUME NEW n \in Nat, n \in P PROVE n + 1 \in P
  <2>1. PICK g : Upto(n, g)
    BY <1>2
  <2> DEFINE h == [s \in SUBSET S |-> Step(g, s)]
  <2>2. ASSUME NEW s \in SUBSET S, Cardinality(s) <= n + 1 PROVE h[s] = Step(h, s)
    <3>1. CASE s = {}
      BY <3>1 DEF HashSetFold
    <3>2. CASE s # {}
      <4> DEFINE r == s \ {Max(s)}
      <4>1. r \in SUBSET S /\ Cardinality(r) <= n
        <5>1. Max(s) \in s /\ Cardinality(r) = Cardinality(s) - 1
          BY <3>2, <1>0, <1>b, FS_RemoveElement
        <5> QED BY <5>1, <2>2, <1>0
      <4>2. h[r] = g[r]
        BY <4>1, <2>1
      <4>3. h[s] = HashSetStep(g[r], pairs[Max(s)])
        BY <3>2 DEF HashSetFold
      <4> QED BY <4>2, <4>3, <3>2 DEF HashSetFold
    <3> QED BY <3>1, <3>2
  <2>3. Upto(n + 1, h)
    BY <2>2
  <2>4. \E k : Upto(n + 1, k)
    <3> HIDE DEF Upto, h
    <3> QED BY <2>3
  <2>5. n + 1 \in Nat
    OBVIOUS
  <2> QED BY <2>4, <2>5, Zenon
<1>3. Nat \subseteq P
  <2> HIDE DEF P
  <2> QED BY <1>1, <1>2, InductionOnNat
<1>4. PICK g : Upto(Cardinality(S), g)
  BY <1>0, <1>3
<1> DEFINE h == [s \in SUBSET S |-> Step(g, s)]
<1>5. ASSUME NEW s \in SUBSET S PROVE h[s] = g[s]
  <2>1. Cardinality(s) <= Cardinality(S)
    BY <1>a, FS_Subset
  <2> QED BY <1>4, <2>1
<1>6. ASSUME NEW s \in SUBSET S PROVE Step(g, s) = Step(h, s)
  <2>1. CASE s = {}
    BY <2>1 DEF HashSetFold
  <2>2. CASE s # {}
    <3>1. s \ {Max(s)} \in SUBSET S
      OBVIOUS
    <3>2. h[s \ {Max(s)}] = g[s \ {Max(s)}]
      BY <1>5, <3>1
    <3> QED BY <2>2, <3>2 DEF HashSetFold
  <2> QED BY <2>1, <2>2
<1>7. h = [s \in SUBSET S |-> Step(h, s)]
  BY <1>6
<1> HIDE DEF h
<1> QED BY <1>7 DEF IsHashSetFold, S

\* FoldLeft is that function at the set of all positions.
LEMMA FoldLeftIsFold ==
    ASSUME NEW base, NEW pairs, NEW g, IsHashSetFold(base, pairs, DOMAIN pairs, g)
    PROVE  \E h : /\ IsHashSetFold(base, pairs, DOMAIN pairs, h)
                  /\ FoldLeft(HashSetStep, base, pairs) = h[DOMAIN pairs]
BY Zenon DEF FoldLeft, MapThenFoldSet, IsHashSetFold, HashSetFold

\* hashSet as a whole: the bytes added to the entry are those that the
\* fields gained, also when a field is named twice.
LEMMA HashSetMemory ==
    ASSUME NEW fields, IsFields(fields), NEW m \in Nat \ {0},
           NEW pairs \in [1 .. m -> Word \X Word],
           NEW r, r = FoldLeft(HashSetStep, [fields |-> fields, added |-> 0, bytes |-> 0],
                               pairs)
    PROVE  /\ IsFields(r.fields) /\ DOMAIN r.fields # {}
           /\ r.bytes \in Int
           /\ FieldsCost(r.fields) = FieldsCost(fields) + r.bytes
<1> DEFINE S == 1 .. m
           base == [fields |-> fields, added |-> 0, bytes |-> 0]
           Good(a) == /\ IsFields(a.fields) /\ a.bytes \in Int
                      /\ FieldsCost(a.fields) - a.bytes = FieldsCost(fields)
<1>1. DOMAIN pairs = S
  OBVIOUS
<1>2. PICK g : /\ IsHashSetFold(base, pairs, S, g)
               /\ r = g[S]
  <2>1. \E g : IsHashSetFold(base, pairs, S, g)
    BY HashSetFoldExists
  <2>2. r = FoldLeft(HashSetStep, base, pairs)
    OBVIOUS
  <2> HIDE DEF base, S
  <2>3. \E h : /\ IsHashSetFold(base, pairs, DOMAIN pairs, h)
                /\ FoldLeft(HashSetStep, base, pairs) = h[DOMAIN pairs]
    <3>1. PICK g : IsHashSetFold(base, pairs, DOMAIN pairs, g)
      BY <1>1, <2>1
    <3> QED BY <3>1, FoldLeftIsFold, Zenon
  <2> QED BY <1>1, <2>2, <2>3, Zenon
<1>a. IsFiniteSet(S) /\ S # {}
  <2>1. 1 \in S /\ m \in Int /\ 1 \in Int
    OBVIOUS
  <2>2. IsFiniteSet(S)
    BY <2>1, FS_Interval
  <2> QED BY <2>1, <2>2
<1>b. \A s \in SUBSET S : s # {} => Max(s) \in s
  BY MaxInSet
<1>c. FieldsCost(fields) \in Nat
  BY FieldsFacts
<1>3. Good(base)
  BY <1>c
<1>4. ASSUME NEW a, NEW p \in S, Good(a)
      PROVE  Good(HashSetStep(a, pairs[p])) /\ DOMAIN HashSetStep(a, pairs[p]).fields # {}
  <2> DEFINE new == HashSetStep(a, pairs[p])
  <2>1. pairs[p] \in Word \X Word
    OBVIOUS
  <2>2. /\ IsFields(new.fields) /\ DOMAIN new.fields # {} /\ new.bytes \in Int
        /\ FieldsCost(new.fields) - new.bytes = FieldsCost(a.fields) - a.bytes
    BY <1>4, <2>1, HashSetStepMemory
  <2> HIDE DEF new
  <2>3. Good(new) /\ DOMAIN new.fields # {}
    BY <1>4, <2>2
  <2> QED BY <2>3 DEF new
<1> HIDE DEF S, base, Good
<1>5. \A s \in SUBSET S : /\ IsFiniteSet(s) /\ Cardinality(s) \in Nat
                          /\ g[s] = HashSetFold(base, pairs, g, s)
  BY <1>2, <1>a, FS_Subset, FS_CardinalityType DEF IsHashSetFold
<1>6. ASSUME NEW s \in SUBSET S, s # {}, Good(g[s \ {Max(s)}])
      PROVE  Good(g[s]) /\ DOMAIN g[s].fields # {}
  <2>1. g[s] = HashSetStep(g[s \ {Max(s)}], pairs[Max(s)])
    BY <1>5, <1>6 DEF HashSetFold
  <2>2. Max(s) \in S
    BY <1>b, <1>6
  <2> QED BY <1>4, <1>6, <2>1, <2>2
<1> DEFINE P == {n \in Nat : \A s \in SUBSET S : Cardinality(s) = n => Good(g[s])}
<1>7. 0 \in P
  <2>1. ASSUME NEW s \in SUBSET S, Cardinality(s) = 0 PROVE Good(g[s])
    <3>1. s = {}
      BY <1>5, <2>1, FS_EmptySet
    <3>2. g[s] = base
      BY <1>5, <3>1 DEF HashSetFold
    <3> QED BY <1>3, <3>2
  <2> QED BY <2>1
<1>8. ASSUME NEW n \in Nat, n \in P PROVE n + 1 \in P
  <2>1. ASSUME NEW s \in SUBSET S, Cardinality(s) = n + 1 PROVE Good(g[s])
    <3>1. s # {}
      <4>1. Cardinality(s) # 0
        BY <2>1
      <4> QED BY <4>1, FS_EmptySet
    <3>2. Max(s) \in s /\ s \ {Max(s)} \in SUBSET S
      BY <1>b, <3>1
    <3>3. Cardinality(s \ {Max(s)}) = n
      BY <1>5, <2>1, <3>2, FS_RemoveElement
    <3>4. Good(g[s \ {Max(s)}])
      BY <1>8, <3>2, <3>3
    <3> QED BY <1>6, <3>1, <3>4
  <2> QED BY <2>1
<1>9. Nat \subseteq P
  <2> HIDE DEF P
  <2> QED BY <1>7, <1>8, InductionOnNat
<1>10. \A s \in SUBSET S : Good(g[s])
  BY <1>5, <1>9
<1>11. Good(g[S]) /\ DOMAIN g[S].fields # {}
  <2>1. S \in SUBSET S /\ S \ {Max(S)} \in SUBSET S
    OBVIOUS
  <2> QED BY <1>6, <1>10, <1>a, <2>1
<1>12. FieldsCost(r.fields) \in Nat
  BY <1>2, <1>11, FieldsFacts DEF Good
<1> QED BY <1>2, <1>11, <1>12, <1>c DEF Good

(***************************************************************************)
(* The sum of the memory of all entries.                                   *)
(***************************************************************************)
\* One entry split off the total.
LEMMA TotalWithout ==
    ASSUME NEW data, IsFiniteSet(DOMAIN data), NEW k \in DOMAIN data,
           \A x \in DOMAIN data : data[x].memory \in Int
    PROVE  LET m == [x \in DOMAIN data |-> data[x].memory]
           IN  /\ TotalMemory(data) =
                     data[k].memory + SumFunctionOnSet(m, DOMAIN data \ {k})
               /\ SumFunctionOnSet(m, DOMAIN data \ {k}) \in Int
<1> DEFINE m == [x \in DOMAIN data |-> data[x].memory]
           S == DOMAIN data
<1>1. DOMAIN m = S /\ m[k] = data[k].memory /\ \A x \in S : m[x] \in Int
  OBVIOUS
<1>2. TotalMemory(data) = SumFunctionOnSet(m, S)
  BY DEF TotalMemory, SumFunction
<1>3. IsFiniteSet(S) /\ IsFiniteSet(S \ {k}) /\ k \in S
  BY FS_Subset
<1> HIDE DEF m, S
<1>4. SumFunctionOnSet(m, S) = m[k] + SumFunctionOnSet(m, S \ {k})
  BY <1>1, <1>3, SumSplit
<1>5. SumFunctionOnSet(m, S \ {k}) \in Int
  <2>1. \A x \in S \ {k} : m[x] \in Int
    BY <1>1
  <2> QED BY <1>3, <2>1, SumType
<1> QED BY <1>1, <1>2, <1>4, <1>5 DEF m, S

\* The total of the entries that two tables have in common.
LEMMA TotalCommon ==
    ASSUME NEW data, NEW new, NEW R, IsFiniteSet(R),
           R \subseteq DOMAIN data, R \subseteq DOMAIN new,
           \A x \in R : new[x].memory = data[x].memory
    PROVE  SumFunctionOnSet([x \in DOMAIN data |-> data[x].memory], R) =
           SumFunctionOnSet([x \in DOMAIN new |-> new[x].memory], R)
<1> DEFINE m == [x \in DOMAIN data |-> data[x].memory]
           n == [x \in DOMAIN new |-> new[x].memory]
<1>1. \A x \in R : m[x] = n[x]
  OBVIOUS
<1> HIDE DEF m, n
<1>2. SumFunctionOnSet(m, R) = SumFunctionOnSet(n, R)
  BY <1>1, SumCongruent
<1> QED BY <1>2 DEF m, n

\* addMemory and removeMemory: one entry changes.
LEMMA TotalChanged ==
    ASSUME NEW data, IsFiniteSet(DOMAIN data), NEW k \in DOMAIN data, NEW new,
           DOMAIN new = DOMAIN data, new[k].memory \in Int,
           \A x \in DOMAIN data : data[x].memory \in Int,
           \A x \in DOMAIN data \ {k} : new[x].memory = data[x].memory
    PROVE  TotalMemory(new) = TotalMemory(data) + (new[k].memory - data[k].memory)
<1> DEFINE R == DOMAIN data \ {k}
           old == SumFunctionOnSet([x \in DOMAIN data |-> data[x].memory], R)
           rest == SumFunctionOnSet([x \in DOMAIN new |-> new[x].memory], R)
<1>1. IsFiniteSet(R)
  BY FS_Subset
<1>2. TotalMemory(data) = data[k].memory + old /\ old \in Int
  BY TotalWithout
<1>3. \A x \in DOMAIN new : new[x].memory \in Int
  OBVIOUS
<1>4. TotalMemory(new) = new[k].memory + rest
  BY <1>3, TotalWithout
<1>5. old = rest
  BY <1>1, TotalCommon
<1> HIDE DEF old, rest
<1>6. data[k].memory \in Int
  OBVIOUS
<1> QED BY <1>2, <1>4, <1>5, <1>6

\* erase, and create the other way round: one entry goes.
LEMMA TotalRemoved ==
    ASSUME NEW data, IsFiniteSet(DOMAIN data), NEW k \in DOMAIN data, NEW new,
           DOMAIN new = DOMAIN data \ {k},
           \A x \in DOMAIN data : data[x].memory \in Int,
           \A x \in DOMAIN data \ {k} : new[x].memory = data[x].memory
    PROVE  TotalMemory(data) = TotalMemory(new) + data[k].memory /\ TotalMemory(new) \in Int
<1> DEFINE R == DOMAIN data \ {k}
           old == SumFunctionOnSet([x \in DOMAIN data |-> data[x].memory], R)
           rest == SumFunctionOnSet([x \in DOMAIN new |-> new[x].memory], R)
<1>1. IsFiniteSet(R)
  BY FS_Subset
<1>2. TotalMemory(data) = data[k].memory + old /\ old \in Int
  BY TotalWithout
<1>3. TotalMemory(new) = rest
  BY DEF TotalMemory, SumFunction
<1>4. old = rest
  <2>1. /\ R \subseteq DOMAIN data /\ R \subseteq DOMAIN new
        /\ \A x \in R : new[x].memory = data[x].memory
    OBVIOUS
  <2> HIDE DEF R
  <2> QED BY <1>1, <2>1, TotalCommon
<1> HIDE DEF old, rest
<1>5. data[k].memory \in Int
  OBVIOUS
<1> QED BY <1>2, <1>3, <1>4, <1>5

(***************************************************************************)
(* The invariant on an object.                                             *)
(***************************************************************************)
NonEmpty(v) ==
    /\ v.type = "list" => v.items # <<>>
    /\ v.type = "hash" => DOMAIN v.fields # {}
    /\ v.type = "set" => v.members # {}

EntryOK(k, e) ==
    /\ IsValue(e.value)
    /\ e.expiresAtMs \in LLong
    /\ e.memory = ENTRY_OVERHEAD + Size[k] + payloadMemory(e.value)

\* Sound except that the value of k may be an empty aggregate, as it is
\* within a method that has created k or has just removed an element.
SoundBut(d, k) ==
    /\ DOMAIN d = {"data", "lru", "volatileKeys", "memoryUsed"}
    /\ WellFormed(d)
    /\ \A x \in DOMAIN d.data : EntryOK(x, d.data[x])
    /\ \A x \in DOMAIN d.data \ {k} : NonEmpty(d.data[x].value)
    /\ d.memoryUsed = TotalMemory(d.data)

Sound(d) ==
    /\ DOMAIN d = {"data", "lru", "volatileKeys", "memoryUsed"}
    /\ WellFormed(d)
    /\ \A x \in DOMAIN d.data : EntryOK(x, d.data[x]) /\ NonEmpty(d.data[x].value)
    /\ d.memoryUsed = TotalMemory(d.data)

\* The memory of a value is a number of bytes; the kinds of values.
LEMMA PayloadType ==
    /\ \A text \in Seq(Piece) : /\ IsValue(StringValue(text))
                                /\ payloadMemory(StringValue(text)) = TextSize(text)
    /\ \A items \in Seq(Word) : /\ IsValue(ListValue(items))
                                /\ payloadMemory(ListValue(items)) = SumCost(items)
    /\ \A fields : IsFields(fields) => /\ IsValue(HashValue(fields))
                                       /\ payloadMemory(HashValue(fields)) = FieldsCost(fields)
    /\ \A members \in SUBSET Word : IsFiniteSet(members) =>
          /\ IsValue(SetValue(members))
          /\ payloadMemory(SetValue(members)) = MembersCost(members)
<1>1. ASSUME NEW fields, IsFields(fields) PROVE IsValue(HashValue(fields))
  BY <1>1 DEF IsFields, IsValue
<1> QED BY <1>1 DEF IsValue, payloadMemory, StringValue, ListValue, HashValue, SetValue

\* What the type of a value says about its contents.
LEMMA ValueCases ==
    ASSUME NEW v, IsValue(v)
    PROVE  /\ v.type \in {"string", "list", "hash", "set"}
           /\ v.type = "string" => v = StringValue(v.text) /\ v.text \in Seq(Piece)
           /\ v.type = "list" => v = ListValue(v.items) /\ v.items \in Seq(Word)
           /\ v.type = "hash" => v = HashValue(v.fields) /\ IsFields(v.fields)
           /\ v.type = "set" => /\ v = SetValue(v.members)
                                /\ v.members \in SUBSET Word /\ IsFiniteSet(v.members)
<1>1. CASE \E text \in Seq(Piece) : v = StringValue(text)
  BY <1>1 DEF StringValue
<1>2. CASE \E items \in Seq(Word) : v = ListValue(items)
  BY <1>2 DEF ListValue
<1>3. CASE \E names \in SUBSET Word : \E fields \in [names -> Word] :
              IsFiniteSet(names) /\ v = HashValue(fields)
  BY <1>3 DEF HashValue, IsFields
<1>4. CASE \E members \in SUBSET Word : IsFiniteSet(members) /\ v = SetValue(members)
  BY <1>4 DEF SetValue
<1> QED BY <1>1, <1>2, <1>3, <1>4 DEF IsValue

\* Every value has a payload, every entry some memory.
LEMMA PayloadNat ==
    ASSUME NEW v, IsValue(v)
    PROVE  payloadMemory(v) \in Nat
<1>1. CASE v.type = "string"
  BY <1>1, ValueCases, PayloadType, TextMemory
<1>2. CASE v.type = "list"
  BY <1>2, ValueCases, PayloadType, ListMemory
<1>3. CASE v.type = "hash"
  BY <1>3, ValueCases, PayloadType, FieldsFacts
<1>4. CASE v.type = "set"
  BY <1>4, ValueCases, PayloadType, MembersMemory
<1> QED BY <1>1, <1>2, <1>3, <1>4, ValueCases

\* The memory recorded in an entry is a number of bytes.
LEMMA EntryMemory ==
    ASSUME NEW k \in Key, NEW e, EntryOK(k, e)
    PROVE  e.memory \in Nat
<1>1. payloadMemory(e.value) \in Nat /\ Size[k] \in Nat
  BY PayloadNat, SizeAssumption DEF EntryOK
<1> QED BY <1>1 DEF EntryOK, ENTRY_OVERHEAD

(***************************************************************************)
(* The private helpers.                                                    *)
(***************************************************************************)
\* What Sound says, for the proofs below.
LEMMA SoundFacts ==
    ASSUME NEW d, NEW k, SoundBut(d, k)
    PROVE  /\ IsFiniteSet(DOMAIN d.data) /\ DOMAIN d.data \subseteq Key
           /\ \A x \in DOMAIN d.data : d.data[x].memory \in Nat
<1>1. IsFiniteSet(DOMAIN d.data) /\ DOMAIN d.data \subseteq Key
  BY DataFinite DEF SoundBut, WellFormed
<1> QED BY <1>1, EntryMemory DEF SoundBut

\* An object is sound when it is but for a key that is not empty or absent.
LEMMA SoundIsSoundBut ==
    ASSUME NEW d, NEW k
    PROVE  /\ Sound(d) => SoundBut(d, k)
           /\ SoundBut(d, k) /\ (k \in DOMAIN d.data => NonEmpty(d.data[k].value))
                 => Sound(d)
BY DEF Sound, SoundBut

\* erase removes an entry and its memory.
LEMMA EraseSound ==
    ASSUME NEW d, NEW k \in DOMAIN d.data, SoundBut(d, k)
    PROVE  Sound(erase(d, k)) /\ ~Has(erase(d, k), k)
<1> DEFINE c == erase(d, k)
<1>1. WellFormed(d) /\ WellFormed(c)
  BY EraseWF DEF SoundBut
<1>2. /\ DOMAIN c.data = DOMAIN d.data \ {k}
      /\ \A x \in DOMAIN d.data \ {k} : SameEntry(d, c, x)
      /\ c.memoryUsed = d.memoryUsed - d.data[k].memory
  BY <1>1, EraseEffect
<1>3. /\ IsFiniteSet(DOMAIN d.data)
      /\ \A x \in DOMAIN d.data : d.data[x].memory \in Int
  BY SoundFacts
<1> HIDE DEF c
<1>4. \A x \in DOMAIN c.data : EntryOK(x, c.data[x]) /\ NonEmpty(c.data[x].value)
  BY <1>2 DEF SoundBut, SameEntry, EntryOK
<1>5. /\ TotalMemory(d.data) = TotalMemory(c.data) + d.data[k].memory
      /\ TotalMemory(c.data) \in Int
  <2>1. \A x \in DOMAIN d.data \ {k} : c.data[x].memory = d.data[x].memory
    BY <1>2 DEF SameEntry
  <2> QED BY <1>2, <1>3, <2>1, TotalRemoved
<1>6. c.memoryUsed = TotalMemory(c.data)
  BY <1>2, <1>3, <1>5 DEF SoundBut
<1>7. DOMAIN c = {"data", "lru", "volatileKeys", "memoryUsed"}
  BY DEF c, erase, DB
<1>8. Sound(c)
  BY <1>1, <1>4, <1>6, <1>7 DEF Sound
<1> QED BY <1>2, <1>8 DEF c, Has

\* create adds an entry and its memory.
LEMMA CreateSound ==
    ASSUME NEW d, Sound(d), NEW k \in Key, k \notin DOMAIN d.data, NEW v, IsValue(v)
    PROVE  /\ SoundBut(create(d, k, v), k) /\ Has(create(d, k, v), k)
           /\ create(d, k, v).data[k].value = v
           /\ NonEmpty(v) => Sound(create(d, k, v))
<1> DEFINE c == create(d, k, v)
<1>1. WellFormed(d) /\ WellFormed(c)
  BY CreateWF DEF Sound
<1>a. c = create(d, k, v)
  OBVIOUS
<1> HIDE DEF c
<1>2. /\ DOMAIN c.data = DOMAIN d.data \cup {k}
      /\ \A x \in DOMAIN d.data : SameEntry(d, c, x)
      /\ c.data[k].value = v /\ c.data[k].expiresAtMs = NO_EXPIRY
      /\ c.data[k].memory = ENTRY_OVERHEAD + Size[k] + payloadMemory(v)
      /\ c.memoryUsed = d.memoryUsed + c.data[k].memory
  BY <1>a DEF create, DB, With, Entry, SameEntry
<1>3. NO_EXPIRY \in LLong
  BY LLongAssumption DEF NO_EXPIRY, LLong, LLongMin
<1>4. EntryOK(k, c.data[k])
  BY <1>2, <1>3 DEF EntryOK
<1>5. \A x \in DOMAIN d.data : EntryOK(x, c.data[x]) /\ NonEmpty(c.data[x].value)
  BY <1>2 DEF Sound, SameEntry, EntryOK
<1>6. \A x \in DOMAIN c.data : c.data[x].memory \in Int
  <2>1. \A x \in DOMAIN c.data : x \in Key /\ EntryOK(x, c.data[x])
    BY <1>1, <1>2, <1>4, <1>5 DEF WellFormed
  <2> QED BY <2>1, EntryMemory
<1>7. TotalMemory(c.data) = TotalMemory(d.data) + c.data[k].memory
  <2>1. IsFiniteSet(DOMAIN c.data)
    BY <1>1, DataFinite
  <2>2. \A x \in DOMAIN c.data \ {k} : d.data[x].memory = c.data[x].memory
    BY <1>2 DEF SameEntry
  <2>3. k \in DOMAIN c.data /\ DOMAIN d.data = DOMAIN c.data \ {k}
    BY <1>2
  <2> QED BY <1>6, <2>1, <2>2, <2>3, TotalRemoved
<1>8. c.memoryUsed = TotalMemory(c.data)
  BY <1>2, <1>7 DEF Sound
<1>b. DOMAIN c = {"data", "lru", "volatileKeys", "memoryUsed"}
  BY <1>a DEF create, DB
<1>9. SoundBut(c, k)
  BY <1>1, <1>2, <1>4, <1>5, <1>8, <1>b DEF SoundBut
<1>10. NonEmpty(v) => Sound(c)
  BY <1>2, <1>9, SoundIsSoundBut
<1> QED BY <1>2, <1>9, <1>10 DEF c, Has

\* assign with the bytes that the value gained.
LEMMA AssignSound ==
    ASSUME NEW d, NEW k \in DOMAIN d.data, SoundBut(d, k), NEW v, IsValue(v),
           NEW n \in Int, payloadMemory(v) = payloadMemory(d.data[k].value) + n
    PROVE  /\ SoundBut(assign(d, k, v, n), k) /\ Has(assign(d, k, v, n), k)
           /\ NonEmpty(v) => Sound(assign(d, k, v, n))
<1> DEFINE c == assign(d, k, v, n)
<1>1. WellFormed(d) /\ WellFormed(c)
  BY AssignWF DEF SoundBut
<1>2. /\ DOMAIN c.data = DOMAIN d.data
      /\ \A x \in DOMAIN d.data \ {k} : SameEntry(d, c, x)
      /\ c.data[k].value = v /\ c.data[k].expiresAtMs = d.data[k].expiresAtMs
      /\ c.data[k].memory = d.data[k].memory + n
      /\ c.memoryUsed = d.memoryUsed + n
  BY AssignEffect
<1> HIDE DEF c
<1>3. /\ IsFiniteSet(DOMAIN d.data) /\ k \in Key
      /\ \A x \in DOMAIN d.data : d.data[x].memory \in Int
  BY SoundFacts
<1>4. EntryOK(k, c.data[k])
  <2>1. EntryOK(k, d.data[k])
    BY DEF SoundBut
  <2>2. payloadMemory(d.data[k].value) \in Nat /\ Size[k] \in Nat
    BY <1>3, <2>1, PayloadNat, SizeAssumption DEF EntryOK
  <2>3. c.data[k].memory = ENTRY_OVERHEAD + Size[k] + payloadMemory(v)
    BY <1>2, <2>1, <2>2 DEF EntryOK, ENTRY_OVERHEAD
  <2> QED BY <1>2, <2>1, <2>3 DEF EntryOK
<1>5. \A x \in DOMAIN d.data \ {k} : EntryOK(x, c.data[x]) /\ NonEmpty(c.data[x].value)
  BY <1>2 DEF SoundBut, SameEntry, EntryOK
<1>6. TotalMemory(c.data) = TotalMemory(d.data) + (c.data[k].memory - d.data[k].memory)
  <2>1. c.data[k].memory \in Int
    BY <1>2, <1>3
  <2>2. \A x \in DOMAIN d.data \ {k} : c.data[x].memory = d.data[x].memory
    BY <1>2 DEF SameEntry
  <2> QED BY <1>2, <1>3, <2>1, <2>2, TotalChanged
<1>7. c.memoryUsed = TotalMemory(c.data)
  <2>1. d.data[k].memory \in Int /\ c.data[k].memory - d.data[k].memory = n
    BY <1>2, <1>3
  <2> QED BY <1>2, <1>6, <2>1 DEF SoundBut
<1>a. DOMAIN c = {"data", "lru", "volatileKeys", "memoryUsed"}
  BY DEF c, assign, DB
<1>8. SoundBut(c, k)
  BY <1>1, <1>2, <1>4, <1>5, <1>7, <1>a DEF SoundBut
<1>9. NonEmpty(v) => Sound(c)
  BY <1>2, <1>8, SoundIsSoundBut
<1> QED BY <1>2, <1>8, <1>9 DEF c, Has

\* touch changes no entry.
LEMMA TouchSound ==
    ASSUME NEW d, Sound(d), NEW k, Has(d, k)
    PROVE  Sound(touch(d, k))
<1>1. DOMAIN touch(d, k) = {"data", "lru", "volatileKeys", "memoryUsed"}
  BY DEF touch, DB
<1> QED BY <1>1, TouchWF, TouchEffect DEF Sound, Has

\* A step that changes neither values nor memory keeps the object sound.
LEMMA SameMemorySound ==
    ASSUME NEW d, Sound(d), NEW c, DOMAIN c = DOMAIN d, WellFormed(c),
           DOMAIN c.data = DOMAIN d.data,
           \A x \in DOMAIN d.data : /\ c.data[x].value = d.data[x].value
                                    /\ c.data[x].memory = d.data[x].memory
                                    /\ c.data[x].expiresAtMs \in LLong,
           c.memoryUsed = d.memoryUsed
    PROVE  Sound(c)
<1>1. \A x \in DOMAIN c.data : EntryOK(x, c.data[x]) /\ NonEmpty(c.data[x].value)
  BY DEF Sound, EntryOK
<1>2. TotalMemory(c.data) = TotalMemory(d.data)
  <2>1. [x \in DOMAIN c.data |-> c.data[x].memory] = [x \in DOMAIN d.data |-> d.data[x].memory]
    OBVIOUS
  <2> QED BY <2>1 DEF TotalMemory
<1> QED BY <1>1, <1>2 DEF Sound

\* setExpiry and clearExpiry change no value and no memory.
LEMMA ExpirySound ==
    ASSUME NEW d, Sound(d), NEW k, Has(d, k), NEW when \in LLong, when # NO_EXPIRY
    PROVE  Sound(setExpiry(d, k, when)) /\ Sound(clearExpiry(d, k))
<1>1. WellFormed(d) /\ k \in DOMAIN d.data
      /\ \A x \in DOMAIN d.data : d.data[x].expiresAtMs \in LLong
  BY DEF Sound, Has, EntryOK
<1>2. NO_EXPIRY \in LLong
  BY LLongAssumption DEF NO_EXPIRY, LLong, LLongMin
<1>a. DOMAIN setExpiry(d, k, when) = DOMAIN d /\ DOMAIN clearExpiry(d, k) = DOMAIN d
  BY DEF setExpiry, clearExpiry, DB, Sound
<1>3. Sound(setExpiry(d, k, when))
  <2> DEFINE c == setExpiry(d, k, when)
  <2>1. WellFormed(c) /\ DOMAIN c = DOMAIN d
    BY <1>1, <1>a, SetExpiryWF DEF LLong, LLongMin
  <2>2. /\ DOMAIN c.data = DOMAIN d.data
        /\ \A x \in DOMAIN d.data \ {k} : SameEntry(d, c, x)
        /\ c.data[k].value = d.data[k].value /\ c.data[k].memory = d.data[k].memory
        /\ c.data[k].expiresAtMs = when /\ c.memoryUsed = d.memoryUsed
    BY <1>1, SetExpiryEffect
  <2> HIDE DEF c
  <2>3. Sound(c)
    BY <1>1, <2>1, <2>2, SameMemorySound DEF SameEntry
  <2> QED BY <2>3 DEF c
<1>4. Sound(clearExpiry(d, k))
  <2> DEFINE c == clearExpiry(d, k)
  <2>1. WellFormed(c) /\ DOMAIN c = DOMAIN d
    BY <1>1, <1>a, ClearExpiryWF
  <2>2. /\ DOMAIN c.data = DOMAIN d.data
        /\ \A x \in DOMAIN d.data \ {k} : SameEntry(d, c, x)
        /\ c.data[k].value = d.data[k].value /\ c.data[k].memory = d.data[k].memory
        /\ c.data[k].expiresAtMs = NO_EXPIRY /\ c.memoryUsed = d.memoryUsed
    BY <1>1, ClearExpiryEffect
  <2> HIDE DEF c
  <2>3. Sound(c)
    BY <1>1, <1>2, <2>1, <2>2, SameMemorySound DEF SameEntry
  <2> QED BY <2>3 DEF c
<1> QED BY <1>3, <1>4

\* Lazy expiration.
LEMMA FindLiveSound ==
    ASSUME NEW d, Sound(d), NEW t, NEW k
    PROVE  Sound(findLive(d, t, k))
BY EraseSound, SoundIsSoundBut, FindLiveEffect DEF Has

\* A key that a method finds or creates; a key that it finds is sound.
LEMMA FindOrCreateSound ==
    ASSUME NEW d, Sound(d), NEW t, NEW k \in Key, NEW v, IsValue(v),
           NEW g, g = findOrCreate(d, t, k, v)
    PROVE  /\ SoundBut(g, k) /\ Has(g, k)
           /\ Sound(g) \/ g.data[k].value = v
           /\ NonEmpty(v) => Sound(g)
<1> DEFINE f == findLive(d, t, k)
<1>1. Sound(f) /\ SoundBut(f, k)
  BY FindLiveSound, SoundIsSoundBut
<1>2. g = IF Has(f, k) THEN f ELSE create(f, k, v)
  BY DEF findOrCreate
<1> HIDE DEF f
<1>3. CASE Has(f, k)
  BY <1>1, <1>2, <1>3
<1>4. CASE ~Has(f, k)
  BY <1>1, <1>2, <1>4, CreateSound DEF Has
<1> QED BY <1>3, <1>4

\* An update in place that leaves something, and the touch after it.
LEMMA UpdateSound ==
    ASSUME NEW d, NEW k, Has(d, k), SoundBut(d, k), NEW v, IsValue(v), NEW n \in Int,
           payloadMemory(v) = payloadMemory(d.data[k].value) + n
    PROVE  /\ NonEmpty(v) => /\ Sound(assign(d, k, v, n))
                             /\ Sound(touch(assign(d, k, v, n), k))
           /\ Sound(erase(assign(d, k, v, n), k))
<1>1. /\ SoundBut(assign(d, k, v, n), k) /\ Has(assign(d, k, v, n), k)
      /\ NonEmpty(v) => Sound(assign(d, k, v, n))
  BY AssignSound DEF Has
<1> QED BY <1>1, TouchSound, EraseSound DEF Has

(***************************************************************************)
(* The methods.                                                            *)
(***************************************************************************)
\* Methods that only look a key up, or remove it.
LEMMA KeyspaceSound ==
    ASSUME NEW d, Sound(d), NEW t, NEW k, NEW x
    PROVE  /\ Sound(del(d, t, k).db) /\ Sound(exists(d, t, k).db)
           /\ Sound(type(d, t, k).db) /\ Sound(stringLength(d, t, k).db)
           /\ Sound(listLength(d, t, k).db) /\ Sound(hashLength(d, t, k).db)
           /\ Sound(setCardinality(d, t, k).db)
           /\ Sound(hashExists(d, t, k, x).db) /\ Sound(setIsMember(d, t, k, x).db)
           /\ Sound(ttlMs(d, t, x, k).db) /\ Sound(ttl(d, t, x, k).db)
<1> DEFINE f == findLive(d, t, k)
<1>1. Sound(f) /\ (Has(f, k) => Sound(erase(f, k)))
  BY FindLiveSound, EraseSound, SoundIsSoundBut DEF Has
<1> HIDE DEF f
<1>2. del(d, t, k).db = IF Has(f, k) THEN erase(f, k) ELSE f
  BY DEF del, Result, f
<1>3. /\ exists(d, t, k).db = f /\ type(d, t, k).db = f
      /\ stringLength(d, t, k).db = f /\ listLength(d, t, k).db = f
      /\ hashLength(d, t, k).db = f /\ setCardinality(d, t, k).db = f
      /\ hashExists(d, t, k, x).db = f /\ setIsMember(d, t, k, x).db = f
      /\ ttlMs(d, t, x, k).db = f /\ ttl(d, t, x, k).db = f
  BY DEF exists, type, stringLength, listLength, hashLength, setCardinality,
         hashExists, setIsMember, ttlMs, ttl, Result, f
<1> QED BY <1>1, <1>2, <1>3

\* Methods that read a value and touch its key.
LEMMA ReadSound ==
    ASSUME NEW d, Sound(d), NEW t, NEW k, NEW x, NEW y
    PROVE  /\ Sound(get(d, t, k).db)
           /\ Sound(listRange(d, t, k, x, y).db) /\ Sound(listIndex(d, t, k, x).db)
           /\ Sound(hashGet(d, t, k, x).db) /\ Sound(hashGetAll(d, t, k).db)
           /\ Sound(setMembers(d, t, k).db)
<1> DEFINE f == findLive(d, t, k)
<1>1. Sound(f) /\ (Has(f, k) => Sound(touch(f, k)))
  BY FindLiveSound, TouchSound
<1> HIDE DEF f
<1>2. get(d, t, k).db \in {f, touch(f, k)} /\ (~Has(f, k) => get(d, t, k).db = f)
  BY DEF get, Result, f
<1>3. /\ listRange(d, t, k, x, y).db \in {f, touch(f, k)}
      /\ ~Has(f, k) => listRange(d, t, k, x, y).db = f
  BY DEF listRange, Result, f
<1>4. /\ listIndex(d, t, k, x).db \in {f, touch(f, k)}
      /\ ~Has(f, k) => listIndex(d, t, k, x).db = f
  BY DEF listIndex, Result, f
<1>5. /\ hashGet(d, t, k, x).db \in {f, touch(f, k)}
      /\ ~Has(f, k) => hashGet(d, t, k, x).db = f
  BY DEF hashGet, Result, f
<1>6. /\ hashGetAll(d, t, k).db \in {f, touch(f, k)}
      /\ ~Has(f, k) => hashGetAll(d, t, k).db = f
  BY DEF hashGetAll, Result, f
<1>7. /\ setMembers(d, t, k).db \in {f, touch(f, k)}
      /\ ~Has(f, k) => setMembers(d, t, k).db = f
  BY DEF setMembers, Result, f
<1> QED BY <1>1, <1>2, <1>3, <1>4, <1>5, <1>6, <1>7

\* expireAtMs stores a deadline in the future or erases the key.
LEMMA ExpireAtMsSound ==
    ASSUME NEW d, Sound(d), NEW t1, NEW t2 \in Nat, NEW k, NEW when \in Int,
           when > t2 => when \in LLong
    PROVE  Sound(expireAtMs(d, t1, t2, k, when).db) /\ Sound(persist(d, t1, k).db)
<1> DEFINE f == findLive(d, t1, k)
<1>1. Sound(f) /\ (Has(f, k) => Sound(erase(f, k)))
  BY FindLiveSound, EraseSound, SoundIsSoundBut DEF Has
<1>2. ~(when <= t2) => when \in LLong /\ when # NO_EXPIRY
  BY DEF NO_EXPIRY
<1>3. 0 \in LLong /\ 0 # NO_EXPIRY
  BY LLongAssumption DEF NO_EXPIRY, LLong, LLongMin
<1> HIDE DEF f
<1>4. expireAtMs(d, t1, t2, k, when).db = IF ~Has(f, k) THEN f
                                          ELSE IF when <= t2 THEN erase(f, k)
                                          ELSE setExpiry(f, k, when)
  BY DEF expireAtMs, Result, f
<1>5. /\ persist(d, t1, k).db \in {f, clearExpiry(f, k)}
      /\ ~Has(f, k) => persist(d, t1, k).db = f
  BY DEF persist, Result, f
<1>6. Has(f, k) => Sound(clearExpiry(f, k))
  BY <1>1, <1>3, ExpirySound
<1>7. Has(f, k) /\ ~(when <= t2) => Sound(setExpiry(f, k, when))
  BY <1>1, <1>2, ExpirySound
<1> QED BY <1>1, <1>4, <1>5, <1>6, <1>7

\* set replaces the value and the memory of a key.
LEMMA SetSound ==
    ASSUME NEW d, Sound(d), NEW t, NEW k \in Key, NEW text \in Seq(Piece)
    PROVE  Sound(set(d, t, k, text).db)
<1> DEFINE f == findLive(d, t, k)
           e == IF Has(f, k) THEN erase(f, k) ELSE f
           v == StringValue(text)
<1>1. Sound(f)
  BY FindLiveSound
<1>2. Sound(e) /\ k \notin DOMAIN e.data
  BY <1>1, EraseSound, SoundIsSoundBut DEF Has
<1>3. IsValue(v) /\ NonEmpty(v)
  BY PayloadType DEF NonEmpty, StringValue
<1>4. set(d, t, k, text).db = create(e, k, v)
  BY DEF set, Result
<1> HIDE DEF e, v
<1> QED BY <1>2, <1>3, <1>4, CreateSound

\* incrementBy replaces the digits.
LEMMA IncrementSound ==
    ASSUME NEW d, Sound(d), NEW t, NEW k \in Key, NEW delta \in Int
    PROVE  Sound(incrementBy(d, t, k, delta).db)
<1> DEFINE zero == StringValue(<<0>>)
           g == findOrCreate(d, t, k, zero)
           text == g.data[k].value.text
           sum == text[1] + delta
           v == StringValue(<<sum>>)
           n == DecimalSize(sum) - TextSize(text)
<1>1. 0 \in LLong
  BY LLongAssumption DEF LLong, LLongMin
<1>2. IsValue(zero) /\ NonEmpty(zero)
  BY <1>1, PayloadType, TextMemory DEF NonEmpty, StringValue
<1>3. Sound(g) /\ SoundBut(g, k) /\ Has(g, k)
  <2> HIDE DEF zero
  <2> QED BY <1>2, FindOrCreateSound
<1>4. incrementBy(d, t, k, delta).db =
         IF valueAs(g, k, "string") /\ parseStrictInteger(text) /\ sum \in LLong
         THEN touch(assign(g, k, v, n), k) ELSE g
  BY DEF incrementBy, AddOverflows, Result
<1> HIDE DEF g
<1>5. CASE valueAs(g, k, "string") /\ parseStrictInteger(text) /\ sum \in LLong
  <2>1. IsValue(g.data[k].value)
    BY <1>3 DEF SoundBut, EntryOK, Has
  <2>2. g.data[k].value = StringValue(text) /\ text \in Seq(Piece)
    BY <1>5, <2>1, ValueCases DEF valueAs
  <2> HIDE DEF text, sum
  <2>3. /\ <<sum>> \in Seq(Piece) /\ TextSize(<<sum>>) = DecimalSize(sum)
        /\ DecimalSize(sum) \in Nat /\ TextSize(text) \in Nat
    BY <1>5, <2>2, TextMemory, DecimalSizeType
  <2>4. /\ IsValue(v) /\ NonEmpty(v)
        /\ payloadMemory(v) = DecimalSize(sum)
        /\ payloadMemory(g.data[k].value) = TextSize(text)
    BY <2>2, <2>3, PayloadType DEF NonEmpty, StringValue
  <2>5. n \in Int /\ payloadMemory(v) = payloadMemory(g.data[k].value) + n
    BY <2>3, <2>4
  <2> HIDE DEF v, n
  <2>6. Sound(touch(assign(g, k, v, n), k))
    BY <1>3, <2>4, <2>5, UpdateSound
  <2> QED BY <1>4, <1>5, <2>6
<1>6. CASE ~(valueAs(g, k, "string") /\ parseStrictInteger(text) /\ sum \in LLong)
  BY <1>3, <1>4, <1>6
<1> QED BY <1>5, <1>6

\* append adds the size of the text that is appended.
LEMMA AppendSound ==
    ASSUME NEW d, Sound(d), NEW t, NEW k \in Key, NEW text \in Seq(Piece)
    PROVE  Sound(append(d, t, k, text).db)
<1> DEFINE f == findLive(d, t, k)
           old == f.data[k].value.text
           v == StringValue(old \o text)
           n == TextSize(text)
<1>1. Sound(f) /\ SoundBut(f, k)
  BY FindLiveSound, SoundIsSoundBut
<1>2. append(d, t, k, text).db =
         IF ~Has(f, k) THEN create(f, k, StringValue(text))
         ELSE IF ~valueAs(f, k, "string") THEN f
         ELSE touch(assign(f, k, v, n), k)
  BY DEF append, Result
<1> HIDE DEF f
<1>3. CASE ~Has(f, k)
  <2> DEFINE new == StringValue(text)
  <2>1. IsValue(new) /\ NonEmpty(new)
    BY PayloadType DEF NonEmpty, StringValue
  <2>2. append(d, t, k, text).db = create(f, k, new)
    BY <1>2, <1>3
  <2> HIDE DEF new
  <2> QED BY <1>1, <1>3, <2>1, <2>2, CreateSound DEF Has
<1>4. CASE Has(f, k) /\ valueAs(f, k, "string")
  <2>1. IsValue(f.data[k].value)
    BY <1>1, <1>4 DEF SoundBut, EntryOK, Has
  <2>2. f.data[k].value = StringValue(old) /\ old \in Seq(Piece)
    BY <1>4, <2>1, ValueCases DEF valueAs
  <2> HIDE DEF old
  <2>3. /\ old \o text \in Seq(Piece) /\ TextSize(old \o text) = TextSize(old) + n
        /\ n \in Nat
    BY <2>2, TextMemory
  <2>4. /\ IsValue(v) /\ NonEmpty(v)
        /\ payloadMemory(v) = payloadMemory(f.data[k].value) + n
    BY <2>2, <2>3, PayloadType DEF NonEmpty, StringValue
  <2>5. n \in Int
    BY <2>3
  <2> HIDE DEF v, n
  <2>6. Sound(touch(assign(f, k, v, n), k))
    BY <1>1, <1>4, <2>4, <2>5, UpdateSound
  <2> QED BY <1>2, <1>4, <2>6
<1>5. CASE Has(f, k) /\ ~valueAs(f, k, "string")
  BY <1>1, <1>2, <1>5
<1> QED BY <1>3, <1>4, <1>5

\* listPush adds the cost of the elements it pushes, on either side.
LEMMA ListPushSound ==
    ASSUME NEW d, Sound(d), NEW t, NEW k \in Key, NEW words \in Seq(Word),
           words # <<>>, NEW side
    PROVE  Sound(listPush(d, t, k, words, side).db)
<1> DEFINE empty == ListValue(<<>>)
           g == findOrCreate(d, t, k, empty)
           items == g.data[k].value.items
           pushed == IF side = "Left" THEN Reverse(words) \o items ELSE items \o words
           v == ListValue(pushed)
           n == SumCost(words)
<1>1. IsValue(empty) /\ empty.type = "list"
  <2>1. <<>> \in Seq(Word)
    BY EmptySeq
  <2> QED BY <2>1, PayloadType DEF ListValue
<1>2. SoundBut(g, k) /\ Has(g, k) /\ (Sound(g) \/ g.data[k].value = empty)
  <2> HIDE DEF empty
  <2> QED BY <1>1, FindOrCreateSound
<1>3. listPush(d, t, k, words, side).db =
         IF ~valueAs(g, k, "list") THEN g ELSE touch(assign(g, k, v, n), k)
  BY DEF listPush, Result
<1> HIDE DEF g, empty
<1>4. CASE valueAs(g, k, "list")
  <2>1. IsValue(g.data[k].value)
    BY <1>2 DEF SoundBut, EntryOK, Has
  <2>2. g.data[k].value = ListValue(items) /\ items \in Seq(Word)
    BY <1>4, <2>1, ValueCases DEF valueAs
  <2> HIDE DEF items
  <2>3. n \in Nat /\ SumCost(items) \in Nat
    BY <2>2, ListMemory
  <2>4. Reverse(words) \in Seq(Word) /\ SumCost(Reverse(words)) = n
    BY ListMemory
  <2>5. pushed \in Seq(Word) /\ SumCost(pushed) = SumCost(items) + n
    BY <2>2, <2>3, <2>4, ListMemory
  <2>6. pushed # <<>>
    <3>1. Len(words) \in Nat /\ Len(words) # 0 /\ Len(items) \in Nat
      BY <2>2, LenProperties, EmptySeq
    <3>2. Len(Reverse(words)) = Len(words)
      BY <2>4, <3>1 DEF Reverse
    <3>3. /\ Len(Reverse(words) \o items) = Len(Reverse(words)) + Len(items)
          /\ Len(items \o words) = Len(items) + Len(words)
      BY <2>2, <2>4, ConcatProperties
    <3>4. Len(pushed) = Len(words) + Len(items)
      BY <3>1, <3>2, <3>3
    <3> QED BY <3>1, <3>4
  <2> HIDE DEF pushed
  <2>7. IsValue(v) /\ NonEmpty(v)
        /\ payloadMemory(v) = payloadMemory(g.data[k].value) + n
    BY <2>2, <2>5, <2>6, PayloadType DEF NonEmpty, ListValue
  <2>8. n \in Int
    BY <2>3
  <2> HIDE DEF v, n
  <2>9. Sound(touch(assign(g, k, v, n), k))
    BY <1>2, <2>7, <2>8, UpdateSound
  <2> QED BY <1>3, <1>4, <2>9
<1>5. CASE ~valueAs(g, k, "list")
  BY <1>1, <1>2, <1>3, <1>5 DEF valueAs
<1> QED BY <1>4, <1>5

\* listPop gives back the cost of the element it removes, and the key with
\* the last one.
LEMMA ListPopSound ==
    ASSUME NEW d, Sound(d), NEW t, NEW k, NEW side
    PROVE  Sound(listPop(d, t, k, side).db)
<1> DEFINE f == findLive(d, t, k)
           items == f.data[k].value.items
           value == IF side = "Left" THEN Head(items) ELSE Last(items)
           rest == IF side = "Left" THEN Tail(items) ELSE Front(items)
           v == ListValue(rest)
           n == -elementCost(value)
           g == assign(f, k, v, n)
<1>1. Sound(f) /\ SoundBut(f, k)
  BY FindLiveSound, SoundIsSoundBut
<1>2. listPop(d, t, k, side).db =
         IF ~Has(f, k) \/ ~valueAs(f, k, "list") THEN f
         ELSE IF rest = <<>> THEN erase(g, k) ELSE touch(g, k)
  BY DEF listPop, Result
<1> HIDE DEF f
<1>3. CASE Has(f, k) /\ valueAs(f, k, "list")
  <2>1. IsValue(f.data[k].value) /\ NonEmpty(f.data[k].value)
    BY <1>1, <1>3 DEF Sound, EntryOK, Has
  <2>2. f.data[k].value = ListValue(items) /\ items \in Seq(Word) /\ items # <<>>
    BY <1>3, <2>1, ValueCases DEF valueAs, NonEmpty
  <2> HIDE DEF items
  <2>3. /\ value \in Word /\ rest \in Seq(Word)
        /\ SumCost(rest) = SumCost(items) - elementCost(value)
    BY <2>2, PopMemory
  <2>4. SumCost(items) \in Nat /\ elementCost(value) \in Nat
    BY <2>2, <2>3, ListMemory, CostTypes
  <2> HIDE DEF rest, value
  <2>5. IsValue(v) /\ payloadMemory(v) = payloadMemory(f.data[k].value) + n
    BY <2>2, <2>3, <2>4, PayloadType
  <2>6. n \in Int /\ (rest # <<>> => NonEmpty(v))
    BY <2>4 DEF NonEmpty, ListValue
  <2> HIDE DEF v, n
  <2>7. Sound(erase(g, k)) /\ (rest # <<>> => Sound(touch(g, k)))
    BY <1>1, <1>3, <2>5, <2>6, UpdateSound
  <2> QED BY <1>2, <1>3, <2>7
<1>4. CASE ~(Has(f, k) /\ valueAs(f, k, "list"))
  BY <1>1, <1>2, <1>4
<1> QED BY <1>3, <1>4

\* hashSet adds the bytes that its loop counted.
LEMMA HashSetSound ==
    ASSUME NEW d, Sound(d), NEW t, NEW k \in Key, NEW m \in Nat \ {0},
           NEW pairs \in [1 .. m -> Word \X Word]
    PROVE  Sound(hashSet(d, t, k, pairs).db)
<1> DEFINE empty == HashValue(<<>>)
           g == findOrCreate(d, t, k, empty)
           fields == g.data[k].value.fields
           r == FoldLeft(HashSetStep, [fields |-> fields, added |-> 0, bytes |-> 0], pairs)
           v == HashValue(r.fields)
<1>1. IsValue(empty) /\ empty.type = "hash"
  <2>1. <<>> \in [{} -> Word] /\ IsFiniteSet({})
    BY FS_EmptySet
  <2>2. IsFields(<<>>)
    BY <2>1 DEF IsFields
  <2> QED BY <2>2, PayloadType DEF HashValue
<1>2. SoundBut(g, k) /\ Has(g, k) /\ (Sound(g) \/ g.data[k].value = empty)
  <2> HIDE DEF empty
  <2> QED BY <1>1, FindOrCreateSound
<1>3. hashSet(d, t, k, pairs).db =
         IF ~valueAs(g, k, "hash") THEN g ELSE touch(assign(g, k, v, r.bytes), k)
  BY DEF hashSet, Result
<1> HIDE DEF g, empty
<1>4. CASE valueAs(g, k, "hash")
  <2>1. IsValue(g.data[k].value)
    BY <1>2 DEF SoundBut, EntryOK, Has
  <2>2. g.data[k].value = HashValue(fields) /\ IsFields(fields)
    BY <1>4, <2>1, ValueCases DEF valueAs
  <2> HIDE DEF fields
  <2>3. /\ IsFields(r.fields) /\ DOMAIN r.fields # {} /\ r.bytes \in Int
        /\ FieldsCost(r.fields) = FieldsCost(fields) + r.bytes
    BY <2>2, HashSetMemory
  <2> HIDE DEF r
  <2>4. IsValue(v) /\ NonEmpty(v)
        /\ payloadMemory(v) = payloadMemory(g.data[k].value) + r.bytes
    BY <2>2, <2>3, PayloadType DEF NonEmpty, HashValue
  <2> HIDE DEF v
  <2>5. Sound(touch(assign(g, k, v, r.bytes), k))
    BY <1>2, <2>3, <2>4, UpdateSound
  <2> QED BY <1>3, <1>4, <2>5
<1>5. CASE ~valueAs(g, k, "hash")
  BY <1>1, <1>2, <1>3, <1>5 DEF valueAs
<1> QED BY <1>4, <1>5

\* hashDelete gives back the cost of the fields it removes, and the key with
\* the last one.
LEMMA HashDeleteSound ==
    ASSUME NEW d, Sound(d), NEW t, NEW k, NEW names
    PROVE  Sound(hashDelete(d, t, k, names).db)
<1> DEFINE f == findLive(d, t, k)
           fields == f.data[k].value.fields
           gone == names \cap DOMAIN fields
           kept == [x \in DOMAIN fields \ gone |-> fields[x]]
           bytes == FieldsCost([x \in gone |-> fields[x]])
           v == HashValue(kept)
           n == -bytes
           g == assign(f, k, v, n)
<1>1. Sound(f) /\ SoundBut(f, k)
  BY FindLiveSound, SoundIsSoundBut
<1>2. hashDelete(d, t, k, names).db =
         IF ~Has(f, k) \/ ~valueAs(f, k, "hash") THEN f
         ELSE IF DOMAIN kept = {} THEN erase(g, k) ELSE g
  BY DEF hashDelete, Result
<1> HIDE DEF f
<1>3. CASE Has(f, k) /\ valueAs(f, k, "hash")
  <2>1. IsValue(f.data[k].value)
    BY <1>1, <1>3 DEF Sound, EntryOK, Has
  <2>2. f.data[k].value = HashValue(fields) /\ IsFields(fields)
    BY <1>3, <2>1, ValueCases DEF valueAs
  <2> HIDE DEF fields
  <2>3. gone \subseteq DOMAIN fields
    OBVIOUS
  <2> HIDE DEF gone
  <2>4. /\ IsFields(kept) /\ bytes \in Int
        /\ FieldsCost(kept) = FieldsCost(fields) - bytes
    BY <2>2, <2>3, DeleteMemory
  <2>5. FieldsCost(fields) \in Nat
    BY <2>2, FieldsFacts
  <2> HIDE DEF kept, bytes
  <2>6. /\ IsValue(v) /\ payloadMemory(v) = FieldsCost(kept)
        /\ payloadMemory(f.data[k].value) = FieldsCost(fields)
    BY <2>2, <2>4, PayloadType
  <2>7. n \in Int /\ payloadMemory(v) = payloadMemory(f.data[k].value) + n
    BY <2>4, <2>5, <2>6
  <2>8. DOMAIN kept # {} => NonEmpty(v)
    BY DEF NonEmpty, HashValue
  <2> HIDE DEF v, n
  <2>9. Sound(erase(g, k)) /\ (DOMAIN kept # {} => Sound(g))
    BY <1>1, <1>3, <2>6, <2>7, <2>8, UpdateSound
  <2> QED BY <1>2, <1>3, <2>9
<1>4. CASE ~(Has(f, k) /\ valueAs(f, k, "hash"))
  BY <1>1, <1>2, <1>4
<1> QED BY <1>3, <1>4

\* setAdd adds the cost of the members that are new.
LEMMA SetAddSound ==
    ASSUME NEW d, Sound(d), NEW t, NEW k \in Key, NEW words \in SUBSET Word,
           IsFiniteSet(words), words # {}
    PROVE  Sound(setAdd(d, t, k, words).db)
<1> DEFINE empty == SetValue({})
           g == findOrCreate(d, t, k, empty)
           members == g.data[k].value.members
           new == words \ members
           v == SetValue(members \cup new)
           n == MembersCost(new)
<1>1. IsValue(empty) /\ empty.type = "set"
  BY FS_EmptySet, PayloadType DEF SetValue
<1>2. SoundBut(g, k) /\ Has(g, k) /\ (Sound(g) \/ g.data[k].value = empty)
  <2> HIDE DEF empty
  <2> QED BY <1>1, FindOrCreateSound
<1>3. setAdd(d, t, k, words).db =
         IF ~valueAs(g, k, "set") THEN g ELSE touch(assign(g, k, v, n), k)
  BY DEF setAdd, Result
<1> HIDE DEF g, empty
<1>4. CASE valueAs(g, k, "set")
  <2>1. IsValue(g.data[k].value)
    BY <1>2 DEF SoundBut, EntryOK, Has
  <2>2. /\ g.data[k].value = SetValue(members)
        /\ members \in SUBSET Word /\ IsFiniteSet(members)
    BY <1>4, <2>1, ValueCases DEF valueAs
  <2> HIDE DEF members
  <2>3. new \in SUBSET Word /\ members \cap new = {} /\ members \cup new # {}
    OBVIOUS
  <2>4. IsFiniteSet(new)
    BY FS_Difference
  <2> HIDE DEF new
  <2>5. /\ n \in Nat /\ IsFiniteSet(members \cup new)
        /\ MembersCost(members \cup new) = MembersCost(members) + n
    BY <2>2, <2>3, <2>4, MembersMemory
  <2>6. members \cup new \in SUBSET Word
    BY <2>2, <2>3
  <2>7. IsValue(v) /\ NonEmpty(v)
        /\ payloadMemory(v) = payloadMemory(g.data[k].value) + n
    BY <2>2, <2>3, <2>5, <2>6, PayloadType DEF NonEmpty, SetValue
  <2>8. n \in Int
    BY <2>5
  <2> HIDE DEF v, n
  <2>9. Sound(touch(assign(g, k, v, n), k))
    BY <1>2, <2>7, <2>8, UpdateSound
  <2> QED BY <1>3, <1>4, <2>9
<1>5. CASE ~valueAs(g, k, "set")
  BY <1>1, <1>2, <1>3, <1>5 DEF valueAs
<1> QED BY <1>4, <1>5

\* setRemove gives back the cost of the members it removes, and the key with
\* the last one.
LEMMA SetRemoveSound ==
    ASSUME NEW d, Sound(d), NEW t, NEW k, NEW words
    PROVE  Sound(setRemove(d, t, k, words).db)
<1> DEFINE f == findLive(d, t, k)
           members == f.data[k].value.members
           gone == words \cap members
           kept == members \ gone
           v == SetValue(kept)
           n == -MembersCost(gone)
           g == assign(f, k, v, n)
<1>1. Sound(f) /\ SoundBut(f, k)
  BY FindLiveSound, SoundIsSoundBut
<1>2. setRemove(d, t, k, words).db =
         IF ~Has(f, k) \/ ~valueAs(f, k, "set") THEN f
         ELSE IF members = gone THEN erase(g, k) ELSE g
  BY DEF setRemove, Result
<1> HIDE DEF f
<1>3. CASE Has(f, k) /\ valueAs(f, k, "set")
  <2>1. IsValue(f.data[k].value)
    BY <1>1, <1>3 DEF Sound, EntryOK, Has
  <2>2. /\ f.data[k].value = SetValue(members)
        /\ members \in SUBSET Word /\ IsFiniteSet(members)
    BY <1>3, <2>1, ValueCases DEF valueAs
  <2> HIDE DEF members
  <2>3. /\ gone \in SUBSET Word /\ kept \in SUBSET Word
        /\ gone \cap kept = {} /\ gone \cup kept = members
        /\ members # gone => kept # {}
    BY <2>2
  <2>4. IsFiniteSet(gone) /\ IsFiniteSet(kept)
    BY <2>2, <2>3, FS_Subset
  <2> HIDE DEF gone, kept
  <2>5. /\ MembersCost(gone) \in Nat /\ MembersCost(kept) \in Nat
        /\ MembersCost(members) = MembersCost(gone) + MembersCost(kept)
    BY <2>3, <2>4, MembersMemory
  <2>6. /\ IsValue(v) /\ payloadMemory(v) = MembersCost(kept)
        /\ payloadMemory(f.data[k].value) = MembersCost(members)
    BY <2>2, <2>3, <2>4, PayloadType
  <2>7. n \in Int /\ payloadMemory(v) = payloadMemory(f.data[k].value) + n
    BY <2>5, <2>6
  <2>8. members # gone => NonEmpty(v)
    BY <2>3 DEF NonEmpty, SetValue
  <2> HIDE DEF v, n
  <2>9. Sound(erase(g, k)) /\ (members # gone => Sound(g))
    BY <1>1, <1>3, <2>6, <2>7, <2>8, UpdateSound
  <2> QED BY <1>2, <1>3, <2>9
<1>4. CASE ~(Has(f, k) /\ valueAs(f, k, "set"))
  BY <1>1, <1>2, <1>4
<1> QED BY <1>3, <1>4

\* A new or cleared object is sound.
LEMMA EmptySound == Sound(EmptyDB)
<1>1. DOMAIN EmptyDB = {"data", "lru", "volatileKeys", "memoryUsed"}
      /\ EmptyDB.data = EmptyData /\ EmptyDB.memoryUsed = 0 /\ DOMAIN EmptyData = {}
  BY DEF EmptyDB, EmptyData, DB
<1>2. TotalMemory(EmptyData) = 0
  <2> DEFINE m == [k \in DOMAIN EmptyData |-> EmptyData[k].memory]
  <2>1. DOMAIN m = {}
    BY <1>1
  <2> HIDE DEF m
  <2>2. SumFunction(m) = 0
    BY <2>1, SumEmpty DEF SumFunction
  <2> QED BY <2>2 DEF TotalMemory, m
<1> QED BY <1>1, <1>2, EmptyWF DEF Sound

(***************************************************************************)
(* The other keys.  KeyStep(d, t, c, k) says what a method that names k may*)
(* do to the object d at time t: the entries of the other keys and their   *)
(* order in lru stay; k is gone, has no deadline, or was alive and has the *)
(* type and the deadline it had; and k is at the front unless its value is *)
(* the old one or part of it.  All private helpers but assign keep it, and *)
(* what assign leaves is touched, erased or part of the old value, so every*)
(* method keeps it; only a new deadline is a step of its own.              *)
(***************************************************************************)
Others(d, c, k) ==
    /\ DOMAIN c.data \ {k} = DOMAIN d.data \ {k}
    /\ \A x \in DOMAIN d.data \ {k} : SameEntry(d, c, x)

\* The keys of s other than k stand in their order in before.
InOrderBut(before, s, k) ==
    \A i, j \in 1 .. Len(s) :
        i <= j /\ s[i] # k /\ s[j] # k => NotAfter(before, s[i], s[j])

InOrder(before, s) ==
    \A i, j \in 1 .. Len(s) : i <= j => NotAfter(before, s[i], s[j])

LruStep(d, c, k) ==
    /\ InOrderBut(d.lru, c.lru, k)
    /\ InOrder(d.lru, c.lru) \/ (c.lru # <<>> /\ c.lru[1] = k)

Gone(c, k) == ~Has(c, k)
Plain(c, k) == Has(c, k) /\ c.data[k].expiresAtMs = NO_EXPIRY
Kept(d, t, c, k) ==
    /\ k \in keys(d, t) /\ Has(c, k)
    /\ c.data[k].value.type = d.data[k].value.type
    /\ c.data[k].expiresAtMs = d.data[k].expiresAtMs

KeyStep(d, t, c, k) ==
    /\ WellFormed(c)
    /\ Others(d, c, k)
    /\ LruStep(d, c, k)
    /\ Gone(c, k) \/ Plain(c, k) \/ Kept(d, t, c, k)
    /\ Recent(d, c, k)

\* The same within a method that has changed k and not touched it yet.
AmidStep(d, t, c, k) ==
    /\ WellFormed(c)
    /\ Others(d, c, k)
    /\ LruStep(d, c, k)
    /\ Gone(c, k) \/ Plain(c, k) \/ Kept(d, t, c, k)

(***************************************************************************)
(* The order of lru.                                                       *)
(***************************************************************************)
\* Unlinking a key keeps the order of the others.
LEMMA UnlinkOrder ==
    ASSUME NEW d, WellFormed(d), NEW k \in DOMAIN d.data
    PROVE  /\ InOrder(d.lru, Unlink(d.lru, k))
           /\ \A i \in 1 .. Len(Unlink(d.lru, k)) : Unlink(d.lru, k)[i] # k
           /\ Unlink(d.lru, k) \in Seq(Key)
<1> DEFINE s == d.lru
           p == CHOOSE i \in DOMAIN s : s[i] = k
           u == Unlink(s, k)
           n == Len(s)
<1>0. k \in Key /\ LruConsistent(d)
  BY DEF WellFormed
<1>1. /\ s \in Seq(Key) /\ n \in Nat /\ DOMAIN s = 1 .. n
      /\ \E i \in 1 .. n : s[i] = k
  BY <1>0, LenProperties DEF LruConsistent
<1>2. p \in 1 .. n /\ s[p] = k
  BY <1>1
<1>3. u = RemoveAt(s, p)
  BY DEF Unlink
<1>4. /\ u \in Seq(Key)
      /\ \A x \in Key : (\E i \in 1 .. Len(u) : u[i] = x) => x # k
  BY <1>0, UnlinkProperties
<1> HIDE DEF s, p, u, n
<1>5. /\ Len(u) = n - 1
      /\ \A i \in 1 .. n - 1 : u[i] = IF i < p THEN s[i] ELSE s[i + 1]
  BY <1>1, <1>2, <1>3, RemoveAtProperties DEF n
<1>6. \A i \in 1 .. Len(u) : u[i] # k
  <2>1. \A i \in 1 .. Len(u) : u[i] \in Key
    BY <1>4
  <2> QED BY <1>4, <2>1
<1>7. InOrder(s, u)
  <2> SUFFICES ASSUME NEW i \in 1 .. Len(u), NEW j \in 1 .. Len(u), i <= j
               PROVE  NotAfter(s, u[i], u[j])
    BY DEF InOrder
  <2> DEFINE a == IF i < p THEN i ELSE i + 1
             b == IF j < p THEN j ELSE j + 1
  <2>1. a \in 1 .. n /\ b \in 1 .. n /\ a <= b /\ u[i] = s[a] /\ u[j] = s[b]
    BY <1>1, <1>2, <1>5
  <2> HIDE DEF a, b
  <2> QED BY <2>1 DEF NotAfter, n
<1> QED BY <1>4, <1>6, <1>7 DEF s, u

\* Order is kept in two steps as in one.
LEMMA OrderTransitive ==
    ASSUME NEW before, NEW s, NEW u, NEW k, InOrderBut(before, s, k), InOrder(s, u),
           \A i \in 1 .. Len(u) : u[i] # k
    PROVE  InOrder(before, u)
<1> SUFFICES ASSUME NEW i \in 1 .. Len(u), NEW j \in 1 .. Len(u), i <= j
             PROVE  NotAfter(before, u[i], u[j])
  BY DEF InOrder
<1>1. PICK p \in 1 .. Len(s), q \in 1 .. Len(s) : p <= q /\ s[p] = u[i] /\ s[q] = u[j]
  BY DEF InOrder, NotAfter
<1> QED BY <1>1 DEF InOrderBut

\* A key in front of a list in which the others are in order.
LEMMA ConsOrder ==
    ASSUME NEW before, NEW s \in Seq(Key), NEW k \in Key, InOrderBut(before, s, k)
    PROVE  /\ InOrderBut(before, <<k>> \o s, k)
           /\ <<k>> \o s # <<>> /\ (<<k>> \o s)[1] = k
<1> DEFINE r == <<k>> \o s
<1>1. /\ r \in Seq(Key) /\ Len(r) = Len(s) + 1 /\ r[1] = k
      /\ \A i \in 1 .. Len(s) : r[i + 1] = s[i]
      /\ Len(s) \in Nat
  BY ConsProperties, LenProperties
<1> HIDE DEF r
<1>2. r # <<>>
  BY <1>1
<1>3. ASSUME NEW i \in 1 .. Len(r), r[i] # k
      PROVE  i - 1 \in 1 .. Len(s) /\ r[i] = s[i - 1]
  <2>1. i # 1
    BY <1>1, <1>3
  <2>2. i - 1 \in 1 .. Len(s) /\ (i - 1) + 1 = i
    BY <1>1, <2>1
  <2> QED BY <1>1, <2>2
<1>4. InOrderBut(before, r, k)
  <2> SUFFICES ASSUME NEW i \in 1 .. Len(r), NEW j \in 1 .. Len(r), i <= j,
                      r[i] # k, r[j] # k
               PROVE  NotAfter(before, r[i], r[j])
    BY DEF InOrderBut
  <2>1. /\ i - 1 \in 1 .. Len(s) /\ j - 1 \in 1 .. Len(s) /\ i - 1 <= j - 1
        /\ r[i] = s[i - 1] /\ r[j] = s[j - 1]
    BY <1>1, <1>3
  <2> QED BY <2>1 DEF InOrderBut
<1> QED BY <1>1, <1>2, <1>4 DEF r

\* Doing nothing keeps the order.
LEMMA SameOrder ==
    ASSUME NEW d, NEW k
    PROVE  InOrder(d.lru, d.lru) /\ LruStep(d, d, k)
BY DEF InOrder, InOrderBut, NotAfter, LruStep

(***************************************************************************)
(* The private helpers.  d is the object before the method, g the object   *)
(* the helper is applied to.                                               *)
(***************************************************************************)
\* What a step did to the other keys, the next one leaves.
LEMMA OthersTransitive ==
    ASSUME NEW d, NEW g, NEW c, NEW k, Others(d, g, k), Others(g, c, k)
    PROVE  Others(d, c, k)
BY DEF Others, SameEntry

\* erase: the key is gone.
LEMMA EraseStep ==
    ASSUME NEW d, NEW t, NEW g, NEW k, AmidStep(d, t, g, k), Has(g, k)
    PROVE  KeyStep(d, t, erase(g, k), k)
<1> DEFINE c == erase(g, k)
           u == Unlink(g.lru, k)
<1>0. WellFormed(g) /\ k \in DOMAIN g.data
  BY DEF AmidStep, Has
<1>1. /\ DOMAIN c.data = DOMAIN g.data \ {k}
      /\ \A x \in DOMAIN g.data \ {k} : SameEntry(g, c, x)
      /\ c.lru = u
  BY <1>0, EraseEffect
<1>2. WellFormed(c)
  BY <1>0, EraseWF
<1>3. InOrder(g.lru, u) /\ \A i \in 1 .. Len(u) : u[i] # k
  BY <1>0, UnlinkOrder
<1> HIDE DEF c, u
<1>4. Others(d, c, k)
  <2>1. Others(g, c, k)
    BY <1>1 DEF Others
  <2> QED BY <2>1, OthersTransitive DEF AmidStep
<1>5. InOrder(d.lru, u)
  BY <1>3, OrderTransitive DEF AmidStep, LruStep
<1>6. LruStep(d, c, k)
  BY <1>1, <1>5 DEF LruStep, InOrder, InOrderBut
<1>7. Gone(c, k)
  BY <1>1 DEF Gone, Has
<1> QED BY <1>2, <1>4, <1>6, <1>7 DEF KeyStep, c, Gone, Recent

\* create: the key has no deadline and is at the front.
LEMMA CreateStep ==
    ASSUME NEW d, NEW t, NEW g, NEW k \in Key, KeyStep(d, t, g, k), ~Has(g, k), NEW v
    PROVE  KeyStep(d, t, create(g, k, v), k) /\ Has(create(g, k, v), k)
<1> DEFINE c == create(g, k, v)
<1>0. WellFormed(g) /\ k \notin DOMAIN g.data /\ g.lru \in Seq(Key)
  BY DEF KeyStep, Has, WellFormed, LruConsistent
<1>1. WellFormed(c)
  BY <1>0, CreateWF
<1>2. /\ DOMAIN c.data = DOMAIN g.data \cup {k}
      /\ \A x \in DOMAIN g.data : SameEntry(g, c, x)
      /\ c.data[k].expiresAtMs = NO_EXPIRY
      /\ c.lru = <<k>> \o g.lru
  BY <1>0 DEF create, DB, With, Entry, SameEntry
<1> HIDE DEF c
<1>3. Others(d, c, k)
  <2>1. Others(g, c, k)
    BY <1>0, <1>2 DEF Others
  <2> QED BY <2>1, OthersTransitive DEF KeyStep
<1>4. LruStep(d, c, k)
  BY <1>0, <1>2, ConsOrder DEF LruStep, KeyStep
<1>5. Plain(c, k) /\ Has(c, k)
  BY <1>2 DEF Plain, Has
<1>6. IsFront(c, k)
  BY <1>0, <1>2, ConsOrder DEF IsFront, KeyStep, LruStep
<1> QED BY <1>1, <1>3, <1>4, <1>5, <1>6 DEF KeyStep, Recent, c

\* assign: the key keeps its deadline, and its type if the value has it.
LEMMA AssignStep ==
    ASSUME NEW d, NEW t, NEW g, NEW k, KeyStep(d, t, g, k), Has(g, k), NEW v, NEW n,
           v.type = g.data[k].value.type
    PROVE  AmidStep(d, t, assign(g, k, v, n), k) /\ Has(assign(g, k, v, n), k)
<1> DEFINE c == assign(g, k, v, n)
<1>0. WellFormed(g) /\ k \in DOMAIN g.data
  BY DEF KeyStep, Has
<1>1. WellFormed(c)
  BY <1>0, AssignWF
<1>2. /\ DOMAIN c.data = DOMAIN g.data
      /\ \A x \in DOMAIN g.data \ {k} : SameEntry(g, c, x)
      /\ c.data[k].value = v
      /\ c.data[k].expiresAtMs = g.data[k].expiresAtMs
      /\ c.lru = g.lru
  BY <1>0, AssignEffect
<1> HIDE DEF c
<1>3. Others(d, c, k)
  <2>1. Others(g, c, k)
    BY <1>0, <1>2 DEF Others
  <2> QED BY <2>1, OthersTransitive DEF KeyStep
<1>4. Plain(c, k) \/ Kept(d, t, c, k)
  BY <1>0, <1>2 DEF KeyStep, Gone, Plain, Kept, Has
<1>5. LruStep(d, c, k)
  BY <1>2 DEF LruStep, KeyStep
<1> QED BY <1>0, <1>1, <1>2, <1>3, <1>4, <1>5 DEF AmidStep, Has, c

\* touch: the key moves to the front.
LEMMA TouchStep ==
    ASSUME NEW d, NEW t, NEW g, NEW k \in Key, AmidStep(d, t, g, k), Has(g, k)
    PROVE  KeyStep(d, t, touch(g, k), k) /\ Has(touch(g, k), k)
<1> DEFINE c == touch(g, k)
           u == Unlink(g.lru, k)
<1>0. WellFormed(g) /\ k \in DOMAIN g.data
  BY DEF AmidStep, Has
<1>1. WellFormed(c) /\ c.data = g.data /\ c.lru = <<k>> \o u
  BY <1>0, TouchWF, TouchEffect
<1>2. /\ InOrder(g.lru, u) /\ \A i \in 1 .. Len(u) : u[i] # k
      /\ u \in Seq(Key)
  BY <1>0, UnlinkOrder
<1> HIDE DEF c, u
<1>3. InOrder(d.lru, u)
  BY <1>2, OrderTransitive DEF AmidStep, LruStep
<1>4. InOrderBut(d.lru, u, k)
  BY <1>3 DEF InOrder, InOrderBut
<1>5. LruStep(d, c, k)
  BY <1>1, <1>2, <1>4, ConsOrder DEF LruStep
<1>6. Others(d, c, k) /\ Has(c, k)
  BY <1>1 DEF AmidStep, Others, SameEntry, Has
<1>7. Gone(c, k) \/ Plain(c, k) \/ Kept(d, t, c, k)
  BY <1>1 DEF AmidStep, Gone, Plain, Kept, Has
<1>8. IsFront(c, k)
  BY <1>1, <1>2, <1>4, ConsOrder DEF IsFront
<1> QED BY <1>1, <1>5, <1>6, <1>7, <1>8 DEF KeyStep, Recent, c

\* clearExpiry: the key has no deadline.
LEMMA ClearExpiryStep ==
    ASSUME NEW d, NEW t, NEW g, NEW k, KeyStep(d, t, g, k), Has(g, k)
    PROVE  KeyStep(d, t, clearExpiry(g, k), k)
<1> DEFINE c == clearExpiry(g, k)
<1>0. WellFormed(g) /\ k \in DOMAIN g.data
  BY DEF KeyStep, Has
<1>1. WellFormed(c)
  BY <1>0, ClearExpiryWF
<1>2. /\ DOMAIN c.data = DOMAIN g.data
      /\ \A x \in DOMAIN g.data \ {k} : SameEntry(g, c, x)
      /\ c.data[k].expiresAtMs = NO_EXPIRY
      /\ c.data[k].value = g.data[k].value
      /\ c.lru = g.lru
  BY <1>0, ClearExpiryEffect
<1> HIDE DEF c
<1>3. Others(d, c, k)
  <2>1. Others(g, c, k)
    BY <1>2 DEF Others
  <2> QED BY <2>1, OthersTransitive DEF KeyStep
<1>4. Plain(c, k) /\ LruStep(d, c, k)
  BY <1>0, <1>2 DEF Plain, Has, LruStep, KeyStep
<1>5. Recent(d, c, k)
  BY <1>2 DEF Recent, IsFront, Has, KeyStep
<1> QED BY <1>1, <1>3, <1>4, <1>5 DEF KeyStep, c

\* erase of any key, dead or alive, on its own.
LEMMA EraseAnyStep ==
    ASSUME NEW d, WellFormed(d), NEW t, NEW k \in DOMAIN d.data, NEW f, f = erase(d, k)
    PROVE  KeyStep(d, t, f, k) /\ ~Has(f, k)
<1>1. WellFormed(f) /\ ~Has(f, k)
  BY EraseWF
<1>2. /\ DOMAIN f.data = DOMAIN d.data \ {k}
      /\ \A x \in DOMAIN d.data \ {k} : SameEntry(d, f, x)
      /\ f.lru = Unlink(d.lru, k)
  BY EraseEffect
<1>3. InOrder(d.lru, f.lru)
  BY <1>2, UnlinkOrder
<1>4. Others(d, f, k) /\ LruStep(d, f, k)
  BY <1>2, <1>3 DEF Others, LruStep, InOrder, InOrderBut
<1> QED BY <1>1, <1>4 DEF KeyStep, Gone, Recent

\* findLive: the key is gone if it was dead; if it is there it was alive and
\* the object has not changed.
LEMMA FindLiveStep ==
    ASSUME NEW d, WellFormed(d), NEW t, NEW k, NEW f, f = findLive(d, t, k)
    PROVE  KeyStep(d, t, f, k) /\ (Has(f, k) => f = d /\ k \in keys(d, t))
<1>1. CASE Has(d, k) /\ IsExpired(d.data[k], t)
  <2>1. f = erase(d, k) /\ k \in DOMAIN d.data
    BY <1>1 DEF findLive, Has
  <2> QED BY <2>1, EraseAnyStep
<1>2. CASE ~(Has(d, k) /\ IsExpired(d.data[k], t))
  <2>1. f = d
    BY <1>2 DEF findLive
  <2>2. Has(d, k) => k \in keys(d, t)
    BY <1>2 DEF keys, Has
  <2>3. LruStep(d, d, k)
    BY SameOrder
  <2>4. Others(d, d, k)
    BY DEF Others, SameEntry
  <2> QED BY <2>1, <2>2, <2>3, <2>4 DEF KeyStep, Gone, Kept, Recent
<1> QED BY <1>1, <1>2

\* The prologue of the methods that create a missing key.
LEMMA FindOrCreateStep ==
    ASSUME NEW d, WellFormed(d), NEW t, NEW k \in Key, NEW v
    PROVE  /\ KeyStep(d, t, findOrCreate(d, t, k, v), k)
           /\ Has(findOrCreate(d, t, k, v), k)
<1> DEFINE f == findLive(d, t, k)
<1>1. KeyStep(d, t, f, k)
  BY FindLiveStep
<1>2. findOrCreate(d, t, k, v) = IF Has(f, k) THEN f ELSE create(f, k, v)
  BY DEF findOrCreate
<1> HIDE DEF f
<1> QED BY <1>1, <1>2, CreateStep

\* An update in place, touched or erased after it.
LEMMA UpdateStep ==
    ASSUME NEW d, NEW t, NEW g, NEW k \in Key, KeyStep(d, t, g, k), Has(g, k), NEW v, NEW n,
           v.type = g.data[k].value.type
    PROVE  /\ AmidStep(d, t, assign(g, k, v, n), k)
           /\ KeyStep(d, t, touch(assign(g, k, v, n), k), k)
           /\ KeyStep(d, t, erase(assign(g, k, v, n), k), k)
<1>1. AmidStep(d, t, assign(g, k, v, n), k) /\ Has(assign(g, k, v, n), k)
  BY AssignStep
<1> QED BY <1>1, TouchStep, EraseStep

\* An update that only takes elements out, not touched.
LEMMA ShrinkStep ==
    ASSUME NEW d, NEW t, NEW f, NEW k \in Key, KeyStep(d, t, f, k), Has(f, k), f = d,
           NEW v, NEW n, v.type = f.data[k].value.type, Shrunk(f.data[k].value, v)
    PROVE  KeyStep(d, t, assign(f, k, v, n), k)
<1> PICK c : c = assign(f, k, v, n)
  OBVIOUS
<1>1. AmidStep(d, t, c, k) /\ Has(c, k)
  BY AssignStep
<1>2. c.data[k].value = v
  BY AssignEffect DEF KeyStep, Has
<1>3. Recent(d, c, k)
  BY <1>2 DEF Recent
<1> QED BY <1>1, <1>3 DEF AmidStep, KeyStep

(***************************************************************************)
(* The methods.                                                            *)
(***************************************************************************)
\* Methods that look a key up, remove it, or read it and touch it.
LEMMA LookupStep ==
    ASSUME NEW d, WellFormed(d), NEW t, NEW k \in Key, NEW x, NEW y
    PROVE  /\ KeyStep(d, t, del(d, t, k).db, k) /\ KeyStep(d, t, exists(d, t, k).db, k)
           /\ KeyStep(d, t, type(d, t, k).db, k)
           /\ KeyStep(d, t, stringLength(d, t, k).db, k)
           /\ KeyStep(d, t, listLength(d, t, k).db, k)
           /\ KeyStep(d, t, hashLength(d, t, k).db, k)
           /\ KeyStep(d, t, setCardinality(d, t, k).db, k)
           /\ KeyStep(d, t, hashExists(d, t, k, x).db, k)
           /\ KeyStep(d, t, setIsMember(d, t, k, x).db, k)
           /\ KeyStep(d, t, ttlMs(d, t, x, k).db, k) /\ KeyStep(d, t, ttl(d, t, x, k).db, k)
           /\ KeyStep(d, t, get(d, t, k).db, k)
           /\ KeyStep(d, t, listRange(d, t, k, x, y).db, k)
           /\ KeyStep(d, t, listIndex(d, t, k, x).db, k)
           /\ KeyStep(d, t, hashGet(d, t, k, x).db, k)
           /\ KeyStep(d, t, hashGetAll(d, t, k).db, k)
           /\ KeyStep(d, t, setMembers(d, t, k).db, k)
           /\ KeyStep(d, t, persist(d, t, k).db, k)
<1> DEFINE f == findLive(d, t, k)
<1>1. KeyStep(d, t, f, k)
  BY FindLiveStep
<1> HIDE DEF f
<1>2. Has(f, k) => /\ KeyStep(d, t, erase(f, k), k)
                   /\ KeyStep(d, t, touch(f, k), k)
                   /\ KeyStep(d, t, clearExpiry(f, k), k)
  BY <1>1, EraseStep, TouchStep, ClearExpiryStep DEF KeyStep, AmidStep
<1>3. del(d, t, k).db = IF Has(f, k) THEN erase(f, k) ELSE f
  BY DEF del, Result, f
<1>4. /\ exists(d, t, k).db = f /\ type(d, t, k).db = f
      /\ stringLength(d, t, k).db = f /\ listLength(d, t, k).db = f
      /\ hashLength(d, t, k).db = f /\ setCardinality(d, t, k).db = f
      /\ hashExists(d, t, k, x).db = f /\ setIsMember(d, t, k, x).db = f
      /\ ttlMs(d, t, x, k).db = f /\ ttl(d, t, x, k).db = f
  BY DEF exists, type, stringLength, listLength, hashLength, setCardinality,
         hashExists, setIsMember, ttlMs, ttl, Result, f
<1>5. /\ get(d, t, k).db \in {f, touch(f, k)} /\ (~Has(f, k) => get(d, t, k).db = f)
      /\ persist(d, t, k).db \in {f, clearExpiry(f, k)}
      /\ ~Has(f, k) => persist(d, t, k).db = f
  BY DEF get, persist, Result, f
<1>6. /\ listRange(d, t, k, x, y).db \in {f, touch(f, k)}
      /\ ~Has(f, k) => listRange(d, t, k, x, y).db = f
  BY DEF listRange, Result, f
<1>7. /\ listIndex(d, t, k, x).db \in {f, touch(f, k)}
      /\ ~Has(f, k) => listIndex(d, t, k, x).db = f
  BY DEF listIndex, Result, f
<1>8. /\ hashGet(d, t, k, x).db \in {f, touch(f, k)}
      /\ ~Has(f, k) => hashGet(d, t, k, x).db = f
  BY DEF hashGet, Result, f
<1>9. /\ hashGetAll(d, t, k).db \in {f, touch(f, k)}
      /\ ~Has(f, k) => hashGetAll(d, t, k).db = f
      /\ setMembers(d, t, k).db \in {f, touch(f, k)}
      /\ ~Has(f, k) => setMembers(d, t, k).db = f
  BY DEF hashGetAll, setMembers, Result, f
<1>10. /\ KeyStep(d, t, get(d, t, k).db, k) /\ KeyStep(d, t, persist(d, t, k).db, k)
       /\ KeyStep(d, t, del(d, t, k).db, k)
  BY <1>1, <1>2, <1>3, <1>5
<1>11. /\ KeyStep(d, t, listRange(d, t, k, x, y).db, k)
       /\ KeyStep(d, t, listIndex(d, t, k, x).db, k)
       /\ KeyStep(d, t, hashGet(d, t, k, x).db, k)
       /\ KeyStep(d, t, hashGetAll(d, t, k).db, k)
       /\ KeyStep(d, t, setMembers(d, t, k).db, k)
  BY <1>1, <1>2, <1>6, <1>7, <1>8, <1>9
<1> QED BY <1>1, <1>4, <1>10, <1>11

\* Methods that write a string.
LEMMA StringStep ==
    ASSUME NEW d, WellFormed(d), NEW t, NEW k \in Key, NEW x
    PROVE  /\ KeyStep(d, t, set(d, t, k, x).db, k)
           /\ KeyStep(d, t, incrementBy(d, t, k, x).db, k)
           /\ KeyStep(d, t, append(d, t, k, x).db, k)
<1> DEFINE f == findLive(d, t, k)
           g == findOrCreate(d, t, k, StringValue(<<0>>))
<1>1. KeyStep(d, t, f, k)
  BY FindLiveStep
<1>2. KeyStep(d, t, g, k) /\ Has(g, k)
  BY FindOrCreateStep
<1>a. \A text : StringValue(text).type = "string"
  BY DEF StringValue
<1> HIDE DEF f, g
<1>3. KeyStep(d, t, set(d, t, k, x).db, k)
  <2> DEFINE e == IF Has(f, k) THEN erase(f, k) ELSE f
  <2>1. KeyStep(d, t, e, k)
    BY <1>1, EraseStep DEF KeyStep, AmidStep
  <2>2. ~Has(e, k)
    BY <1>1, EraseWF DEF KeyStep, Has
  <2>3. set(d, t, k, x).db = create(e, k, StringValue(x))
    BY DEF set, Result, f
  <2> HIDE DEF e
  <2> QED BY <2>1, <2>2, <2>3, CreateStep
<1>4. KeyStep(d, t, incrementBy(d, t, k, x).db, k)
  <2> DEFINE text == g.data[k].value.text
             v == StringValue(<<text[1] + x>>)
             n == DecimalSize(text[1] + x) - TextSize(text)
  <2>1. \/ incrementBy(d, t, k, x).db = g
        \/ /\ valueAs(g, k, "string")
           /\ incrementBy(d, t, k, x).db = touch(assign(g, k, v, n), k)
    BY DEF incrementBy, AddOverflows, Result, g
  <2>2. v.type = "string"
    BY <1>a
  <2> HIDE DEF v, n
  <2> QED BY <1>2, <2>1, <2>2, UpdateStep DEF valueAs
<1>5. KeyStep(d, t, append(d, t, k, x).db, k)
  <2> DEFINE v == StringValue(f.data[k].value.text \o x)
             n == TextSize(x)
             new == StringValue(x)
  <2>1. append(d, t, k, x).db = IF ~Has(f, k) THEN create(f, k, new)
                                ELSE IF ~valueAs(f, k, "string") THEN f
                                ELSE touch(assign(f, k, v, n), k)
    BY DEF append, Result, f
  <2>2. v.type = "string"
    BY <1>a
  <2> HIDE DEF v, n, new
  <2> QED BY <1>1, <2>1, <2>2, UpdateStep, CreateStep DEF valueAs
<1> QED BY <1>3, <1>4, <1>5

\* Methods that write a list.
LEMMA ListStep ==
    ASSUME NEW d, WellFormed(d), NEW t, NEW k \in Key, NEW x, NEW y
    PROVE  /\ KeyStep(d, t, listPush(d, t, k, x, y).db, k)
           /\ KeyStep(d, t, listPop(d, t, k, x).db, k)
<1> DEFINE f == findLive(d, t, k)
           g == findOrCreate(d, t, k, ListValue(<<>>))
<1>1. KeyStep(d, t, f, k)
  BY FindLiveStep
<1>2. KeyStep(d, t, g, k) /\ Has(g, k)
  BY FindOrCreateStep
<1>a. \A items : ListValue(items).type = "list"
  BY DEF ListValue
<1> HIDE DEF f, g
<1>3. KeyStep(d, t, listPush(d, t, k, x, y).db, k)
  <2> DEFINE items == g.data[k].value.items
             v == ListValue(IF y = "Left" THEN Reverse(x) \o items ELSE items \o x)
             n == SumCost(x)
  <2>1. \/ listPush(d, t, k, x, y).db = g
        \/ /\ valueAs(g, k, "list")
           /\ listPush(d, t, k, x, y).db = touch(assign(g, k, v, n), k)
    BY DEF listPush, Result, g
  <2>2. v.type = "list"
    BY <1>a
  <2> HIDE DEF v, n
  <2> QED BY <1>2, <2>1, <2>2, UpdateStep DEF valueAs
<1>4. KeyStep(d, t, listPop(d, t, k, x).db, k)
  <2> DEFINE items == f.data[k].value.items
             v == ListValue(IF x = "Left" THEN Tail(items) ELSE Front(items))
             n == -elementCost(IF x = "Left" THEN Head(items) ELSE Last(items))
  <2>1. \/ listPop(d, t, k, x).db = f
        \/ /\ Has(f, k) /\ valueAs(f, k, "list")
           /\ listPop(d, t, k, x).db \in {touch(assign(f, k, v, n), k),
                                          erase(assign(f, k, v, n), k)}
    BY DEF listPop, Result, f
  <2>2. v.type = "list"
    BY <1>a
  <2> HIDE DEF v, n
  <2> QED BY <1>1, <2>1, <2>2, UpdateStep DEF valueAs
<1> QED BY <1>3, <1>4

\* Methods that write a hash.
LEMMA HashStep ==
    ASSUME NEW d, WellFormed(d), NEW t, NEW k \in Key, NEW x
    PROVE  /\ KeyStep(d, t, hashSet(d, t, k, x).db, k)
           /\ KeyStep(d, t, hashDelete(d, t, k, x).db, k)
<1> DEFINE f == findLive(d, t, k)
           g == findOrCreate(d, t, k, HashValue(<<>>))
<1>1. KeyStep(d, t, f, k) /\ (Has(f, k) => f = d)
  BY FindLiveStep
<1>2. KeyStep(d, t, g, k) /\ Has(g, k)
  BY FindOrCreateStep
<1>a. \A fields : HashValue(fields).type = "hash"
  BY DEF HashValue
<1> HIDE DEF f, g
<1>3. KeyStep(d, t, hashSet(d, t, k, x).db, k)
  <2> DEFINE r == FoldLeft(HashSetStep,
                           [fields |-> g.data[k].value.fields, added |-> 0, bytes |-> 0], x)
             v == HashValue(r.fields)
             n == r.bytes
  <2>1. \/ hashSet(d, t, k, x).db = g
        \/ /\ valueAs(g, k, "hash")
           /\ hashSet(d, t, k, x).db = touch(assign(g, k, v, n), k)
    BY DEF hashSet, Result, g
  <2>2. v.type = "hash"
    BY <1>a
  <2> HIDE DEF v, n
  <2> QED BY <1>2, <2>1, <2>2, UpdateStep DEF valueAs
<1>4. KeyStep(d, t, hashDelete(d, t, k, x).db, k)
  <2> DEFINE fields == f.data[k].value.fields
             gone == x \cap DOMAIN fields
             v == HashValue([z \in DOMAIN fields \ gone |-> fields[z]])
             n == -FieldsCost([z \in gone |-> fields[z]])
  <2>1. \/ hashDelete(d, t, k, x).db = f
        \/ /\ Has(f, k) /\ valueAs(f, k, "hash")
           /\ hashDelete(d, t, k, x).db \in {assign(f, k, v, n), erase(assign(f, k, v, n), k)}
    BY DEF hashDelete, Result, f
  <2>2. v.type = "hash"
    BY <1>a
  <2>3. v.fields = [z \in DOMAIN fields \ gone |-> fields[z]]
    BY DEF HashValue
  <2>4. DOMAIN v.fields \subseteq DOMAIN f.data[k].value.fields
    BY <2>3
  <2> HIDE DEF v, n
  <2>5. ASSUME Has(f, k), valueAs(f, k, "hash") PROVE KeyStep(d, t, assign(f, k, v, n), k)
    <3>1. Shrunk(f.data[k].value, v)
      BY <2>2, <2>4, <2>5 DEF Shrunk, valueAs
    <3> QED BY <1>1, <2>2, <2>5, <3>1, ShrinkStep DEF valueAs
  <2> QED BY <1>1, <2>1, <2>2, <2>5, UpdateStep DEF valueAs
<1> QED BY <1>3, <1>4

\* Methods that write a set.
LEMMA SetStep ==
    ASSUME NEW d, WellFormed(d), NEW t, NEW k \in Key, NEW x
    PROVE  /\ KeyStep(d, t, setAdd(d, t, k, x).db, k)
           /\ KeyStep(d, t, setRemove(d, t, k, x).db, k)
<1> DEFINE f == findLive(d, t, k)
           g == findOrCreate(d, t, k, SetValue({}))
<1>1. KeyStep(d, t, f, k) /\ (Has(f, k) => f = d)
  BY FindLiveStep
<1>2. KeyStep(d, t, g, k) /\ Has(g, k)
  BY FindOrCreateStep
<1>a. \A members : SetValue(members).type = "set"
  BY DEF SetValue
<1> HIDE DEF f, g
<1>3. KeyStep(d, t, setAdd(d, t, k, x).db, k)
  <2> DEFINE members == g.data[k].value.members
             v == SetValue(members \cup (x \ members))
             n == MembersCost(x \ members)
  <2>1. \/ setAdd(d, t, k, x).db = g
        \/ /\ valueAs(g, k, "set")
           /\ setAdd(d, t, k, x).db = touch(assign(g, k, v, n), k)
    BY DEF setAdd, Result, g
  <2>2. v.type = "set"
    BY <1>a
  <2> HIDE DEF v, n
  <2> QED BY <1>2, <2>1, <2>2, UpdateStep DEF valueAs
<1>4. KeyStep(d, t, setRemove(d, t, k, x).db, k)
  <2> DEFINE members == f.data[k].value.members
             v == SetValue(members \ (x \cap members))
             n == -MembersCost(x \cap members)
  <2>1. \/ setRemove(d, t, k, x).db = f
        \/ /\ Has(f, k) /\ valueAs(f, k, "set")
           /\ setRemove(d, t, k, x).db \in {assign(f, k, v, n), erase(assign(f, k, v, n), k)}
    BY DEF setRemove, Result, f
  <2>2. v.type = "set"
    BY <1>a
  <2>3. v.members \subseteq f.data[k].value.members
    BY DEF SetValue
  <2> HIDE DEF v, n
  <2>5. ASSUME Has(f, k), valueAs(f, k, "set") PROVE KeyStep(d, t, assign(f, k, v, n), k)
    <3>1. Shrunk(f.data[k].value, v)
      BY <2>2, <2>3, <2>5 DEF Shrunk, valueAs
    <3> QED BY <1>1, <2>2, <2>5, <3>1, ShrinkStep DEF valueAs
  <2> QED BY <1>1, <2>1, <2>2, <2>5, UpdateStep DEF valueAs
<1> QED BY <1>3, <1>4

\* A new deadline: the value stays, and the deadline is in the future.
Moved(d, t, c, u, k) ==
    /\ k \in keys(d, t) /\ Has(c, k)
    /\ c.data[k].value = d.data[k].value
    /\ c.data[k].expiresAtMs > u

DeadlineStep(d, t, c, u, k) ==
    WellFormed(c) /\ Others(d, c, k) /\ LruStep(d, c, k) /\ Moved(d, t, c, u, k)

\* expireAtMs erases the key or sets a deadline later than its reading.
LEMMA ExpireAtMsStep ==
    ASSUME NEW d, WellFormed(d), NEW t1 \in Nat, NEW t2 \in Nat, NEW k \in Key,
           NEW when \in Int, NEW c, c = expireAtMs(d, t1, t2, k, when).db
    PROVE  KeyStep(d, t1, c, k) \/ DeadlineStep(d, t1, c, t2, k)
<1> DEFINE f == findLive(d, t1, k)
           s == setExpiry(d, k, when)
<1>1. KeyStep(d, t1, f, k) /\ (Has(f, k) => f = d /\ k \in keys(d, t1))
  BY FindLiveStep
<1>2. c = IF ~Has(f, k) THEN f ELSE IF when <= t2 THEN erase(f, k) ELSE setExpiry(f, k, when)
  BY DEF expireAtMs, Result
<1> HIDE DEF f
<1>3. CASE ~Has(f, k)
  BY <1>1, <1>2, <1>3
<1>4. CASE Has(f, k) /\ when <= t2
  BY <1>1, <1>2, <1>4, EraseStep DEF KeyStep, AmidStep
<1>5. CASE Has(f, k) /\ ~(when <= t2)
  <2>1. c = s /\ k \in keys(d, t1) /\ k \in DOMAIN d.data
    BY <1>1, <1>2, <1>5 DEF keys
  <2>2. when > t2 /\ when # NO_EXPIRY
    BY <1>5 DEF NO_EXPIRY
  <2>3. WellFormed(c)
    BY <2>1, <2>2, SetExpiryWF
  <2>4. /\ DOMAIN c.data = DOMAIN d.data
        /\ \A x \in DOMAIN d.data \ {k} : SameEntry(d, c, x)
        /\ c.data[k].value = d.data[k].value
        /\ c.data[k].expiresAtMs = when /\ c.lru = d.lru
    BY <2>1, SetExpiryEffect
  <2>5. LruStep(d, c, k)
    BY <2>4, SameOrder DEF LruStep
  <2> QED BY <2>1, <2>2, <2>3, <2>4, <2>5 DEF DeadlineStep, Moved, Others, Has
<1> QED BY <1>3, <1>4, <1>5
==============================================================================
