----------------------- MODULE CommandProcessorProofs ------------------------
(***************************************************************************)
(* A restart brings back what the log says: CommandProcessor keeps         *)
(* RestartFaithful, for any keys, values, sessions and lengths of the log. *)
(*                                                                         *)
(* The invariant is Logged(db, log, now): db is sound, every deadline in   *)
(* db is in the log and not overwritten since, and a replay of the log at  *)
(* now OR ANY LATER TIME is faithful to db.  It speaks of later replays    *)
(* because time passes between the write of a command and its replay, and  *)
(* of the deadlines because a replay applies a PEXPIREAT whose time has    *)
(* come by erasing the key.                                                *)
(*                                                                         *)
(* A step appends to the log what it propagates.  A command in the log     *)
(* either overwrites keys as a whole (DEL, SET, MSET, FLUSHALL), so that   *)
(* its replay gives the same cell whatever was there, or it amends one     *)
(* key; then its replay meets the cell the server met (Coupled), or a key  *)
(* that is dead by then, or the exception of RestartFaithful.  The loops   *)
(* of DEL, EXISTS, MGET, MSET, of evictIfNeeded and of load are folds;     *)
(* they are turned into chains of steps, and proved by induction on them.  *)
(***************************************************************************)
EXTENDS CommandProcessor, DatabaseOpsProofs

(***************************************************************************)
(* The loops.  Each is a fold whose step is one of six; a fold is the last *)
(* link of a chain that starts at its base and takes one step per element. *)
(***************************************************************************)
LoopStep(kind, c, cmd, acc, x) ==
    CASE kind = "DEL" -> DelStep(c, cmd, acc, x)
      [] kind = "EXISTS" -> ExistsStep(c, cmd, acc, x)
      [] kind = "MGET" -> MgetStep(c, cmd, acc, x)
      [] kind = "MSET" -> MsetStep(c, cmd, acc, x)
      [] kind = "evict" -> EvictStep(acc, x)
      [] kind = "load" -> Replay(acc, x.cmd, c)

FoldStep(kind, c, cmd, base, seq, g, s) ==
    IF s = {} THEN base ELSE LoopStep(kind, c, cmd, g[s \ {Max(s)}], seq[Max(s)])
IsFold(kind, c, cmd, base, seq, S, g) ==
    g = [s \in SUBSET S |-> FoldStep(kind, c, cmd, base, seq, g, s)]

\* The function that a fold is defined by exists.
LEMMA FoldExists ==
    ASSUME NEW kind, NEW c, NEW cmd, NEW base, NEW seq, NEW m \in Nat
    PROVE  \E g : IsFold(kind, c, cmd, base, seq, 1 .. m, g)
<1> DEFINE S == 1 .. m
           Step(g, s) == FoldStep(kind, c, cmd, base, seq, g, s)
           Upto(n, g) == \A s \in SUBSET S : Cardinality(s) <= n => g[s] = Step(g, s)
           P == {n \in Nat : \E g : Upto(n, g)}
<1>a. IsFiniteSet(S)
  BY FS_Interval
<1>b. \A s \in SUBSET S : s # {} => Max(s) \in s
  BY MaxInSet
<1> HIDE DEF S
<1>0. \A s \in SUBSET S : IsFiniteSet(s) /\ Cardinality(s) \in Nat
  BY <1>a, FS_Subset, FS_CardinalityType
<1>1. 0 \in P
  <2> DEFINE g == [s \in SUBSET S |-> base]
  <2>1. ASSUME NEW s \in SUBSET S, Cardinality(s) <= 0 PROVE g[s] = Step(g, s)
    <3>1. s = {}
      BY <1>0, <2>1, FS_EmptySet
    <3> QED BY <3>1 DEF FoldStep
  <2>2. Upto(0, g)
    BY <2>1
  <2> QED BY <2>2
<1>2. ASSUME NEW n \in Nat, n \in P PROVE n + 1 \in P
  <2>1. PICK g : Upto(n, g)
    BY <1>2
  <2> DEFINE h == [s \in SUBSET S |-> Step(g, s)]
  <2>2. ASSUME NEW s \in SUBSET S, Cardinality(s) <= n + 1 PROVE h[s] = Step(h, s)
    <3>1. CASE s = {}
      BY <3>1 DEF FoldStep
    <3>2. CASE s # {}
      <4> DEFINE r == s \ {Max(s)}
      <4>1. r \in SUBSET S /\ Cardinality(r) <= n
        <5>1. Max(s) \in s /\ Cardinality(r) = Cardinality(s) - 1
          BY <3>2, <1>0, <1>b, FS_RemoveElement
        <5> QED BY <5>1, <2>2, <1>0
      <4>2. h[r] = g[r]
        BY <4>1, <2>1
      <4>3. h[s] = LoopStep(kind, c, cmd, g[r], seq[Max(s)])
        BY <3>2 DEF FoldStep
      <4> QED BY <4>2, <4>3, <3>2 DEF FoldStep
    <3> QED BY <3>1, <3>2
  <2>3. Upto(n + 1, h)
    BY <2>2
  <2>4. \E k : Upto(n + 1, k)
    <3> HIDE DEF Upto, h
    <3> QED BY <2>3
  <2>5. n + 1 \in Nat
    OBVIOUS
  <2> QED BY <2>4, <2>5, Zenon
<1>3. Nat \subseteq P
  <2> HIDE DEF P
  <2> QED BY <1>1, <1>2, InductionOnNat
<1>4. PICK g : Upto(Cardinality(S), g)
  BY <1>0, <1>3
<1> DEFINE h == [s \in SUBSET S |-> Step(g, s)]
<1>5. ASSUME NEW s \in SUBSET S PROVE h[s] = g[s]
  <2>1. Cardinality(s) <= Cardinality(S)
    BY <1>a, FS_Subset
  <2> QED BY <1>4, <2>1
<1>6. ASSUME NEW s \in SUBSET S PROVE Step(g, s) = Step(h, s)
  <2>1. CASE s = {}
    BY <2>1 DEF FoldStep
  <2>2. CASE s # {}
    <3>1. s \ {Max(s)} \in SUBSET S
      OBVIOUS
    <3>2. h[s \ {Max(s)}] = g[s \ {Max(s)}]
      BY <1>5, <3>1
    <3> QED BY <2>2, <3>2 DEF FoldStep
  <2> QED BY <2>1, <2>2
<1>7. h = [s \in SUBSET S |-> Step(h, s)]
  BY <1>6
<1> HIDE DEF h
<1> QED BY <1>7 DEF IsFold, S

\* The links of the chain: h[n] is what n turns of the loop leave.
Chain(kind, c, cmd, base, seq, h, m) ==
    /\ h[0] = base
    /\ \A n \in 0 .. m - 1 : h[n + 1] = LoopStep(kind, c, cmd, h[n], seq[n + 1])

\* The last element of an interval, and the interval without it.
LEMMA MaxOfInterval ==
    ASSUME NEW n \in Nat
    PROVE  Max(1 .. n + 1) = n + 1 /\ (1 .. n + 1) \ {n + 1} = 1 .. n
<1>1. n + 1 \in 1 .. n + 1 /\ \A y \in 1 .. n + 1 : n + 1 >= y
  OBVIOUS
<1>2. \A x \in 1 .. n + 1 : (\A y \in 1 .. n + 1 : x >= y) => x = n + 1
  BY <1>1
<1> QED BY <1>1, <1>2 DEF Max

\* A fold is the last link of the chain of its steps.
LEMMA FoldIsChain ==
    ASSUME NEW kind, NEW c, NEW cmd, NEW base, NEW seq, NEW m \in Nat, NEW g,
           IsFold(kind, c, cmd, base, seq, 1 .. m, g)
    PROVE  \E h : Chain(kind, c, cmd, base, seq, h, m) /\ h[m] = g[1 .. m]
<1> DEFINE h == [n \in 0 .. m |-> g[1 .. n]]
<1>1. h[0] = base
  <2>1. h[0] = g[{}]
    OBVIOUS
  <2>2. g[{}] = FoldStep(kind, c, cmd, base, seq, g, {})
    BY DEF IsFold
  <2> QED BY <2>1, <2>2 DEF FoldStep
<1>2. ASSUME NEW n \in 0 .. m - 1
      PROVE  h[n + 1] = LoopStep(kind, c, cmd, h[n], seq[n + 1])
  <2>0. n \in Nat /\ n + 1 \in 0 .. m /\ n \in 0 .. m /\ 1 .. n + 1 \in SUBSET (1 .. m)
    OBVIOUS
  <2>1. n \in Nat /\ n + 1 \in 0 .. m /\ n \in 0 .. m /\ 1 .. n + 1 \in SUBSET (1 .. m)
        /\ 1 .. n + 1 # {}
    <3>1. 1 \in 1 .. n + 1
      BY <2>0
    <3> QED BY <2>0, <3>1
  <2>2. h[n + 1] = g[1 .. n + 1] /\ h[n] = g[1 .. n]
    BY <2>1
  <2>3. g[1 .. n + 1] = FoldStep(kind, c, cmd, base, seq, g, 1 .. n + 1)
    BY <2>1 DEF IsFold
  <2>4. Max(1 .. n + 1) = n + 1 /\ (1 .. n + 1) \ {n + 1} = 1 .. n
    BY <2>1, MaxOfInterval
  <2> HIDE DEF h
  <2> QED BY <2>1, <2>2, <2>3, <2>4 DEF FoldStep
<1>3. h[m] = g[1 .. m]
  OBVIOUS
<1>4. Chain(kind, c, cmd, base, seq, h, m)
  BY <1>1, <1>2 DEF Chain
<1> HIDE DEF h
<1> QED BY <1>3, <1>4

\* The step of each loop.
LEMMA LoopSteps ==
    ASSUME NEW c, NEW cmd, NEW acc, NEW x
    PROVE  /\ LoopStep("DEL", c, cmd, acc, x) = DelStep(c, cmd, acc, x)
           /\ LoopStep("EXISTS", c, cmd, acc, x) = ExistsStep(c, cmd, acc, x)
           /\ LoopStep("MGET", c, cmd, acc, x) = MgetStep(c, cmd, acc, x)
           /\ LoopStep("MSET", c, cmd, acc, x) = MsetStep(c, cmd, acc, x)
           /\ LoopStep("evict", c, cmd, acc, x) = EvictStep(acc, x)
           /\ LoopStep("load", c, cmd, acc, x) = Replay(acc, x.cmd, c)
BY DEF LoopStep

\* A chain over the indexes of a sequence of length m.
Runs(kind, c, cmd, base, h, m) ==
    h[0] = base /\ \A n \in 0 .. m - 1 : h[n + 1] = LoopStep(kind, c, cmd, h[n], n + 1)

\* The loop of DEL.
LEMMA DelChain ==
    ASSUME NEW c, NEW cmd, NEW base, NEW S, cmd.keys \in Seq(S)
    PROVE  \E h : /\ Runs("DEL", c, cmd, base, h, Len(cmd.keys))
                  /\ DelLoop(c, cmd, base) = h[Len(cmd.keys)]
<1> DEFINE seq == [i \in DOMAIN cmd.keys |-> i]
           m == Len(cmd.keys)
           B(g, s) == IF s = {} THEN base
                      ELSE DelStep(c, cmd, g[s \ {Max(s)}], seq[Max(s)])
           F(g) == g = [s \in SUBSET DOMAIN seq |-> B(g, s)]
<1>1. DOMAIN seq = 1 .. m /\ m \in Nat
  OBVIOUS
<1>2. ASSUME NEW g PROVE F(g) <=> IsFold("DEL", c, cmd, base, seq, DOMAIN seq, g)
  <2> HIDE DEF seq
  <2>1. \A s : FoldStep("DEL", c, cmd, base, seq, g, s) = B(g, s)
    <3> TAKE s
    <3>1. CASE s = {}
      BY <3>1 DEF FoldStep
    <3>2. CASE s # {}
      <4>1. FoldStep("DEL", c, cmd, base, seq, g, s)
              = LoopStep("DEL", c, cmd, g[s \ {Max(s)}], seq[Max(s)])
        BY <3>2 DEF FoldStep
      <4> QED BY <3>2, <4>1, LoopSteps
    <3> QED BY <3>1, <3>2
  <2> HIDE DEF B
  <2> QED BY <2>1 DEF IsFold
<1>3. \E g : F(g)
  <2>1. \E g : IsFold("DEL", c, cmd, base, seq, 1 .. m, g)
    <3> HIDE DEF m, seq
    <3> QED BY <1>1, FoldExists
  <2> HIDE DEF F, seq, m
  <2> QED BY <1>1, <1>2, <2>1
<1>4. \E g : F(g) /\ DelLoop(c, cmd, base) = g[DOMAIN seq]
  BY <1>3, Zenon DEF DelLoop, FoldLeftDomain, FoldLeft, MapThenFoldSet
<1> HIDE DEF F, seq, m
<1>5. PICK g : F(g) /\ DelLoop(c, cmd, base) = g[DOMAIN seq]
  BY <1>4
<1>6. PICK h : Chain("DEL", c, cmd, base, seq, h, m) /\ h[m] = g[1 .. m]
  BY <1>1, <1>2, <1>5, FoldIsChain
<1>7. \A n \in 0 .. m - 1 : n + 1 \in 1 .. m /\ seq[n + 1] = n + 1
  BY <1>1 DEF seq
<1>8. Runs("DEL", c, cmd, base, h, m)
  BY <1>6, <1>7 DEF Chain, Runs
<1> QED BY <1>1, <1>5, <1>6, <1>8 DEF m

\* The loop of EXISTS.
LEMMA ExistsChain ==
    ASSUME NEW c, NEW cmd, NEW base, NEW S, cmd.keys \in Seq(S)
    PROVE  \E h : /\ Runs("EXISTS", c, cmd, base, h, Len(cmd.keys))
                  /\ ExistsLoop(c, cmd, base) = h[Len(cmd.keys)]
<1> DEFINE seq == [i \in DOMAIN cmd.keys |-> i]
           m == Len(cmd.keys)
           B(g, s) == IF s = {} THEN base
                      ELSE ExistsStep(c, cmd, g[s \ {Max(s)}], seq[Max(s)])
           F(g) == g = [s \in SUBSET DOMAIN seq |-> B(g, s)]
<1>1. DOMAIN seq = 1 .. m /\ m \in Nat
  OBVIOUS
<1>2. ASSUME NEW g PROVE F(g) <=> IsFold("EXISTS", c, cmd, base, seq, DOMAIN seq, g)
  <2> HIDE DEF seq
  <2>1. \A s : FoldStep("EXISTS", c, cmd, base, seq, g, s) = B(g, s)
    <3> TAKE s
    <3>1. CASE s = {}
      BY <3>1 DEF FoldStep
    <3>2. CASE s # {}
      <4>1. FoldStep("EXISTS", c, cmd, base, seq, g, s)
              = LoopStep("EXISTS", c, cmd, g[s \ {Max(s)}], seq[Max(s)])
        BY <3>2 DEF FoldStep
      <4> QED BY <3>2, <4>1, LoopSteps
    <3> QED BY <3>1, <3>2
  <2> HIDE DEF B
  <2> QED BY <2>1 DEF IsFold
<1>3. \E g : F(g)
  <2>1. \E g : IsFold("EXISTS", c, cmd, base, seq, 1 .. m, g)
    <3> HIDE DEF m, seq
    <3> QED BY <1>1, FoldExists
  <2> HIDE DEF F, seq, m
  <2> QED BY <1>1, <1>2, <2>1
<1>4. \E g : F(g) /\ ExistsLoop(c, cmd, base) = g[DOMAIN seq]
  BY <1>3, Zenon DEF ExistsLoop, FoldLeftDomain, FoldLeft, MapThenFoldSet
<1> HIDE DEF F, seq, m
<1>5. PICK g : F(g) /\ ExistsLoop(c, cmd, base) = g[DOMAIN seq]
  BY <1>4
<1>6. PICK h : Chain("EXISTS", c, cmd, base, seq, h, m) /\ h[m] = g[1 .. m]
  BY <1>1, <1>2, <1>5, FoldIsChain
<1>7. \A n \in 0 .. m - 1 : n + 1 \in 1 .. m /\ seq[n + 1] = n + 1
  BY <1>1 DEF seq
<1>8. Runs("EXISTS", c, cmd, base, h, m)
  BY <1>6, <1>7 DEF Chain, Runs
<1> QED BY <1>1, <1>5, <1>6, <1>8 DEF m

\* The loop of MGET.
LEMMA MgetChain ==
    ASSUME NEW c, NEW cmd, NEW base, NEW S, cmd.keys \in Seq(S)
    PROVE  \E h : /\ Runs("MGET", c, cmd, base, h, Len(cmd.keys))
                  /\ MgetLoop(c, cmd, base) = h[Len(cmd.keys)]
<1> DEFINE seq == [i \in DOMAIN cmd.keys |-> i]
           m == Len(cmd.keys)
           B(g, s) == IF s = {} THEN base
                      ELSE MgetStep(c, cmd, g[s \ {Max(s)}], seq[Max(s)])
           F(g) == g = [s \in SUBSET DOMAIN seq |-> B(g, s)]
<1>1. DOMAIN seq = 1 .. m /\ m \in Nat
  OBVIOUS
<1>2. ASSUME NEW g PROVE F(g) <=> IsFold("MGET", c, cmd, base, seq, DOMAIN seq, g)
  <2> HIDE DEF seq
  <2>1. \A s : FoldStep("MGET", c, cmd, base, seq, g, s) = B(g, s)
    <3> TAKE s
    <3>1. CASE s = {}
      BY <3>1 DEF FoldStep
    <3>2. CASE s # {}
      <4>1. FoldStep("MGET", c, cmd, base, seq, g, s)
              = LoopStep("MGET", c, cmd, g[s \ {Max(s)}], seq[Max(s)])
        BY <3>2 DEF FoldStep
      <4> QED BY <3>2, <4>1, LoopSteps
    <3> QED BY <3>1, <3>2
  <2> HIDE DEF B
  <2> QED BY <2>1 DEF IsFold
<1>3. \E g : F(g)
  <2>1. \E g : IsFold("MGET", c, cmd, base, seq, 1 .. m, g)
    <3> HIDE DEF m, seq
    <3> QED BY <1>1, FoldExists
  <2> HIDE DEF F, seq, m
  <2> QED BY <1>1, <1>2, <2>1
<1>4. \E g : F(g) /\ MgetLoop(c, cmd, base) = g[DOMAIN seq]
  BY <1>3, Zenon DEF MgetLoop, FoldLeftDomain, FoldLeft, MapThenFoldSet
<1> HIDE DEF F, seq, m
<1>5. PICK g : F(g) /\ MgetLoop(c, cmd, base) = g[DOMAIN seq]
  BY <1>4
<1>6. PICK h : Chain("MGET", c, cmd, base, seq, h, m) /\ h[m] = g[1 .. m]
  BY <1>1, <1>2, <1>5, FoldIsChain
<1>7. \A n \in 0 .. m - 1 : n + 1 \in 1 .. m /\ seq[n + 1] = n + 1
  BY <1>1 DEF seq
<1>8. Runs("MGET", c, cmd, base, h, m)
  BY <1>6, <1>7 DEF Chain, Runs
<1> QED BY <1>1, <1>5, <1>6, <1>8 DEF m

\* The loop of MSET.
LEMMA MsetChain ==
    ASSUME NEW c, NEW cmd, NEW base, NEW S, cmd.pairs \in Seq(S)
    PROVE  \E h : /\ Runs("MSET", c, cmd, base, h, Len(cmd.pairs))
                  /\ MsetLoop(c, cmd, base) = h[Len(cmd.pairs)]
<1> DEFINE seq == [i \in DOMAIN cmd.pairs |-> i]
           m == Len(cmd.pairs)
           B(g, s) == IF s = {} THEN base
                      ELSE MsetStep(c, cmd, g[s \ {Max(s)}], seq[Max(s)])
           F(g) == g = [s \in SUBSET DOMAIN seq |-> B(g, s)]
<1>1. DOMAIN seq = 1 .. m /\ m \in Nat
  OBVIOUS
<1>2. ASSUME NEW g PROVE F(g) <=> IsFold("MSET", c, cmd, base, seq, DOMAIN seq, g)
  <2> HIDE DEF seq
  <2>1. \A s : FoldStep("MSET", c, cmd, base, seq, g, s) = B(g, s)
    <3> TAKE s
    <3>1. CASE s = {}
      BY <3>1 DEF FoldStep
    <3>2. CASE s # {}
      <4>1. FoldStep("MSET", c, cmd, base, seq, g, s)
              = LoopStep("MSET", c, cmd, g[s \ {Max(s)}], seq[Max(s)])
        BY <3>2 DEF FoldStep
      <4> QED BY <3>2, <4>1, LoopSteps
    <3> QED BY <3>1, <3>2
  <2> HIDE DEF B
  <2> QED BY <2>1 DEF IsFold
<1>3. \E g : F(g)
  <2>1. \E g : IsFold("MSET", c, cmd, base, seq, 1 .. m, g)
    <3> HIDE DEF m, seq
    <3> QED BY <1>1, FoldExists
  <2> HIDE DEF F, seq, m
  <2> QED BY <1>1, <1>2, <2>1
<1>4. \E g : F(g) /\ MsetLoop(c, cmd, base) = g[DOMAIN seq]
  BY <1>3, Zenon DEF MsetLoop, FoldLeftDomain, FoldLeft, MapThenFoldSet
<1> HIDE DEF F, seq, m
<1>5. PICK g : F(g) /\ MsetLoop(c, cmd, base) = g[DOMAIN seq]
  BY <1>4
<1>6. PICK h : Chain("MSET", c, cmd, base, seq, h, m) /\ h[m] = g[1 .. m]
  BY <1>1, <1>2, <1>5, FoldIsChain
<1>7. \A n \in 0 .. m - 1 : n + 1 \in 1 .. m /\ seq[n + 1] = n + 1
  BY <1>1 DEF seq
<1>8. Runs("MSET", c, cmd, base, h, m)
  BY <1>6, <1>7 DEF Chain, Runs
<1> QED BY <1>1, <1>5, <1>6, <1>8 DEF m

\* The loop of evictIfNeeded.
LEMMA EvictChain ==
    ASSUME NEW d, NEW n \in Nat
    PROVE  \E h : /\ Runs("evict", 0, 0, [db |-> d, evicted |-> <<>>], h, n)
                  /\ EraseBack(d, n) = h[n]
<1> DEFINE seq == [i \in 1 .. n |-> i]
           m == n
           base == [db |-> d, evicted |-> <<>>]
           B(g, s) == IF s = {} THEN base ELSE EvictStep(g[s \ {Max(s)}], seq[Max(s)])
           F(g) == g = [s \in SUBSET DOMAIN seq |-> B(g, s)]
<1>1. DOMAIN seq = 1 .. m /\ m \in Nat
  OBVIOUS
<1>2. ASSUME NEW g PROVE F(g) <=> IsFold("evict", 0, 0, base, seq, DOMAIN seq, g)
  <2> HIDE DEF seq, base
  <2>1. \A s : FoldStep("evict", 0, 0, base, seq, g, s) = B(g, s)
    <3> TAKE s
    <3>1. CASE s = {}
      BY <3>1 DEF FoldStep
    <3>2. CASE s # {}
      <4>1. FoldStep("evict", 0, 0, base, seq, g, s)
              = LoopStep("evict", 0, 0, g[s \ {Max(s)}], seq[Max(s)])
        BY <3>2 DEF FoldStep
      <4> QED BY <3>2, <4>1, LoopSteps
    <3> QED BY <3>1, <3>2
  <2> HIDE DEF B
  <2> QED BY <2>1 DEF IsFold
<1>3. \E g : F(g)
  <2>1. \E g : IsFold("evict", 0, 0, base, seq, 1 .. m, g)
    <3> HIDE DEF m, seq, base
    <3> QED BY <1>1, FoldExists
  <2> HIDE DEF F, seq, m, base
  <2> QED BY <1>1, <1>2, <2>1
<1>4. \E g : F(g) /\ EraseBack(d, n) = g[DOMAIN seq]
  BY <1>3, Zenon DEF EraseBack, FoldLeft, MapThenFoldSet
<1> HIDE DEF F, seq, m, base
<1>5. PICK g : F(g) /\ EraseBack(d, n) = g[DOMAIN seq]
  BY <1>4
<1>6. PICK h : Chain("evict", 0, 0, base, seq, h, m) /\ h[m] = g[1 .. m]
  BY <1>1, <1>2, <1>5, FoldIsChain
<1>7. \A i \in 0 .. m - 1 : i + 1 \in 1 .. m /\ seq[i + 1] = i + 1
  BY <1>1 DEF seq, m
<1>8. Runs("evict", 0, 0, base, h, m)
  BY <1>6, <1>7 DEF Chain, Runs
<1> QED BY <1>1, <1>5, <1>6, <1>8 DEF m, base

\* The loop of load.
LEMMA LoadChain ==
    ASSUME NEW t, NEW S, NEW entries \in Seq(S)
    PROVE  \E h : Chain("load", t, 0, [db |-> EmptyDB, ok |-> TRUE], entries, h, Len(entries))
                  /\ load(entries, t) = h[Len(entries)]
<1> DEFINE seq == entries
           m == Len(entries)
           base == [db |-> EmptyDB, ok |-> TRUE]
           B(g, s) == IF s = {} THEN base ELSE Replay(g[s \ {Max(s)}], seq[Max(s)].cmd, t)
           F(g) == g = [s \in SUBSET DOMAIN seq |-> B(g, s)]
<1>1. DOMAIN seq = 1 .. m /\ m \in Nat
  OBVIOUS
<1>2. ASSUME NEW g PROVE F(g) <=> IsFold("load", t, 0, base, seq, DOMAIN seq, g)
  <2> HIDE DEF seq, base
  <2>1. \A s : FoldStep("load", t, 0, base, seq, g, s) = B(g, s)
    <3> TAKE s
    <3>1. CASE s = {}
      BY <3>1 DEF FoldStep
    <3>2. CASE s # {}
      <4>1. FoldStep("load", t, 0, base, seq, g, s)
              = LoopStep("load", t, 0, g[s \ {Max(s)}], seq[Max(s)])
        BY <3>2 DEF FoldStep
      <4> QED BY <3>2, <4>1, LoopSteps
    <3> QED BY <3>1, <3>2
  <2> HIDE DEF B
  <2> QED BY <2>1 DEF IsFold
<1>3. \E g : F(g)
  <2>1. \E g : IsFold("load", t, 0, base, seq, 1 .. m, g)
    <3> HIDE DEF m, seq, base
    <3> QED BY <1>1, FoldExists
  <2> HIDE DEF F, seq, m, base
  <2> QED BY <1>1, <1>2, <2>1
<1>4. \E g : F(g) /\ load(entries, t) = g[DOMAIN seq]
  BY <1>3, Zenon DEF load, FoldLeft, MapThenFoldSet
<1> HIDE DEF F, seq, m, base
<1>5. PICK g : F(g) /\ load(entries, t) = g[DOMAIN seq]
  BY <1>4
<1>6. \E h : Chain("load", t, 0, base, seq, h, m) /\ h[m] = g[1 .. m]
  BY <1>1, <1>2, <1>5, FoldIsChain
<1> QED BY <1>1, <1>5, <1>6 DEF seq, m, base

(***************************************************************************)
(* Replaying a log.                                                        *)
(***************************************************************************)
IsLog(entries) == \E S : entries \in Seq(S)
AllAt(t) == [i \in 1 .. MaxReadings |-> t]

\* The replay of an empty log leaves the empty database.
LEMMA LoadEmpty ==
    ASSUME NEW t
    PROVE  load(<<>>, t) = [db |-> EmptyDB, ok |-> TRUE]
<1>1. <<>> \in Seq({}) /\ Len(<<>>) = 0
  OBVIOUS
<1>2. PICK h : /\ Chain("load", t, 0, [db |-> EmptyDB, ok |-> TRUE], <<>>, h, Len(<<>>))
               /\ load(<<>>, t) = h[Len(<<>>)]
  BY <1>1, LoadChain
<1> QED BY <1>1, <1>2 DEF Chain

\* The replay of one more command.
LEMMA LoadAppend ==
    ASSUME NEW entries, IsLog(entries), NEW e, NEW t
    PROVE  load(Append(entries, e), t) = Replay(load(entries, t), e.cmd, t)
<1> DEFINE base == [db |-> EmptyDB, ok |-> TRUE]
<1>0. PICK T : entries \in Seq(T)
  BY DEF IsLog
<1> DEFINE S == T \cup {e}
<1>1. entries \in Seq(S) /\ e \in S
  BY <1>0
<1> HIDE DEF S
<1> PICK longer, n : longer = Append(entries, e) /\ n = Len(entries)
  OBVIOUS
<1>2. /\ longer \in Seq(S) /\ Len(longer) = n + 1 /\ n \in Nat
      /\ \A i \in 1 .. n : longer[i] = entries[i]
      /\ longer[n + 1] = e
  BY <1>1, AppendProperties
<1>3. PICK h : Chain("load", t, 0, base, entries, h, n) /\ load(entries, t) = h[n]
  BY <1>1, LoadChain
<1>4. PICK g : Chain("load", t, 0, base, longer, g, n + 1) /\ load(longer, t) = g[n + 1]
  BY <1>2, LoadChain
<1> DEFINE P == {i \in Nat : i <= n => g[i] = h[i]}
<1>5. 0 \in P
  BY <1>3, <1>4 DEF Chain
<1>6. ASSUME NEW i \in Nat, i \in P PROVE i + 1 \in P
  <2> SUFFICES ASSUME i + 1 <= n PROVE g[i + 1] = h[i + 1]
    OBVIOUS
  <2>1. i \in 0 .. n - 1 /\ i \in 0 .. (n + 1) - 1 /\ i + 1 \in 1 .. n
    BY <1>2
  <2>2. h[i + 1] = LoopStep("load", t, 0, h[i], entries[i + 1])
    BY <1>3, <2>1 DEF Chain
  <2>3. g[i + 1] = LoopStep("load", t, 0, g[i], longer[i + 1])
    BY <1>4, <2>1 DEF Chain
  <2>4. g[i] = h[i]
    BY <1>6, <2>1, <1>2
  <2> QED BY <1>2, <2>1, <2>2, <2>3, <2>4
<1>7. n \in P
  <2> HIDE DEF P
  <2> QED BY <1>2, <1>5, <1>6, InductionOnNat
<1>8. g[n + 1] = LoopStep("load", t, 0, g[n], longer[n + 1])
  <2>1. n \in 0 .. (n + 1) - 1
    BY <1>2
  <2> QED BY <1>4, <2>1 DEF Chain
<1> HIDE DEF base
<1> QED BY <1>2, <1>3, <1>4, <1>7, <1>8, LoopSteps

\* Without a limit nothing is evicted.
LEMMA NoEvictions ==
    ASSUME NEW d, NEW policy1
    PROVE  LET room == evictIfNeeded(d, 0, policy1)
           IN  room.db = d /\ room.withinLimit /\ room.evicted = <<>>
<1>1. PICK h : /\ Runs("evict", 0, 0, [db |-> d, evicted |-> <<>>], h, 0)
               /\ EraseBack(d, 0) = h[0]
  BY EvictChain
<1>2. EraseBack(d, 0) = [db |-> d, evicted |-> <<>>]
  BY <1>1 DEF Runs
<1> PICK none : none = EraseBack(d, 0)
  OBVIOUS
<1>3. evictIfNeeded(d, 0, policy1) =
        [db |-> none.db, evicted |-> none.evicted,
         withinLimit |-> 0 = 0 \/ none.db.memoryUsed <= 0]
  BY Zenon DEF evictIfNeeded
<1>4. (0 = 0 \/ none.db.memoryUsed <= 0) = TRUE
  OBVIOUS
<1>5. PICK room : room = evictIfNeeded(d, 0, policy1)
  OBVIOUS
<1>6. room = [db |-> none.db, evicted |-> none.evicted, withinLimit |-> TRUE]
  BY <1>3, <1>4, <1>5, Zenon
<1>7. room.db = d /\ room.withinLimit /\ room.evicted = <<>>
  BY <1>2, <1>6
<1> QED BY <1>5, <1>7, Zenon

\* The fields of an Outcome.
LEMMA OutcomeFacts ==
    ASSUME NEW r
    PROVE  Outcome(r).db = r.db /\ (Outcome(r).ok <=> ~IsError(r.ret))
<1>1. CASE IsError(r.ret)
  BY <1>1 DEF Outcome, IsError
<1>2. CASE ~IsError(r.ret)
  BY <1>2 DEF Outcome, IsError
<1> QED BY <1>1, <1>2

\* What load makes of a command that writes.
LEMMA ReplayWrite ==
    ASSUME NEW acc, acc.ok, NEW cmd, cmd.name \in WriteCommands, NEW t
    PROVE  Replay(acc, cmd, t) = Outcome(writeHandler(acc.db, AllAt(t), cmd))
<1> DEFINE room == evictIfNeeded(acc.db, 0, "NoEviction")
           r == writeHandler(acc.db, AllAt(t), cmd)
<1>1. room.db = acc.db /\ room.withinLimit
  BY NoEvictions
<1> HIDE DEF room
<1>2. executeWrite(room, AllAt(t), cmd) = After(PropagatedEvictions(room.evicted), r)
  BY <1>1 DEF executeWrite
<1>3. Outcome(executeWrite(room, AllAt(t), cmd)) = Outcome(r)
  <2> HIDE DEF r
  <2> QED BY <1>2 DEF After, Outcome, Reply
<1> QED BY <1>3 DEF Replay, execute, AllAt, room

(***************************************************************************)
(* What a log says about a database.  SameCell: two databases hold the     *)
(* same for k.  Trimmed: c is d without some keys that are dead at t.      *)
(***************************************************************************)
SameCell(d, e, k) ==
    /\ Has(d, k) <=> Has(e, k)
    /\ Has(d, k) => /\ d.data[k].value = e.data[k].value
                    /\ d.data[k].expiresAtMs = e.data[k].expiresAtMs

Trimmed(d, c, t) ==
    \A x \in Key : \/ SameCell(d, c, x)
                   \/ ~Has(c, x) /\ Has(d, x) /\ IsExpired(d.data[x], t)

\* The deadline of k in d is in the log, and not overwritten there.
DeadlineLogged(d, entries, k) ==
    Has(d, k) /\ d.data[k].expiresAtMs # NO_EXPIRY =>
        \E i \in DOMAIN entries : /\ Deadlined(entries, i, Len(entries), k)
                                  /\ entries[i].cmd.amount[1] = d.data[k].expiresAtMs

\* A replay at time t has the live keys of d, and a sound database.
Replayed(d, entries, t) ==
    /\ Sound(load(entries, t).db)
    /\ load(entries, t).ok => \A k \in Key : DeadlineLogged(load(entries, t).db, entries, k)
    /\ Faithful(d, entries, t)

\* An entry is a write, stamped with a time gone by; its deadline fits.
EntryTyped(e, u) ==
    /\ e.cmd.name \in WriteCommands
    /\ e.at \in 0 .. u
    /\ e.cmd.name = "PEXPIREAT" => e.cmd.amount[1] \in LLong

\* The invariant on a database and its log: so do all later replays.
Logged(d, entries, u) ==
    /\ IsLog(entries) /\ \A i \in DOMAIN entries : EntryTyped(entries[i], u)
    /\ Sound(d)
    /\ \A k \in Key : DeadlineLogged(d, entries, k)
    /\ \A t \in Nat : t >= u => Replayed(d, entries, t)

\* A key that is alive at t is alive before, and seen alike.
LEMMA VisibleFacts ==
    ASSUME NEW d, NEW e, NEW k, NEW t
    PROVE  /\ SameCell(d, e, k) => Visible(d, k, t) = Visible(e, k, t)
           /\ ~Has(d, k) /\ ~Has(e, k) => Visible(d, k, t) = Visible(e, k, t)
           /\ Visible(d, k, t) = Visible(e, k, t) =>
                 /\ k \in keys(d, t) <=> k \in keys(e, t)
                 /\ k \in keys(d, t) => SameCell(d, e, k)
<1>1. k \in keys(d, t) <=> Has(d, k) /\ ~IsExpired(d.data[k], t)
  BY DEF keys, Has
<1>2. k \in keys(e, t) <=> Has(e, k) /\ ~IsExpired(e.data[k], t)
  BY DEF keys, Has
<1>3. SameCell(d, e, k) => Visible(d, k, t) = Visible(e, k, t)
  BY <1>1, <1>2 DEF SameCell, Visible, IsExpired
<1>4. ~Has(d, k) /\ ~Has(e, k) => Visible(d, k, t) = Visible(e, k, t)
  BY <1>1, <1>2 DEF Visible
<1>5. ASSUME Visible(d, k, t) = Visible(e, k, t)
      PROVE  /\ k \in keys(d, t) <=> k \in keys(e, t)
             /\ k \in keys(d, t) => SameCell(d, e, k)
  <2> DEFINE V(b) == <<b.data[k].value, b.data[k].expiresAtMs>>
  <2>1. V(d) # <<>> /\ V(e) # <<>>
    OBVIOUS
  <2>2. V(d) = V(e) => /\ d.data[k].value = e.data[k].value
                       /\ d.data[k].expiresAtMs = e.data[k].expiresAtMs
    OBVIOUS
  <2> HIDE DEF V
  <2>3. /\ Visible(d, k, t) = IF k \in keys(d, t) THEN V(d) ELSE <<>>
        /\ Visible(e, k, t) = IF k \in keys(e, t) THEN V(e) ELSE <<>>
    BY DEF Visible, V
  <2> QED BY <1>1, <1>2, <1>5, <2>1, <2>2, <2>3 DEF SameCell
<1> QED BY <1>3, <1>4, <1>5

\* SameCell is an equivalence; two databases without k agree on k.
LEMMA CellFacts ==
    ASSUME NEW d, NEW e, NEW k
    PROVE  /\ SameCell(d, d, k)
           /\ SameCell(d, e, k) => SameCell(e, d, k)
           /\ \A f : SameCell(d, e, k) /\ SameCell(e, f, k) => SameCell(d, f, k)
           /\ ~Has(d, k) /\ ~Has(e, k) => SameCell(d, e, k)
BY DEF SameCell

\* A step on k leaves every other cell alone.
LEMMA OthersCell ==
    ASSUME NEW d, NEW c, NEW k, Others(d, c, k), NEW x, x # k
    PROVE  SameCell(d, c, x)
BY DEF Others, SameCell, SameEntry, Has

\* Sequences grow at the end.
LEMMA LogAppend ==
    ASSUME NEW entries, IsLog(entries), NEW e
    PROVE  /\ IsLog(Append(entries, e)) /\ Len(entries) \in Nat
           /\ DOMAIN entries = 1 .. Len(entries)
           /\ Len(Append(entries, e)) = Len(entries) + 1
           /\ DOMAIN Append(entries, e) = 1 .. Len(entries) + 1
           /\ \A i \in 1 .. Len(entries) : Append(entries, e)[i] = entries[i]
           /\ Append(entries, e)[Len(entries) + 1] = e
<1>1. PICK T : entries \in Seq(T)
  BY DEF IsLog
<1> DEFINE S == T \cup {e}
<1>2. entries \in Seq(S) /\ e \in S
  BY <1>1
<1> HIDE DEF S
<1>3. Append(entries, e) \in Seq(S)
  BY <1>2
<1> QED BY <1>2, <1>3 DEF IsLog

\* A key amended under a past deadline stays one.
LEMMA AmendedStays ==
    ASSUME NEW entries, IsLog(entries), NEW e, NEW k, NEW t,
           AmendedUnderPastDeadline(entries, k, t)
    PROVE  AmendedUnderPastDeadline(Append(entries, e), k, t)
<1> PICK longer, n : longer = Append(entries, e) /\ n = Len(entries)
  OBVIOUS
<1>1. /\ n \in Nat /\ DOMAIN entries = 1 .. n /\ DOMAIN longer = 1 .. n + 1
      /\ Len(longer) = n + 1 /\ \A i \in 1 .. n : longer[i] = entries[i]
  BY LogAppend
<1>2. PICK i \in DOMAIN entries : \E j \in i + 1 .. Len(entries) :
        /\ Deadlined(entries, i, j - 1, k)
        /\ Amends(entries[j].cmd, k)
        /\ entries[j].at < entries[i].cmd.amount[1]
        /\ entries[i].cmd.amount[1] <= t
  BY DEF AmendedUnderPastDeadline
<1>3. PICK j \in i + 1 .. Len(entries) :
        /\ Deadlined(entries, i, j - 1, k)
        /\ Amends(entries[j].cmd, k)
        /\ entries[j].at < entries[i].cmd.amount[1]
        /\ entries[i].cmd.amount[1] <= t
  BY <1>2
<1>4. i \in 1 .. n /\ j \in i + 1 .. n /\ j \in 1 .. n /\ i \in DOMAIN longer
      /\ j \in i + 1 .. Len(longer)
  BY <1>1, <1>2, <1>3
<1>5. longer[i] = entries[i] /\ longer[j] = entries[j]
  BY <1>1, <1>4
<1>6. Deadlined(longer, i, j - 1, k)
  <2>1. \A m \in i + 1 .. j - 1 : longer[m] = entries[m]
    BY <1>1, <1>4
  <2> QED BY <1>3, <1>5, <2>1 DEF Deadlined
<1> QED BY <1>3, <1>4, <1>5, <1>6 DEF AmendedUnderPastDeadline

\* A key is amended under a deadline that has passed by a later time too.
LEMMA AmendedLater ==
    ASSUME NEW entries, NEW k, NEW t \in Nat, NEW u \in Nat, t <= u,
           \A i \in DOMAIN entries : entries[i].cmd.name = "PEXPIREAT" =>
                                         entries[i].cmd.amount[1] \in Int,
           AmendedUnderPastDeadline(entries, k, t)
    PROVE  AmendedUnderPastDeadline(entries, k, u)
BY DEF AmendedUnderPastDeadline, Deadlined

\* What findLive leaves of k and of the others.
LEMMA FindLiveCell ==
    ASSUME NEW d, Sound(d), NEW t, NEW k, NEW f, f = findLive(d, t, k)
    PROVE  /\ Sound(f) /\ Others(d, f, k)
           /\ Has(f, k) <=> k \in keys(d, t)
           /\ Has(f, k) => f = d
           /\ Trimmed(d, f, t)
<1>1. WellFormed(d)
  BY DEF Sound
<1>2. Sound(f) /\ Others(d, f, k) /\ (Has(f, k) => f = d /\ k \in keys(d, t))
  BY <1>1, FindLiveStep, FindLiveSound DEF KeyStep
<1>3. k \in keys(d, t) => f = d
  BY DEF findLive, keys
<1>4. k \in keys(d, t) <=> Has(d, k) /\ ~IsExpired(d.data[k], t)
  BY DEF keys, Has
<1>5. Trimmed(d, f, t)
  <2> SUFFICES ASSUME NEW x \in Key
               PROVE  \/ SameCell(d, f, x)
                      \/ ~Has(f, x) /\ Has(d, x) /\ IsExpired(d.data[x], t)
    BY DEF Trimmed
  <2>1. CASE x # k
    BY <1>2, <2>1, OthersCell
  <2>2. CASE x = k
    <3>1. CASE Has(f, k)
      BY <1>2, <2>2, <3>1, CellFacts
    <3>2. CASE ~Has(f, k)
      BY <1>3, <1>4, <2>2, <3>2, CellFacts DEF findLive, SameCell
    <3> QED BY <3>1, <3>2
  <2> QED BY <2>1, <2>2
<1> QED BY <1>2, <1>3, <1>4, <1>5

\* Keys are dead for good.
LEMMA DeadLater ==
    ASSUME NEW d, Sound(d), NEW k, NEW t \in Nat, NEW u \in Nat, t <= u, k \in keys(d, u)
    PROVE  k \in keys(d, t)
<1>1. k \in DOMAIN d.data /\ ~IsExpired(d.data[k], u)
  BY DEF keys
<1>2. d.data[k].expiresAtMs \in Int
  BY <1>1, LLongAssumption DEF Sound, EntryOK, LLong, LLongMin
<1> QED BY <1>1, <1>2 DEF keys, IsExpired

\* Nothing changes for a replay when dead keys go.
LEMMA TrimmedVisible ==
    ASSUME NEW d, Sound(d), NEW c, NEW u \in Nat, NEW t \in Nat, u <= t, Trimmed(d, c, u),
           NEW k \in Key
    PROVE  Visible(c, k, t) = Visible(d, k, t)
<1>1. CASE SameCell(d, c, k)
  BY <1>1, VisibleFacts
<1>2. CASE ~Has(c, k) /\ Has(d, k) /\ IsExpired(d.data[k], u)
  <2>1. k \notin keys(d, u) /\ k \notin keys(c, t)
    BY <1>2 DEF keys, Has
  <2>2. k \notin keys(d, t)
    BY <2>1, DeadLater
  <2> QED BY <2>1, <2>2 DEF Visible
<1> QED BY <1>1, <1>2 DEF Trimmed

\* A step that the log need not know of: dead keys go, time passes.
LEMMA QuietLogged ==
    ASSUME NEW d, NEW entries, NEW u \in Nat, NEW v \in Nat, u <= v,
           Logged(d, entries, u), NEW c, Sound(c), NEW w \in Nat, w <= v, Trimmed(d, c, w)
    PROVE  Logged(c, entries, v)
<1>1. \A i \in DOMAIN entries : EntryTyped(entries[i], v)
  BY DEF Logged, EntryTyped
<1>2. ASSUME NEW k \in Key PROVE DeadlineLogged(c, entries, k)
  <2>1. DeadlineLogged(d, entries, k)
    BY DEF Logged
  <2>2. Has(c, k) => SameCell(d, c, k)
    BY DEF Trimmed
  <2> QED BY <2>1, <2>2 DEF DeadlineLogged, SameCell
<1>3. ASSUME NEW t \in Nat, t >= v PROVE Replayed(c, entries, t)
  <2>1. Replayed(d, entries, t)
    BY <1>3 DEF Logged
  <2>2. \A k \in Key : Visible(c, k, t) = Visible(d, k, t)
    BY <1>3, TrimmedVisible DEF Logged
  <2> QED BY <2>1, <2>2 DEF Replayed, Faithful
<1> QED BY <1>1, <1>2, <1>3 DEF Logged

\* What a command that amends k may do: the others stay, and the deadline of
\* k is the old one or the one the command sets.
Amending(d, c, cmd, k) ==
    /\ Sound(c) /\ Others(d, c, k)
    /\ Has(c, k) /\ c.data[k].expiresAtMs # NO_EXPIRY =>
          \/ Has(d, k) /\ d.data[k].expiresAtMs = c.data[k].expiresAtMs
          \/ cmd = PexpireatCommand(k, c.data[k].expiresAtMs)

\* The command did at time u to d what a replay of it does to any other
\* database that has the same for k.
Matches(d, u, c, cmd, k, v) ==
    \A l : \A t \in Nat : Sound(l) /\ t >= v =>
        LET s == writeHandler(l, AllAt(t), cmd)
        IN  /\ Amending(l, s.db, cmd, k)
            /\ SameCell(findLive(d, u, k), findLive(l, t, k), k) =>
                  ~IsError(s.ret) /\ Visible(c, k, t) = Visible(s.db, k, t)

\* A deadline that is in the log stays there.
LEMMA DeadlineStays ==
    ASSUME NEW entries, IsLog(entries), NEW e, NEW k, ~Overwrites(e.cmd, k),
           NEW i \in DOMAIN entries, Deadlined(entries, i, Len(entries), k)
    PROVE  /\ i \in DOMAIN Append(entries, e) /\ Append(entries, e)[i] = entries[i]
           /\ Deadlined(Append(entries, e), i, Len(entries), k)
           /\ Deadlined(Append(entries, e), i, Len(Append(entries, e)), k)
<1> PICK longer, n : longer = Append(entries, e) /\ n = Len(entries)
  OBVIOUS
<1>1. /\ n \in Nat /\ DOMAIN entries = 1 .. n /\ DOMAIN longer = 1 .. n + 1
      /\ Len(longer) = n + 1 /\ \A j \in 1 .. n : longer[j] = entries[j]
      /\ longer[n + 1] = e
  BY LogAppend
<1>2. longer[i] = entries[i] /\ i \in DOMAIN longer
  BY <1>1
<1>3. \A m \in i + 1 .. n : longer[m] = entries[m]
  BY <1>1
<1>4. \A m \in i + 1 .. n + 1 : m \in i + 1 .. n \/ m = n + 1
  BY <1>1
<1> QED BY <1>1, <1>2, <1>3, <1>4 DEF Deadlined

\* A logged amendment of k keeps every deadline in the log.
LEMMA AmendingLogged ==
    ASSUME NEW d, NEW entries, IsLog(entries), NEW k \in Key, NEW cmd, NEW a,
           \A x : ~Overwrites(cmd, x),
           \A x \in Key : DeadlineLogged(d, entries, x),
           NEW c, Amending(d, c, cmd, k)
    PROVE  \A x \in Key : DeadlineLogged(c, Append(entries, [cmd |-> cmd, at |-> a]), x)
<1> PICK e, longer, n : /\ e = [cmd |-> cmd, at |-> a] /\ longer = Append(entries, e)
                        /\ n = Len(entries)
  OBVIOUS
<1>0. e.cmd = cmd
  OBVIOUS
<1>1. /\ n \in Nat /\ DOMAIN longer = 1 .. n + 1
      /\ Len(longer) = n + 1 /\ longer[n + 1] = e
  BY LogAppend
<1>2. ASSUME NEW x \in Key, Has(c, x), c.data[x].expiresAtMs # NO_EXPIRY,
             Has(d, x), d.data[x].expiresAtMs = c.data[x].expiresAtMs
      PROVE  \E i \in DOMAIN longer : /\ Deadlined(longer, i, Len(longer), x)
                                      /\ longer[i].cmd.amount[1] = c.data[x].expiresAtMs
  <2>1. PICK i \in DOMAIN entries : /\ Deadlined(entries, i, Len(entries), x)
                                    /\ entries[i].cmd.amount[1] = d.data[x].expiresAtMs
    BY <1>2 DEF DeadlineLogged
  <2>2. ~Overwrites(e.cmd, x)
    BY <1>0
  <2>3. i \in DOMAIN longer /\ longer[i] = entries[i] /\ Deadlined(longer, i, Len(longer), x)
    BY <2>1, <2>2, DeadlineStays
  <2> QED BY <1>2, <2>1, <2>3
<1>3. ASSUME NEW x \in Key, cmd = PexpireatCommand(x, c.data[x].expiresAtMs)
      PROVE  \E i \in DOMAIN longer : /\ Deadlined(longer, i, Len(longer), x)
                                      /\ longer[i].cmd.amount[1] = c.data[x].expiresAtMs
  <2>1. n + 1 \in DOMAIN longer /\ longer[n + 1].cmd = cmd
    BY <1>0, <1>1
  <2>2. cmd.name = "PEXPIREAT" /\ cmd.key = x /\ cmd.amount[1] = c.data[x].expiresAtMs
    BY <1>3 DEF PexpireatCommand
  <2>3. \A m \in n + 1 + 1 .. n + 1 : FALSE
    BY <1>1
  <2>4. Deadlined(longer, n + 1, Len(longer), x)
    BY <1>1, <2>1, <2>2, <2>3 DEF Deadlined
  <2> QED BY <2>1, <2>2, <2>4
<1>4. ASSUME NEW x \in Key PROVE DeadlineLogged(c, longer, x)
  <2>1. CASE x # k
    <3>1. SameCell(d, c, x)
      BY <2>1, OthersCell DEF Amending
    <3> QED BY <1>2, <3>1 DEF DeadlineLogged, SameCell
  <2>2. CASE x = k
    BY <1>2, <1>3, <2>2 DEF DeadlineLogged, Amending
  <2> QED BY <2>1, <2>2
<1> QED BY <1>4

\* A logged command that amends k.  u is when the method looked k up, a when
\* the command began.
LEMMA AmendReplayed ==
    ASSUME NEW d, Sound(d), NEW entries, IsLog(entries), NEW t \in Nat,
           Replayed(d, entries, t), NEW k \in Key, DeadlineLogged(d, entries, k),
           NEW cmd, cmd.name \in WriteCommands, Amends(cmd, k), \A x : ~Overwrites(cmd, x),
           NEW a \in Nat, NEW u \in Nat, a <= u, NEW v \in Nat, u <= v, v <= t,
           NEW c, Amending(d, c, cmd, k), Matches(d, u, c, cmd, k, v)
    PROVE  Replayed(c, Append(entries, [cmd |-> cmd, at |-> a]), t)
<1> PICK e, longer, n : /\ e = [cmd |-> cmd, at |-> a] /\ longer = Append(entries, e)
                        /\ n = Len(entries)
  OBVIOUS
<1> PICK l, after : l = load(entries, t) /\ after = load(longer, t)
  OBVIOUS
<1> DEFINE s == writeHandler(l.db, AllAt(t), cmd)
<1>0. e.cmd = cmd /\ e.at = a
  OBVIOUS
<1>1. /\ n \in Nat /\ DOMAIN longer = 1 .. n + 1 /\ DOMAIN entries = 1 .. n
      /\ Len(longer) = n + 1 /\ longer[n + 1] = e
  BY LogAppend
<1>2. after = Replay(l, cmd, t)
  BY <1>0, LoadAppend
<1>3. Sound(l.db)
  BY DEF Replayed
<1>4. t >= v
  OBVIOUS
<1>5. Amending(l.db, s.db, cmd, k)
  BY <1>3, <1>4 DEF Matches
<1>6. SameCell(findLive(d, u, k), findLive(l.db, t, k), k) =>
        ~IsError(s.ret) /\ Visible(c, k, t) = Visible(s.db, k, t)
  BY <1>3, <1>4 DEF Matches
<1> HIDE DEF s
<1>7. CASE ~l.ok
  <2>1. after = l
    BY <1>2, <1>7 DEF Replay
  <2>2. \E x \in Key : AmendedUnderPastDeadline(entries, x, t)
    BY <1>7 DEF Replayed, Faithful
  <2>3. \E x \in Key : AmendedUnderPastDeadline(longer, x, t)
    BY <2>2, AmendedStays
  <2> QED BY <1>3, <1>7, <2>1, <2>3 DEF Replayed, Faithful
<1>8. CASE l.ok
  <2>1. after = Outcome(s)
    BY <1>2, <1>8, ReplayWrite DEF s
  <2>2. after.db = s.db /\ (after.ok <=> ~IsError(s.ret))
    BY <2>1, OutcomeFacts
  <2>3. \A x \in Key : DeadlineLogged(after.db, longer, x)
    <3>1. \A x \in Key : DeadlineLogged(l.db, entries, x)
      BY <1>8 DEF Replayed
    <3> QED BY <1>5, <2>2, <3>1, AmendingLogged
  <2>4. ASSUME ~AmendedUnderPastDeadline(longer, k, t)
        PROVE  SameCell(findLive(d, u, k), findLive(l.db, t, k), k)
    <3>1. Visible(l.db, k, t) = Visible(d, k, t)
      <4>1. ~AmendedUnderPastDeadline(entries, k, t)
        BY <2>4, AmendedStays
      <4> QED BY <1>8, <4>1 DEF Replayed, Faithful
    <3>2. /\ k \in keys(d, t) <=> k \in keys(l.db, t)
          /\ k \in keys(d, t) => SameCell(d, l.db, k)
      BY <3>1, VisibleFacts
    <3>3. k \in keys(d, u) => k \in keys(d, t)
      <4> SUFFICES ASSUME k \in keys(d, u), k \notin keys(d, t)
                   PROVE  AmendedUnderPastDeadline(longer, k, t)
        BY <2>4
      <4>1. /\ Has(d, k) /\ d.data[k].expiresAtMs # NO_EXPIRY
            /\ u < d.data[k].expiresAtMs /\ d.data[k].expiresAtMs <= t
        <5>1. k \in DOMAIN d.data /\ ~IsExpired(d.data[k], u) /\ IsExpired(d.data[k], t)
          BY DEF keys
        <5>2. d.data[k].expiresAtMs \in Int
          BY <5>1, LLongAssumption DEF Sound, EntryOK, LLong, LLongMin
        <5> QED BY <5>1, <5>2 DEF IsExpired, Has
      <4>2. PICK i \in DOMAIN entries : /\ Deadlined(entries, i, Len(entries), k)
                                        /\ entries[i].cmd.amount[1] = d.data[k].expiresAtMs
        BY <4>1 DEF DeadlineLogged
      <4>3. ~Overwrites(e.cmd, k)
        BY <1>0
      <4>4. /\ i \in DOMAIN longer /\ longer[i] = entries[i]
            /\ Deadlined(longer, i, n, k)
        BY <4>2, <4>3, DeadlineStays
      <4>5. n + 1 \in i + 1 .. Len(longer) /\ (n + 1) - 1 = n
        BY <1>1, <4>2
      <4>6. /\ Amends(longer[n + 1].cmd, k)
            /\ longer[n + 1].at < longer[i].cmd.amount[1]
            /\ longer[i].cmd.amount[1] <= t
        <5>1. longer[n + 1].cmd = cmd /\ longer[n + 1].at = a
          BY <1>0, <1>1
        <5>2. longer[i].cmd.amount[1] = d.data[k].expiresAtMs
          BY <4>2, <4>4
        <5>3. d.data[k].expiresAtMs \in Int
          BY <4>1, LLongAssumption DEF Sound, EntryOK, LLong, LLongMin, Has
        <5> QED BY <4>1, <5>1, <5>2, <5>3
      <4> QED BY <4>4, <4>5, <4>6 DEF AmendedUnderPastDeadline
    <3>4. k \in keys(d, t) => k \in keys(d, u)
      <4>1. u <= t
        OBVIOUS
      <4> QED BY <4>1, DeadLater
    <3> PICK f, g : f = findLive(d, u, k) /\ g = findLive(l.db, t, k)
      OBVIOUS
    <3>5. /\ Has(f, k) <=> k \in keys(d, u)
          /\ Has(f, k) => f = d
          /\ Has(g, k) <=> k \in keys(l.db, t)
          /\ Has(g, k) => g = l.db
      BY <1>3, FindLiveCell
    <3> QED BY <3>2, <3>3, <3>4, <3>5, CellFacts
  <2>5. (\A x \in Key : ~AmendedUnderPastDeadline(longer, x, t)) => after.ok
    BY <1>6, <2>2, <2>4
  <2>6. ASSUME NEW x \in Key, ~AmendedUnderPastDeadline(longer, x, t)
        PROVE  Visible(after.db, x, t) = Visible(c, x, t)
    <3>1. CASE x = k
      BY <1>6, <2>2, <2>4, <2>6, <3>1
    <3>2. CASE x # k
      <4>1. SameCell(d, c, x) /\ SameCell(l.db, s.db, x)
        BY <1>5, <3>2, OthersCell DEF Amending
      <4>2. Visible(d, x, t) = Visible(c, x, t) /\ Visible(l.db, x, t) = Visible(s.db, x, t)
        BY <4>1, VisibleFacts
      <4>3. ~AmendedUnderPastDeadline(entries, x, t)
        BY <2>6, AmendedStays
      <4>4. Visible(l.db, x, t) = Visible(d, x, t)
        BY <1>8, <4>3 DEF Replayed, Faithful
      <4> QED BY <2>2, <4>2, <4>4
    <3> QED BY <3>1, <3>2
  <2>7. Sound(after.db)
    BY <1>5, <2>2 DEF Amending
  <2> QED BY <2>3, <2>5, <2>6, <2>7 DEF Replayed, Faithful
<1> QED BY <1>7, <1>8

\* An entry that is added keeps the entries typed.
LEMMA TypedAppend ==
    ASSUME NEW entries, IsLog(entries), NEW u \in Nat, NEW v \in Nat, u <= v,
           \A i \in DOMAIN entries : EntryTyped(entries[i], u), NEW e, EntryTyped(e, v)
    PROVE  \A i \in DOMAIN Append(entries, e) : EntryTyped(Append(entries, e)[i], v)
<1> PICK longer, n : longer = Append(entries, e) /\ n = Len(entries)
  OBVIOUS
<1>1. /\ n \in Nat /\ DOMAIN entries = 1 .. n /\ DOMAIN longer = 1 .. n + 1
      /\ \A i \in 1 .. n : longer[i] = entries[i]
      /\ longer[n + 1] = e
  BY LogAppend
<1>2. \A i \in DOMAIN entries : EntryTyped(entries[i], v)
  BY DEF EntryTyped
<1>3. \A i \in 1 .. n + 1 : i \in 1 .. n \/ i = n + 1
  BY <1>1
<1> QED BY <1>1, <1>2, <1>3

\* The invariant is kept by a command that amends k and is logged.
LEMMA AmendLogged ==
    ASSUME NEW d, NEW entries, NEW u0 \in Nat, Logged(d, entries, u0), NEW k \in Key,
           NEW cmd, cmd.name \in WriteCommands, Amends(cmd, k), \A x : ~Overwrites(cmd, x),
           cmd.name = "PEXPIREAT" => cmd.amount[1] \in LLong,
           NEW a \in Nat, NEW u \in Nat, a <= u, NEW v \in Nat, u <= v, u0 <= v,
           NEW c, Amending(d, c, cmd, k), Matches(d, u, c, cmd, k, v)
    PROVE  Logged(c, Append(entries, [cmd |-> cmd, at |-> a]), v)
<1> PICK e, longer : e = [cmd |-> cmd, at |-> a] /\ longer = Append(entries, e)
  OBVIOUS
<1>1. /\ IsLog(entries) /\ Sound(d) /\ \A x \in Key : DeadlineLogged(d, entries, x)
      /\ \A i \in DOMAIN entries : EntryTyped(entries[i], u0)
  BY DEF Logged
<1>2. IsLog(longer)
  BY <1>1, LogAppend
<1>3. EntryTyped(e, v)
  BY DEF EntryTyped
<1>4. \A i \in DOMAIN longer : EntryTyped(longer[i], v)
  BY <1>1, <1>3, TypedAppend
<1>5. \A x \in Key : DeadlineLogged(c, longer, x)
  BY <1>1, AmendingLogged
<1>6. ASSUME NEW t \in Nat, t >= v PROVE Replayed(c, longer, t)
  <2>1. Replayed(d, entries, t) /\ v <= t
    BY <1>6 DEF Logged
  <2> QED BY <1>1, <2>1, AmendReplayed
<1>7. Sound(c)
  BY DEF Amending
<1> QED BY <1>2, <1>4, <1>5, <1>6, <1>7 DEF Logged

\* What a command that overwrites keys may do, and what its replay does.
Overwriting(d, c, cmd) ==
    /\ Sound(c)
    /\ \A x \in Key : IF Overwrites(cmd, x)
                      THEN Has(c, x) => c.data[x].expiresAtMs = NO_EXPIRY
                      ELSE SameCell(d, c, x)

Replaces(c, cmd, v) ==
    \A l : \A t \in Nat : Sound(l) /\ t >= v =>
        LET s == writeHandler(l, AllAt(t), cmd)
        IN  /\ Overwriting(l, s.db, cmd)
            /\ ~IsError(s.ret)
            /\ \A x \in Key : Overwrites(cmd, x) => SameCell(c, s.db, x)

\* A logged overwrite keeps every deadline in the log.
LEMMA OverwritingLogged ==
    ASSUME NEW d, NEW entries, IsLog(entries), NEW cmd, NEW a,
           \A x \in Key : DeadlineLogged(d, entries, x),
           NEW c, Overwriting(d, c, cmd)
    PROVE  \A x \in Key : DeadlineLogged(c, Append(entries, [cmd |-> cmd, at |-> a]), x)
<1> PICK e, longer : e = [cmd |-> cmd, at |-> a] /\ longer = Append(entries, e)
  OBVIOUS
<1>0. e.cmd = cmd
  OBVIOUS
<1>1. ASSUME NEW x \in Key, Has(c, x), c.data[x].expiresAtMs # NO_EXPIRY
      PROVE  \E i \in DOMAIN longer : /\ Deadlined(longer, i, Len(longer), x)
                                      /\ longer[i].cmd.amount[1] = c.data[x].expiresAtMs
  <2>1. ~Overwrites(e.cmd, x) /\ SameCell(d, c, x)
    BY <1>0, <1>1 DEF Overwriting
  <2>2. PICK i \in DOMAIN entries : /\ Deadlined(entries, i, Len(entries), x)
                                    /\ entries[i].cmd.amount[1] = c.data[x].expiresAtMs
    BY <1>1, <2>1 DEF DeadlineLogged, SameCell
  <2> QED BY <2>1, <2>2, DeadlineStays
<1> QED BY <1>1 DEF DeadlineLogged

\* A logged command that overwrites keys.
LEMMA OverwriteReplayed ==
    ASSUME NEW d, NEW entries, IsLog(entries), NEW t \in Nat,
           Replayed(d, entries, t), NEW cmd, cmd.name \in WriteCommands,
           NEW a, NEW v \in Nat, v <= t,
           NEW c, Overwriting(d, c, cmd), Replaces(c, cmd, v)
    PROVE  Replayed(c, Append(entries, [cmd |-> cmd, at |-> a]), t)
<1> PICK e, longer : /\ e = [cmd |-> cmd, at |-> a] /\ longer = Append(entries, e)
  OBVIOUS
<1> PICK l, after : l = load(entries, t) /\ after = load(longer, t)
  OBVIOUS
<1> DEFINE s == writeHandler(l.db, AllAt(t), cmd)
<1>0. e.cmd = cmd /\ t >= v
  OBVIOUS
<1>2. after = Replay(l, cmd, t)
  BY <1>0, LoadAppend
<1>3. Sound(l.db)
  BY DEF Replayed
<1>4. /\ Overwriting(l.db, s.db, cmd) /\ ~IsError(s.ret)
      /\ \A x \in Key : Overwrites(cmd, x) => SameCell(c, s.db, x)
  BY <1>0, <1>3 DEF Replaces
<1> HIDE DEF s
<1>5. CASE ~l.ok
  <2>1. after = l
    BY <1>2, <1>5 DEF Replay
  <2>2. \E x \in Key : AmendedUnderPastDeadline(entries, x, t)
    BY <1>5 DEF Replayed, Faithful
  <2>3. \E x \in Key : AmendedUnderPastDeadline(longer, x, t)
    BY <2>2, AmendedStays
  <2> QED BY <1>3, <1>5, <2>1, <2>3 DEF Replayed, Faithful
<1>6. CASE l.ok
  <2>1. after = Outcome(s)
    BY <1>2, <1>6, ReplayWrite DEF s
  <2>2. after.db = s.db /\ after.ok
    BY <1>4, <2>1, OutcomeFacts
  <2>3. \A x \in Key : DeadlineLogged(after.db, longer, x)
    <3>1. \A x \in Key : DeadlineLogged(l.db, entries, x)
      BY <1>6 DEF Replayed
    <3> QED BY <1>4, <2>2, <3>1, OverwritingLogged
  <2>4. ASSUME NEW x \in Key, ~AmendedUnderPastDeadline(longer, x, t)
        PROVE  Visible(after.db, x, t) = Visible(c, x, t)
    <3>1. CASE Overwrites(cmd, x)
      BY <1>4, <2>2, <3>1, VisibleFacts
    <3>2. CASE ~Overwrites(cmd, x)
      <4>1. SameCell(d, c, x) /\ SameCell(l.db, s.db, x)
        BY <1>4, <3>2 DEF Overwriting
      <4>2. Visible(d, x, t) = Visible(c, x, t) /\ Visible(l.db, x, t) = Visible(s.db, x, t)
        BY <4>1, VisibleFacts
      <4>3. ~AmendedUnderPastDeadline(entries, x, t)
        BY <2>4, AmendedStays
      <4>4. Visible(l.db, x, t) = Visible(d, x, t)
        BY <1>6, <4>3 DEF Replayed, Faithful
      <4> QED BY <2>2, <4>2, <4>4
    <3> QED BY <3>1, <3>2
  <2>5. Sound(after.db)
    BY <1>4, <2>2 DEF Overwriting
  <2> QED BY <2>2, <2>3, <2>4, <2>5 DEF Replayed, Faithful
<1> QED BY <1>5, <1>6

\* The invariant is kept by a command that overwrites keys and is logged.
LEMMA OverwriteLogged ==
    ASSUME NEW d, NEW entries, NEW u0 \in Nat, Logged(d, entries, u0),
           NEW cmd, cmd.name \in WriteCommands, cmd.name # "PEXPIREAT",
           NEW a \in Nat, NEW v \in Nat, a <= v, u0 <= v,
           NEW c, Overwriting(d, c, cmd), Replaces(c, cmd, v)
    PROVE  Logged(c, Append(entries, [cmd |-> cmd, at |-> a]), v)
<1> PICK e, longer : e = [cmd |-> cmd, at |-> a] /\ longer = Append(entries, e)
  OBVIOUS
<1>1. /\ IsLog(entries) /\ Sound(d) /\ \A x \in Key : DeadlineLogged(d, entries, x)
      /\ \A i \in DOMAIN entries : EntryTyped(entries[i], u0)
  BY DEF Logged
<1>2. IsLog(longer)
  BY <1>1, LogAppend
<1>3. EntryTyped(e, v)
  BY DEF EntryTyped
<1>4. \A i \in DOMAIN longer : EntryTyped(longer[i], v)
  BY <1>1, <1>3, TypedAppend
<1>5. \A x \in Key : DeadlineLogged(c, longer, x)
  BY <1>1, OverwritingLogged
<1>6. ASSUME NEW t \in Nat, t >= v PROVE Replayed(c, longer, t)
  <2>1. Replayed(d, entries, t) /\ v <= t
    BY <1>6 DEF Logged
  <2> QED BY <1>1, <2>1, OverwriteReplayed
<1>7. Sound(c)
  BY DEF Overwriting
<1> QED BY <1>2, <1>4, <1>5, <1>6, <1>7 DEF Logged

\* A restart: the replay takes the place of the database.
LEMMA RestartLogged ==
    ASSUME NEW d, NEW entries, NEW u \in Nat, Logged(d, entries, u),
           NEW l, l = load(entries, u), l.ok
    PROVE  Logged(l.db, entries, u)
<1>1. Replayed(d, entries, u)
  BY DEF Logged
<1>2. Sound(l.db) /\ \A k \in Key : DeadlineLogged(l.db, entries, k)
  BY <1>1 DEF Replayed
<1>3. ASSUME NEW t \in Nat, t >= u PROVE Replayed(l.db, entries, t)
  <2> PICK m : m = load(entries, t)
    OBVIOUS
  <2>1. Replayed(d, entries, t)
    BY <1>3 DEF Logged
  <2>2. ASSUME NEW k \in Key, m.ok, ~AmendedUnderPastDeadline(entries, k, t)
        PROVE  Visible(m.db, k, t) = Visible(l.db, k, t)
    <3>1. Visible(m.db, k, t) = Visible(d, k, t)
      BY <2>1, <2>2 DEF Replayed, Faithful
    <3>2. \A i \in DOMAIN entries :
             entries[i].cmd.name = "PEXPIREAT" => entries[i].cmd.amount[1] \in Int
      BY LLongAssumption DEF Logged, EntryTyped, LLong, LLongMin
    <3>3. ~AmendedUnderPastDeadline(entries, k, u)
      BY <1>3, <2>2, <3>2, AmendedLater
    <3>4. Visible(l.db, k, u) = Visible(d, k, u)
      BY <1>1, <3>3 DEF Replayed, Faithful
    <3>5. /\ k \in keys(l.db, u) <=> k \in keys(d, u)
          /\ k \in keys(l.db, u) => SameCell(l.db, d, k)
      BY <3>4, VisibleFacts
    <3>6. k \notin keys(d, u) => k \notin keys(d, t) /\ k \notin keys(l.db, t)
      <4>1. Sound(d) /\ u <= t
        BY <1>3 DEF Logged
      <4> QED BY <1>2, <3>5, <4>1, DeadLater
    <3>7. Visible(l.db, k, t) = Visible(d, k, t)
      <4>1. CASE k \in keys(d, u)
        BY <3>5, <4>1, VisibleFacts
      <4>2. CASE k \notin keys(d, u)
        BY <3>6, <4>2 DEF Visible
      <4> QED BY <4>1, <4>2
    <3> QED BY <3>1, <3>7
  <2> QED BY <2>1, <2>2 DEF Replayed, Faithful
<1> QED BY <1>2, <1>3 DEF Logged

(***************************************************************************)
(* The methods that amend a key: what they return and leave for k depends  *)
(* on what findLive leaves of k alone.                                     *)
(***************************************************************************)
AgreeAt(r, s, k) == r.ret = s.ret /\ SameCell(r.db, s.db, k)

Coupled(d, t, e, u, k) ==
    Sound(d) /\ Sound(e) /\ SameCell(findLive(d, t, k), findLive(e, u, k), k)

\* A key that is created has the same cell wherever it is created.
LEMMA CreateCell ==
    ASSUME NEW f, NEW h, NEW k, ~Has(f, k), ~Has(h, k), NEW v
    PROVE  SameCell(create(f, k, v), create(h, k, v), k)
<1>1. ASSUME NEW d, ~Has(d, k), NEW c, c = create(d, k, v)
      PROVE  Has(c, k) /\ c.data[k].value = v /\ c.data[k].expiresAtMs = NO_EXPIRY
  BY <1>1 DEF create, DB, With, Entry, Has
<1> PICK c, b : c = create(f, k, v) /\ b = create(h, k, v)
  OBVIOUS
<1>2. SameCell(c, b, k)
  BY <1>1 DEF SameCell
<1> QED BY <1>2

\* erase removes k.
LEMMA EraseCell ==
    ASSUME NEW f, WellFormed(f), NEW k, Has(f, k)
    PROVE  ~Has(erase(f, k), k)
<1>1. k \in DOMAIN f.data
  BY DEF Has
<1> QED BY <1>1, EraseAnyStep

\* The same new value gives the same cell, touched, or erased again.
LEMMA UpdateCell ==
    ASSUME NEW f, NEW h, WellFormed(f), WellFormed(h), NEW k, SameCell(f, h, k), Has(f, k),
           NEW v, NEW n
    PROVE  /\ SameCell(assign(f, k, v, n), assign(h, k, v, n), k)
           /\ SameCell(touch(assign(f, k, v, n), k), touch(assign(h, k, v, n), k), k)
           /\ SameCell(erase(assign(f, k, v, n), k), erase(assign(h, k, v, n), k), k)
<1> PICK c, b : c = assign(f, k, v, n) /\ b = assign(h, k, v, n)
  OBVIOUS
<1>1. k \in DOMAIN f.data /\ k \in DOMAIN h.data
  BY DEF SameCell, Has
<1>2. WellFormed(c) /\ WellFormed(b)
  BY <1>1, AssignWF
<1>3. /\ k \in DOMAIN c.data /\ c.data[k].value = v
      /\ c.data[k].expiresAtMs = f.data[k].expiresAtMs
      /\ k \in DOMAIN b.data /\ b.data[k].value = v
      /\ b.data[k].expiresAtMs = h.data[k].expiresAtMs
  BY <1>1, AssignEffect
<1>4. SameCell(c, b, k) /\ Has(c, k) /\ Has(b, k)
  BY <1>3 DEF SameCell, Has
<1>5. SameCell(touch(c, k), touch(b, k), k)
  BY <1>4, TouchEffect DEF SameCell, Has
<1>6. SameCell(erase(c, k), erase(b, k), k)
  BY <1>2, <1>4, EraseCell, CellFacts
<1> QED BY <1>4, <1>5, <1>6

\* findLive of two coupled databases finds the same.
LEMMA LiveCell ==
    ASSUME NEW d, NEW e, NEW t, NEW u, NEW k, Coupled(d, t, e, u, k), NEW f, NEW h,
           f = findLive(d, t, k), h = findLive(e, u, k)
    PROVE  /\ WellFormed(f) /\ WellFormed(h) /\ SameCell(f, h, k)
           /\ Has(f, k) <=> Has(h, k)
           /\ Has(f, k) => f.data[k].value = h.data[k].value
<1>1. Sound(f) /\ Sound(h) /\ SameCell(f, h, k)
  BY FindLiveCell DEF Coupled
<1> QED BY <1>1 DEF SameCell, Sound

\* findOrCreate of two coupled databases finds or creates the same.
LEMMA LiveOrNewCell ==
    ASSUME NEW d, NEW e, NEW t, NEW u, NEW k \in Key, Coupled(d, t, e, u, k), NEW v,
           NEW g, NEW i, g = findOrCreate(d, t, k, v), i = findOrCreate(e, u, k, v)
    PROVE  /\ WellFormed(g) /\ WellFormed(i) /\ SameCell(g, i, k) /\ Has(g, k)
           /\ g.data[k].value = i.data[k].value
<1> PICK f, h : f = findLive(d, t, k) /\ h = findLive(e, u, k)
  OBVIOUS
<1>1. /\ SameCell(f, h, k) /\ (Has(f, k) <=> Has(h, k))
  BY LiveCell
<1>2. /\ g = IF Has(f, k) THEN f ELSE create(f, k, v)
      /\ i = IF Has(h, k) THEN h ELSE create(h, k, v)
  BY DEF findOrCreate
<1>3. SameCell(g, i, k)
  BY <1>1, <1>2, CreateCell
<1>4. WellFormed(d) /\ WellFormed(e)
  BY DEF Coupled, Sound
<1>5. KeyStep(d, t, g, k) /\ Has(g, k) /\ KeyStep(e, u, i, k)
  BY <1>4, FindOrCreateStep
<1> QED BY <1>3, <1>5 DEF KeyStep, SameCell

\* Methods that write a string.
LEMMA StringAgreeAt ==
    ASSUME NEW d, NEW e, NEW t, NEW u, NEW k \in Key,
           Coupled(d, t, e, u, k), NEW x
    PROVE  /\ AgreeAt(set(d, t, k, x), set(e, u, k, x), k)
           /\ AgreeAt(incrementBy(d, t, k, x), incrementBy(e, u, k, x), k)
           /\ AgreeAt(append(d, t, k, x), append(e, u, k, x), k)
<1> DEFINE f == findLive(d, t, k)
           h == findLive(e, u, k)
           g == findOrCreate(d, t, k, StringValue(<<0>>))
           i == findOrCreate(e, u, k, StringValue(<<0>>))
<1>1. /\ WellFormed(f) /\ WellFormed(h) /\ SameCell(f, h, k) /\ (Has(f, k) <=> Has(h, k))
      /\ Has(f, k) => f.data[k].value = h.data[k].value
  BY LiveCell
<1>2. /\ WellFormed(g) /\ WellFormed(i) /\ SameCell(g, i, k) /\ Has(g, k)
      /\ g.data[k].value = i.data[k].value
  BY LiveOrNewCell
<1> HIDE DEF f, h, g, i
<1>3. AgreeAt(set(d, t, k, x), set(e, u, k, x), k)
  <2> DEFINE c == IF Has(f, k) THEN erase(f, k) ELSE f
             b == IF Has(h, k) THEN erase(h, k) ELSE h
  <2>1. SameCell(c, b, k) /\ ~Has(c, k) /\ ~Has(b, k)
    <3>1. CASE Has(f, k)
      BY <1>1, <3>1, EraseCell, CellFacts
    <3>2. CASE ~Has(f, k)
      BY <1>1, <3>2
    <3> QED BY <3>1, <3>2
  <2>2. /\ set(d, t, k, x) = Result(create(c, k, StringValue(x)), Void)
        /\ set(e, u, k, x) = Result(create(b, k, StringValue(x)), Void)
    BY DEF set, f, h
  <2> HIDE DEF b, c
  <2>3. SameCell(create(c, k, StringValue(x)), create(b, k, StringValue(x)), k)
    BY <2>1, CreateCell
  <2> QED BY <2>2, <2>3 DEF AgreeAt, Result
<1>4. AgreeAt(incrementBy(d, t, k, x), incrementBy(e, u, k, x), k)
  <2> DEFINE text == g.data[k].value.text
             sum == text[1] + x
             v == StringValue(<<sum>>)
             n == DecimalSize(sum) - TextSize(text)
             Body(c) == IF ~valueAs(c, k, "string") THEN Result(c, WrongTypeError)
                        ELSE IF ~parseStrictInteger(text) THEN Result(c, NotIntegerError)
                        ELSE IF sum \notin LLong THEN Result(c, OverflowError)
                        ELSE Result(touch(assign(c, k, v, n), k), Int_(sum))
  <2>1. incrementBy(d, t, k, x) = Body(g) /\ incrementBy(e, u, k, x) = Body(i)
    BY <1>2 DEF incrementBy, AddOverflows, g, i
  <2>2. SameCell(touch(assign(g, k, v, n), k), touch(assign(i, k, v, n), k), k)
    BY <1>2, UpdateCell
  <2>3. valueAs(g, k, "string") <=> valueAs(i, k, "string")
    BY <1>2 DEF valueAs
  <2> HIDE DEF v, n, sum, text
  <2>4. AgreeAt(Body(g), Body(i), k)
    BY <1>2, <2>2, <2>3 DEF AgreeAt, Result
  <2> QED BY <2>1, <2>4
<1>5. AgreeAt(append(d, t, k, x), append(e, u, k, x), k)
  <2> DEFINE longer == f.data[k].value.text \o x
             v == StringValue(longer)
             n == TextSize(x)
             Body(c) == IF ~Has(c, k) THEN Result(create(c, k, StringValue(x)), Int_(n))
                        ELSE IF ~valueAs(c, k, "string") THEN Result(c, WrongTypeError)
                        ELSE Result(touch(assign(c, k, v, n), k), Int_(TextSize(longer)))
  <2>1. append(d, t, k, x) = Body(f) /\ append(e, u, k, x) = Body(h)
    BY <1>1 DEF append, f, h
  <2>2. /\ Has(f, k) => SameCell(touch(assign(f, k, v, n), k), touch(assign(h, k, v, n), k), k)
        /\ ~Has(f, k) => SameCell(create(f, k, StringValue(x)), create(h, k, StringValue(x)), k)
    BY <1>1, UpdateCell, CreateCell
  <2>3. Has(f, k) => (valueAs(f, k, "string") <=> valueAs(h, k, "string"))
    BY <1>1 DEF valueAs
  <2> HIDE DEF v, n, longer
  <2>4. AgreeAt(Body(f), Body(h), k)
    BY <1>1, <2>2, <2>3 DEF AgreeAt, Result
  <2> QED BY <2>1, <2>4
<1> QED BY <1>3, <1>4, <1>5

\* Methods that write a list.
LEMMA ListAgreeAt ==
    ASSUME NEW d, NEW e, NEW t, NEW u, NEW k \in Key,
           Coupled(d, t, e, u, k), NEW x, NEW y
    PROVE  /\ AgreeAt(listPush(d, t, k, x, y), listPush(e, u, k, x, y), k)
           /\ AgreeAt(listPop(d, t, k, x), listPop(e, u, k, x), k)
<1> DEFINE f == findLive(d, t, k)
           h == findLive(e, u, k)
           g == findOrCreate(d, t, k, ListValue(<<>>))
           i == findOrCreate(e, u, k, ListValue(<<>>))
<1>1. /\ WellFormed(f) /\ WellFormed(h) /\ SameCell(f, h, k) /\ (Has(f, k) <=> Has(h, k))
      /\ Has(f, k) => f.data[k].value = h.data[k].value
  BY LiveCell
<1>2. /\ WellFormed(g) /\ WellFormed(i) /\ SameCell(g, i, k) /\ Has(g, k)
      /\ g.data[k].value = i.data[k].value
  BY LiveOrNewCell
<1> HIDE DEF f, h, g, i
<1>3. AgreeAt(listPush(d, t, k, x, y), listPush(e, u, k, x, y), k)
  <2> DEFINE items == g.data[k].value.items
             pushed == IF y = "Left" THEN Reverse(x) \o items ELSE items \o x
             v == ListValue(pushed)
             n == SumCost(x)
             Body(c) == IF ~valueAs(c, k, "list") THEN Result(c, WrongTypeError)
                        ELSE Result(touch(assign(c, k, v, n), k), Int_(Len(pushed)))
  <2>1. listPush(d, t, k, x, y) = Body(g) /\ listPush(e, u, k, x, y) = Body(i)
    BY <1>2 DEF listPush, g, i
  <2>2. SameCell(touch(assign(g, k, v, n), k), touch(assign(i, k, v, n), k), k)
    BY <1>2, UpdateCell
  <2>3. valueAs(g, k, "list") <=> valueAs(i, k, "list")
    BY <1>2 DEF valueAs
  <2> HIDE DEF v, n, pushed, items
  <2>4. AgreeAt(Body(g), Body(i), k)
    BY <1>2, <2>2, <2>3 DEF AgreeAt, Result
  <2> QED BY <2>1, <2>4
<1>4. AgreeAt(listPop(d, t, k, x), listPop(e, u, k, x), k)
  <2> DEFINE items == f.data[k].value.items
             value == IF x = "Left" THEN Head(items) ELSE Last(items)
             rest == IF x = "Left" THEN Tail(items) ELSE Front(items)
             v == ListValue(rest)
             n == -elementCost(value)
             Body(c) == IF ~Has(c, k) THEN Result(c, Nil)
                        ELSE IF ~valueAs(c, k, "list") THEN Result(c, WrongTypeError)
                        ELSE Result(IF rest = <<>> THEN erase(assign(c, k, v, n), k)
                                    ELSE touch(assign(c, k, v, n), k), Bulk(value))
  <2>1. listPop(d, t, k, x) = Body(f) /\ listPop(e, u, k, x) = Body(h)
    BY <1>1 DEF listPop, f, h
  <2>2. Has(f, k) =>
          /\ SameCell(touch(assign(f, k, v, n), k), touch(assign(h, k, v, n), k), k)
          /\ SameCell(erase(assign(f, k, v, n), k), erase(assign(h, k, v, n), k), k)
    BY <1>1, UpdateCell
  <2>3. Has(f, k) => (valueAs(f, k, "list") <=> valueAs(h, k, "list"))
    BY <1>1 DEF valueAs
  <2> HIDE DEF v, n, rest, value, items
  <2>4. AgreeAt(Body(f), Body(h), k)
    BY <1>1, <2>2, <2>3 DEF AgreeAt, Result
  <2> QED BY <2>1, <2>4
<1> QED BY <1>3, <1>4

\* Methods that write a hash.
LEMMA HashAgreeAt ==
    ASSUME NEW d, NEW e, NEW t, NEW u, NEW k \in Key,
           Coupled(d, t, e, u, k), NEW x
    PROVE  /\ AgreeAt(hashSet(d, t, k, x), hashSet(e, u, k, x), k)
           /\ AgreeAt(hashDelete(d, t, k, x), hashDelete(e, u, k, x), k)
<1> DEFINE f == findLive(d, t, k)
           h == findLive(e, u, k)
           g == findOrCreate(d, t, k, HashValue(<<>>))
           i == findOrCreate(e, u, k, HashValue(<<>>))
<1>1. /\ WellFormed(f) /\ WellFormed(h) /\ SameCell(f, h, k) /\ (Has(f, k) <=> Has(h, k))
      /\ Has(f, k) => f.data[k].value = h.data[k].value
  BY LiveCell
<1>2. /\ WellFormed(g) /\ WellFormed(i) /\ SameCell(g, i, k) /\ Has(g, k)
      /\ g.data[k].value = i.data[k].value
  BY LiveOrNewCell
<1> HIDE DEF f, h, g, i
<1>3. AgreeAt(hashSet(d, t, k, x), hashSet(e, u, k, x), k)
  <2> DEFINE Fold(fields) == FoldLeft(HashSetStep,
                                      [fields |-> fields, added |-> 0, bytes |-> 0], x)
             r == Fold(g.data[k].value.fields)
             v == HashValue(r.fields)
             n == r.bytes
             Body(c) == IF ~valueAs(c, k, "hash") THEN Result(c, WrongTypeError)
                        ELSE Result(touch(assign(c, k, v, n), k), Int_(r.added))
  <2>1. /\ hashSet(d, t, k, x) =
             IF ~valueAs(g, k, "hash") THEN Result(g, WrongTypeError)
             ELSE Result(touch(assign(g, k, HashValue(Fold(g.data[k].value.fields).fields),
                                      Fold(g.data[k].value.fields).bytes), k),
                         Int_(Fold(g.data[k].value.fields).added))
        /\ hashSet(e, u, k, x) =
             IF ~valueAs(i, k, "hash") THEN Result(i, WrongTypeError)
             ELSE Result(touch(assign(i, k, HashValue(Fold(i.data[k].value.fields).fields),
                                      Fold(i.data[k].value.fields).bytes), k),
                         Int_(Fold(i.data[k].value.fields).added))
    BY DEF hashSet, g, i
  <2> HIDE DEF Fold
  <2>2. hashSet(d, t, k, x) = Body(g) /\ hashSet(e, u, k, x) = Body(i)
    BY <1>2, <2>1
  <2>3. SameCell(touch(assign(g, k, v, n), k), touch(assign(i, k, v, n), k), k)
    BY <1>2, UpdateCell
  <2>4. valueAs(g, k, "hash") <=> valueAs(i, k, "hash")
    BY <1>2 DEF valueAs
  <2> HIDE DEF v, n, r
  <2>5. AgreeAt(Body(g), Body(i), k)
    BY <1>2, <2>3, <2>4 DEF AgreeAt, Result
  <2> QED BY <2>2, <2>5
<1>4. AgreeAt(hashDelete(d, t, k, x), hashDelete(e, u, k, x), k)
  <2> DEFINE fields == f.data[k].value.fields
             gone == x \cap DOMAIN fields
             kept == [z \in DOMAIN fields \ gone |-> fields[z]]
             v == HashValue(kept)
             n == -FieldsCost([z \in gone |-> fields[z]])
             Body(c) == IF ~Has(c, k) THEN Result(c, Int_(0))
                        ELSE IF ~valueAs(c, k, "hash") THEN Result(c, WrongTypeError)
                        ELSE Result(IF DOMAIN kept = {} THEN erase(assign(c, k, v, n), k)
                                    ELSE assign(c, k, v, n), Int_(Cardinality(gone)))
  <2>1. hashDelete(d, t, k, x) = Body(f)
    BY DEF hashDelete, f
  <2>2. hashDelete(e, u, k, x) = Body(h)
    BY <1>1 DEF hashDelete, h
  <2>3. Has(f, k) =>
          /\ SameCell(assign(f, k, v, n), assign(h, k, v, n), k)
          /\ SameCell(erase(assign(f, k, v, n), k), erase(assign(h, k, v, n), k), k)
    BY <1>1, UpdateCell
  <2>4. Has(f, k) => (valueAs(f, k, "hash") <=> valueAs(h, k, "hash"))
    BY <1>1 DEF valueAs
  <2> HIDE DEF v, n, kept, gone, fields
  <2>5. AgreeAt(Body(f), Body(h), k)
    BY <1>1, <2>3, <2>4 DEF AgreeAt, Result
  <2> QED BY <2>1, <2>2, <2>5
<1> QED BY <1>3, <1>4

\* Methods that write a set.
LEMMA SetAgreeAt ==
    ASSUME NEW d, NEW e, NEW t, NEW u, NEW k \in Key,
           Coupled(d, t, e, u, k), NEW x
    PROVE  /\ AgreeAt(setAdd(d, t, k, x), setAdd(e, u, k, x), k)
           /\ AgreeAt(setRemove(d, t, k, x), setRemove(e, u, k, x), k)
<1> DEFINE f == findLive(d, t, k)
           h == findLive(e, u, k)
           g == findOrCreate(d, t, k, SetValue({}))
           i == findOrCreate(e, u, k, SetValue({}))
<1>1. /\ WellFormed(f) /\ WellFormed(h) /\ SameCell(f, h, k) /\ (Has(f, k) <=> Has(h, k))
      /\ Has(f, k) => f.data[k].value = h.data[k].value
  BY LiveCell
<1>2. /\ WellFormed(g) /\ WellFormed(i) /\ SameCell(g, i, k) /\ Has(g, k)
      /\ g.data[k].value = i.data[k].value
  BY LiveOrNewCell
<1> HIDE DEF f, h, g, i
<1>3. AgreeAt(setAdd(d, t, k, x), setAdd(e, u, k, x), k)
  <2> DEFINE members == g.data[k].value.members
             new == x \ members
             v == SetValue(members \cup new)
             n == MembersCost(new)
             Body(c) == IF ~valueAs(c, k, "set") THEN Result(c, WrongTypeError)
                        ELSE Result(touch(assign(c, k, v, n), k), Int_(Cardinality(new)))
  <2>1. setAdd(d, t, k, x) = Body(g) /\ setAdd(e, u, k, x) = Body(i)
    BY <1>2 DEF setAdd, g, i
  <2>2. SameCell(touch(assign(g, k, v, n), k), touch(assign(i, k, v, n), k), k)
    BY <1>2, UpdateCell
  <2>3. valueAs(g, k, "set") <=> valueAs(i, k, "set")
    BY <1>2 DEF valueAs
  <2> HIDE DEF v, n, new, members
  <2>4. AgreeAt(Body(g), Body(i), k)
    BY <1>2, <2>2, <2>3 DEF AgreeAt, Result
  <2> QED BY <2>1, <2>4
<1>4. AgreeAt(setRemove(d, t, k, x), setRemove(e, u, k, x), k)
  <2> DEFINE members == f.data[k].value.members
             gone == x \cap members
             v == SetValue(members \ gone)
             n == -MembersCost(gone)
             Body(c) == IF ~Has(c, k) THEN Result(c, Int_(0))
                        ELSE IF ~valueAs(c, k, "set") THEN Result(c, WrongTypeError)
                        ELSE Result(IF members = gone THEN erase(assign(c, k, v, n), k)
                                    ELSE assign(c, k, v, n), Int_(Cardinality(gone)))
  <2>1. setRemove(d, t, k, x) = Body(f) /\ setRemove(e, u, k, x) = Body(h)
    BY <1>1 DEF setRemove, f, h
  <2>2. Has(f, k) =>
          /\ SameCell(assign(f, k, v, n), assign(h, k, v, n), k)
          /\ SameCell(erase(assign(f, k, v, n), k), erase(assign(h, k, v, n), k), k)
    BY <1>1, UpdateCell
  <2>3. Has(f, k) => (valueAs(f, k, "set") <=> valueAs(h, k, "set"))
    BY <1>1 DEF valueAs
  <2> HIDE DEF v, n, gone, members
  <2>4. AgreeAt(Body(f), Body(h), k)
    BY <1>1, <2>2, <2>3 DEF AgreeAt, Result
  <2> QED BY <2>1, <2>4
<1> QED BY <1>3, <1>4

\* persist: the value stays and the deadline goes.
LEMMA PersistAgreeAt ==
    ASSUME NEW d, NEW e, NEW t, NEW u, NEW k \in Key, Coupled(d, t, e, u, k)
    PROVE  AgreeAt(persist(d, t, k), persist(e, u, k), k)
<1> PICK f, h : f = findLive(d, t, k) /\ h = findLive(e, u, k)
  OBVIOUS
<1>1. /\ WellFormed(f) /\ WellFormed(h) /\ SameCell(f, h, k)
  BY LiveCell
<1> DEFINE Body(c) == IF ~Has(c, k) THEN Result(c, Bool(FALSE))
                      ELSE IF c.data[k].expiresAtMs = NO_EXPIRY THEN Result(c, Bool(FALSE))
                      ELSE Result(clearExpiry(c, k), Bool(TRUE))
<1>2. persist(d, t, k) = Body(f) /\ persist(e, u, k) = Body(h)
  BY DEF persist
<1>3. ASSUME NEW c, WellFormed(c), Has(c, k), NEW b, b = clearExpiry(c, k)
      PROVE  /\ Has(b, k) /\ b.data[k].value = c.data[k].value
             /\ b.data[k].expiresAtMs = NO_EXPIRY
  BY <1>3, ClearExpiryEffect DEF Has
<1>4. CASE ~Has(f, k) \/ f.data[k].expiresAtMs = NO_EXPIRY
  <2>1. Body(f) = Result(f, Bool(FALSE)) /\ Body(h) = Result(h, Bool(FALSE))
    BY <1>1, <1>4, Zenon DEF SameCell
  <2> HIDE DEF Body
  <2> QED BY <1>1, <1>2, <2>1 DEF AgreeAt, Result
<1>5. CASE Has(f, k) /\ f.data[k].expiresAtMs # NO_EXPIRY
  <2> PICK c, b : c = clearExpiry(f, k) /\ b = clearExpiry(h, k)
    OBVIOUS
  <2>1. Body(f) = Result(c, Bool(TRUE)) /\ Body(h) = Result(b, Bool(TRUE))
    BY <1>1, <1>5, Zenon DEF SameCell
  <2>2. Has(h, k) /\ f.data[k].value = h.data[k].value
    BY <1>1, <1>5 DEF SameCell
  <2>3. SameCell(c, b, k)
    BY <1>1, <1>3, <1>5, <2>2 DEF SameCell
  <2> HIDE DEF Body
  <2> QED BY <1>2, <2>1, <2>3 DEF AgreeAt, Result
<1> QED BY <1>4, <1>5

(***************************************************************************)
(* A command that amends one key: its handler makes one clock reading, and *)
(* either leaves nothing for the log and drops at most a dead key, or      *)
(* propagates itself and does not fail.                                    *)
(***************************************************************************)
Amender(cmd, k) ==
    \A d, c : Sound(d) =>
        LET r == writeHandler(d, c, cmd)
        IN  /\ Amending(d, r.db, cmd, k)
            /\ \/ r.log = <<>> /\ Trimmed(d, r.db, c[1])
               \/ r.log = <<cmd>> /\ ~IsError(r.ret)
            /\ \A e, b : Coupled(d, c[1], e, b[1], k) =>
                             AgreeAt(r, writeHandler(e, b, cmd), k)

\* A method that takes a step for k amends k.
LEMMA StepAmends ==
    ASSUME NEW d, NEW c, NEW t, NEW k, Sound(c), KeyStep(d, t, c, k), NEW cmd
    PROVE  Amending(d, c, cmd, k)
<1>1. Others(d, c, k) /\ (Gone(c, k) \/ Plain(c, k) \/ Kept(d, t, c, k))
  BY DEF KeyStep
<1>2. Kept(d, t, c, k) => Has(d, k) /\ d.data[k].expiresAtMs = c.data[k].expiresAtMs
  BY DEF Kept, keys, Has
<1> QED BY <1>1, <1>2 DEF Amending, Gone, Plain

\* What findLive left is all that changed.
LEMMA TrimmedFrom ==
    ASSUME NEW d, Sound(d), NEW t, NEW k, NEW f, f = findLive(d, t, k),
           NEW c, Others(f, c, k), SameCell(f, c, k)
    PROVE  Trimmed(d, c, t)
<1>1. Trimmed(d, f, t)
  BY FindLiveCell
<1>2. \A x : SameCell(f, c, x)
  BY OthersCell
<1>3. ASSUME NEW x PROVE SameCell(d, f, x) => SameCell(d, c, x)
  BY <1>2, CellFacts
<1>4. \A x : Has(f, x) <=> Has(c, x)
  BY <1>2 DEF SameCell
<1> QED BY <1>1, <1>3, <1>4 DEF Trimmed

\* A logged or silent command that amends one key.
LEMMA AmenderLogged ==
    ASSUME NEW d, NEW entries, NEW u \in Nat, Logged(d, entries, u), NEW k \in Key,
           NEW cmd, cmd.name \in WriteCommands, Amends(cmd, k), \A x : ~Overwrites(cmd, x),
           cmd.name # "PEXPIREAT", Amender(cmd, k),
           NEW c, c[1] \in Nat, NEW v \in Nat, u <= v, c[1] <= v,
           NEW r, r = writeHandler(d, c, cmd)
    PROVE  \/ r.log = <<>> /\ Logged(r.db, entries, v)
           \/ r.log = <<cmd>> /\ Logged(r.db, Append(entries, [cmd |-> cmd, at |-> c[1]]), v)
<1>0. Sound(d)
  BY DEF Logged
<1>1. /\ Amending(d, r.db, cmd, k)
      /\ \/ r.log = <<>> /\ Trimmed(d, r.db, c[1])
         \/ r.log = <<cmd>> /\ ~IsError(r.ret)
      /\ \A e, b : Coupled(d, c[1], e, b[1], k) => AgreeAt(r, writeHandler(e, b, cmd), k)
  BY <1>0 DEF Amender
<1>2. CASE r.log = <<>> /\ Trimmed(d, r.db, c[1])
  <2>1. Sound(r.db)
    BY <1>1 DEF Amending
  <2> QED BY <1>2, <2>1, QuietLogged
<1>3. CASE r.log = <<cmd>> /\ ~IsError(r.ret)
  <2>1. ASSUME NEW l, NEW t \in Nat, Sound(l), t >= v, NEW s, s = writeHandler(l, AllAt(t), cmd)
        PROVE  /\ Amending(l, s.db, cmd, k)
               /\ SameCell(findLive(d, c[1], k), findLive(l, t, k), k) =>
                     ~IsError(s.ret) /\ Visible(r.db, k, t) = Visible(s.db, k, t)
    <3>1. Amending(l, s.db, cmd, k)
      BY <2>1 DEF Amender
    <3>2. AllAt(t)[1] = t
      BY ReadingsAssumption DEF AllAt
    <3>3. ASSUME SameCell(findLive(d, c[1], k), findLive(l, t, k), k)
          PROVE  ~IsError(s.ret) /\ Visible(r.db, k, t) = Visible(s.db, k, t)
      <4>1. Coupled(d, c[1], l, AllAt(t)[1], k)
        BY <1>0, <2>1, <3>2, <3>3 DEF Coupled
      <4>2. AgreeAt(r, s, k)
        BY <1>1, <2>1, <4>1
      <4> QED BY <1>3, <4>2, VisibleFacts DEF AgreeAt
    <3> QED BY <3>1, <3>3
  <2>2. Matches(d, c[1], r.db, cmd, k, v)
    BY <2>1 DEF Matches
  <2> QED BY <1>1, <1>3, <2>2, AmendLogged
<1> QED BY <1>1, <1>2, <1>3

\* The handlers that propagate the command they were given.
LEMMA PropagateFacts ==
    ASSUME NEW condition, NEW r, NEW cmd, NEW p, p = PropagateIf(condition, r, cmd)
    PROVE  /\ p.db = r.db /\ p.ret = r.ret
           /\ condition /\ ~IsError(r.ret) => p.log = <<cmd>>
           /\ ~(condition /\ ~IsError(r.ret)) => p.log = <<>>
BY DEF PropagateIf, Reply

(***************************************************************************)
(* The commands that amend a key, by the one method of the database they   *)
(* call, and when they leave nothing for the log.                          *)
(***************************************************************************)
Given(cmd) == IF cmd.name \in {"INCR", "DECR"} THEN <<1>> ELSE cmd.amount
Delta(cmd) == IF cmd.name \in {"DECR", "DECRBY"} THEN -Given(cmd)[1] ELSE Given(cmd)[1]
Refused(cmd) == ~parseInteger(Given(cmd)) \/ (cmd.name = "DECRBY" /\ Given(cmd)[1] = LLongMin)

Counting == {"INCR", "DECR", "INCRBY", "DECRBY"}
Amenders == Counting \cup {"APPEND", "LPUSH", "RPUSH", "LPOP", "RPOP", "HSET", "HDEL",
                           "SADD", "SREM", "PERSIST"}

Persisted(r) == Result(r.db, Int_(IF r.ret[2] THEN 1 ELSE 0))

Method(cmd, d, t) ==
    CASE cmd.name \in Counting -> incrementBy(d, t, cmd.key, Delta(cmd))
      [] cmd.name = "APPEND" -> append(d, t, cmd.key, cmd.text)
      [] cmd.name = "LPUSH" -> listPush(d, t, cmd.key, cmd.words, "Left")
      [] cmd.name = "RPUSH" -> listPush(d, t, cmd.key, cmd.words, "Right")
      [] cmd.name = "LPOP" -> listPop(d, t, cmd.key, "Left")
      [] cmd.name = "RPOP" -> listPop(d, t, cmd.key, "Right")
      [] cmd.name = "HSET" -> hashSet(d, t, cmd.key, cmd.fields)
      [] cmd.name = "HDEL" -> hashDelete(d, t, cmd.key, cmd.members)
      [] cmd.name = "SADD" -> setAdd(d, t, cmd.key, cmd.members)
      [] cmd.name = "SREM" -> setRemove(d, t, cmd.key, cmd.members)
      [] cmd.name = "PERSIST" -> Persisted(persist(d, t, cmd.key))

Nothing(cmd, m) ==
    \/ IsError(m.ret)
    \/ cmd.name \in {"LPOP", "RPOP"} /\ m.ret = Nil
    \/ cmd.name \in {"HDEL", "SADD", "SREM", "PERSIST"} /\ m.ret = Int_(0)

\* What a handler does with the result of its method.
Calls(cmd, r, m) ==
    /\ r.db = m.db /\ r.ret = m.ret
    /\ IF Nothing(cmd, m) THEN r.log = <<>> ELSE r.log = <<cmd>>

\* What a method does to k at time t, and that it depends on the cell of k alone.
Behaves(cmd, k) ==
    /\ \A d, t : Sound(d) =>
           LET m == Method(cmd, d, t)
           IN  /\ Sound(m.db) /\ KeyStep(d, t, m.db, k)
               /\ Nothing(cmd, m) => Trimmed(d, m.db, t)
    /\ \A d, e, t, u : Coupled(d, t, e, u, k) =>
           AgreeAt(Method(cmd, d, t), Method(cmd, e, u), k)

\* A handler that calls one method of the database and logs what changed.
LEMMA MethodAmender ==
    ASSUME NEW cmd, NEW k,
           \A d, c : Calls(cmd, writeHandler(d, c, cmd), Method(cmd, d, c[1])),
           Behaves(cmd, k)
    PROVE  Amender(cmd, k)
<1> SUFFICES ASSUME NEW d, NEW c, Sound(d), NEW r, r = writeHandler(d, c, cmd)
             PROVE  /\ Amending(d, r.db, cmd, k)
                    /\ \/ r.log = <<>> /\ Trimmed(d, r.db, c[1])
                       \/ r.log = <<cmd>> /\ ~IsError(r.ret)
                    /\ \A e, b : Coupled(d, c[1], e, b[1], k) =>
                                     AgreeAt(r, writeHandler(e, b, cmd), k)
  BY DEF Amender
<1> PICK m : m = Method(cmd, d, c[1])
  OBVIOUS
<1>1. Calls(cmd, r, m)
  OBVIOUS
<1>2. /\ Sound(m.db) /\ KeyStep(d, c[1], m.db, k)
      /\ Nothing(cmd, m) => Trimmed(d, m.db, c[1])
  BY DEF Behaves
<1>3. Amending(d, r.db, cmd, k)
  BY <1>1, <1>2, StepAmends DEF Calls
<1>4. \/ r.log = <<>> /\ Trimmed(d, r.db, c[1])
      \/ r.log = <<cmd>> /\ ~IsError(r.ret)
  BY <1>1, <1>2 DEF Calls, Nothing
<1>5. ASSUME NEW e, NEW b, Coupled(d, c[1], e, b[1], k)
      PROVE  AgreeAt(r, writeHandler(e, b, cmd), k)
  <2> PICK s, n : s = writeHandler(e, b, cmd) /\ n = Method(cmd, e, b[1])
    OBVIOUS
  <2>1. Calls(cmd, s, n)
    OBVIOUS
  <2>2. AgreeAt(m, n, k)
    BY <1>5 DEF Behaves
  <2> QED BY <1>1, <2>1, <2>2 DEF AgreeAt, Calls
<1> QED BY <1>3, <1>4, <1>5

\* The handlers call their method and nothing else.
LEMMA HandlersCall ==
    ASSUME NEW cmd, cmd.name \in Amenders, cmd.name \in Counting => ~Refused(cmd),
           NEW d, NEW c, NEW r, r = writeHandler(d, c, cmd), NEW m, m = Method(cmd, d, c[1])
    PROVE  Calls(cmd, r, m)
<1>0. ASSUME NEW condition, r = PropagateIf(condition, m, cmd),
             Nothing(cmd, m) <=> ~(condition /\ ~IsError(m.ret))
      PROVE  Calls(cmd, r, m)
  BY <1>0, PropagateFacts DEF Calls
<1>1. CASE cmd.name \in Counting
  <2>1. r = cmdIncrBy(d, c, cmd)
    BY <1>1 DEF writeHandler, Counting
  <2>2. m = incrementBy(d, c[1], cmd.key, Delta(cmd))
    BY <1>1 DEF Method, Counting
  <2>3. cmdIncrBy(d, c, cmd) =
          IF ~parseInteger(Given(cmd)) THEN Reply(d, NotIntegerError, <<>>)
          ELSE IF cmd.name = "DECRBY" /\ Given(cmd)[1] = LLongMin
          THEN Reply(d, OverflowError, <<>>)
          ELSE Propagate(incrementBy(d, c[1], cmd.key, Delta(cmd)), cmd)
    BY Zenon DEF cmdIncrBy, Given, Delta
  <2>4. r = PropagateIf(TRUE, m, cmd)
    BY <1>1, <2>1, <2>2, <2>3, Zenon DEF Refused, Propagate
  <2> QED BY <1>0, <1>1, <2>4 DEF Nothing, Counting
<1>2. CASE cmd.name \in {"APPEND", "LPUSH", "RPUSH", "HSET"}
  <2>1. r = PropagateIf(TRUE, m, cmd)
    <3>1. CASE cmd.name = "APPEND"
      BY <3>1 DEF writeHandler, cmdAppend, Method, Counting, Propagate
    <3>2. CASE cmd.name = "LPUSH"
      BY <3>2 DEF writeHandler, cmdPush, Method, Counting, Propagate
    <3>3. CASE cmd.name = "RPUSH"
      BY <3>3 DEF writeHandler, cmdPush, Method, Counting, Propagate
    <3>4. CASE cmd.name = "HSET"
      BY <3>4 DEF writeHandler, cmdHset, Method, Counting, Propagate
    <3> QED BY <1>2, <3>1, <3>2, <3>3, <3>4
  <2> QED BY <1>0, <1>2, <2>1 DEF Nothing
<1>3. CASE cmd.name \in {"LPOP", "RPOP"}
  <2>1. r = PropagateIf(m.ret # Nil, m, cmd)
    BY <1>3 DEF writeHandler, cmdPop, Method, Counting, PropagateUnless
  <2> QED BY <1>0, <1>3, <2>1 DEF Nothing
<1>4. CASE cmd.name \in {"HDEL", "SADD", "SREM"}
  <2>1. r = PropagateIf(m.ret # Int_(0), m, cmd)
    BY <1>4 DEF writeHandler, cmdHdel, cmdSadd, cmdSrem, Method, Counting, PropagateUnless
  <2> QED BY <1>0, <1>4, <2>1 DEF Nothing
<1>5. CASE cmd.name = "PERSIST"
  <2> PICK p : p = persist(d, c[1], cmd.key)
    OBVIOUS
  <2>1. m = Persisted(p)
    BY <1>5 DEF Method, Counting
  <2>2. r = PropagateIf(p.ret[2], m, cmd)
    BY <1>5, <2>1 DEF writeHandler, cmdPersist, Persisted
  <2>3. ~IsError(m.ret) /\ (m.ret = Int_(0) <=> ~p.ret[2])
    BY <2>1 DEF Persisted, Result, IsError, Int_
  <2>4. Nothing(cmd, m) <=> ~p.ret[2]
    BY <1>5, <2>3 DEF Nothing
  <2> QED BY <1>0, <2>2, <2>3, <2>4
<1> QED BY <1>1, <1>2, <1>3, <1>4, <1>5 DEF Amenders

\* A method that finds its key missing creates it; one that finds it leaves
\* the database as findLive did.
LEMMA FoundOrNew ==
    ASSUME NEW d, Sound(d), NEW t, NEW k, NEW v,
           NEW f, f = findLive(d, t, k), NEW g, g = findOrCreate(d, t, k, v)
    PROVE  /\ Has(f, k) => g = f /\ Sound(f)
           /\ ~Has(f, k) => Has(g, k) /\ g.data[k].value = v
           /\ Has(f, k) => Trimmed(d, g, t)
<1>1. g = IF Has(f, k) THEN f ELSE create(f, k, v)
  BY DEF findOrCreate
<1>2. Trimmed(d, f, t) /\ Sound(f)
  BY FindLiveCell
<1>3. ~Has(f, k) => Has(g, k) /\ g.data[k].value = v
  BY <1>1 DEF create, DB, With, Entry, Has
<1> QED BY <1>1, <1>2, <1>3

\* INCR and its kin that fail leave the key as it was: a key that they
\* create counts from zero and cannot fail.
LEMMA IncrementQuiet ==
    ASSUME NEW d, Sound(d), NEW t, NEW k, NEW delta \in LLong,
           NEW m, m = incrementBy(d, t, k, delta), IsError(m.ret)
    PROVE  Trimmed(d, m.db, t)
<1> PICK f : f = findLive(d, t, k)
  OBVIOUS
<1> PICK g : g = findOrCreate(d, t, k, StringValue(<<0>>))
  OBVIOUS
<1> PICK text : text = g.data[k].value.text
  OBVIOUS
<1> PICK n : n = DecimalSize(text[1] + delta) - TextSize(text)
  OBVIOUS
<1> DEFINE sum == text[1] + delta
<1>1. m = IF ~valueAs(g, k, "string") THEN Result(g, WrongTypeError)
          ELSE IF ~parseStrictInteger(text) THEN Result(g, NotIntegerError)
          ELSE IF sum \notin LLong THEN Result(g, OverflowError)
          ELSE Result(touch(assign(g, k, StringValue(<<sum>>), n), k), Int_(sum))
  BY DEF incrementBy, AddOverflows
<1>2. CASE Has(f, k)
  <2>1. Trimmed(d, g, t)
    BY <1>2, FoundOrNew
  <2>2. m.db = g
    <3> PICK after : after = touch(assign(g, k, StringValue(<<sum>>), n), k)
      OBVIOUS
    <3> HIDE DEF sum
    <3> QED BY <1>1 DEF IsError, Result, Int_
  <2> QED BY <2>1, <2>2
<1>3. CASE ~Has(f, k)
  <2>1. g.data[k].value = StringValue(<<0>>)
    BY <1>3, FoundOrNew
  <2>2. text = <<0>> /\ valueAs(g, k, "string")
    BY <2>1 DEF StringValue, valueAs
  <2>3. parseStrictInteger(text) /\ sum = delta
    <3>1. 0 \in LLong
      BY LLongAssumption DEF LLong, LLongMin
    <3>2. 0 \notin Word
      BY <3>1, WordAssumption
    <3>3. delta \in Int
      BY LLongAssumption DEF LLong, LLongMin
    <3> QED BY <2>2, <3>2, <3>3 DEF parseStrictInteger
  <2> PICK after : after = touch(assign(g, k, StringValue(<<sum>>), n), k)
    OBVIOUS
  <2>4. m = Result(after, Int_(sum))
    BY <1>1, <2>2, <2>3
  <2> HIDE DEF sum
  <2> QED BY <2>4 DEF IsError, Result, Int_
<1> QED BY <1>2, <1>3

\* APPEND that fails leaves the key as it was.
LEMMA AppendQuiet ==
    ASSUME NEW d, Sound(d), NEW t, NEW k, NEW text,
           NEW m, m = append(d, t, k, text), IsError(m.ret)
    PROVE  Trimmed(d, m.db, t)
<1> PICK f : f = findLive(d, t, k)
  OBVIOUS
<1>1. Trimmed(d, f, t)
  BY FindLiveCell
<1>2. m.db = f
  BY DEF append, IsError, Result, Int_, WrongTypeError
<1> QED BY <1>1, <1>2

\* A push that fails leaves the key as it was; a key that it creates is a list.
LEMMA PushQuiet ==
    ASSUME NEW d, Sound(d), NEW t, NEW k, NEW words, NEW side,
           NEW m, m = listPush(d, t, k, words, side), IsError(m.ret)
    PROVE  Trimmed(d, m.db, t)
<1> PICK f : f = findLive(d, t, k)
  OBVIOUS
<1> PICK g : g = findOrCreate(d, t, k, ListValue(<<>>))
  OBVIOUS
<1>1. ~valueAs(g, k, "list") /\ m.db = g
  <2> PICK c, n : m = IF ~valueAs(g, k, "list") THEN Result(g, WrongTypeError)
                      ELSE Result(c, Int_(n))
    BY DEF listPush
  <2> QED BY DEF IsError, Result, Int_
<1>2. Has(f, k)
  <2>1. g.data[k].value = ListValue(<<>>) => valueAs(g, k, "list")
    BY DEF ListValue, valueAs
  <2> QED BY <1>1, <2>1, FoundOrNew
<1> QED BY <1>1, <1>2, FoundOrNew

\* A pop that returns nothing leaves the key as it was.
LEMMA PopQuiet ==
    ASSUME NEW d, Sound(d), NEW t, NEW k, NEW side,
           NEW m, m = listPop(d, t, k, side), IsError(m.ret) \/ m.ret = Nil
    PROVE  Trimmed(d, m.db, t)
<1> PICK f : f = findLive(d, t, k)
  OBVIOUS
<1>1. Trimmed(d, f, t)
  BY FindLiveCell
<1>2. m.db = f
  <2> PICK c, x : m = IF ~Has(f, k) THEN Result(f, Nil)
                      ELSE IF ~valueAs(f, k, "list") THEN Result(f, WrongTypeError)
                      ELSE Result(c, Bulk(x))
    BY DEF listPop
  <2> QED BY DEF IsError, Result, Bulk, Nil
<1> QED BY <1>1, <1>2

\* HSET that fails leaves the key as it was; a key that it creates is a hash.
LEMMA HashSetQuiet ==
    ASSUME NEW d, Sound(d), NEW t, NEW k, NEW pairs,
           NEW m, m = hashSet(d, t, k, pairs), IsError(m.ret)
    PROVE  Trimmed(d, m.db, t)
<1> PICK f : f = findLive(d, t, k)
  OBVIOUS
<1> PICK g : g = findOrCreate(d, t, k, HashValue(<<>>))
  OBVIOUS
<1>1. ~valueAs(g, k, "hash") /\ m.db = g
  <2> PICK c, n : m = IF ~valueAs(g, k, "hash") THEN Result(g, WrongTypeError)
                      ELSE Result(c, Int_(n))
    BY DEF hashSet
  <2> QED BY DEF IsError, Result, Int_
<1>2. Has(f, k)
  <2>1. g.data[k].value = HashValue(<<>>) => valueAs(g, k, "hash")
    BY DEF HashValue, valueAs
  <2> QED BY <1>1, <2>1, FoundOrNew
<1> QED BY <1>1, <1>2, FoundOrNew

\* PERSIST of a key without a deadline changes nothing.
LEMMA PersistQuiet ==
    ASSUME NEW d, Sound(d), NEW t, NEW k, NEW p, p = persist(d, t, k), ~p.ret[2]
    PROVE  Trimmed(d, p.db, t)
<1> PICK f : f = findLive(d, t, k)
  OBVIOUS
<1>1. Trimmed(d, f, t)
  BY FindLiveCell
<1>2. p.db = f
  <2> PICK c : p = IF ~Has(f, k) THEN Result(f, Bool(FALSE))
                   ELSE IF f.data[k].expiresAtMs = NO_EXPIRY THEN Result(f, Bool(FALSE))
                   ELSE Result(c, Bool(TRUE))
    BY DEF persist
  <2> QED BY DEF Result, Bool
<1> QED BY <1>1, <1>2

\* An assignment of the value that is there, and a touch after it.
LEMMA SameValue ==
    ASSUME NEW d, Sound(d), NEW t, NEW k, NEW f, f = findLive(d, t, k), Has(f, k),
           NEW v, v = f.data[k].value, NEW n, NEW c, c = assign(f, k, v, n)
    PROVE  Trimmed(d, c, t) /\ Trimmed(d, touch(c, k), t)
<1>1. k \in DOMAIN f.data
  BY DEF Has
<1>2. /\ DOMAIN c.data = DOMAIN f.data
      /\ \A x \in DOMAIN f.data \ {k} : SameEntry(f, c, x)
      /\ c.data[k].value = v
      /\ c.data[k].expiresAtMs = f.data[k].expiresAtMs
  BY <1>1, AssignEffect
<1>3. Others(f, c, k) /\ SameCell(f, c, k)
  BY <1>1, <1>2 DEF Others, SameCell, Has
<1>4. Others(f, touch(c, k), k) /\ SameCell(f, touch(c, k), k)
  <2> PICK b : b = touch(c, k)
    OBVIOUS
  <2>1. b.data = c.data
    BY TouchEffect
  <2>2. Others(f, b, k) /\ SameCell(f, b, k)
    BY <1>3, <2>1 DEF Others, SameCell, SameEntry, Has
  <2> QED BY <2>2
<1> QED BY <1>3, <1>4, TrimmedFrom

\* A key that holds a hash, or a set, holds a finite one with something in it.
LEMMA HashInside ==
    ASSUME NEW f, Sound(f), NEW k, Has(f, k), NEW v, v = f.data[k].value, v.type = "hash"
    PROVE  /\ v = HashValue(v.fields) /\ IsFiniteSet(DOMAIN v.fields)
           /\ v.fields = [x \in DOMAIN v.fields |-> v.fields[x]]
           /\ DOMAIN v.fields # {}
<1>1. IsValue(v) /\ NonEmpty(v)
  BY DEF Sound, EntryOK, Has
<1>2. v = HashValue(v.fields) /\ IsFields(v.fields)
  BY <1>1, ValueCases
<1> QED BY <1>1, <1>2 DEF NonEmpty, IsFields

\* The set in a sound database: finite, and not empty.
LEMMA SetInside ==
    ASSUME NEW f, Sound(f), NEW k, Has(f, k), NEW v, v = f.data[k].value, v.type = "set"
    PROVE  v = SetValue(v.members) /\ IsFiniteSet(v.members) /\ v.members # {}
<1>1. IsValue(v) /\ NonEmpty(v)
  BY DEF Sound, EntryOK, Has
<1>2. v = SetValue(v.members) /\ IsFiniteSet(v.members)
  BY <1>1, ValueCases
<1> QED BY <1>1, <1>2 DEF NonEmpty

\* A method that counted nothing.
LEMMA CountedNone ==
    ASSUME NEW c, NEW n, NEW m, m = Result(c, Int_(n)), IsError(m.ret) \/ m.ret = Int_(0)
    PROVE  n = 0 /\ m.db = c
BY DEF Result, Int_, IsError

\* HDEL that removes nothing changes nothing.
LEMMA HashDeleteQuiet ==
    ASSUME NEW d, Sound(d), NEW t, NEW k, NEW names,
           NEW m, m = hashDelete(d, t, k, names), IsError(m.ret) \/ m.ret = Int_(0)
    PROVE  Trimmed(d, m.db, t)
<1> PICK f : f = findLive(d, t, k)
  OBVIOUS
<1>1. Trimmed(d, f, t) /\ Sound(f)
  BY FindLiveCell
<1> DEFINE fields == f.data[k].value.fields
           gone == names \cap DOMAIN fields
           kept == [x \in DOMAIN fields \ gone |-> fields[x]]
           n == -FieldsCost([x \in gone |-> fields[x]])
           g == assign(f, k, HashValue(kept), n)
           after == IF DOMAIN kept = {} THEN erase(g, k) ELSE g
<1>2. m = IF ~Has(f, k) THEN Result(f, Int_(0))
          ELSE IF ~valueAs(f, k, "hash") THEN Result(f, WrongTypeError)
          ELSE Result(after, Int_(Cardinality(gone)))
  BY DEF hashDelete
<1>3. ASSUME Cardinality(gone) = 0, Has(f, k), valueAs(f, k, "hash")
      PROVE  Trimmed(d, after, t)
  <2>1. /\ f.data[k].value = HashValue(fields) /\ IsFiniteSet(DOMAIN fields)
        /\ fields = [x \in DOMAIN fields |-> fields[x]] /\ DOMAIN fields # {}
    <3> PICK v : v = f.data[k].value
      OBVIOUS
    <3>1. v.type = "hash" /\ fields = v.fields
      BY <1>3 DEF valueAs
    <3> HIDE DEF fields
    <3> QED BY <1>1, <1>3, <3>1, HashInside
  <2> HIDE DEF fields
  <2>2. gone = {}
    <3>1. IsFiniteSet(gone)
      BY <2>1, FS_Subset
    <3> HIDE DEF gone
    <3> QED BY <1>3, <3>1, FS_EmptySet
  <2>3. kept = fields
    <3>1. DOMAIN fields \ gone = DOMAIN fields
      BY <2>2
    <3> QED BY <2>1, <3>1
  <2> HIDE DEF kept, n
  <2>4. after = assign(f, k, f.data[k].value, n)
    BY <2>1, <2>3
  <2> QED BY <1>3, <2>4, SameValue
<1> HIDE DEF after, gone
<1>4. CASE ~Has(f, k)
  BY <1>1, <1>2, <1>4 DEF Result
<1>5. CASE Has(f, k) /\ ~valueAs(f, k, "hash")
  BY <1>1, <1>2, <1>5 DEF Result
<1>6. CASE Has(f, k) /\ valueAs(f, k, "hash")
  <2>1. m = Result(after, Int_(Cardinality(gone)))
    BY <1>2, <1>6
  <2> QED BY <1>3, <1>6, <2>1, CountedNone
<1> QED BY <1>4, <1>5, <1>6

\* SREM that removes nothing changes nothing.
LEMMA SetRemoveQuiet ==
    ASSUME NEW d, Sound(d), NEW t, NEW k, NEW words,
           NEW m, m = setRemove(d, t, k, words), IsError(m.ret) \/ m.ret = Int_(0)
    PROVE  Trimmed(d, m.db, t)
<1> PICK f : f = findLive(d, t, k)
  OBVIOUS
<1>1. Trimmed(d, f, t) /\ Sound(f)
  BY FindLiveCell
<1> DEFINE members == f.data[k].value.members
           gone == words \cap members
           n == -MembersCost(gone)
           g == assign(f, k, SetValue(members \ gone), n)
           after == IF members = gone THEN erase(g, k) ELSE g
<1>2. m = IF ~Has(f, k) THEN Result(f, Int_(0))
          ELSE IF ~valueAs(f, k, "set") THEN Result(f, WrongTypeError)
          ELSE Result(after, Int_(Cardinality(gone)))
  BY DEF setRemove
<1>3. ASSUME Cardinality(gone) = 0, Has(f, k), valueAs(f, k, "set")
      PROVE  Trimmed(d, after, t)
  <2>1. f.data[k].value = SetValue(members) /\ IsFiniteSet(members) /\ members # {}
    <3> PICK v : v = f.data[k].value
      OBVIOUS
    <3>1. v.type = "set" /\ members = v.members
      BY <1>3 DEF valueAs
    <3> HIDE DEF members
    <3> QED BY <1>1, <1>3, <3>1, SetInside
  <2> HIDE DEF members
  <2>2. gone = {}
    <3>1. IsFiniteSet(gone)
      BY <2>1, FS_Subset
    <3> HIDE DEF gone
    <3> QED BY <1>3, <3>1, FS_EmptySet
  <2>3. members \ gone = members
    BY <2>2
  <2> HIDE DEF n
  <2>4. after = assign(f, k, f.data[k].value, n)
    BY <2>1, <2>2, <2>3
  <2> QED BY <1>3, <2>4, SameValue
<1> HIDE DEF after, gone
<1>4. CASE ~Has(f, k)
  BY <1>1, <1>2, <1>4 DEF Result
<1>5. CASE Has(f, k) /\ ~valueAs(f, k, "set")
  BY <1>1, <1>2, <1>5 DEF Result
<1>6. CASE Has(f, k) /\ valueAs(f, k, "set")
  <2>1. m = Result(after, Int_(Cardinality(gone)))
    BY <1>2, <1>6
  <2> QED BY <1>3, <1>6, <2>1, CountedNone
<1> QED BY <1>4, <1>5, <1>6

\* SADD that adds nothing found its key, and changes nothing.
LEMMA SetAddQuiet ==
    ASSUME NEW d, Sound(d), NEW t, NEW k, NEW words, IsFiniteSet(words), words # {},
           NEW m, m = setAdd(d, t, k, words), IsError(m.ret) \/ m.ret = Int_(0)
    PROVE  Trimmed(d, m.db, t)
<1> PICK f : f = findLive(d, t, k)
  OBVIOUS
<1> PICK g : g = findOrCreate(d, t, k, SetValue({}))
  OBVIOUS
<1> PICK members : members = g.data[k].value.members
  OBVIOUS
<1> PICK new : new = words \ members
  OBVIOUS
<1> PICK n : n = MembersCost(new)
  OBVIOUS
<1> PICK after : after = touch(assign(g, k, SetValue(members \cup new), n), k)
  OBVIOUS
<1>1. m = IF ~valueAs(g, k, "set") THEN Result(g, WrongTypeError)
          ELSE Result(after, Int_(Cardinality(new)))
  BY DEF setAdd
<1>2. valueAs(g, k, "set") => new = {}
  <2>1. valueAs(g, k, "set") => Cardinality(new) = 0
    BY <1>1, CountedNone
  <2>2. IsFiniteSet(new)
    BY FS_Subset
  <2> QED BY <2>1, <2>2, FS_EmptySet
<1>3. Has(f, k)
  <2> SUFFICES ASSUME ~Has(f, k) PROVE FALSE
    OBVIOUS
  <2>1. g.data[k].value = SetValue({})
    BY FoundOrNew
  <2>2. valueAs(g, k, "set") /\ members = {}
    BY <2>1 DEF SetValue, valueAs
  <2> QED BY <1>2, <2>2
<1>4. g = f /\ Sound(f) /\ Trimmed(d, f, t)
  BY <1>3, FoundOrNew
<1>5. CASE ~valueAs(g, k, "set")
  BY <1>1, <1>4, <1>5 DEF Result
<1>6. CASE valueAs(g, k, "set")
  <2>1. f.data[k].value = SetValue(members)
    <3> PICK v : v = f.data[k].value
      OBVIOUS
    <3>1. v.type = "set" /\ members = v.members
      BY <1>3, <1>4, <1>6 DEF valueAs
    <3> QED BY <1>3, <1>4, <1>6, <3>1, SetInside
  <2>2. members \cup new = members
    BY <1>2, <1>6
  <2>3. after = touch(assign(f, k, f.data[k].value, n), k)
    BY <1>4, <2>1, <2>2
  <2>4. Trimmed(d, after, t)
    BY <1>3, <2>3, SameValue
  <2> QED BY <1>1, <1>6, <2>4 DEF Result
<1> QED BY <1>5, <1>6

\* Which method a command calls.
LEMMA MethodFacts ==
    ASSUME NEW cmd, NEW d, NEW t
    PROVE  /\ cmd.name \in Counting =>
                 Method(cmd, d, t) = incrementBy(d, t, cmd.key, Delta(cmd))
           /\ cmd.name = "APPEND" => Method(cmd, d, t) = append(d, t, cmd.key, cmd.text)
           /\ cmd.name \in {"LPUSH", "RPUSH"} =>
                 \E side \in {"Left", "Right"} : \A e, u :
                     Method(cmd, e, u) = listPush(e, u, cmd.key, cmd.words, side)
           /\ cmd.name \in {"LPOP", "RPOP"} =>
                 \E side \in {"Left", "Right"} : \A e, u :
                     Method(cmd, e, u) = listPop(e, u, cmd.key, side)
           /\ cmd.name = "HSET" => Method(cmd, d, t) = hashSet(d, t, cmd.key, cmd.fields)
           /\ cmd.name = "HDEL" => Method(cmd, d, t) = hashDelete(d, t, cmd.key, cmd.members)
           /\ cmd.name = "SADD" => Method(cmd, d, t) = setAdd(d, t, cmd.key, cmd.members)
           /\ cmd.name = "SREM" => Method(cmd, d, t) = setRemove(d, t, cmd.key, cmd.members)
           /\ cmd.name = "PERSIST" => Method(cmd, d, t) = Persisted(persist(d, t, cmd.key))
<1>1. cmd.name \in Counting => Method(cmd, d, t) = incrementBy(d, t, cmd.key, Delta(cmd))
  BY DEF Method, Counting
<1>2. /\ cmd.name = "LPUSH" =>
           \A e, u : Method(cmd, e, u) = listPush(e, u, cmd.key, cmd.words, "Left")
      /\ cmd.name = "RPUSH" =>
           \A e, u : Method(cmd, e, u) = listPush(e, u, cmd.key, cmd.words, "Right")
  BY DEF Method, Counting
<1>3. /\ cmd.name = "LPOP" => \A e, u : Method(cmd, e, u) = listPop(e, u, cmd.key, "Left")
      /\ cmd.name = "RPOP" => \A e, u : Method(cmd, e, u) = listPop(e, u, cmd.key, "Right")
  BY DEF Method, Counting
<1>4. /\ cmd.name = "APPEND" => Method(cmd, d, t) = append(d, t, cmd.key, cmd.text)
      /\ cmd.name = "HSET" => Method(cmd, d, t) = hashSet(d, t, cmd.key, cmd.fields)
      /\ cmd.name = "HDEL" => Method(cmd, d, t) = hashDelete(d, t, cmd.key, cmd.members)
      /\ cmd.name = "SADD" => Method(cmd, d, t) = setAdd(d, t, cmd.key, cmd.members)
      /\ cmd.name = "SREM" => Method(cmd, d, t) = setRemove(d, t, cmd.key, cmd.members)
      /\ cmd.name = "PERSIST" => Method(cmd, d, t) = Persisted(persist(d, t, cmd.key))
  BY DEF Method, Counting
<1>5. cmd.name \in {"LPUSH", "RPUSH"} =>
        \E side \in {"Left", "Right"} : \A e, u :
            Method(cmd, e, u) = listPush(e, u, cmd.key, cmd.words, side)
  BY <1>2
<1>6. cmd.name \in {"LPOP", "RPOP"} =>
        \E side \in {"Left", "Right"} : \A e, u :
            Method(cmd, e, u) = listPop(e, u, cmd.key, side)
  BY <1>3
<1> QED BY <1>1, <1>4, <1>5, <1>6

\* What a counting command adds is a long long.
LEMMA DeltaType ==
    ASSUME NEW cmd, cmd.name \in Counting, IsCommand(cmd, MaxReadings), ~Refused(cmd)
    PROVE  Delta(cmd) \in LLong
<1>1. Given(cmd) \in Seq(Piece) => Given(cmd)[1] \in LLong
  BY DEF Refused, parseInteger, parseStrictInteger, Piece
<1>2. LLongMax \in Nat \ {0} /\ LLong = -LLongMax - 1 .. LLongMax /\ LLongMin = -LLongMax - 1
  BY LLongAssumption DEF LLong, LLongMin
<1>3. CASE cmd.name \in {"INCR", "DECR"}
  <2>1. Given(cmd) = <<1>>
    BY <1>3 DEF Given
  <2>2. Delta(cmd) \in {1, -1}
    BY <1>3, <2>1 DEF Delta
  <2> QED BY <1>2, <2>2
<1>4. CASE cmd.name = "INCRBY"
  <2>1. Given(cmd) = cmd.amount /\ cmd.amount \in Seq(Piece)
    BY <1>4 DEF Given, IsCommand
  <2> QED BY <1>1, <1>4, <2>1 DEF Delta
<1>5. CASE cmd.name = "DECRBY"
  <2>1. Given(cmd) = cmd.amount /\ cmd.amount \in Seq(Piece)
    BY <1>5 DEF Given, IsCommand
  <2>2. Given(cmd)[1] \in LLong /\ Given(cmd)[1] # LLongMin
    BY <1>1, <1>5, <2>1 DEF Refused
  <2>3. Delta(cmd) = -Given(cmd)[1]
    BY <1>5 DEF Delta
  <2> PICK n : n = Given(cmd)[1]
    OBVIOUS
  <2> QED BY <1>2, <2>2, <2>3
<1> QED BY <1>3, <1>4, <1>5 DEF Counting

\* The methods behind the commands that amend a key.
LEMMA AmendersBehave ==
    ASSUME NEW cmd, cmd.name \in Amenders, IsCommand(cmd, MaxReadings),
           cmd.name \in Counting => ~Refused(cmd), NEW k, k = cmd.key
    PROVE  Behaves(cmd, k)
<1>1. k \in Key
  BY DEF IsCommand, Amenders, Counting, KeylessCommands
<1>2. ASSUME NEW d, NEW t, Sound(d), NEW m, m = Method(cmd, d, t)
      PROVE  /\ Sound(m.db) /\ KeyStep(d, t, m.db, k)
             /\ Nothing(cmd, m) => Trimmed(d, m.db, t)
  <2>0. WellFormed(d)
    BY <1>2 DEF Sound
  <2>1. CASE cmd.name \in Counting
    <3>1. m = incrementBy(d, t, k, Delta(cmd)) /\ Delta(cmd) \in LLong
      BY <1>2, <2>1, MethodFacts, DeltaType
    <3>2. Delta(cmd) \in Int
      BY <3>1, LLongAssumption DEF LLong, LLongMin
    <3>3. Sound(m.db) /\ KeyStep(d, t, m.db, k)
      BY <1>1, <1>2, <2>0, <3>1, <3>2, IncrementSound, StringStep
    <3>4. Nothing(cmd, m) => IsError(m.ret)
      BY <2>1 DEF Nothing, Counting
    <3> QED BY <1>2, <3>1, <3>3, <3>4, IncrementQuiet
  <2>2. CASE cmd.name = "APPEND"
    <3>1. m = append(d, t, k, cmd.text)
      BY <1>2, <2>2, MethodFacts
    <3>2. cmd.text \in Seq(Piece)
      <4>1. cmd.text \in Seq(Word)
        BY <2>2 DEF IsCommand
      <4> QED BY <4>1 DEF Piece
    <3>3. Sound(m.db) /\ KeyStep(d, t, m.db, k)
      BY <1>1, <1>2, <2>0, <3>1, <3>2, AppendSound, StringStep
    <3>4. Nothing(cmd, m) => IsError(m.ret)
      BY <2>2 DEF Nothing
    <3> QED BY <1>2, <3>1, <3>3, <3>4, AppendQuiet
  <2>3. CASE cmd.name \in {"LPUSH", "RPUSH"}
    <3>1. PICK side : m = listPush(d, t, k, cmd.words, side)
      BY <1>2, <2>3, MethodFacts
    <3>2. cmd.words \in Seq(Word) /\ cmd.words # <<>>
      BY <2>3 DEF IsCommand
    <3>3. Sound(m.db) /\ KeyStep(d, t, m.db, k)
      BY <1>1, <1>2, <2>0, <3>1, <3>2, ListPushSound, ListStep
    <3>4. Nothing(cmd, m) => IsError(m.ret)
      BY <2>3 DEF Nothing
    <3> QED BY <1>2, <3>1, <3>3, <3>4, PushQuiet
  <2>4. CASE cmd.name \in {"LPOP", "RPOP"}
    <3>1. PICK side : m = listPop(d, t, k, side)
      BY <1>2, <2>4, MethodFacts
    <3>3. Sound(m.db) /\ KeyStep(d, t, m.db, k)
      BY <1>1, <1>2, <2>0, <3>1, ListPopSound, ListStep
    <3>4. Nothing(cmd, m) => IsError(m.ret) \/ m.ret = Nil
      BY <2>4 DEF Nothing
    <3> QED BY <1>2, <3>1, <3>3, <3>4, PopQuiet
  <2>5. CASE cmd.name = "HSET"
    <3>1. m = hashSet(d, t, k, cmd.fields)
      BY <1>2, <2>5, MethodFacts
    <3>2. cmd.fields \in Seq(Word \X Word) \ {<<>>}
      BY <2>5 DEF IsCommand
    <3>3. PICK n \in Nat \ {0} : cmd.fields \in [1 .. n -> Word \X Word]
      <4> PICK s : s = cmd.fields
        OBVIOUS
      <4>1. s \in Seq(Word \X Word) /\ s # <<>>
        BY <3>2
      <4>2. Len(s) \in Nat \ {0} /\ s \in [1 .. Len(s) -> Word \X Word]
        BY <4>1
      <4> QED BY <4>2
    <3>4. Sound(m.db) /\ KeyStep(d, t, m.db, k)
      BY <1>1, <1>2, <2>0, <3>1, <3>3, HashSetSound, HashStep
    <3>5. Nothing(cmd, m) => IsError(m.ret)
      BY <2>5 DEF Nothing
    <3> QED BY <1>2, <3>1, <3>4, <3>5, HashSetQuiet
  <2>6. CASE cmd.name = "HDEL"
    <3>1. m = hashDelete(d, t, k, cmd.members)
      BY <1>2, <2>6, MethodFacts
    <3>2. Sound(m.db) /\ KeyStep(d, t, m.db, k)
      BY <1>1, <1>2, <2>0, <3>1, HashDeleteSound, HashStep
    <3>3. Nothing(cmd, m) => IsError(m.ret) \/ m.ret = Int_(0)
      BY <2>6 DEF Nothing
    <3> QED BY <1>2, <3>1, <3>2, <3>3, HashDeleteQuiet
  <2>7. CASE cmd.name = "SADD"
    <3>1. m = setAdd(d, t, k, cmd.members)
      BY <1>2, <2>7, MethodFacts
    <3>2. IsFiniteSet(cmd.members) /\ cmd.members \in SUBSET Word /\ cmd.members # {}
      BY <2>7 DEF IsCommand
    <3>3. Sound(m.db) /\ KeyStep(d, t, m.db, k)
      BY <1>1, <1>2, <2>0, <3>1, <3>2, SetAddSound, SetStep
    <3>4. Nothing(cmd, m) => IsError(m.ret) \/ m.ret = Int_(0)
      BY <2>7 DEF Nothing
    <3> QED BY <1>2, <3>1, <3>2, <3>3, <3>4, SetAddQuiet
  <2>8. CASE cmd.name = "SREM"
    <3>1. m = setRemove(d, t, k, cmd.members)
      BY <1>2, <2>8, MethodFacts
    <3>2. Sound(m.db) /\ KeyStep(d, t, m.db, k)
      BY <1>1, <1>2, <2>0, <3>1, SetRemoveSound, SetStep
    <3>3. Nothing(cmd, m) => IsError(m.ret) \/ m.ret = Int_(0)
      BY <2>8 DEF Nothing
    <3> QED BY <1>2, <3>1, <3>2, <3>3, SetRemoveQuiet
  <2>9. CASE cmd.name = "PERSIST"
    <3> PICK p : p = persist(d, t, k)
      OBVIOUS
    <3>1. m = Persisted(p)
      BY <1>2, <2>9, MethodFacts
    <3>2. m.db = p.db /\ ~IsError(m.ret) /\ (m.ret = Int_(0) <=> ~p.ret[2])
      BY <3>1 DEF Persisted, Result, IsError, Int_
    <3>3. Sound(p.db)
      <4>1. 0 \in Nat /\ 0 \in Int /\ (0 > 0 => 0 \in LLong)
        OBVIOUS
      <4> QED BY <1>2, <4>1, ExpireAtMsSound
    <3>4. KeyStep(d, t, p.db, k)
      BY <1>1, <2>0, LookupStep
    <3>5. Nothing(cmd, m) => ~p.ret[2]
      BY <2>9, <3>2 DEF Nothing
    <3> QED BY <1>2, <3>2, <3>3, <3>4, <3>5, PersistQuiet
  <2> QED BY <2>1, <2>2, <2>3, <2>4, <2>5, <2>6, <2>7, <2>8, <2>9 DEF Amenders
<1>3. ASSUME NEW d, NEW e, NEW t, NEW u, Coupled(d, t, e, u, k)
      PROVE  AgreeAt(Method(cmd, d, t), Method(cmd, e, u), k)
  <2>1. CASE cmd.name \in Counting \cup {"APPEND"}
    BY <1>1, <1>3, <2>1, MethodFacts, StringAgreeAt
  <2>2. CASE cmd.name \in {"LPUSH", "RPUSH"}
    <3>1. PICK side : \A b, w : Method(cmd, b, w) = listPush(b, w, k, cmd.words, side)
      BY <2>2, MethodFacts
    <3> QED BY <1>1, <1>3, <3>1, ListAgreeAt
  <2>3. CASE cmd.name \in {"LPOP", "RPOP"}
    <3>1. PICK side : \A b, w : Method(cmd, b, w) = listPop(b, w, k, side)
      BY <2>3, MethodFacts
    <3> QED BY <1>1, <1>3, <3>1, ListAgreeAt
  <2>4. CASE cmd.name \in {"HSET", "HDEL"}
    BY <1>1, <1>3, <2>4, MethodFacts, HashAgreeAt
  <2>5. CASE cmd.name \in {"SADD", "SREM"}
    BY <1>1, <1>3, <2>5, MethodFacts, SetAgreeAt
  <2>6. CASE cmd.name = "PERSIST"
    <3> PICK p, q : p = persist(d, t, k) /\ q = persist(e, u, k)
      OBVIOUS
    <3>1. Method(cmd, d, t) = Persisted(p) /\ Method(cmd, e, u) = Persisted(q)
      BY <2>6, MethodFacts
    <3>2. AgreeAt(p, q, k)
      BY <1>1, <1>3, PersistAgreeAt
    <3>3. AgreeAt(Persisted(p), Persisted(q), k)
      BY <3>2 DEF AgreeAt, Persisted, Result
    <3> QED BY <3>1, <3>3
  <2> QED BY <2>1, <2>2, <2>3, <2>4, <2>5, <2>6 DEF Amenders
<1> QED BY <1>2, <1>3 DEF Behaves

(***************************************************************************)
(* The loops over keys.                                                    *)
(***************************************************************************)
\* Dead keys may go in several turns.
LEMMA TrimmedAgain ==
    ASSUME NEW d, Sound(d), NEW e, NEW f, NEW w \in Nat, NEW t \in Nat, NEW v \in Nat,
           w <= v, t <= v, Trimmed(d, e, w), Trimmed(e, f, t)
    PROVE  Trimmed(d, f, v)
<1> SUFFICES ASSUME NEW x \in Key
             PROVE  \/ SameCell(d, f, x)
                    \/ ~Has(f, x) /\ Has(d, x) /\ IsExpired(d.data[x], v)
  BY DEF Trimmed
<1>1. Has(d, x) => d.data[x].expiresAtMs \in Int
  BY LLongAssumption DEF Sound, EntryOK, LLong, LLongMin, Has
<1>2. \/ SameCell(d, e, x)
      \/ ~Has(e, x) /\ Has(d, x) /\ IsExpired(d.data[x], w)
  BY DEF Trimmed
<1>3. \/ SameCell(e, f, x)
      \/ ~Has(f, x) /\ Has(e, x) /\ IsExpired(e.data[x], t)
  BY DEF Trimmed
<1>4. CASE SameCell(d, e, x) /\ SameCell(e, f, x)
  BY <1>4, CellFacts
<1>5. CASE SameCell(d, e, x) /\ ~Has(f, x) /\ Has(e, x) /\ IsExpired(e.data[x], t)
  <2>1. Has(d, x) /\ d.data[x].expiresAtMs = e.data[x].expiresAtMs
    BY <1>5 DEF SameCell
  <2> QED BY <1>1, <1>5, <2>1 DEF IsExpired
<1>6. CASE ~Has(e, x) /\ Has(d, x) /\ IsExpired(d.data[x], w)
  <2>1. ~Has(f, x)
    BY <1>3, <1>6 DEF SameCell
  <2> QED BY <1>1, <1>6, <2>1 DEF IsExpired
<1> QED BY <1>2, <1>3, <1>4, <1>5, <1>6

\* One turn of DEL.
LEMMA DelOne ==
    ASSUME NEW d, Sound(d), NEW t, NEW k \in Key, NEW r, r = del(d, t, k)
    PROVE  /\ Sound(r.db) /\ ~Has(r.db, k)
           /\ Others(d, r.db, k)
           /\ r.ret = Bool(TRUE) \/ (r.ret = Bool(FALSE) /\ Trimmed(d, r.db, t))
<1>1. WellFormed(d)
  BY DEF Sound
<1>2. Sound(r.db) /\ Others(d, r.db, k)
  BY <1>1, KeyspaceSound, LookupStep DEF KeyStep
<1> PICK f : f = findLive(d, t, k)
  OBVIOUS
<1>3. Sound(f) /\ Trimmed(d, f, t)
  BY FindLiveCell
<1>4. r = IF Has(f, k) THEN Result(erase(f, k), Bool(TRUE)) ELSE Result(f, Bool(FALSE))
  BY DEF del
<1>5. CASE Has(f, k)
  <2> PICK e : e = erase(f, k)
    OBVIOUS
  <2>1. ~Has(e, k)
    BY <1>3, <1>5, EraseCell DEF Sound
  <2>2. r.db = e /\ r.ret = Bool(TRUE)
    BY <1>4, <1>5 DEF Result
  <2> QED BY <1>2, <2>1, <2>2
<1>6. CASE ~Has(f, k)
  <2>1. r.db = f /\ r.ret = Bool(FALSE)
    BY <1>4, <1>6 DEF Result
  <2> QED BY <1>2, <1>3, <1>6, <2>1
<1> QED BY <1>5, <1>6

\* The same, as a turn of the loop.
LEMMA DelTurn ==
    ASSUME NEW a, Sound(a.db), a.count \in Nat, NEW c, NEW cmd, NEW i,
           NEW k \in Key, k = cmd.keys[i], NEW b, b = DelStep(c, cmd, a, i)
    PROVE  /\ Sound(b.db) /\ ~Has(b.db, k) /\ b.count \in Nat
           /\ Others(a.db, b.db, k)
           /\ b.count = 0 => a.count = 0 /\ Trimmed(a.db, b.db, c[i])
<1> PICK r : r = del(a.db, c[i], k)
  OBVIOUS
<1>1. b = Counted(a, r)
  BY DEF DelStep
<1>2. b.db = r.db /\ b.count = a.count + (IF r.ret[2] THEN 1 ELSE 0)
  BY <1>1 DEF Counted
<1>3. /\ Sound(r.db) /\ ~Has(r.db, k)
      /\ Others(a.db, r.db, k)
      /\ r.ret = Bool(TRUE) \/ (r.ret = Bool(FALSE) /\ Trimmed(a.db, r.db, c[i]))
  BY DelOne
<1>4. CASE r.ret = Bool(TRUE)
  <2>1. b.count = a.count + 1
    BY <1>2, <1>4 DEF Bool
  <2> QED BY <1>2, <1>3, <2>1
<1>5. CASE r.ret = Bool(FALSE) /\ Trimmed(a.db, r.db, c[i])
  <2>1. b.count = a.count
    BY <1>2, <1>5 DEF Bool
  <2> QED BY <1>2, <1>3, <1>5, <2>1
<1> QED BY <1>3, <1>4, <1>5

AreKeys(ks) == ks \in Seq(Key)

\* The loop of DEL removes its keys and nothing else; if it counts none,
\* those were dead or missing.
LEMMA DelLoopFacts ==
    ASSUME NEW d, Sound(d), NEW cmd, NEW ks, ks = cmd.keys, AreKeys(ks),
           NEW v \in Nat, NEW c, \A i \in 1 .. Len(ks) : c[i] \in Nat /\ c[i] <= v,
           NEW all, all = DelLoop(c, cmd, [db |-> d, count |-> 0])
    PROVE  /\ Sound(all.db) /\ all.count \in Nat
           /\ \A x \in Key : IF \E i \in 1 .. Len(ks) : ks[i] = x THEN ~Has(all.db, x)
                             ELSE SameCell(d, all.db, x)
           /\ all.count = 0 => Trimmed(d, all.db, v)
<1> DEFINE base == [db |-> d, count |-> 0]
<1> PICK m : m = Len(ks)
  OBVIOUS
<1>0. m \in Nat /\ DOMAIN ks = 1 .. m /\ \A i \in 1 .. m : ks[i] \in Key
  BY DEF AreKeys
<1>1. PICK h : /\ h[0] = base
               /\ \A n \in 0 .. m - 1 : h[n + 1] = DelStep(c, cmd, h[n], n + 1)
               /\ all = h[m]
  <2> HIDE DEF base
  <2>1. all = DelLoop(c, cmd, base)
    BY DEF base
  <2>2. PICK h : Runs("DEL", c, cmd, base, h, m) /\ DelLoop(c, cmd, base) = h[m]
    <3>1. cmd.keys \in Seq(Key)
      BY DEF AreKeys
    <3> QED BY <3>1, DelChain
  <2> QED BY <2>1, <2>2, LoopSteps DEF Runs
<1> DEFINE Q(n, a) == /\ Sound(a.db) /\ a.count \in Nat
                      /\ \A x \in Key : IF \E i \in 1 .. n : ks[i] = x THEN ~Has(a.db, x)
                                        ELSE SameCell(d, a.db, x)
                      /\ a.count = 0 => Trimmed(d, a.db, v)
           P == {n \in Nat : n <= m => Q(n, h[n])}
<1>3. 0 \in P
  <2>1. h[0].db = d /\ h[0].count = 0
    BY <1>1
  <2>2. Trimmed(d, d, v) /\ \A x : SameCell(d, d, x)
    BY CellFacts DEF Trimmed
  <2> QED BY <2>1, <2>2
<1>4. ASSUME NEW n \in Nat, n \in P PROVE n + 1 \in P
  <2> SUFFICES ASSUME n + 1 <= m PROVE Q(n + 1, h[n + 1])
    OBVIOUS
  <2>1. n \in 0 .. m - 1 /\ n + 1 \in 1 .. m /\ Q(n, h[n])
    BY <1>0, <1>4
  <2> PICK a, b, k : a = h[n] /\ b = h[n + 1] /\ k = ks[n + 1]
    OBVIOUS
  <2>2. b = DelStep(c, cmd, a, n + 1) /\ k \in Key /\ c[n + 1] \in Nat /\ c[n + 1] <= v
    BY <1>0, <1>1, <2>1
  <2>4. /\ Sound(a.db) /\ a.count \in Nat
        /\ \A x \in Key : IF \E i \in 1 .. n : ks[i] = x THEN ~Has(a.db, x)
                          ELSE SameCell(d, a.db, x)
        /\ a.count = 0 => Trimmed(d, a.db, v)
    BY <2>1
  <2>5. /\ Sound(b.db) /\ ~Has(b.db, k) /\ b.count \in Nat
        /\ Others(a.db, b.db, k)
        /\ b.count = 0 => a.count = 0 /\ Trimmed(a.db, b.db, c[n + 1])
    <3>1. Sound(a.db) /\ a.count \in Nat /\ k \in Key /\ k = cmd.keys[n + 1]
      BY <2>2, <2>4
    <3> QED BY <2>2, <3>1, DelTurn
  <2>7. b.count = 0 => Trimmed(d, b.db, v)
    BY <2>2, <2>4, <2>5, TrimmedAgain
  <2>8. ASSUME NEW x \in Key
        PROVE  IF \E i \in 1 .. n + 1 : ks[i] = x THEN ~Has(b.db, x)
               ELSE SameCell(d, b.db, x)
    <3>1. (\E i \in 1 .. n + 1 : ks[i] = x) <=> (\E i \in 1 .. n : ks[i] = x) \/ k = x
      BY <2>1
    <3>2. x # k => SameCell(a.db, b.db, x)
      BY <2>5, OthersCell
    <3>3. x = k => ~Has(b.db, x)
      BY <2>5
    <3>4. SameCell(a.db, b.db, x) => (Has(a.db, x) <=> Has(b.db, x))
      BY DEF SameCell
    <3> QED BY <2>4, <3>1, <3>2, <3>3, <3>4, CellFacts
  <2> QED BY <2>5, <2>7, <2>8
<1>5. m \in P
  <2> HIDE DEF P
  <2> QED BY <1>0, <1>3, <1>4, InductionOnNat
<1> QED BY <1>0, <1>1, <1>5

\* What reading k may leave: k is dropped if it is dead, or moved to the front.
Peeks(d, t, k, c) ==
    LET f == findLive(d, t, k) IN c = f \/ (Has(f, k) /\ c = touch(f, k))

\* Reading k drops it if it is dead, and nothing else.
LEMMA PeekQuiet ==
    ASSUME NEW d, Sound(d), NEW t, NEW k, NEW c, Peeks(d, t, k, c)
    PROVE  Sound(c) /\ Trimmed(d, c, t)
<1> PICK f : f = findLive(d, t, k)
  OBVIOUS
<1>1. Sound(f) /\ Trimmed(d, f, t)
  BY FindLiveCell
<1>2. CASE c = f
  BY <1>1, <1>2
<1>3. CASE Has(f, k) /\ c = touch(f, k)
  <2>1. c.data = f.data
    BY <1>3, TouchEffect
  <2>2. Others(f, c, k) /\ SameCell(f, c, k)
    BY <2>1 DEF Others, SameCell, SameEntry, Has
  <2> QED BY <1>1, <1>3, <2>2, TouchSound, TrimmedFrom
<1> QED BY <1>2, <1>3 DEF Peeks

\* The methods that read.
LEMMA LookupPeeks ==
    ASSUME NEW d, NEW t, NEW k, NEW x
    PROVE  /\ Peeks(d, t, k, exists(d, t, k).db) /\ Peeks(d, t, k, type(d, t, k).db)
           /\ Peeks(d, t, k, stringLength(d, t, k).db)
           /\ Peeks(d, t, k, listLength(d, t, k).db)
           /\ Peeks(d, t, k, hashLength(d, t, k).db)
           /\ Peeks(d, t, k, setCardinality(d, t, k).db)
           /\ Peeks(d, t, k, hashExists(d, t, k, x).db)
           /\ Peeks(d, t, k, setIsMember(d, t, k, x).db)
           /\ Peeks(d, t, k, ttlMs(d, t, x, k).db) /\ Peeks(d, t, k, ttl(d, t, x, k).db)
<1> DEFINE f == findLive(d, t, k)
<1>1. /\ exists(d, t, k).db = f /\ type(d, t, k).db = f
      /\ stringLength(d, t, k).db = f /\ listLength(d, t, k).db = f
  BY DEF exists, type, stringLength, listLength, Result
<1>2. /\ hashLength(d, t, k).db = f /\ setCardinality(d, t, k).db = f
      /\ hashExists(d, t, k, x).db = f /\ setIsMember(d, t, k, x).db = f
  BY DEF hashLength, setCardinality, hashExists, setIsMember, Result
<1>3. ttlMs(d, t, x, k).db = f
  BY DEF ttlMs, Result
<1>4. ttl(d, t, x, k).db = ttlMs(d, t, x, k).db
  BY DEF ttl, Result
<1> QED BY <1>1, <1>2, <1>3, <1>4 DEF Peeks

\* The same for the methods that move k to the front of lru.
LEMMA ReadPeeks ==
    ASSUME NEW d, NEW t, NEW k, NEW x, NEW y
    PROVE  /\ Peeks(d, t, k, get(d, t, k).db)
           /\ Peeks(d, t, k, listRange(d, t, k, x, y).db)
           /\ Peeks(d, t, k, listIndex(d, t, k, x).db)
           /\ Peeks(d, t, k, hashGet(d, t, k, x).db)
           /\ Peeks(d, t, k, hashGetAll(d, t, k).db)
           /\ Peeks(d, t, k, setMembers(d, t, k).db)
<1> DEFINE f == findLive(d, t, k)
           P(c) == c = f \/ (Has(f, k) /\ c = touch(f, k))
<1>1. P(get(d, t, k).db)
  BY DEF get, Result
<1>2. P(listRange(d, t, k, x, y).db)
  <2> PICK p, q, r : listRange(d, t, k, x, y) =
        IF ~Has(f, k) THEN Result(f, p)
        ELSE IF ~valueAs(f, k, "list") THEN Result(f, WrongTypeError)
        ELSE IF q THEN Result(f, p)
        ELSE Result(touch(f, k), r)
    BY Zenon DEF listRange
  <2> HIDE DEF f
  <2> QED BY DEF Result
<1>3. P(listIndex(d, t, k, x).db)
  BY DEF listIndex, Result
<1>4. P(hashGet(d, t, k, x).db)
  BY DEF hashGet, Result
<1>5. P(hashGetAll(d, t, k).db)
  BY DEF hashGetAll, Result
<1>6. P(setMembers(d, t, k).db)
  BY DEF setMembers, Result
<1> QED BY <1>1, <1>2, <1>3, <1>4, <1>5, <1>6 DEF Peeks

\* Each of the first m turns of a loop peeks at one key.
PeeksAll(h, c, ks, m) ==
    \A n \in 0 .. m - 1 : Peeks(h[n].db, c[n + 1], ks[n + 1], h[n + 1].db)

\* The first m clock readings are not later than v.
InTime(c, m, v) == \A i \in 1 .. m : c[i] \in Nat /\ c[i] <= v

\* A loop that only reads erases dead keys at most.
LEMMA PeekLoop ==
    ASSUME NEW d, Sound(d), NEW ks, NEW m \in Nat, NEW v \in Nat, NEW c,
           InTime(c, m, v), NEW h, h[0].db = d, PeeksAll(h, c, ks, m)
    PROVE  Sound(h[m].db) /\ Trimmed(d, h[m].db, v)
<1> DEFINE P == {n \in Nat : n <= m => Sound(h[n].db) /\ Trimmed(d, h[n].db, v)}
<1>1. 0 \in P
  BY CellFacts DEF Trimmed
<1>2. ASSUME NEW n \in Nat, n \in P PROVE n + 1 \in P
  <2> SUFFICES ASSUME n + 1 <= m PROVE Sound(h[n + 1].db) /\ Trimmed(d, h[n + 1].db, v)
    OBVIOUS
  <2>1. n \in 0 .. m - 1 /\ n + 1 \in 1 .. m /\ Sound(h[n].db) /\ Trimmed(d, h[n].db, v)
    BY <1>2
  <2>2. c[n + 1] \in Nat /\ c[n + 1] <= v /\ v <= v
    BY <2>1 DEF InTime
  <2>3. Peeks(h[n].db, c[n + 1], ks[n + 1], h[n + 1].db)
    BY <2>1 DEF PeeksAll
  <2>4. Sound(h[n + 1].db) /\ Trimmed(h[n].db, h[n + 1].db, c[n + 1])
    BY <2>1, <2>3, PeekQuiet
  <2> QED BY <2>1, <2>2, <2>4, TrimmedAgain
<1>3. m \in P
  <2> HIDE DEF P
  <2> QED BY <1>1, <1>2, InductionOnNat
<1> QED BY <1>3

\* EXISTS and MGET read their keys.
LEMMA ExistsMgetQuiet ==
    ASSUME NEW d, Sound(d), NEW cmd, AreKeys(cmd.keys),
           NEW v \in Nat, NEW c, InTime(c, Len(cmd.keys), v)
    PROVE  LET r == cmdExists(d, c, cmd)
               s == cmdMget(d, c, cmd)
           IN  /\ r.log = <<>> /\ Sound(r.db) /\ Trimmed(d, r.db, v)
               /\ s.log = <<>> /\ Sound(s.db) /\ Trimmed(d, s.db, v)
<1> PICK m, ks : m = Len(ks) /\ ks = cmd.keys
  OBVIOUS
<1>1. m \in Nat
  BY DEF AreKeys
<1>2. InTime(c, m, v)
  OBVIOUS
<1>3. cmd.keys \in Seq(Key)
  BY DEF AreKeys
<1>4. ASSUME NEW r, r = cmdExists(d, c, cmd)
      PROVE  r.log = <<>> /\ Sound(r.db) /\ Trimmed(d, r.db, v)
  <2> PICK base : base = [db |-> d, count |-> 0]
    OBVIOUS
  <2>1. PICK h : Runs("EXISTS", c, cmd, base, h, m) /\ ExistsLoop(c, cmd, base) = h[m]
    BY <1>3, ExistsChain
  <2>2. r.db = h[m].db /\ r.log = <<>>
    BY <1>4, <2>1 DEF cmdExists, Reply
  <2>3. h[0].db = d
    BY <2>1 DEF Runs
  <2>4. ASSUME NEW n \in 0 .. m - 1
        PROVE  Peeks(h[n].db, c[n + 1], ks[n + 1], h[n + 1].db)
    <3>1. h[n + 1] = ExistsStep(c, cmd, h[n], n + 1)
      BY <2>1, LoopSteps DEF Runs
    <3>2. h[n + 1].db = exists(h[n].db, c[n + 1], ks[n + 1]).db
      BY <3>1 DEF ExistsStep, Counted
    <3> QED BY <3>2, LookupPeeks
  <2>5. PeeksAll(h, c, ks, m)
    BY <2>4 DEF PeeksAll
  <2> QED BY <1>1, <1>2, <2>2, <2>3, <2>5, PeekLoop
<1>5. ASSUME NEW r, r = cmdMget(d, c, cmd)
      PROVE  r.log = <<>> /\ Sound(r.db) /\ Trimmed(d, r.db, v)
  <2> PICK base : base = [db |-> d, values |-> <<>>]
    OBVIOUS
  <2>1. PICK h : Runs("MGET", c, cmd, base, h, m) /\ MgetLoop(c, cmd, base) = h[m]
    BY <1>3, MgetChain
  <2>2. r.db = h[m].db /\ r.log = <<>>
    BY <1>5, <2>1 DEF cmdMget, Reply
  <2>3. h[0].db = d
    BY <2>1 DEF Runs
  <2>4. ASSUME NEW n \in 0 .. m - 1
        PROVE  Peeks(h[n].db, c[n + 1], ks[n + 1], h[n + 1].db)
    <3>1. h[n + 1] = MgetStep(c, cmd, h[n], n + 1)
      BY <2>1, LoopSteps DEF Runs
    <3>2. h[n + 1].db = get(h[n].db, c[n + 1], ks[n + 1]).db
      BY <3>1 DEF MgetStep
    <3> QED BY <3>2, ReadPeeks
  <2>5. PeeksAll(h, c, ks, m)
    BY <2>4 DEF PeeksAll
  <2> QED BY <1>1, <1>2, <2>2, <2>3, <2>5, PeekLoop
<1> QED BY <1>4, <1>5

\* The other commands that read name one key, or none.
LEMMA ReadOne ==
    ASSUME NEW d, NEW c, NEW cmd, cmd.name \in ReadCommands, cmd.name \notin {"EXISTS", "MGET"},
           NEW r, r = readHandler(d, c, cmd)
    PROVE  r.log = <<>> /\ (r.db = d \/ Peeks(d, c[1], cmd.key, r.db))
<1> PICK t, k : t = c[1] /\ k = cmd.key
  OBVIOUS
<1> DEFINE Quiet(m) == m.db = d \/ Peeks(d, t, k, m.db)
           Checked(m) == r = Silent(m) \/ r = Silent(Result(d, NotIntegerError))
<1>0. ASSUME NEW m, Checked(m), Quiet(m)
      PROVE  r.log = <<>> /\ (r.db = d \/ Peeks(d, t, k, r.db))
  BY <1>0 DEF Silent, Reply, Result
<1>1. CASE cmd.name = "GET"
  BY <1>0, <1>1, ReadPeeks DEF readHandler, cmdGet
<1>2. CASE cmd.name = "TYPE"
  BY <1>0, <1>2, LookupPeeks DEF readHandler, cmdType
<1>3. CASE cmd.name = "STRLEN"
  BY <1>0, <1>3, LookupPeeks DEF readHandler, cmdStrlen
<1>4. CASE cmd.name = "TTL"
  BY <1>0, <1>4, LookupPeeks DEF readHandler, cmdTtl
<1>5. CASE cmd.name = "PTTL"
  BY <1>0, <1>5, LookupPeeks DEF readHandler, cmdTtl
<1>6. CASE cmd.name = "LLEN"
  BY <1>0, <1>6, LookupPeeks DEF readHandler, cmdListRead
<1>7. CASE cmd.name = "LRANGE"
  <2>1. PICK m : m = listRange(d, t, k, cmd.start[1], cmd.stop[1])
    OBVIOUS
  <2>2. Checked(m)
    BY <1>7, <2>1 DEF readHandler, cmdListRead
  <2> QED BY <1>0, <2>1, <2>2, ReadPeeks
<1>8. CASE cmd.name = "LINDEX"
  <2>1. PICK m : m = listIndex(d, t, k, cmd.amount[1])
    OBVIOUS
  <2>2. Checked(m)
    BY <1>8, <2>1 DEF readHandler, cmdListRead
  <2> QED BY <1>0, <2>1, <2>2, ReadPeeks
<1>9. CASE cmd.name = "HLEN"
  BY <1>0, <1>9, LookupPeeks DEF readHandler, cmdHashRead
<1>10. CASE cmd.name = "HGET"
  BY <1>0, <1>10, ReadPeeks DEF readHandler, cmdHget
<1>11. CASE cmd.name = "HEXISTS"
  BY <1>0, <1>11, LookupPeeks DEF readHandler, cmdHashRead
<1>12. CASE cmd.name \in {"HGETALL", "HKEYS", "HVALS"}
  BY <1>0, <1>12, ReadPeeks DEF readHandler, cmdHashRead
<1>13. CASE cmd.name = "SCARD"
  BY <1>0, <1>13, LookupPeeks DEF readHandler, cmdSetRead
<1>14. CASE cmd.name = "SISMEMBER"
  BY <1>0, <1>14, LookupPeeks DEF readHandler, cmdSetRead
<1>15. CASE cmd.name = "SMEMBERS"
  BY <1>0, <1>15, ReadPeeks DEF readHandler, cmdSetRead
<1>16. CASE cmd.name \in {"MEMORY", "KEYS", "DBSIZE"}
  <2>1. PICK x : r = Silent(Result(d, x))
    BY <1>16 DEF readHandler, cmdMemory, cmdKeys, cmdDbsize
  <2> QED BY <2>1 DEF Silent, Reply, Result
<1> QED
  BY <1>1, <1>2, <1>3, <1>4, <1>5, <1>6, <1>7, <1>8, <1>9, <1>10, <1>11, <1>12, <1>13,
     <1>14, <1>15, <1>16
  DEF ReadCommands

\* A command that reads leaves nothing for the log.
LEMMA ReadQuiet ==
    ASSUME NEW d, Sound(d), NEW cmd, cmd.name \in ReadCommands, IsCommand(cmd, MaxReadings),
           NEW v \in Nat, NEW c, InTime(c, MaxReadings, v),
           NEW r, r = readHandler(d, c, cmd)
    PROVE  r.log = <<>> /\ Sound(r.db) /\ Trimmed(d, r.db, v)
<1>1. CASE cmd.name \in {"EXISTS", "MGET"}
  <2>1. AreKeys(cmd.keys) /\ Len(cmd.keys) <= MaxReadings
    BY <1>1 DEF IsCommand, AreKeys
  <2>2. InTime(c, Len(cmd.keys), v)
    BY <2>1, ReadingsAssumption DEF InTime, AreKeys
  <2>3. r = cmdExists(d, c, cmd) \/ r = cmdMget(d, c, cmd)
    BY <1>1 DEF readHandler
  <2> QED BY <2>1, <2>2, <2>3, ExistsMgetQuiet
<1>2. CASE cmd.name \notin {"EXISTS", "MGET"}
  <2>2. r.log = <<>> /\ (r.db = d \/ Peeks(d, c[1], cmd.key, r.db))
    BY <1>2, ReadOne
  <2>3. c[1] \in Nat /\ c[1] <= v
    BY ReadingsAssumption DEF InTime
  <2>4. Trimmed(d, d, c[1])
    BY CellFacts DEF Trimmed
  <2>5. Sound(r.db) /\ Trimmed(d, r.db, c[1])
    BY <2>2, <2>4, PeekQuiet
  <2>6. v <= v
    OBVIOUS
  <2> QED BY <2>2, <2>3, <2>4, <2>5, <2>6, TrimmedAgain
<1> QED BY <1>1, <1>2

(***************************************************************************)
(* The commands that overwrite keys.                                       *)
(***************************************************************************)
IsText(text) == text \in Seq(Piece)
ArePairs(ps) == ps \in Seq(Key \X Seq(Piece))

\* k holds text and has no deadline.
Holds(e, k, text) ==
    Has(e, k) /\ e.data[k].value = StringValue(text) /\ e.data[k].expiresAtMs = NO_EXPIRY

\* A key that is created holds its text.
LEMMA CreateHolds ==
    ASSUME NEW g, NEW k, ~Has(g, k), NEW text, NEW e, e = create(g, k, StringValue(text))
    PROVE  Holds(e, k, text)
BY DEF Holds, Has, create, DB, With, Entry

\* SET replaces one key.
LEMMA SetOne ==
    ASSUME NEW d, Sound(d), NEW t, NEW k \in Key, NEW text, IsText(text),
           NEW e, e = set(d, t, k, text).db
    PROVE  Sound(e) /\ Others(d, e, k) /\ Holds(e, k, text)
<1>1. WellFormed(d)
  BY DEF Sound
<1>2. Sound(e)
  BY SetSound DEF IsText
<1>3. Others(d, e, k)
  BY <1>1, StringStep DEF KeyStep
<1> PICK f : f = findLive(d, t, k)
  OBVIOUS
<1> PICK g : g = IF Has(f, k) THEN erase(f, k) ELSE f
  OBVIOUS
<1>4. Sound(f)
  BY FindLiveCell
<1>5. ~Has(g, k)
  BY <1>4, EraseCell DEF Sound
<1>6. e = create(g, k, StringValue(text))
  BY DEF set, Result
<1>7. Holds(e, k, text)
  BY <1>5, <1>6, CreateHolds
<1> QED BY <1>2, <1>3, <1>7

\* Two keys that hold the same text are alike.
LEMMA HoldsSame ==
    ASSUME NEW d, NEW e, NEW k, NEW text, Holds(d, k, text), Holds(e, k, text)
    PROVE  SameCell(d, e, k)
BY DEF Holds, SameCell

\* What the first n turns of MSET do to two databases.
Rewrites(ps, n, d, e, l, s) ==
    \A x \in Key :
        IF \E i \in 1 .. n : ps[i][1] = x
        THEN SameCell(e, s, x) /\ Plain(e, x) /\ Plain(s, x)
        ELSE SameCell(d, e, x) /\ SameCell(l, s, x)

\* MSET replaces its keys, and does the same to any database.
LEMMA MsetTwice ==
    ASSUME NEW d, Sound(d), NEW l, Sound(l), NEW cmd, NEW ps, ps = cmd.pairs, ArePairs(ps),
           NEW c, NEW b, NEW e, e = MsetLoop(c, cmd, d), NEW s, s = MsetLoop(b, cmd, l)
    PROVE  Sound(e) /\ Sound(s) /\ Rewrites(ps, Len(ps), d, e, l, s)
<1> PICK m : m = Len(ps)
  OBVIOUS
<1>0. m \in Nat /\ DOMAIN ps = 1 .. m /\ \A i \in 1 .. m : ps[i][1] \in Key /\ IsText(ps[i][2])
  BY DEF ArePairs, IsText
<1>1. cmd.pairs \in Seq(Key \X Seq(Piece))
  BY DEF ArePairs
<1>2. PICK h : Runs("MSET", c, cmd, d, h, m) /\ e = h[m]
  BY <1>1, MsetChain
<1>3. PICK g : Runs("MSET", b, cmd, l, g, m) /\ s = g[m]
  BY <1>1, MsetChain
<1> DEFINE Q(n) == Sound(h[n]) /\ Sound(g[n]) /\ Rewrites(ps, n, d, h[n], l, g[n])
           P == {n \in Nat : n <= m => Q(n)}
<1>4. 0 \in P
  <2>1. h[0] = d /\ g[0] = l
    BY <1>2, <1>3 DEF Runs
  <2>2. Rewrites(ps, 0, d, d, l, l)
    BY CellFacts DEF Rewrites
  <2> QED BY <2>1, <2>2
<1>5. ASSUME NEW n \in Nat, n \in P PROVE n + 1 \in P
  <2> SUFFICES ASSUME n + 1 <= m PROVE Q(n + 1)
    OBVIOUS
  <2>1. n \in 0 .. m - 1 /\ n + 1 \in 1 .. m /\ Q(n)
    BY <1>0, <1>5
  <2> PICK k, text, u, v, y, z : /\ k = ps[n + 1][1] /\ text = ps[n + 1][2]
                                 /\ u = h[n] /\ v = h[n + 1] /\ y = g[n] /\ z = g[n + 1]
    OBVIOUS
  <2>2. k \in Key /\ IsText(text)
    BY <1>0, <2>1
  <2>3. v = set(u, c[n + 1], k, text).db
    BY <1>2, <2>1, LoopSteps DEF Runs, MsetStep
  <2>4. z = set(y, b[n + 1], k, text).db
    BY <1>3, <2>1, LoopSteps DEF Runs, MsetStep
  <2>5. Sound(u) /\ Sound(y) /\ Rewrites(ps, n, d, u, l, y)
    BY <2>1
  <2>6. Sound(v) /\ Others(u, v, k) /\ Holds(v, k, text)
    BY <2>2, <2>3, <2>5, SetOne
  <2>7. Sound(z) /\ Others(y, z, k) /\ Holds(z, k, text)
    BY <2>2, <2>4, <2>5, SetOne
  <2>8. ASSUME NEW x \in Key
        PROVE  IF \E i \in 1 .. n + 1 : ps[i][1] = x
               THEN SameCell(v, z, x) /\ Plain(v, x) /\ Plain(z, x)
               ELSE SameCell(d, v, x) /\ SameCell(l, z, x)
    <3>1. (\E i \in 1 .. n + 1 : ps[i][1] = x) <=> (\E i \in 1 .. n : ps[i][1] = x) \/ k = x
      BY <2>1
    <3>2. CASE x = k
      BY <2>6, <2>7, <3>1, <3>2, HoldsSame DEF Holds, Plain
    <3>3. CASE x # k
      <4>1. SameCell(u, v, x) /\ SameCell(y, z, x)
        BY <2>6, <2>7, <3>3, OthersCell
      <4>2. CASE \E i \in 1 .. n : ps[i][1] = x
        <5>1. SameCell(u, y, x) /\ Plain(u, x) /\ Plain(y, x)
          BY <2>5, <4>2 DEF Rewrites
        <5>2. Plain(v, x) /\ Plain(z, x)
          BY <4>1, <5>1 DEF SameCell, Plain
        <5>3. SameCell(v, z, x)
          BY <4>1, <5>1, CellFacts
        <5> QED BY <3>1, <4>2, <5>2, <5>3
      <4>3. CASE ~\E i \in 1 .. n : ps[i][1] = x
        <5>1. SameCell(d, u, x) /\ SameCell(l, y, x)
          BY <2>5, <4>3 DEF Rewrites
        <5> QED BY <3>1, <3>3, <4>1, <4>3, <5>1, CellFacts
      <4> QED BY <4>2, <4>3
    <3> QED BY <3>2, <3>3
  <2>9. Rewrites(ps, n + 1, d, v, l, z)
    BY <2>8 DEF Rewrites
  <2> QED BY <2>6, <2>7, <2>9
<1>6. m \in P
  <2> HIDE DEF P
  <2> QED BY <1>0, <1>4, <1>5, InductionOnNat
<1> QED BY <1>0, <1>2, <1>3, <1>6

\* A handler that was silent, or propagated the command it was given.
Records(r, entries, cmd, a, v) ==
    \/ r.log = <<>> /\ Logged(r.db, entries, v)
    \/ r.log = <<cmd>> /\ Logged(r.db, Append(entries, [cmd |-> cmd, at |-> a]), v)

IsDel(cmd) == cmd.name = "DEL" /\ AreKeys(cmd.keys) /\ Len(cmd.keys) <= MaxReadings

\* What DEL does, in a handler or in a replay.
LEMMA DelFacts ==
    ASSUME NEW d, Sound(d), NEW cmd, IsDel(cmd), NEW v \in Nat, NEW c,
           InTime(c, MaxReadings, v), NEW r, r = writeHandler(d, c, cmd)
    PROVE  /\ Sound(r.db) /\ ~IsError(r.ret)
           /\ \A x \in Key : IF Overwrites(cmd, x) THEN ~Has(r.db, x) ELSE SameCell(d, r.db, x)
           /\ r.log = <<cmd>> \/ (r.log = <<>> /\ Trimmed(d, r.db, v))
<1> PICK ks, m : ks = cmd.keys /\ m = Len(ks)
  OBVIOUS
<1>0. AreKeys(ks) /\ m <= MaxReadings
  BY DEF IsDel
<1>1. m \in Nat /\ DOMAIN ks = 1 .. m
  BY <1>0 DEF AreKeys
<1>2. \A i \in 1 .. m : c[i] \in Nat /\ c[i] <= v
  BY <1>0, <1>1, ReadingsAssumption DEF InTime
<1> PICK all : all = DelLoop(c, cmd, [db |-> d, count |-> 0])
  OBVIOUS
<1>3. /\ Sound(all.db) /\ all.count \in Nat
      /\ \A x \in Key : IF \E i \in 1 .. m : ks[i] = x THEN ~Has(all.db, x)
                        ELSE SameCell(d, all.db, x)
      /\ all.count = 0 => Trimmed(d, all.db, v)
  BY <1>0, <1>2, DelLoopFacts
<1>4. \A x : Overwrites(cmd, x) <=> \E i \in 1 .. m : ks[i] = x
  BY <1>1 DEF Overwrites, IsDel, ToSet
<1> PICK p : p = Result(all.db, Int_(all.count))
  OBVIOUS
<1>5. r = PropagateIf(all.count > 0, p, cmd)
  BY DEF writeHandler, cmdDel, IsDel
<1>6. p.db = all.db /\ ~IsError(p.ret)
  BY DEF Result, Int_, IsError
<1>7. /\ r.db = p.db /\ r.ret = p.ret
      /\ all.count > 0 => r.log = <<cmd>>
      /\ ~(all.count > 0) => r.log = <<>>
  BY <1>5, <1>6 DEF PropagateIf, Reply
<1>8. ~(all.count > 0) => all.count = 0
  BY <1>3
<1> QED BY <1>3, <1>4, <1>6, <1>7, <1>8

\* The readings of a replay.
LEMMA AllAtFacts ==
    ASSUME NEW t \in Nat
    PROVE  InTime(AllAt(t), MaxReadings, t) /\ \A i \in 1 .. MaxReadings : AllAt(t)[i] = t
BY DEF InTime, AllAt

\* Where its keys are gone, a replay of DEL leaves the same.
LEMMA DelReplaces ==
    ASSUME NEW cmd, IsDel(cmd), NEW e, \A x \in Key : Overwrites(cmd, x) => ~Has(e, x),
           NEW v \in Nat
    PROVE  Replaces(e, cmd, v)
<1> SUFFICES ASSUME NEW l, NEW t \in Nat, Sound(l), t >= v,
                    NEW s, s = writeHandler(l, AllAt(t), cmd)
             PROVE  /\ Overwriting(l, s.db, cmd)
                    /\ ~IsError(s.ret)
                    /\ \A x \in Key : Overwrites(cmd, x) => SameCell(e, s.db, x)
  BY DEF Replaces
<1>1. InTime(AllAt(t), MaxReadings, t)
  BY AllAtFacts
<1>2. /\ Sound(s.db) /\ ~IsError(s.ret)
      /\ \A x \in Key : IF Overwrites(cmd, x) THEN ~Has(s.db, x) ELSE SameCell(l, s.db, x)
  BY <1>1, DelFacts
<1> QED BY <1>2, CellFacts DEF Overwriting

\* DEL, as a client sends it.
LEMMA DelLogged ==
    ASSUME NEW d, NEW entries, NEW u \in Nat, Logged(d, entries, u), NEW cmd, IsDel(cmd),
           NEW v \in Nat, u <= v, NEW c, InTime(c, MaxReadings, v),
           NEW r, r = writeHandler(d, c, cmd)
    PROVE  Records(r, entries, cmd, c[1], v)
<1>0. Sound(d)
  BY DEF Logged
<1>1. /\ Sound(r.db) /\ ~IsError(r.ret)
      /\ \A x \in Key : IF Overwrites(cmd, x) THEN ~Has(r.db, x) ELSE SameCell(d, r.db, x)
      /\ r.log = <<cmd>> \/ (r.log = <<>> /\ Trimmed(d, r.db, v))
  BY <1>0, DelFacts
<1>2. CASE r.log = <<>> /\ Trimmed(d, r.db, v)
  <2>1. v <= v
    OBVIOUS
  <2>2. Logged(r.db, entries, v)
    BY <1>1, <1>2, <2>1, QuietLogged
  <2> QED BY <1>2, <2>2 DEF Records
<1>3. CASE r.log = <<cmd>>
  <2>1. Overwriting(d, r.db, cmd)
    BY <1>1 DEF Overwriting
  <2>2. Replaces(r.db, cmd, v)
    BY <1>1, DelReplaces
  <2>3. c[1] \in Nat /\ c[1] <= v
    BY ReadingsAssumption DEF InTime
  <2>4. cmd.name \in WriteCommands /\ cmd.name # "PEXPIREAT"
    BY DEF IsDel, WriteCommands
  <2>5. Logged(r.db, Append(entries, [cmd |-> cmd, at |-> c[1]]), v)
    BY <2>1, <2>2, <2>3, <2>4, OverwriteLogged
  <2> QED BY <1>3, <2>5 DEF Records
<1> QED BY <1>1, <1>2, <1>3

\* The DEL of a key that is gone: an eviction, or a deadline in the past.
LEMMA GoneLogged ==
    ASSUME NEW d, NEW entries, NEW u \in Nat, Logged(d, entries, u), NEW k \in Key,
           NEW e, Sound(e), Others(d, e, k), ~Has(e, k),
           NEW a \in Nat, NEW v \in Nat, a <= v, u <= v, NEW cmd, cmd = DelCommand(k)
    PROVE  Logged(e, Append(entries, [cmd |-> cmd, at |-> a]), v)
<1>1. cmd.name = "DEL" /\ cmd.keys = <<k>>
  BY DEF DelCommand
<1>2. <<k>> \in Seq(Key) /\ Len(<<k>>) = 1 /\ \A x : x \in ToSet(<<k>>) <=> x = k
  BY DEF ToSet
<1>3. IsDel(cmd) /\ \A x : Overwrites(cmd, x) <=> x = k
  BY <1>1, <1>2, ReadingsAssumption DEF IsDel, AreKeys, Overwrites
<1>4. Overwriting(d, e, cmd)
  BY <1>3, OthersCell DEF Overwriting
<1>5. Replaces(e, cmd, v)
  BY <1>3, DelReplaces
<1>6. cmd.name \in WriteCommands /\ cmd.name # "PEXPIREAT"
  BY <1>1 DEF WriteCommands, DenyOomCommands
<1> HIDE DEF DelCommand
<1> QED BY <1>4, <1>5, <1>6, OverwriteLogged

(***************************************************************************)
(* Deadlines.  f is what findLive left of the database; e has the deadline *)
(* of k, unless it had passed by t.                                        *)
(***************************************************************************)
Due(f, e, k, when, t) ==
    IF when <= t THEN ~Has(e, k)
    ELSE /\ Has(e, k) /\ e.data[k].value = f.data[k].value
         /\ e.data[k].expiresAtMs = when

\* What expireAtMs returns: nothing was done to a missing key.
Scheduled(d, f, r, k, when, t) ==
    /\ Sound(r.db) /\ Others(d, r.db, k)
    /\ ~Has(f, k) => r.db = f /\ r.ret = Bool(FALSE)
    /\ Has(f, k) => r.ret = Bool(TRUE) /\ Due(f, r.db, k, when, t)

\* expireAtMs sets the deadline of a key that is alive.
LEMMA ExpireOne ==
    ASSUME NEW d, Sound(d), NEW t1 \in Nat, NEW t2 \in Nat, NEW k \in Key, NEW when \in LLong,
           NEW r, r = expireAtMs(d, t1, t2, k, when), NEW f, f = findLive(d, t1, k)
    PROVE  Scheduled(d, f, r, k, when, t2)
<1> SUFFICES /\ Sound(r.db) /\ Others(d, r.db, k)
             /\ ~Has(f, k) => r.db = f /\ r.ret = Bool(FALSE)
             /\ Has(f, k) => r.ret = Bool(TRUE) /\ Due(f, r.db, k, when, t2)
  BY DEF Scheduled
<1>0. when \in Int
  BY LLongAssumption DEF LLong, LLongMin
<1>1. Sound(r.db)
  BY <1>0, ExpireAtMsSound
<1>2. Sound(f) /\ Others(d, f, k)
  BY FindLiveCell
<1>3. r = IF ~Has(f, k) THEN Result(f, Bool(FALSE))
          ELSE IF when <= t2 THEN Result(erase(f, k), Bool(TRUE))
          ELSE Result(setExpiry(f, k, when), Bool(TRUE))
  BY DEF expireAtMs
<1>4. CASE ~Has(f, k)
  <2>1. r = Result(f, Bool(FALSE))
    BY <1>3, <1>4
  <2>2. r.db = f /\ r.ret = Bool(FALSE)
    BY <2>1 DEF Result
  <2> QED BY <1>1, <1>2, <1>4, <2>2
<1>5. CASE Has(f, k) /\ when <= t2
  <2> PICK e : e = erase(f, k)
    OBVIOUS
  <2>1. r.db = e /\ r.ret = Bool(TRUE)
    BY <1>3, <1>5 DEF Result
  <2>2. WellFormed(f) /\ k \in DOMAIN f.data
    BY <1>2, <1>5 DEF Sound, Has
  <2>3. KeyStep(f, t1, e, k) /\ ~Has(e, k)
    BY <2>2, EraseAnyStep
  <2>4. Others(d, e, k)
    BY <1>2, <2>3, OthersTransitive DEF KeyStep
  <2> QED BY <1>1, <1>5, <2>1, <2>3, <2>4 DEF Due
<1>6. CASE Has(f, k) /\ ~(when <= t2)
  <2> PICK e : e = setExpiry(f, k, when)
    OBVIOUS
  <2>1. r.db = e /\ r.ret = Bool(TRUE)
    BY <1>3, <1>6 DEF Result
  <2>2. k \in DOMAIN f.data
    BY <1>6 DEF Has
  <2>3. /\ DOMAIN e.data = DOMAIN f.data
        /\ \A x \in DOMAIN f.data \ {k} : SameEntry(f, e, x)
        /\ e.data[k].value = f.data[k].value
        /\ e.data[k].expiresAtMs = when
    BY <2>2, SetExpiryEffect
  <2>4. Others(f, e, k)
    BY <2>3 DEF Others
  <2>5. Others(d, e, k)
    BY <1>2, <2>4, OthersTransitive
  <2>6. Has(e, k)
    BY <2>2, <2>3 DEF Has
  <2>7. Due(f, e, k, when, t2)
    BY <1>6, <2>3, <2>6 DEF Due
  <2> QED BY <1>1, <1>6, <2>1, <2>5, <2>7
<1> QED BY <1>4, <1>5, <1>6

\* A look at k later drops it if the deadline has passed by then.
LEMMA DueLater ==
    ASSUME NEW f, NEW d, Sound(d), NEW k, NEW when \in Int, NEW t \in Nat, NEW u \in Nat, t <= u,
           Due(f, d, k, when, t), NEW e, e = findLive(d, u, k)
    PROVE  Due(f, e, k, when, u)
<1>1. (Has(e, k) <=> k \in keys(d, u)) /\ (Has(e, k) => e = d)
  BY FindLiveCell
<1>2. k \in keys(d, u) <=> Has(d, k) /\ ~IsExpired(d.data[k], u)
  BY DEF keys, Has
<1>3. CASE when <= t
  BY <1>1, <1>2, <1>3 DEF Due
<1>4. CASE ~(when <= t)
  <2>1. Has(d, k) /\ d.data[k].value = f.data[k].value /\ d.data[k].expiresAtMs = when
    BY <1>4 DEF Due
  <2>2. IsExpired(d.data[k], u) <=> when <= u
    BY <1>4, <2>1 DEF IsExpired, NO_EXPIRY
  <2> QED BY <1>1, <1>2, <2>1, <2>2 DEF Due
<1> QED BY <1>3, <1>4

\* Once the deadline has been applied, the key is seen alike.
LEMMA DueVisible ==
    ASSUME NEW f, NEW h, NEW k, SameCell(f, h, k), Has(f, k), NEW when \in Int,
           NEW w \in Nat, NEW t \in Nat, w <= t, NEW e, NEW s,
           Due(f, e, k, when, w), Due(h, s, k, when, t)
    PROVE  Visible(e, k, t) = Visible(s, k, t)
<1>1. f.data[k].value = h.data[k].value
  BY DEF SameCell
<1>2. CASE when <= t
  <2>1. ~Has(s, k)
    BY <1>2 DEF Due
  <2>2. k \notin keys(e, t)
    <3>1. CASE when <= w
      BY <3>1 DEF Due, keys, Has
    <3>2. CASE ~(when <= w)
      BY <1>2, <3>2 DEF Due, keys, IsExpired, NO_EXPIRY
    <3> QED BY <3>1, <3>2
  <2>3. k \notin keys(s, t)
    BY <2>1 DEF keys, Has
  <2> QED BY <2>2, <2>3 DEF Visible
<1>3. CASE ~(when <= t)
  <2>1. SameCell(e, s, k)
    BY <1>1, <1>3 DEF Due, SameCell
  <2> QED BY <2>1, VisibleFacts
<1> QED BY <1>2, <1>3

(***************************************************************************)
(* EXPIRE and its forms.                                                   *)
(***************************************************************************)
Expirers == {"EXPIRE", "PEXPIRE", "EXPIREAT", "PEXPIREAT"}
Product(cmd) == cmd.amount[1] * UnitMs(cmd)
DeadlineOf(cmd, t) == IF IsAbsolute(cmd) THEN Product(cmd) ELSE Product(cmd) + t

\* What the handler makes of the result r of expireAtMs.
Replied(d, x, cmd, r, t, k, when) ==
    IF parseInteger(cmd.amount) /\ Product(cmd) \in LLong /\ when \in LLong
    THEN /\ ~IsError(x.ret)
         /\ r.ret = Bool(FALSE) => x.db = r.db /\ x.log = <<>>
         /\ r.ret = Bool(TRUE) =>
               /\ x.db = findLive(r.db, t, k)
               /\ Has(x.db, k) => x.log = <<PexpireatCommand(k, when)>>
               /\ ~Has(x.db, k) => x.log = <<DelCommand(k)>>
    ELSE x.db = d /\ x.log = <<>>

\* expireGeneric replies and logs what expireAtMs returned to it.
LEMMA ExpireShape ==
    ASSUME NEW d, NEW c, NEW cmd, NEW x, x = expireGeneric(d, c, cmd), NEW k, k = cmd.key,
           NEW when, when = DeadlineOf(cmd, c[1]),
           NEW r, r = expireAtMs(d, c[2], c[3], k, when),
           r.ret = Bool(FALSE) \/ r.ret = Bool(TRUE)
    PROVE  Replied(d, x, cmd, r, c[4], k, when)
<1> SUFFICES IF parseInteger(cmd.amount) /\ Product(cmd) \in LLong /\ when \in LLong
             THEN /\ ~IsError(x.ret)
                  /\ r.ret = Bool(FALSE) => x.db = r.db /\ x.log = <<>>
                  /\ r.ret = Bool(TRUE) =>
                        /\ x.db = findLive(r.db, c[4], k)
                        /\ Has(x.db, k) => x.log = <<PexpireatCommand(k, when)>>
                        /\ ~Has(x.db, k) => x.log = <<DelCommand(k)>>
             ELSE x.db = d /\ x.log = <<>>
  BY DEF Replied
<1> DEFINE e == exists(r.db, c[4], k)
           Done == IF ~r.ret[2] THEN Reply(r.db, Int_(0), <<>>)
                   ELSE Reply(e.db, Int_(1),
                              IF e.ret[2] THEN <<PexpireatCommand(k, when)>>
                                          ELSE <<DelCommand(k)>>)
<1>1. x = IF ~parseInteger(cmd.amount) THEN Reply(d, NotIntegerError, <<>>)
          ELSE IF Product(cmd) \notin LLong \/ when \notin LLong
          THEN Reply(d, Error("invalid expire time"), <<>>)
          ELSE Done
  BY Zenon DEF expireGeneric, Overflows, Product, DeadlineOf
<1>2. e.db = findLive(r.db, c[4], k) /\ (e.ret[2] <=> Has(e.db, k))
  BY DEF exists, Result, Bool
<1>3. Bool(FALSE) # Bool(TRUE)
  BY DEF Bool
<1> HIDE DEF e
<1>4. CASE ~(parseInteger(cmd.amount) /\ Product(cmd) \in LLong /\ when \in LLong)
  <2> HIDE DEF Done
  <2>1. PICK message : x = Reply(d, message, <<>>)
    BY <1>1, <1>4
  <2>2. x.db = d /\ x.log = <<>>
    BY <2>1 DEF Reply
  <2> QED BY <1>4, <2>2
<1>5. CASE parseInteger(cmd.amount) /\ Product(cmd) \in LLong /\ when \in LLong
  <2>1. x = Done
    <3> HIDE DEF Done
    <3> QED BY <1>1, <1>5
  <2>2. CASE r.ret = Bool(FALSE)
    <3>1. Done.db = r.db /\ Done.log = <<>> /\ ~IsError(Done.ret)
      BY <2>2 DEF Bool, Reply, Int_, IsError
    <3> HIDE DEF Done
    <3> QED BY <1>3, <1>5, <2>1, <2>2, <3>1
  <2>3. CASE r.ret = Bool(TRUE)
    <3>1. /\ Done.db = e.db /\ ~IsError(Done.ret)
          /\ e.ret[2] => Done.log = <<PexpireatCommand(k, when)>>
          /\ ~e.ret[2] => Done.log = <<DelCommand(k)>>
      BY <2>3 DEF Bool, Reply, Int_, IsError
    <3> HIDE DEF Done
    <3> QED BY <1>2, <1>3, <1>5, <2>1, <2>3, <3>1
  <2> QED BY <2>2, <2>3
<1> QED BY <1>4, <1>5

\* PEXPIREAT as the log has it.
LEMMA PexpireatFacts ==
    ASSUME NEW k, NEW when \in LLong, NEW cmd, cmd = PexpireatCommand(k, when)
    PROVE  /\ cmd.name = "PEXPIREAT" /\ cmd.key = k /\ cmd.amount[1] = when
           /\ cmd.name \in WriteCommands /\ Amends(cmd, k) /\ (\A x : ~Overwrites(cmd, x))
           /\ cmd.amount[1] \in LLong
           /\ parseInteger(cmd.amount)
           /\ Product(cmd) = when /\ \A t : DeadlineOf(cmd, t) = when
<1>1. cmd.name = "PEXPIREAT" /\ cmd.key = k /\ cmd.amount = <<when>>
  BY DEF PexpireatCommand
<1>2. cmd.amount[1] = when /\ Len(cmd.amount) = 1
  BY <1>1
<1>3. when \in Int /\ when \notin Word
  BY LLongAssumption, WordAssumption DEF LLong, LLongMin
<1>4. cmd.name \in WriteCommands /\ Amends(cmd, k) /\ \A x : ~Overwrites(cmd, x)
  BY <1>1 DEF WriteCommands, Amends, Overwrites
<1>5. parseInteger(cmd.amount)
  BY <1>2, <1>3 DEF parseInteger, parseStrictInteger
<1>6. UnitMs(cmd) = 1 /\ IsAbsolute(cmd)
  BY <1>1 DEF UnitMs, IsAbsolute
<1>7. Product(cmd) = when
  BY <1>2, <1>3, <1>6 DEF Product
<1>8. \A t : DeadlineOf(cmd, t) = when
  BY <1>6, <1>7 DEF DeadlineOf
<1> QED BY <1>1, <1>2, <1>3, <1>4, <1>5, <1>7, <1>8

\* What a replay makes of it.
LEMMA PexpireatReplay ==
    ASSUME NEW l, Sound(l), NEW t \in Nat, NEW k \in Key, NEW when \in LLong,
           NEW cmd, cmd = PexpireatCommand(k, when), NEW s, s = writeHandler(l, AllAt(t), cmd),
           NEW f, f = findLive(l, t, k)
    PROVE  /\ ~IsError(s.ret) /\ Sound(s.db) /\ Others(l, s.db, k)
           /\ ~Has(f, k) => s.db = f
           /\ Has(f, k) => Due(f, s.db, k, when, t)
<1> PICK c : c = AllAt(t)
  OBVIOUS
<1>1. c[1] = t /\ c[2] = t /\ c[3] = t /\ c[4] = t
  BY ReadingsAssumption DEF AllAt
<1>2. /\ cmd.name = "PEXPIREAT" /\ cmd.key = k
      /\ parseInteger(cmd.amount)
      /\ Product(cmd) = when /\ \A y : DeadlineOf(cmd, y) = when
  BY PexpireatFacts
<1>3. s = expireGeneric(l, c, cmd)
  BY <1>2 DEF writeHandler
<1> PICK r : r = expireAtMs(l, t, t, k, when)
  OBVIOUS
<1>4. /\ Sound(r.db) /\ Others(l, r.db, k)
      /\ ~Has(f, k) => r.db = f /\ r.ret = Bool(FALSE)
      /\ Has(f, k) => r.ret = Bool(TRUE) /\ Due(f, r.db, k, when, t)
  <2>1. Scheduled(l, f, r, k, when, t)
    BY ExpireOne
  <2> QED BY <2>1 DEF Scheduled
<1>5. /\ ~IsError(s.ret)
      /\ r.ret = Bool(FALSE) => s.db = r.db
      /\ r.ret = Bool(TRUE) => s.db = findLive(r.db, t, k)
  <2>1. k = cmd.key /\ when = DeadlineOf(cmd, c[1]) /\ r = expireAtMs(l, c[2], c[3], k, when)
        /\ (r.ret = Bool(FALSE) \/ r.ret = Bool(TRUE))
    BY <1>1, <1>2, <1>4
  <2>2. Replied(l, s, cmd, r, c[4], k, when)
    BY <1>3, <2>1, ExpireShape
  <2> QED BY <1>1, <1>2, <2>2 DEF Replied
<1>6. CASE ~Has(f, k)
  BY <1>4, <1>5, <1>6
<1>7. CASE Has(f, k)
  <2> PICK e : e = findLive(r.db, t, k)
    OBVIOUS
  <2>1. s.db = e /\ Due(f, r.db, k, when, t)
    BY <1>4, <1>5, <1>7
  <2>2. Sound(e) /\ Others(r.db, e, k)
    BY <1>4, FindLiveCell
  <2>3. Others(l, e, k)
    BY <1>4, <2>2, OthersTransitive
  <2>4. when \in Int /\ t <= t
    BY LLongAssumption DEF LLong, LLongMin
  <2>5. Due(f, e, k, when, t)
    BY <1>4, <2>1, <2>4, DueLater
  <2> QED BY <1>5, <1>7, <2>1, <2>2, <2>3, <2>5
<1> QED BY <1>6, <1>7

\* A deadline that was set, and logged.
LEMMA DueLogged ==
    ASSUME NEW d, NEW entries, NEW u0 \in Nat, Logged(d, entries, u0), NEW k \in Key,
           NEW when \in LLong, NEW a \in Nat, NEW u \in Nat, a <= u, NEW w \in Nat,
           NEW v \in Nat, u <= v, u0 <= v, w <= v,
           NEW f, f = findLive(d, u, k), Has(f, k),
           NEW e, Sound(e), Others(d, e, k), Due(f, e, k, when, w),
           NEW cmd, cmd = PexpireatCommand(k, when)
    PROVE  Logged(e, Append(entries, [cmd |-> cmd, at |-> a]), v)
<1>0. when \in Int
  BY LLongAssumption DEF LLong, LLongMin
<1>1. /\ cmd.name \in WriteCommands /\ Amends(cmd, k) /\ (\A x : ~Overwrites(cmd, x))
      /\ cmd.amount[1] \in LLong
  BY PexpireatFacts
<1>2. Amending(d, e, cmd, k)
  BY DEF Amending, Due
<1>3. ASSUME NEW l, NEW t \in Nat, Sound(l), t >= v, NEW s, s = writeHandler(l, AllAt(t), cmd)
      PROVE  /\ Amending(l, s.db, cmd, k)
             /\ SameCell(findLive(d, u, k), findLive(l, t, k), k) =>
                   ~IsError(s.ret) /\ Visible(e, k, t) = Visible(s.db, k, t)
  <2> PICK h : h = findLive(l, t, k)
    OBVIOUS
  <2>1. /\ ~IsError(s.ret) /\ Sound(s.db) /\ Others(l, s.db, k)
        /\ ~Has(h, k) => s.db = h
        /\ Has(h, k) => Due(h, s.db, k, when, t)
    BY <1>3, PexpireatReplay
  <2>2. Amending(l, s.db, cmd, k)
    BY <2>1 DEF Amending, Due
  <2>3. ASSUME SameCell(f, h, k) PROVE Visible(e, k, t) = Visible(s.db, k, t)
    <3>1. Has(h, k) /\ w <= t
      BY <1>3, <2>3 DEF SameCell
    <3>2. Due(h, s.db, k, when, t)
      BY <2>1, <3>1
    <3> QED BY <1>0, <2>3, <3>1, <3>2, DueVisible
  <2> QED BY <2>1, <2>2, <2>3
<1>4. Matches(d, u, e, cmd, k, v)
  BY <1>3 DEF Matches
<1> HIDE DEF PexpireatCommand
<1> QED BY <1>1, <1>2, <1>4, AmendLogged

\* EXPIRE and its forms are silent, or log the deadline, or a DEL.
LEMMA ExpireLogged ==
    ASSUME NEW d, NEW entries, NEW u \in Nat, Logged(d, entries, u),
           NEW cmd, cmd.name \in Expirers, NEW k \in Key, k = cmd.key,
           NEW v \in Nat, u <= v, NEW c, c[1] \in Nat, c[2] \in Nat, c[3] \in Nat, c[4] \in Nat,
           c[1] <= c[2], c[2] <= c[3], c[3] <= c[4], c[4] <= v,
           NEW x, x = writeHandler(d, c, cmd)
    PROVE  \E entry : Records(x, entries, entry, c[1], v)
<1>0. x = expireGeneric(d, c, cmd)
  BY DEF writeHandler, Expirers
<1> PICK when, r, f : /\ when = DeadlineOf(cmd, c[1]) /\ r = expireAtMs(d, c[2], c[3], k, when)
                      /\ f = findLive(d, c[2], k)
  OBVIOUS
<1>1. r.ret = Bool(FALSE) \/ r.ret = Bool(TRUE)
  BY DEF expireAtMs, Result
<1>2. IF parseInteger(cmd.amount) /\ Product(cmd) \in LLong /\ when \in LLong
      THEN /\ ~IsError(x.ret)
           /\ r.ret = Bool(FALSE) => x.db = r.db /\ x.log = <<>>
           /\ r.ret = Bool(TRUE) =>
                 /\ x.db = findLive(r.db, c[4], k)
                 /\ Has(x.db, k) => x.log = <<PexpireatCommand(k, when)>>
                 /\ ~Has(x.db, k) => x.log = <<DelCommand(k)>>
      ELSE x.db = d /\ x.log = <<>>
  <2>1. Replied(d, x, cmd, r, c[4], k, when)
    BY <1>0, <1>1, ExpireShape
  <2> QED BY <2>1 DEF Replied
<1>3. Sound(d)
  BY DEF Logged
<1>4. ASSUME x.log = <<>>, Sound(x.db), Trimmed(d, x.db, c[2])
      PROVE  Records(x, entries, cmd, c[1], v)
  <2>1. c[2] <= v
    OBVIOUS
  <2>2. Logged(x.db, entries, v)
    BY <1>4, <2>1, QuietLogged
  <2> QED BY <1>4, <2>2 DEF Records
<1>5. CASE ~(parseInteger(cmd.amount) /\ Product(cmd) \in LLong /\ when \in LLong)
  <2>1. x.db = d /\ x.log = <<>>
    BY <1>2, <1>5
  <2>2. Trimmed(d, d, c[2])
    BY CellFacts DEF Trimmed
  <2> QED BY <1>3, <1>4, <2>1, <2>2
<1>6. CASE parseInteger(cmd.amount) /\ Product(cmd) \in LLong /\ when \in LLong
  <2>0. when \in LLong /\ when \in Int
    BY <1>6, LLongAssumption DEF LLong, LLongMin
  <2>1. /\ Sound(r.db) /\ Others(d, r.db, k)
        /\ ~Has(f, k) => r.db = f /\ r.ret = Bool(FALSE)
        /\ Has(f, k) => r.ret = Bool(TRUE) /\ Due(f, r.db, k, when, c[3])
    <3>1. Scheduled(d, f, r, k, when, c[3])
      BY <1>3, <2>0, ExpireOne
    <3> QED BY <3>1 DEF Scheduled
  <2>2. CASE ~Has(f, k)
    <3>1. x.db = f /\ x.log = <<>>
      BY <1>2, <1>6, <2>1, <2>2
    <3>2. Trimmed(d, f, c[2]) /\ Sound(f)
      BY <1>3, FindLiveCell
    <3> QED BY <1>4, <3>1, <3>2
  <2>3. CASE Has(f, k)
    <3> PICK e : e = findLive(r.db, c[4], k)
      OBVIOUS
    <3>1. /\ x.db = e
          /\ Has(e, k) => x.log = <<PexpireatCommand(k, when)>>
          /\ ~Has(e, k) => x.log = <<DelCommand(k)>>
      BY <1>2, <1>6, <2>1, <2>3
    <3>2. Sound(e) /\ Others(r.db, e, k)
      BY <2>1, FindLiveCell
    <3>3. Others(d, e, k)
      BY <2>1, <3>2, OthersTransitive
    <3>4. CASE Has(e, k)
      <4> PICK entry : entry = PexpireatCommand(k, when)
        OBVIOUS
      <4>1. Due(f, e, k, when, c[4])
        BY <2>0, <2>1, <2>3, DueLater
      <4>2. c[2] <= v
        OBVIOUS
      <4>3. Logged(e, Append(entries, [cmd |-> entry, at |-> c[1]]), v)
        BY <2>0, <2>3, <3>2, <3>3, <4>1, <4>2, DueLogged
      <4>4. Records(x, entries, entry, c[1], v)
        BY <3>1, <3>4, <4>3 DEF Records
      <4> QED BY <4>4
    <3>5. CASE ~Has(e, k)
      <4> PICK entry : entry = DelCommand(k)
        OBVIOUS
      <4>1. c[1] <= v
        OBVIOUS
      <4>2. Logged(e, Append(entries, [cmd |-> entry, at |-> c[1]]), v)
        BY <3>2, <3>3, <3>5, <4>1, GoneLogged
      <4>3. Records(x, entries, entry, c[1], v)
        BY <3>1, <3>5, <4>2 DEF Records
      <4> QED BY <4>3
    <3> QED BY <3>4, <3>5
  <2> QED BY <2>2, <2>3
<1> QED BY <1>5, <1>6

(***************************************************************************)
(* SET, MSET and FLUSHALL.                                                 *)
(***************************************************************************)
\* What SET with options and a deadline comes to.
SetOutcome(d, c, cmd, x, p, s) ==
    \/ x.db = d /\ x.log = <<>>
    \/ x.db = p /\ x.log = <<>>
    \/ x.db = s /\ x.log = <<SetCommand(cmd.key, cmd.text)>>
    \/ \E when \in LLong :
          /\ x.db = expireAtMs(s, c[3], c[4], cmd.key, when).db
          /\ x.log = <<SetCommand(cmd.key, cmd.text), PexpireatCommand(cmd.key, when)>>

\* cmdSet ends in one of the outcomes of SetOutcome.
LEMMA SetShape ==
    ASSUME NEW d, NEW c, NEW cmd, NEW x, x = cmdSet(d, c, cmd),
           NEW p, p = findLive(d, c[2], cmd.key),
           NEW s, s = set(p, c[3], cmd.key, cmd.text).db
    PROVE  /\ SetOutcome(d, c, cmd, x, p, s)
           /\ cmd.options = {} /\ cmd.expiry = <<>> => x.db = s /\ ~IsError(x.ret)
<1> DEFINE timed == cmd.expiry # <<>>
           amount == cmd.expiry[2]
           when == amount[1] * (IF cmd.expiry[1] = "EX" THEN SecondMs ELSE 1) + c[1]
           plain == SetCommand(cmd.key, cmd.text)
           present == exists(d, c[2], cmd.key)
           stored == set(present.db, c[3], cmd.key, cmd.text)
           refused == \/ "NX" \in cmd.options /\ present.ret[2]
                      \/ "XX" \in cmd.options /\ ~present.ret[2]
           Stored == IF timed
                     THEN Reply(expireAtMs(stored.db, c[3], c[4], cmd.key, when).db, OK,
                                <<plain, PexpireatCommand(cmd.key, when)>>)
                     ELSE Reply(stored.db, OK, <<plain>>)
<1>1. x = IF timed /\ ~parseInteger(amount) THEN Reply(d, NotIntegerError, <<>>)
          ELSE IF timed /\ (amount[1] <= 0 \/ when \notin LLong)
          THEN Reply(d, Error("invalid expire time"), <<>>)
          ELSE IF cmd.options = {"NX", "XX"} THEN Reply(d, Error("syntax"), <<>>)
          ELSE IF refused THEN Reply(present.db, Nil, <<>>)
          ELSE Stored
  BY Zenon DEF cmdSet
<1>2. present.db = p
  BY DEF exists, Result
<1>3. stored.db = s
  BY <1>2
<1> HIDE DEF present, amount, when, plain, stored
<1>4. CASE timed /\ (~parseInteger(amount) \/ amount[1] <= 0 \/ when \notin LLong)
  <2> HIDE DEF Stored, refused
  <2>1. PICK message : x = Reply(d, message, <<>>)
    BY <1>1, <1>4
  <2> QED BY <1>4, <2>1 DEF Reply, SetOutcome
<1>5. CASE ~(timed /\ (~parseInteger(amount) \/ amount[1] <= 0 \/ when \notin LLong))
  <2>1. CASE cmd.options = {"NX", "XX"}
    <3> HIDE DEF Stored, refused
    <3>1. x = Reply(d, Error("syntax"), <<>>)
      BY <1>1, <1>5, <2>1
    <3>2. cmd.options # {}
      BY <2>1
    <3> QED BY <3>1, <3>2 DEF Reply, SetOutcome
  <2>2. CASE cmd.options # {"NX", "XX"} /\ refused
    <3>1. cmd.options # {}
      BY <2>2
    <3> HIDE DEF Stored, refused
    <3>2. x = Reply(present.db, Nil, <<>>)
      BY <1>1, <1>5, <2>2
    <3> QED BY <1>2, <3>1, <3>2 DEF Reply, SetOutcome
  <2>3. CASE cmd.options # {"NX", "XX"} /\ ~refused
    <3>1. x = Stored
      <4> HIDE DEF Stored, refused
      <4> QED BY <1>1, <1>5, <2>3
    <3> HIDE DEF refused
    <3>2. CASE timed
      <4>1. when \in LLong
        BY <1>5, <3>2
      <4>2. x = Reply(expireAtMs(s, c[3], c[4], cmd.key, when).db, OK,
                      <<plain, PexpireatCommand(cmd.key, when)>>)
        BY <1>3, <3>1, <3>2
      <4>3. /\ x.db = expireAtMs(s, c[3], c[4], cmd.key, when).db
            /\ x.log = <<plain, PexpireatCommand(cmd.key, when)>>
        BY <4>2 DEF Reply
      <4> QED BY <3>2, <4>1, <4>3 DEF SetOutcome, plain
    <3>3. CASE ~timed
      <4>1. x = Reply(s, OK, <<plain>>)
        BY <1>3, <3>1, <3>3
      <4>2. x.db = s /\ x.log = <<plain>> /\ ~IsError(x.ret)
        BY <4>1 DEF Reply, OK, IsError
      <4> QED BY <4>2 DEF SetOutcome, plain
    <3> QED BY <3>2, <3>3
  <2> QED BY <2>1, <2>2, <2>3
<1> QED BY <1>4, <1>5

\* The SET of a key that holds its text.
LEMMA SetLogged ==
    ASSUME NEW d, NEW entries, NEW u \in Nat, Logged(d, entries, u), NEW k \in Key,
           NEW text, IsText(text), NEW e, Sound(e), Others(d, e, k), Holds(e, k, text),
           NEW a \in Nat, NEW v \in Nat, a <= v, u <= v, NEW cmd, cmd = SetCommand(k, text)
    PROVE  Logged(e, Append(entries, [cmd |-> cmd, at |-> a]), v)
<1>1. /\ cmd.name = "SET" /\ cmd.key = k /\ cmd.text = text /\ cmd.options = {}
      /\ cmd.expiry = <<>>
  BY DEF SetCommand
<1>2. \A x : Overwrites(cmd, x) <=> x = k
  BY <1>1 DEF Overwrites
<1>3. Overwriting(d, e, cmd)
  BY <1>2, OthersCell DEF Overwriting, Holds
<1>4. ASSUME NEW l, NEW t \in Nat, Sound(l), NEW s, s = writeHandler(l, AllAt(t), cmd)
      PROVE  /\ Overwriting(l, s.db, cmd)
             /\ ~IsError(s.ret)
             /\ \A x \in Key : Overwrites(cmd, x) => SameCell(e, s.db, x)
  <2> PICK c, p, b : /\ c = AllAt(t) /\ p = findLive(l, c[2], k)
                     /\ b = set(p, c[3], k, text).db
    OBVIOUS
  <2>1. s = cmdSet(l, c, cmd)
    BY <1>1, <1>4 DEF writeHandler
  <2>2. s.db = b /\ ~IsError(s.ret)
    BY <1>1, <2>1, SetShape
  <2>3. Sound(p) /\ Others(l, p, k)
    BY <1>4, FindLiveCell
  <2>4. Sound(b) /\ Others(p, b, k) /\ Holds(b, k, text)
    BY <2>3, SetOne
  <2>5. Others(l, b, k)
    BY <2>3, <2>4, OthersTransitive
  <2>6. Overwriting(l, b, cmd)
    BY <1>2, <2>4, <2>5, OthersCell DEF Overwriting, Holds
  <2>7. SameCell(e, b, k)
    BY <2>4, HoldsSame
  <2> QED BY <1>2, <2>2, <2>6, <2>7
<1>5. Replaces(e, cmd, v)
  BY <1>4 DEF Replaces
<1>6. cmd.name \in WriteCommands /\ cmd.name # "PEXPIREAT"
  BY <1>1 DEF WriteCommands, DenyOomCommands
<1> HIDE DEF SetCommand
<1> QED BY <1>3, <1>5, <1>6, OverwriteLogged

\* A handler that propagated nothing, one command or two.
Recorded(x, entries, a, v) ==
    \/ x.log = <<>> /\ Logged(x.db, entries, v)
    \/ \E p : x.log = <<p>> /\ Logged(x.db, Append(entries, [cmd |-> p, at |-> a]), v)
    \/ \E p, q : /\ x.log = <<p, q>>
                 /\ Logged(x.db, Append(Append(entries, [cmd |-> p, at |-> a]),
                                        [cmd |-> q, at |-> a]), v)

\* SET, as a client sends it.
LEMMA CmdSetLogged ==
    ASSUME NEW d, NEW entries, NEW u \in Nat, Logged(d, entries, u), NEW cmd,
           NEW k \in Key, k = cmd.key, NEW text, text = cmd.text, IsText(text),
           NEW v \in Nat, u <= v, NEW c, c[1] \in Nat, c[2] \in Nat, c[3] \in Nat, c[4] \in Nat,
           c[1] <= c[2], c[2] <= c[3], c[3] <= c[4], c[4] <= v,
           NEW x, x = cmdSet(d, c, cmd)
    PROVE  Recorded(x, entries, c[1], v)
<1> PICK p, s, plain : /\ p = findLive(d, c[2], k) /\ s = set(p, c[3], k, text).db
                       /\ plain = SetCommand(k, text)
  OBVIOUS
<1>1. SetOutcome(d, c, cmd, x, p, s)
  BY SetShape
<1>2. Sound(d)
  BY DEF Logged
<1>3. Sound(p) /\ Others(d, p, k) /\ Trimmed(d, p, c[2])
  BY <1>2, FindLiveCell
<1>4. Sound(s) /\ Others(p, s, k) /\ Holds(s, k, text)
  BY <1>3, SetOne
<1>5. Others(d, s, k)
  BY <1>3, <1>4, OthersTransitive
<1> PICK more : more = Append(entries, [cmd |-> plain, at |-> c[1]])
  OBVIOUS
<1>6. Logged(s, more, v)
  <2>1. c[1] <= v
    OBVIOUS
  <2> QED BY <1>4, <1>5, <2>1, SetLogged
<1>7. CASE x.log = <<>> /\ (x.db = d \/ x.db = p)
  <2>1. Sound(x.db) /\ Trimmed(d, x.db, c[2]) /\ c[2] <= v
    BY <1>2, <1>3, <1>7, CellFacts DEF Trimmed
  <2>2. Logged(x.db, entries, v)
    BY <2>1, QuietLogged
  <2> QED BY <1>7, <2>2 DEF Recorded
<1>8. CASE x.db = s /\ x.log = <<plain>>
  BY <1>6, <1>8 DEF Recorded
<1>9. ASSUME NEW when \in LLong, x.db = expireAtMs(s, c[3], c[4], k, when).db,
             x.log = <<plain, PexpireatCommand(k, when)>>
      PROVE  Recorded(x, entries, c[1], v)
  <2> PICK r, f, second : /\ r = expireAtMs(s, c[3], c[4], k, when) /\ f = findLive(s, c[3], k)
                          /\ second = PexpireatCommand(k, when)
    OBVIOUS
  <2>1. Scheduled(s, f, r, k, when, c[4])
    BY <1>4, ExpireOne
  <2>2. Has(f, k)
    BY <1>4 DEF Holds, findLive, IsExpired
  <2>3. Sound(r.db) /\ Others(s, r.db, k) /\ Due(f, r.db, k, when, c[4])
    BY <2>1, <2>2 DEF Scheduled
  <2>4. c[1] <= c[3] /\ c[3] <= v /\ v <= v
    OBVIOUS
  <2>5. Logged(r.db, Append(more, [cmd |-> second, at |-> c[1]]), v)
    BY <1>6, <2>2, <2>3, <2>4, DueLogged
  <2>6. x.db = r.db /\ x.log = <<plain, second>>
    BY <1>9
  <2> QED BY <2>5, <2>6 DEF Recorded
<1> QED BY <1>1, <1>7, <1>8, <1>9 DEF SetOutcome

\* MSET.
LEMMA MsetLogged ==
    ASSUME NEW d, NEW entries, NEW u \in Nat, Logged(d, entries, u), NEW cmd,
           cmd.name = "MSET", NEW ps, ps = cmd.pairs, ArePairs(ps),
           NEW v \in Nat, u <= v, NEW c, c[1] \in Nat, c[1] <= v,
           NEW x, x = cmdMset(d, c, cmd)
    PROVE  Recorded(x, entries, c[1], v)
<1> PICK m, e : m = Len(ps) /\ e = MsetLoop(c, cmd, d)
  OBVIOUS
<1>1. DOMAIN ps = 1 .. m
  BY DEF ArePairs
<1>2. \A y : Overwrites(cmd, y) <=> \E i \in 1 .. m : ps[i][1] = y
  BY <1>1 DEF Overwrites
<1>3. x.db = e /\ x.log = <<cmd>>
  BY DEF cmdMset, Reply
<1>4. Sound(d)
  BY DEF Logged
<1>5. Sound(e) /\ Rewrites(ps, m, d, e, d, e)
  BY <1>4, MsetTwice
<1>6. Overwriting(d, e, cmd)
  BY <1>2, <1>5 DEF Overwriting, Rewrites, Plain
<1>7. ASSUME NEW l, NEW t \in Nat, Sound(l), NEW s, s = writeHandler(l, AllAt(t), cmd)
      PROVE  /\ Overwriting(l, s.db, cmd)
             /\ ~IsError(s.ret)
             /\ \A y \in Key : Overwrites(cmd, y) => SameCell(e, s.db, y)
  <2> PICK b, g : b = AllAt(t) /\ g = MsetLoop(b, cmd, l)
    OBVIOUS
  <2>1. s = cmdMset(l, b, cmd)
    BY <1>7 DEF writeHandler
  <2>2. s.db = g /\ ~IsError(s.ret)
    BY <2>1 DEF cmdMset, Reply, OK, IsError
  <2>3. Sound(g) /\ Rewrites(ps, m, d, e, l, g)
    BY <1>4, <1>7, MsetTwice
  <2>4. Overwriting(l, g, cmd)
    BY <1>2, <2>3 DEF Overwriting, Rewrites, Plain
  <2> QED BY <1>2, <2>2, <2>3, <2>4 DEF Rewrites
<1>8. Replaces(e, cmd, v)
  BY <1>7 DEF Replaces
<1>9. cmd.name \in WriteCommands /\ cmd.name # "PEXPIREAT"
  BY DEF WriteCommands, DenyOomCommands
<1>10. Logged(e, Append(entries, [cmd |-> cmd, at |-> c[1]]), v)
  BY <1>6, <1>8, <1>9, OverwriteLogged
<1> QED BY <1>3, <1>10 DEF Recorded

\* FLUSHALL.
LEMMA FlushallLogged ==
    ASSUME NEW d, NEW entries, NEW u \in Nat, Logged(d, entries, u), NEW cmd0,
           NEW v \in Nat, u <= v, NEW a \in Nat, a <= v, NEW x, x = cmdFlushall(d, cmd0)
    PROVE  Recorded(x, entries, a, v)
<1> PICK cmd, e : cmd = [name |-> "FLUSHALL"] /\ e = EmptyDB
  OBVIOUS
<1>0. cmd.name = "FLUSHALL"
  OBVIOUS
<1>1. \A y : Overwrites(cmd, y)
  BY <1>0 DEF Overwrites
<1>2. x.db = e /\ x.log = <<cmd>>
  BY DEF cmdFlushall, Reply
<1>3. Sound(e) /\ \A y : ~Has(e, y)
  <2>1. DOMAIN e.data = {}
    BY DEF EmptyDB, EmptyData, DB
  <2> QED BY <2>1, EmptySound DEF Has
<1>4. \A l : Overwriting(l, e, cmd)
  BY <1>1, <1>3 DEF Overwriting
<1>5. ASSUME NEW l, NEW t \in Nat, Sound(l), NEW s, s = writeHandler(l, AllAt(t), cmd)
      PROVE  /\ Overwriting(l, s.db, cmd)
             /\ ~IsError(s.ret)
             /\ \A y \in Key : Overwrites(cmd, y) => SameCell(e, s.db, y)
  <2>1. s = cmdFlushall(l, cmd)
    BY <1>0, <1>5 DEF writeHandler
  <2>2. s.db = e /\ ~IsError(s.ret)
    BY <2>1 DEF cmdFlushall, Reply, OK, IsError
  <2> QED BY <1>4, <2>2, CellFacts
<1>6. Replaces(e, cmd, v)
  BY <1>5 DEF Replaces
<1>7. cmd.name \in WriteCommands /\ cmd.name # "PEXPIREAT"
  BY <1>0 DEF WriteCommands, DenyOomCommands
<1>8. Logged(e, Append(entries, [cmd |-> cmd, at |-> a]), v)
  BY <1>4, <1>6, <1>7, OverwriteLogged
<1> QED BY <1>2, <1>8 DEF Recorded

(***************************************************************************)
(* All handlers.                                                           *)
(***************************************************************************)
\* The readings of a handler, up to time v.
IsClock(c, v) ==
    /\ InTime(c, MaxReadings, v)
    /\ c[1] <= c[2] /\ c[2] <= c[3] /\ c[3] <= c[4]

\* The readings of a handler, one by one.
LEMMA ClockFacts ==
    ASSUME NEW c, NEW v, IsClock(c, v)
    PROVE  /\ InTime(c, MaxReadings, v)
           /\ c[1] \in Nat /\ c[2] \in Nat /\ c[3] \in Nat /\ c[4] \in Nat
           /\ c[1] <= c[2] /\ c[2] <= c[3] /\ c[3] <= c[4]
           /\ c[1] <= v /\ c[4] <= v
BY ReadingsAssumption DEF IsClock, InTime

\* One command in the log is a case of Recorded.
LEMMA RecordsRecorded ==
    ASSUME NEW x, NEW entries, NEW cmd, NEW a, NEW v, Records(x, entries, cmd, a, v)
    PROVE  Recorded(x, entries, a, v)
BY DEF Records, Recorded

\* A handler that fails or has nothing to do.
LEMMA QuietRecorded ==
    ASSUME NEW d, NEW entries, NEW u \in Nat, NEW v \in Nat, u <= v, Logged(d, entries, u),
           NEW x, x.db = d, x.log = <<>>, NEW a
    PROVE  Recorded(x, entries, a, v)
<1>1. Sound(d) /\ v <= v
  BY DEF Logged
<1>2. Trimmed(d, d, v)
  BY CellFacts DEF Trimmed
<1>3. Logged(d, entries, v)
  BY <1>1, <1>2, QuietLogged
<1> QED BY <1>3 DEF Recorded

\* The commands that amend a key.
LEMMA AmendersLogged ==
    ASSUME NEW d, NEW entries, NEW u \in Nat, Logged(d, entries, u),
           NEW cmd, cmd.name \in Amenders, IsCommand(cmd, MaxReadings),
           NEW v \in Nat, u <= v, NEW c, c[1] \in Nat, c[1] <= v,
           NEW x, x = writeHandler(d, c, cmd)
    PROVE  Recorded(x, entries, c[1], v)
<1>1. CASE cmd.name \in Counting /\ Refused(cmd)
  <2>1. x = cmdIncrBy(d, c, cmd)
    BY <1>1 DEF writeHandler, Counting
  <2>2. cmdIncrBy(d, c, cmd) =
          IF ~parseInteger(Given(cmd)) THEN Reply(d, NotIntegerError, <<>>)
          ELSE IF cmd.name = "DECRBY" /\ Given(cmd)[1] = LLongMin
          THEN Reply(d, OverflowError, <<>>)
          ELSE Propagate(incrementBy(d, c[1], cmd.key, Delta(cmd)), cmd)
    BY Zenon DEF cmdIncrBy, Given, Delta
  <2>3. \E message : x = Reply(d, message, <<>>)
    BY <1>1, <2>1, <2>2, Zenon DEF Refused
  <2>4. x.db = d /\ x.log = <<>>
    BY <2>3 DEF Reply
  <2> QED BY <2>4, QuietRecorded
<1>2. CASE ~(cmd.name \in Counting /\ Refused(cmd))
  <2> PICK k : k = cmd.key
    OBVIOUS
  <2>1. k \in Key
    BY DEF IsCommand, Amenders, Counting, KeylessCommands
  <2>2. Behaves(cmd, k)
    BY <1>2, AmendersBehave
  <2>3. \A e, b : Calls(cmd, writeHandler(e, b, cmd), Method(cmd, e, b[1]))
    BY <1>2, HandlersCall
  <2>4. Amender(cmd, k)
    BY <2>2, <2>3, MethodAmender
  <2>5. /\ cmd.name \in WriteCommands /\ cmd.name # "PEXPIREAT"
        /\ Amends(cmd, k) /\ \A y : ~Overwrites(cmd, y)
    BY DEF Amenders, Counting, WriteCommands, DenyOomCommands, Amends, Overwrites
  <2>6. \/ x.log = <<>> /\ Logged(x.db, entries, v)
        \/ x.log = <<cmd>> /\ Logged(x.db, Append(entries, [cmd |-> cmd, at |-> c[1]]), v)
    BY <2>1, <2>4, <2>5, AmenderLogged
  <2> QED BY <2>6 DEF Recorded
<1> QED BY <1>1, <1>2

\* Whatever a client sends, the log follows the database.
LEMMA HandlerLogged ==
    ASSUME NEW d, NEW entries, NEW u \in Nat, Logged(d, entries, u),
           NEW cmd, cmd.name \in WriteCommands, IsCommand(cmd, MaxReadings),
           NEW v \in Nat, u <= v, NEW c, IsClock(c, v), NEW x, x = writeHandler(d, c, cmd)
    PROVE  Recorded(x, entries, c[1], v)
<1>0. /\ InTime(c, MaxReadings, v)
      /\ c[1] \in Nat /\ c[2] \in Nat /\ c[3] \in Nat /\ c[4] \in Nat
      /\ c[1] <= c[2] /\ c[2] <= c[3] /\ c[3] <= c[4]
      /\ c[1] <= v /\ c[4] <= v
  BY ClockFacts
<1>1. CASE cmd.name = "DEL"
  <2>1. IsDel(cmd)
    BY <1>1 DEF IsDel, AreKeys, IsCommand
  <2> QED BY <1>0, <2>1, DelLogged, RecordsRecorded
<1>2. CASE cmd.name \in Expirers
  <2>1. PICK k : k = cmd.key /\ k \in Key
    BY <1>2 DEF IsCommand, Expirers, KeylessCommands
  <2>2. PICK entry : Records(x, entries, entry, c[1], v)
    BY <1>0, <1>2, <2>1, ExpireLogged
  <2> QED BY <2>2, RecordsRecorded
<1>3. CASE cmd.name = "SET"
  <2>1. PICK k, text : k = cmd.key /\ k \in Key /\ text = cmd.text /\ IsText(text)
    BY <1>3 DEF IsCommand, IsText, KeylessCommands
  <2>2. x = cmdSet(d, c, cmd)
    BY <1>3 DEF writeHandler
  <2> QED BY <1>0, <2>1, <2>2, CmdSetLogged
<1>4. CASE cmd.name = "MSET"
  <2>1. PICK ps : ps = cmd.pairs /\ ArePairs(ps)
    BY <1>4 DEF IsCommand, ArePairs
  <2>2. x = cmdMset(d, c, cmd)
    BY <1>4 DEF writeHandler
  <2> QED BY <1>0, <1>4, <2>1, <2>2, MsetLogged
<1>5. CASE cmd.name = "FLUSHALL"
  <2>1. x = cmdFlushall(d, cmd)
    BY <1>5 DEF writeHandler
  <2> QED BY <1>0, <2>1, FlushallLogged
<1>6. CASE cmd.name \in Amenders
  BY <1>0, <1>6, AmendersLogged
<1> QED
  BY <1>1, <1>2, <1>3, <1>4, <1>5, <1>6
  DEF WriteCommands, DenyOomCommands, Amenders, Counting, Expirers

(***************************************************************************)
(* What reaches the log, entry by entry.                                   *)
(***************************************************************************)
LEMMA IsLogSeq ==
    ASSUME NEW p, IsLog(p), NEW q, IsLog(q), NEW x
    PROVE  \E S : p \in Seq(S) /\ q \in Seq(S) /\ x \in S
<1>1. PICK T : p \in Seq(T)
  BY DEF IsLog
<1>2. PICK R : q \in Seq(R)
  BY DEF IsLog
<1> PICK S : S = T \cup R \cup {x}
  OBVIOUS
<1>3. T \subseteq S /\ R \subseteq S /\ x \in S
  OBVIOUS
<1>4. p \in Seq(S)
  BY <1>1, <1>3
<1>5. q \in Seq(S)
  BY <1>2, <1>3
<1> QED BY <1>3, <1>4, <1>5

\* Concatenation of logs.
LEMMA ConcatLog ==
    ASSUME NEW p, IsLog(p), NEW q, IsLog(q), NEW x
    PROVE  /\ IsLog(p \o q) /\ Len(p \o q) = Len(p) + Len(q)
           /\ p \o Append(q, x) = Append(p \o q, x)
           /\ p \o <<>> = p
           /\ p \o <<x>> = Append(p, x)
<1>1. PICK S : p \in Seq(S) /\ q \in Seq(S) /\ x \in S
  BY IsLogSeq
<1>2. p \o q \in Seq(S) /\ Len(p \o q) = Len(p) + Len(q)
  BY <1>1, ConcatProperties
<1>3. <<x>> \in Seq(S)
  BY <1>1
<1>4. p \o <<x>> = Append(p, x) /\ Append(q, x) = q \o <<x>>
  BY <1>1, AppendIsConcat
<1>5. Append(p \o q, x) = (p \o q) \o <<x>>
  BY <1>1, <1>2, AppendIsConcat
<1>6. (p \o q) \o <<x>> = p \o (q \o <<x>>)
  BY <1>1, <1>3, ConcatAssociative
<1>7. p \o <<>> = p
  BY <1>1, ConcatEmptySeq
<1>8. IsLog(p \o q)
  BY <1>2 DEF IsLog
<1> QED BY <1>2, <1>4, <1>5, <1>6, <1>7, <1>8

\* A function on 1 .. n + 1 that continues a sequence of length n.
Continues(z, s, n, e) ==
    /\ z = [i \in 1 .. n + 1 |-> z[i]]
    /\ \A i \in 1 .. n : z[i] = s[i]
    /\ z[n + 1] = e

\* A sequence that continues another by e is that sequence with e appended.
LEMMA ContinuesAppend ==
    ASSUME NEW S, NEW s \in Seq(S), NEW n \in Nat, Len(s) = n, NEW e \in S,
           NEW z, Continues(z, s, n, e)
    PROVE  z = Append(s, e)
<1>1. /\ Append(s, e) \in Seq(S) /\ Len(Append(s, e)) = n + 1
      /\ (\A i \in 1 .. n : Append(s, e)[i] = s[i]) /\ Append(s, e)[n + 1] = e
  BY AppendProperties
<1>2. \A i \in 1 .. n + 1 : i \in 1 .. n \/ i = n + 1
  OBVIOUS
<1>3. \A i \in 1 .. n + 1 : z[i] = Append(s, e)[i] /\ z[i] \in S
  <2> SUFFICES ASSUME NEW i \in 1 .. n + 1 PROVE z[i] = Append(s, e)[i] /\ z[i] \in S
    OBVIOUS
  <2>1. CASE i \in 1 .. n
    <3>1. z[i] = s[i]
      BY <2>1 DEF Continues
    <3>2. s[i] \in S /\ Append(s, e)[i] = s[i]
      BY <1>1, <2>1
    <3> QED BY <3>1, <3>2
  <2>2. CASE i = n + 1
    <3>1. z[i] = e
      BY <2>2 DEF Continues
    <3> QED BY <1>1, <2>2, <3>1
  <2> QED BY <1>2, <2>1, <2>2
<1>4. z \in Seq(S) /\ Len(z) = n + 1
  <2>1. z \in [1 .. n + 1 -> S] /\ n + 1 \in Nat
    BY <1>3 DEF Continues
  <2> QED BY <2>1
<1> QED BY <1>1, <1>3, <1>4, SeqEqual

\* The stamps, and the DELs of evictions, come one by one.
LEMMA StampAppend ==
    ASSUME NEW p, IsLog(p), NEW x, NEW a
    PROVE  /\ Stamped(<<>>, a) = <<>> /\ IsLog(Stamped(p, a)) /\ Len(Stamped(p, a)) = Len(p)
           /\ Stamped(Append(p, x), a) = Append(Stamped(p, a), [cmd |-> x, at |-> a])
<1> DEFINE E(y) == [cmd |-> y, at |-> a]
<1> PICK longer, n : longer = Append(p, x) /\ n = Len(p)
  OBVIOUS
<1>1. /\ n \in Nat /\ DOMAIN p = 1 .. n /\ DOMAIN longer = 1 .. n + 1 /\ Len(longer) = n + 1
      /\ \A i \in 1 .. n : longer[i] = p[i]
      /\ longer[n + 1] = x
  BY LogAppend
<1> PICK s, z : s = Stamped(p, a) /\ z = Stamped(longer, a)
  OBVIOUS
<1>2. s = [i \in 1 .. n |-> E(p[i])] /\ z = [i \in 1 .. n + 1 |-> E(longer[i])]
  BY <1>1 DEF Stamped
<1> HIDE DEF E
<1> PICK S : S = {s[i] : i \in 1 .. n} \cup {E(x)}
  OBVIOUS
<1>3. s \in Seq(S) /\ Len(s) = n /\ E(x) \in S
  BY <1>1, <1>2
<1>4. IsLog(s)
  BY <1>3 DEF IsLog
<1>5. Continues(z, s, n, E(x))
  BY <1>1, <1>2 DEF Continues
<1>9. z = Append(s, E(x))
  BY <1>1, <1>3, <1>5, ContinuesAppend
<1>10. Stamped(<<>>, a) = <<>>
  BY DEF Stamped
<1> QED BY <1>3, <1>4, <1>9, <1>10 DEF E

\* The DELs of one more victim.
LEMMA EvictionsAppend ==
    ASSUME NEW p, IsLog(p), NEW x
    PROVE  /\ PropagatedEvictions(<<>>) = <<>> /\ IsLog(PropagatedEvictions(p))
           /\ PropagatedEvictions(Append(p, x)) = Append(PropagatedEvictions(p), DelCommand(x))
<1> DEFINE E(y) == DelCommand(y)
<1> PICK longer, n : longer = Append(p, x) /\ n = Len(p)
  OBVIOUS
<1>1. /\ n \in Nat /\ DOMAIN p = 1 .. n /\ DOMAIN longer = 1 .. n + 1 /\ Len(longer) = n + 1
      /\ \A i \in 1 .. n : longer[i] = p[i]
      /\ longer[n + 1] = x
  BY LogAppend
<1> PICK s, z : s = PropagatedEvictions(p) /\ z = PropagatedEvictions(longer)
  OBVIOUS
<1>2. s = [i \in 1 .. n |-> E(p[i])] /\ z = [i \in 1 .. n + 1 |-> E(longer[i])]
  BY <1>1 DEF PropagatedEvictions
<1> HIDE DEF E
<1> PICK S : S = {s[i] : i \in 1 .. n} \cup {E(x)}
  OBVIOUS
<1>3. s \in Seq(S) /\ Len(s) = n /\ E(x) \in S
  BY <1>1, <1>2
<1>4. IsLog(s)
  BY <1>3 DEF IsLog
<1>5. Continues(z, s, n, E(x))
  BY <1>1, <1>2 DEF Continues
<1>9. z = Append(s, E(x))
  BY <1>1, <1>3, <1>5, ContinuesAppend
<1>10. PropagatedEvictions(<<>>) = <<>>
  BY DEF PropagatedEvictions
<1> QED BY <1>4, <1>9, <1>10 DEF E

\* One more command, entry of a log, and a log with several.
Longer(p, x) == Append(p, x)
WithTwo(s, p, q) == s \o <<p, q>>
Plus(entries, x, a) == Append(entries, [cmd |-> x, at |-> a])
Extended(entries, p, a) == entries \o Stamped(p, a)

\* One more command is one more entry.
LEMMA LogOneMore ==
    ASSUME NEW entries, IsLog(entries), NEW p, IsLog(p), NEW x, NEW a
    PROVE  /\ IsLog(Longer(p, x)) /\ IsLog(Extended(entries, p, a))
           /\ Extended(entries, Longer(p, x), a) = Plus(Extended(entries, p, a), x, a)
<1> PICK e, s : e = [cmd |-> x, at |-> a] /\ s = Stamped(p, a)
  OBVIOUS
<1>1. IsLog(s) /\ Stamped(Append(p, x), a) = Append(s, e)
  BY StampAppend
<1>2. IsLog(Append(p, x))
  BY LogAppend
<1>3. IsLog(entries \o s) /\ entries \o Append(s, e) = Append(entries \o s, e)
  BY <1>1, ConcatLog
<1> QED BY <1>1, <1>2, <1>3 DEF Longer, Plus, Extended

\* The empty log.
LEMMA EmptyLog == IsLog(<<>>)
<1>1. <<>> \in Seq({})
  OBVIOUS
<1> QED BY <1>1 DEF IsLog

\* No more commands, or one more.
LEMMA ShortConcat ==
    ASSUME NEW ev, IsLog(ev), NEW p, NEW one, one = Longer(ev, p)
    PROVE  ev \o <<>> = ev /\ ev \o <<p>> = one
<1>1. ev \o <<>> = ev /\ ev \o <<p>> = Append(ev, p)
  BY EmptyLog, ConcatLog
<1> QED BY <1>1 DEF Longer

\* Two more commands.
LEMMA TwoMore ==
    ASSUME NEW ev, IsLog(ev), NEW p, NEW one, one = Longer(ev, p), NEW q, NEW two,
           two = Longer(one, q)
    PROVE  WithTwo(ev, p, q) = two
<1>1. <<p, q>> = Append(<<p>>, q)
  OBVIOUS
<1>2. IsLog(<<p>>)
  <2>1. <<p>> \in Seq({p})
    OBVIOUS
  <2> QED BY <2>1 DEF IsLog
<1>3. ev \o <<p>> = Append(ev, p)
  BY EmptyLog, ConcatLog
<1>4. ev \o Append(<<p>>, q) = Append(ev \o <<p>>, q)
  BY <1>2, ConcatLog
<1> QED BY <1>1, <1>3, <1>4 DEF Longer, WithTwo

\* The cases of Recorded.
LEMMA RecordedCases ==
    ASSUME NEW x, NEW entries, NEW a, NEW v, Recorded(x, entries, a, v)
    PROVE  \/ x.log = <<>> /\ Logged(x.db, entries, v)
           \/ \E p : x.log = <<p>> /\ Logged(x.db, Plus(entries, p, a), v)
           \/ \E p, q : x.log = <<p, q>> /\ Logged(x.db, Plus(Plus(entries, p, a), q, a), v)
BY DEF Recorded, Plus

\* What a handler recorded, after the evictions that went before it.
LEMMA RecordedLog ==
    ASSUME NEW entries, IsLog(entries), NEW ev, IsLog(ev), NEW a, NEW v, NEW x,
           NEW more, more = Extended(entries, ev, a), Recorded(x, more, a, v)
    PROVE  IsLog(ev \o x.log) /\ Logged(x.db, Extended(entries, ev \o x.log, a), v)
<1>1. CASE x.log = <<>> /\ Logged(x.db, more, v)
  BY <1>1, ShortConcat
<1>2. ASSUME NEW p, x.log = <<p>>, Logged(x.db, Plus(more, p, a), v)
      PROVE  IsLog(ev \o x.log) /\ Logged(x.db, Extended(entries, ev \o x.log, a), v)
  <2>1. IsLog(Longer(ev, p)) /\ Extended(entries, Longer(ev, p), a) = Plus(more, p, a)
    BY LogOneMore
  <2>2. ev \o <<p>> = Longer(ev, p)
    BY ShortConcat
  <2>3. ev \o x.log = Longer(ev, p)
    BY <1>2, <2>2
  <2> QED BY <1>2, <2>1, <2>3
<1>3. ASSUME NEW p, NEW q, x.log = <<p, q>>, Logged(x.db, Plus(Plus(more, p, a), q, a), v)
      PROVE  IsLog(ev \o x.log) /\ Logged(x.db, Extended(entries, ev \o x.log, a), v)
  <2> PICK one : one = Longer(ev, p)
    OBVIOUS
  <2> PICK two : two = Longer(one, q)
    OBVIOUS
  <2>1. IsLog(one) /\ Extended(entries, one, a) = Plus(more, p, a)
    BY LogOneMore
  <2>2. /\ IsLog(Longer(one, q))
        /\ Extended(entries, Longer(one, q), a) = Plus(Extended(entries, one, a), q, a)
    BY <2>1, LogOneMore
  <2>3. WithTwo(ev, p, q) = two
    BY TwoMore
  <2>4. ev \o x.log = Longer(one, q)
    BY <1>3, <2>3 DEF WithTwo
  <2> QED BY <1>3, <2>1, <2>2, <2>4
<1> QED BY <1>1, <1>2, <1>3, RecordedCases

(***************************************************************************)
(* Evictions.                                                              *)
(***************************************************************************)
LruLength(d, n) == Len(d.lru) = n
Victim(d) == Last(d.lru)

\* The key at the back is there, and lru is one shorter without it.
LEMMA EraseLast ==
    ASSUME NEW d, Sound(d), NEW n \in Nat, LruLength(d, n + 1),
           NEW k, k = Victim(d), NEW e, e = erase(d, k)
    PROVE  k \in Key /\ Sound(e) /\ Others(d, e, k) /\ ~Has(e, k) /\ LruLength(e, n)
<1> PICK s : s = d.lru
  OBVIOUS
<1>1. WellFormed(d) /\ LruConsistent(d) /\ s \in Seq(Key) /\ Len(s) = n + 1
  BY DEF Sound, WellFormed, LruConsistent, LruLength
<1>2. k = s[n + 1] /\ n + 1 \in 1 .. Len(s) /\ k \in Key
  BY <1>1 DEF Last, Victim
<1>3. k \in DOMAIN d.data
  BY <1>1, <1>2 DEF LruConsistent
<1>4. Sound(e) /\ ~Has(e, k)
  BY <1>3, EraseSound, SoundIsSoundBut
<1>5. Others(d, e, k)
  BY <1>1, <1>3, EraseAnyStep DEF KeyStep
<1>6. e.lru = Unlink(s, k)
  BY <1>1, <1>3, EraseEffect
<1>7. PICK p : p \in 1 .. Len(s) /\ Unlink(s, k) = RemoveAt(s, p)
  <2>1. DOMAIN s = 1 .. Len(s)
    BY <1>1
  <2>2. \E i \in DOMAIN s : s[i] = k
    BY <1>2, <2>1
  <2>3. (CHOOSE i \in DOMAIN s : s[i] = k) \in DOMAIN s
    BY <2>2
  <2> QED BY <2>1, <2>3 DEF Unlink
<1>8. Len(RemoveAt(s, p)) = Len(s) - 1
  BY <1>1, <1>7, RemoveAtProperties
<1> QED BY <1>1, <1>2, <1>4, <1>5, <1>6, <1>7, <1>8 DEF LruLength

\* What the loop of evictIfNeeded has done after some turns.
Evicted(acc, entries, a, v) ==
    /\ IsLog(acc.evicted)
    /\ Logged(acc.db, Extended(entries, PropagatedEvictions(acc.evicted), a), v)

\* One turn of the loop: the victim goes and its DEL is logged.
LEMMA EvictTurn ==
    ASSUME NEW acc, NEW entries, IsLog(entries), NEW a \in Nat, NEW v \in Nat, a <= v,
           Evicted(acc, entries, a, v), NEW n \in Nat, LruLength(acc.db, n + 1),
           NEW i, NEW b, b = EvictStep(acc, i)
    PROVE  Evicted(b, entries, a, v) /\ LruLength(b.db, n)
<1> PICK d, k, p, e : d = acc.db /\ k = Victim(d) /\ p = acc.evicted /\ e = erase(d, k)
  OBVIOUS
<1>1. b.db = e /\ b.evicted = Longer(p, k)
  BY DEF EvictStep, Longer, Victim
<1> PICK ev, more, cmd : /\ ev = PropagatedEvictions(p) /\ more = Extended(entries, ev, a)
                         /\ cmd = DelCommand(k)
  OBVIOUS
<1>2. IsLog(p) /\ Logged(d, more, v)
  BY DEF Evicted
<1>3. Sound(d) /\ LruLength(d, n + 1)
  BY <1>2 DEF Logged
<1>4. k \in Key /\ Sound(e) /\ Others(d, e, k) /\ ~Has(e, k) /\ LruLength(e, n)
  BY <1>3, EraseLast
<1>5. v <= v
  OBVIOUS
<1>6. Logged(e, Plus(more, cmd, a), v)
  BY <1>2, <1>4, <1>5, GoneLogged DEF Plus
<1>7. IsLog(Longer(p, k)) /\ IsLog(ev) /\ PropagatedEvictions(Longer(p, k)) = Longer(ev, cmd)
  BY <1>2, LogAppend, EvictionsAppend DEF Longer
<1>8. Extended(entries, Longer(ev, cmd), a) = Plus(more, cmd, a)
  BY <1>7, LogOneMore
<1> QED BY <1>1, <1>4, <1>6, <1>7, <1>8 DEF Evicted

\* evictIfNeeded stops after some number of turns of its loop.
LEMMA EvictTurns ==
    ASSUME NEW d, Sound(d), NEW limit, NEW p, NEW room, room = evictIfNeeded(d, limit, p)
    PROVE  \E n, m, acc :
              /\ n \in Nat /\ m \in Nat /\ LruLength(d, m) /\ n <= m
              /\ acc = EraseBack(d, n) /\ room.db = acc.db /\ room.evicted = acc.evicted
<1> PICK m : m = Len(d.lru)
  OBVIOUS
<1>1. m \in Nat /\ LruLength(d, m)
  BY DEF Sound, WellFormed, LruConsistent, LruLength
<1> DEFINE Stops(n) == n = m \/ EraseBack(d, n).db.memoryUsed <= limit
           T == {n \in 0 .. m : Stops(n)}
           n1 == IF limit = 0 \/ p = "NoEviction" THEN 0 ELSE Min(T)
<1>2. T \subseteq Nat /\ m \in T
  BY <1>1
<1>3. room = [db |-> EraseBack(d, n1).db, evicted |-> EraseBack(d, n1).evicted,
              withinLimit |-> limit = 0 \/ EraseBack(d, n1).db.memoryUsed <= limit]
  BY Zenon DEF evictIfNeeded
<1>4. n1 \in 0 .. m
  <2> HIDE DEF Stops
  <2>1. Min(T) \in T
    <3> HIDE DEF T
    <3>1. \E x \in T : \A y \in T : x <= y
      BY <1>2, LeastNatural
    <3> QED BY <3>1 DEF Min
  <2> QED BY <1>1, <2>1
<1> HIDE DEF n1
<1> PICK acc : acc = EraseBack(d, n1)
  OBVIOUS
<1>5. room.db = acc.db /\ room.evicted = acc.evicted
  BY <1>3
<1> QED BY <1>1, <1>4, <1>5

\* No turn yet.
LEMMA NoTurn ==
    ASSUME NEW d, NEW entries, NEW u \in Nat, NEW v \in Nat, u <= v, Logged(d, entries, u),
           NEW a, NEW b, b = [db |-> d, evicted |-> <<>>]
    PROVE  Evicted(b, entries, a, v) /\ b.db = d
<1>1. Sound(d) /\ IsLog(entries) /\ v <= v
  BY DEF Logged
<1>2. Trimmed(d, d, v)
  BY CellFacts DEF Trimmed
<1>3. Logged(d, entries, v)
  BY <1>1, <1>2, QuietLogged
<1>4. PropagatedEvictions(<<>>) = <<>> /\ IsLog(<<>>)
  BY EvictionsAppend, EmptyLog
<1>5. Extended(entries, <<>>, a) = entries
  <2>1. Stamped(<<>>, a) = <<>>
    BY EmptyLog, StampAppend
  <2>2. entries \o <<>> = entries
    BY <1>1, EmptyLog, ConcatLog
  <2> QED BY <2>1, <2>2 DEF Extended
<1>6. b.db = d /\ b.evicted = <<>>
  OBVIOUS
<1> QED BY <1>3, <1>4, <1>5, <1>6 DEF Evicted

\* The victims of evictIfNeeded, when their DELs are in the log.
LEMMA EvictLogged ==
    ASSUME NEW d, NEW entries, NEW u \in Nat, NEW v \in Nat, Logged(d, entries, u), u <= v,
           NEW a \in Nat, a <= v,
           NEW limit, NEW p, NEW room, room = evictIfNeeded(d, limit, p)
    PROVE  Evicted(room, entries, a, v)
<1>1. Sound(d) /\ IsLog(entries)
  BY DEF Logged
<1>2. PICK n, m, acc :
              /\ n \in Nat /\ m \in Nat /\ LruLength(d, m) /\ n <= m
              /\ acc = EraseBack(d, n) /\ room.db = acc.db /\ room.evicted = acc.evicted
  BY <1>1, EvictTurns
<1> PICK base : base = [db |-> d, evicted |-> <<>>]
  OBVIOUS
<1>3. PICK h : Runs("evict", 0, 0, base, h, n) /\ EraseBack(d, n) = h[n]
  BY <1>2, EvictChain
<1>4. h[0] = base
  BY <1>3 DEF Runs
<1>5. \A i \in 0 .. n - 1 : h[i + 1] = EvictStep(h[i], i + 1)
  BY <1>3, LoopSteps DEF Runs
<1> DEFINE P == {i \in Nat : i <= n => /\ Evicted(h[i], entries, a, v)
                                       /\ LruLength(h[i].db, m - i)}
<1>6. 0 \in P
  <2>1. Evicted(base, entries, a, v) /\ base.db = d
    BY NoTurn
  <2> QED BY <1>2, <1>4, <2>1
<1>7. ASSUME NEW i \in Nat, i \in P PROVE i + 1 \in P
  <2> SUFFICES ASSUME i + 1 <= n
               PROVE  /\ Evicted(h[i + 1], entries, a, v)
                      /\ LruLength(h[i + 1].db, m - (i + 1))
    OBVIOUS
  <2> PICK x, y, k : x = h[i] /\ y = h[i + 1] /\ k = m - (i + 1)
    OBVIOUS
  <2>1. Evicted(x, entries, a, v) /\ k \in Nat /\ LruLength(x.db, k + 1)
    <3>1. i <= n /\ m - i = k + 1 /\ k \in Nat
      BY <1>2
    <3> QED BY <1>7, <3>1
  <2>2. y = EvictStep(x, i + 1)
    BY <1>2, <1>5
  <2> HIDE DEF P
  <2>3. Evicted(y, entries, a, v) /\ LruLength(y.db, k)
    BY <1>1, <2>1, <2>2, EvictTurn
  <2> QED BY <2>3
<1>8. n \in P
  <2> HIDE DEF P
  <2>1. Nat \subseteq P
    BY <1>6, <1>7, InductionOnNat
  <2> QED BY <1>2, <2>1
<1>9. Evicted(acc, entries, a, v)
  BY <1>2, <1>3, <1>8
<1> QED BY <1>2, <1>9 DEF Evicted

(***************************************************************************)
(* Running a command.                                                      *)
(***************************************************************************)
\* What a command leaves behind, when what it propagates is in the log.
Executed(x, entries, a, v) ==
    /\ IsLog(x.log)
    /\ Logged(x.db, Extended(entries, x.log, a), v)

\* The evictions, then what the handler recorded.
Both(ev, r) == ev \o r.log

\* The fields of what executeWrite returns.
LEMMA AfterFields ==
    ASSUME NEW ev, NEW r, NEW x, x = After(ev, r)
    PROVE  x.db = r.db /\ x.log = Both(ev, r)
<1> PICK whole : whole = ev \o r.log
  OBVIOUS
<1>1. x = Reply(r.db, r.ret, whole)
  BY Zenon DEF After
<1>2. x.db = r.db /\ x.log = whole
  BY <1>1 DEF Reply
<1> QED BY <1>2 DEF Both

\* A write, once evictIfNeeded has made room.
LEMMA WriteLogged ==
    ASSUME NEW room, NEW entries, IsLog(entries), NEW v \in Nat, NEW c, IsClock(c, v),
           NEW a, a = c[1], Evicted(room, entries, a, v),
           NEW cmd, cmd.name \in WriteCommands, IsCommand(cmd, MaxReadings),
           NEW x, x = executeWrite(room, c, cmd)
    PROVE  Executed(x, entries, a, v)
<1> PICK ev, more : ev = PropagatedEvictions(room.evicted) /\ more = Extended(entries, ev, a)
  OBVIOUS
<1>1. Logged(room.db, more, v) /\ IsLog(room.evicted)
  BY DEF Evicted
<1>2. IsLog(ev)
  BY <1>1, EvictionsAppend
<1>3. \E r : Recorded(r, more, a, v) /\ x = After(ev, r)
  <2>1. CASE ~room.withinLimit /\ cmd.name \in DenyOomCommands
    <3> PICK r : r = Reply(room.db, Error("OOM"), <<>>)
      OBVIOUS
    <3>1. x = After(ev, r)
      BY <2>1, Zenon DEF executeWrite
    <3>2. r.db = room.db /\ r.log = <<>>
      BY DEF Reply
    <3>3. v <= v
      OBVIOUS
    <3>4. Recorded(r, more, a, v)
      BY <1>1, <3>2, <3>3, QuietRecorded
    <3> QED BY <3>1, <3>4
  <2>2. CASE ~(~room.withinLimit /\ cmd.name \in DenyOomCommands)
    <3> PICK r : r = writeHandler(room.db, c, cmd)
      OBVIOUS
    <3>1. x = After(ev, r)
      BY <2>2, Zenon DEF executeWrite
    <3>2. v <= v
      OBVIOUS
    <3>3. Recorded(r, more, a, v)
      BY <1>1, <3>2, HandlerLogged
    <3> QED BY <3>1, <3>3
  <2> QED BY <2>1, <2>2
<1>4. PICK r : Recorded(r, more, a, v) /\ x = After(ev, r)
  BY <1>3
<1>5. x.db = r.db /\ x.log = Both(ev, r)
  BY <1>4, AfterFields
<1>6. IsLog(ev \o r.log) /\ Logged(r.db, Extended(entries, ev \o r.log, a), v)
  BY <1>2, <1>4, RecordedLog
<1> QED BY <1>5, <1>6 DEF Executed, Both

\* A command that changes nothing but the order of lru and dead keys.
LEMMA QuietExecuted ==
    ASSUME NEW d, NEW entries, NEW u \in Nat, NEW v \in Nat, u <= v, Logged(d, entries, u),
           NEW x, x.log = <<>>, Sound(x.db), Trimmed(d, x.db, v), NEW a
    PROVE  Executed(x, entries, a, v)
<1>1. IsLog(entries) /\ v <= v
  BY DEF Logged
<1> PICK e : e = x.db
  OBVIOUS
<1>2. Logged(e, entries, v)
  BY <1>1, QuietLogged
<1>3. Extended(entries, <<>>, a) = entries
  <2>1. Stamped(<<>>, a) = <<>>
    BY EmptyLog, StampAppend
  <2>2. entries \o <<>> = entries
    BY <1>1, EmptyLog, ConcatLog
  <2> QED BY <2>1, <2>2 DEF Extended
<1> QED BY <1>2, <1>3, EmptyLog DEF Executed

\* CommandProcessor::execute.
LEMMA ExecuteLogged ==
    ASSUME NEW d, NEW entries, NEW u \in Nat, Logged(d, entries, u), NEW v \in Nat,
           NEW c, IsClock(c, v), c[1] = u, NEW limit, NEW p, NEW ok,
           NEW cmd, IsCommand(cmd, MaxReadings),
           NEW x, x = execute(d, limit, p, ok, c, cmd)
    PROVE  Executed(x, entries, u, v)
<1>1. InTime(c, MaxReadings, v) /\ u <= v
  BY ClockFacts
<1>2. Sound(d) /\ IsLog(entries)
  BY DEF Logged
<1>3. CASE cmd.name \notin WriteCommands
  <2>1. cmd.name \in ReadCommands
    BY <1>3 DEF IsCommand
  <2>2. x = readHandler(d, c, cmd)
    BY <1>3 DEF execute
  <2>3. x.log = <<>> /\ Sound(x.db) /\ Trimmed(d, x.db, v)
    BY <1>1, <1>2, <2>1, <2>2, ReadQuiet
  <2> QED BY <1>1, <2>3, QuietExecuted
<1>4. CASE cmd.name \in WriteCommands /\ ~ok
  <2>1. x = Reply(d, Error("MISCONF"), <<>>)
    BY <1>4 DEF execute
  <2>2. x.log = <<>> /\ x.db = d
    BY <2>1 DEF Reply
  <2>3. Trimmed(d, d, v)
    BY CellFacts DEF Trimmed
  <2> QED BY <1>1, <1>2, <2>2, <2>3, QuietExecuted
<1>5. CASE cmd.name \in WriteCommands /\ ok
  <2> PICK room : room = evictIfNeeded(d, limit, p)
    OBVIOUS
  <2>1. Evicted(room, entries, u, v)
    BY <1>1, EvictLogged
  <2>2. x = executeWrite(room, c, cmd)
    BY <1>5, Zenon DEF execute
  <2> QED BY <1>2, <1>5, <2>1, <2>2, WriteLogged
<1> QED BY <1>3, <1>4, <1>5

(***************************************************************************)
(* The inductive invariant.                                                *)
(***************************************************************************)
Inv ==
    /\ session \in Sessions
    /\ now \in 0 .. session.maxTime
    /\ memoryLimit \in Nat
    /\ policy \in {"NoEviction", "AllKeysLru"}
    /\ healthy \in BOOLEAN
    /\ Len(log) <= session.maxLog
    /\ Logged(db, log, now)

\* What a step leaves behind, when it records what it propagates.
LEMMA RecordedInv ==
    ASSUME Inv, NEW x, NEW v \in 0 .. session.maxTime, now <= v, Executed(x, log, now, v),
           Record(x.db, x.log, now)
    PROVE  Logged(db', log', v) /\ Len(log') <= session.maxLog
<1>1. IsLog(log) /\ IsLog(x.log)
  BY DEF Inv, Logged, Executed
<1> PICK p, s : p = x.log /\ s = Stamped(p, now)
  OBVIOUS
<1>2. IsLog(s) /\ Len(s) = Len(p)
  BY <1>1, StampAppend
<1>3. Len(log \o s) = Len(log) + Len(s)
  BY <1>1, <1>2, ConcatLog
<1>4. db' = x.db /\ log' = log \o s /\ Len(log) + Len(p) <= session.maxLog
  BY DEF Record
<1>5. Logged(x.db, log \o s, v)
  BY DEF Executed, Extended
<1> QED BY <1>2, <1>3, <1>4, <1>5

\* The readings of a handler: it starts now, and time never goes back.
LEMMA ReadingsClock ==
    ASSUME Inv, NEW c \in Readings
    PROVE  /\ c[MaxReadings] \in 0 .. session.maxTime
           /\ IsClock(c, c[MaxReadings]) /\ c[1] = now
<1>1. /\ session.maxTime \in Nat /\ now \in Nat /\ now <= session.maxTime
      /\ MaxReadings \in Nat /\ MaxReadings >= 4
  BY SessionsAssumption, ReadingsAssumption DEF Inv
<1> PICK S : S = IF now < session.maxTime THEN 1 .. MaxReadings ELSE {MaxReadings}
  OBVIOUS
<1>2. PICK s \in S : c = [i \in 1 .. MaxReadings |-> IF i <= s THEN now ELSE now + 1]
  BY Zenon DEF Readings
<1>7. s \in 1 .. MaxReadings /\ (s = MaxReadings \/ now < session.maxTime)
  BY <1>1, <1>2
<1>3. \A i \in 1 .. MaxReadings : c[i] = IF i <= s THEN now ELSE now + 1
  BY <1>2
<1>4. \A i \in 1 .. MaxReadings : c[i] \in Nat /\ c[i] <= c[MaxReadings]
  BY <1>1, <1>3, <1>7
<1>5. c[1] <= c[2] /\ c[2] <= c[3] /\ c[3] <= c[4] /\ c[1] = now
  BY <1>1, <1>3, <1>7
<1>6. c[MaxReadings] \in 0 .. session.maxTime
  BY <1>1, <1>3, <1>7
<1> QED BY <1>4, <1>5, <1>6 DEF IsClock, InTime

\* execute keeps the invariant.
LEMMA ExecuteInv ==
    ASSUME Inv, NEW cmd \in session.commands, Execute(cmd)
    PROVE  Inv'
<1>1. PICK c \in Readings :
        /\ RecordReply(execute(db, memoryLimit, policy, healthy, c, cmd), c[1])
        /\ now' = c[MaxReadings]
        /\ UNCHANGED <<session, memoryLimit, policy, healthy>>
  BY DEF Execute
<1> PICK x : x = execute(db, memoryLimit, policy, healthy, c, cmd)
  OBVIOUS
<1> PICK v : v = c[MaxReadings]
  OBVIOUS
<1>2. v \in 0 .. session.maxTime /\ IsClock(c, v) /\ c[1] = now
  BY <1>1, ReadingsClock
<1>3. now \in Nat /\ v \in Nat /\ now <= v
  <2>1. c[1] <= v
    BY <1>2, ClockFacts
  <2> QED BY <1>2, <2>1 DEF Inv
<1>4. IsCommand(cmd, MaxReadings)
  BY SessionsAssumption DEF Inv
<1>5. Logged(db, log, now)
  BY DEF Inv
<1>6. Executed(x, log, now, v)
  BY <1>2, <1>3, <1>4, <1>5, ExecuteLogged
<1>7. Record(x.db, x.log, now)
  BY <1>1, <1>2 DEF RecordReply
<1>8. Logged(db', log', v) /\ Len(log') <= session.maxLog
  BY <1>2, <1>3, <1>6, <1>7, RecordedInv
<1> QED BY <1>1, <1>2, <1>8 DEF Inv

\* CONFIG SET maxmemory keeps the invariant: it evicts at once.
LEMMA ConfigSetMaxMemoryInv ==
    ASSUME Inv, ConfigSetMaxMemory
    PROVE  Inv'
<1>1. PICK bytes, room :
        /\ bytes \in session.limits
        /\ room = evictIfNeeded(db, bytes, policy)
        /\ memoryLimit' = bytes
        /\ Record(room.db, PropagatedEvictions(room.evicted), now)
        /\ UNCHANGED <<session, policy, healthy, now>>
  BY Zenon DEF ConfigSetMaxMemory
<1>2. now \in Nat /\ now <= now /\ Logged(db, log, now) /\ bytes \in Nat
  BY <1>1, SessionsAssumption DEF Inv
<1>3. Evicted(room, log, now, now)
  BY <1>1, <1>2, EvictLogged
<1> PICK x : x = [db |-> room.db, log |-> PropagatedEvictions(room.evicted)]
  OBVIOUS
<1>4. x.db = room.db /\ x.log = PropagatedEvictions(room.evicted)
  OBVIOUS
<1>5. IsLog(PropagatedEvictions(room.evicted))
  BY <1>3, EvictionsAppend DEF Evicted
<1>6. Executed(x, log, now, now)
  BY <1>3, <1>4, <1>5 DEF Evicted, Executed
<1>7. Record(x.db, x.log, now)
  BY <1>1, <1>4
<1>8. now \in 0 .. session.maxTime
  BY DEF Inv
<1>9. Logged(db', log', now) /\ Len(log') <= session.maxLog
  BY <1>2, <1>6, <1>7, <1>8, RecordedInv
<1> QED BY <1>1, <1>2, <1>9 DEF Inv

\* Time, and the active expire cycle.
LEMMA QuietInv ==
    ASSUME Inv
    PROVE  (ActiveExpire \/ Tick) => Inv'
<1>1. now \in Nat /\ now <= now /\ session.maxTime \in Nat /\ Logged(db, log, now) /\ Sound(db)
  BY SessionsAssumption DEF Inv, Logged
<1>2. ASSUME ActiveExpire PROVE Inv'
  <2>1. PICK k : k \in DOMAIN db.data \ keys(db, now) /\ db' = erase(db, k)
    BY <1>2 DEF ActiveExpire
  <2> PICK d, e : d = db /\ e = db'
    OBVIOUS
  <2>2. k \in DOMAIN d.data /\ IsExpired(d.data[k], now)
    BY <2>1 DEF keys
  <2>3. WellFormed(d)
    BY <1>1 DEF Sound
  <2>4. Sound(e) /\ ~Has(e, k)
    BY <1>1, <2>1, <2>2, EraseSound, SoundIsSoundBut
  <2>5. Others(d, e, k)
    BY <2>1, <2>2, <2>3, EraseAnyStep DEF KeyStep
  <2>6. \A x \in Key : x # k => SameCell(d, e, x)
    BY <2>5, OthersCell
  <2>7. Trimmed(d, e, now)
    BY <2>2, <2>4, <2>6 DEF Trimmed, Has
  <2>8. Logged(e, log, now)
    BY <1>1, <2>4, <2>7, QuietLogged
  <2> QED BY <1>2, <2>8 DEF ActiveExpire, Inv
<1>3. ASSUME Tick PROVE Inv'
  <2>1. now' = now + 1 /\ now' \in 0 .. session.maxTime /\ now <= now'
    BY <1>1, <1>3 DEF Tick
  <2> PICK d, v : d = db /\ v = now + 1
    OBVIOUS
  <2>2. Trimmed(d, d, v)
    BY CellFacts DEF Trimmed
  <2>3. v \in Nat /\ now <= v /\ v <= v
    BY <1>1
  <2>4. Logged(d, log, v)
    BY <1>1, <2>2, <2>3, QuietLogged
  <2> QED BY <1>3, <2>1, <2>4 DEF Tick, Inv
<1> QED BY <1>2, <1>3

\* The restart.
LEMMA RestartInv ==
    ASSUME Inv, Restart
    PROVE  Inv'
<1>1. PICK l : l = load(log, now) /\ l.ok /\ db' = l.db
  BY DEF Restart
<1>2. now \in Nat /\ Logged(db, log, now)
  BY SessionsAssumption DEF Inv
<1>3. Logged(l.db, log, now)
  BY <1>1, <1>2, RestartLogged
<1>4. memoryLimit' \in Nat /\ policy' \in {"NoEviction", "AllKeysLru"} /\ healthy' = TRUE
  BY SessionsAssumption DEF Inv, Restart
<1> QED BY <1>1, <1>3, <1>4 DEF Restart, Inv

\* Nothing is in an empty log.
LEMMA InitLogged == Logged(EmptyDB, <<>>, 0)
<1> PICK d, entries : d = EmptyDB /\ entries = <<>>
  OBVIOUS
<1>1. IsLog(entries) /\ DOMAIN entries = {} /\ Sound(d)
  BY EmptyLog, EmptySound
<1>2. \A k : ~Has(d, k)
  BY DEF EmptyDB, EmptyData, DB, Has
<1>3. \A k \in Key : DeadlineLogged(d, entries, k)
  BY <1>2 DEF DeadlineLogged
<1>4. ASSUME NEW t \in Nat PROVE Replayed(d, entries, t)
  <2> PICK l : l = load(entries, t)
    OBVIOUS
  <2>1. l = [db |-> EmptyDB, ok |-> TRUE]
    BY LoadEmpty
  <2>2. l.db = d /\ l.ok
    BY <2>1
  <2>3. Faithful(d, entries, t)
    BY <2>2 DEF Faithful
  <2> QED BY <1>1, <1>3, <2>2, <2>3 DEF Replayed
<1>5. Logged(d, entries, 0)
  BY <1>1, <1>3, <1>4 DEF Logged
<1> QED BY <1>5

\* A new server, with an empty file.
LEMMA InitInv == Init => Inv
<1> SUFFICES ASSUME Init PROVE Inv
  OBVIOUS
<1>1. db = EmptyDB /\ log = <<>> /\ now = 0
  BY DEF Init
<1>2. session.maxTime \in Nat /\ session.maxLog \in Nat
  BY SessionsAssumption DEF Init
<1>3. Logged(db, log, now)
  BY <1>1, InitLogged
<1>4. Len(log) = 0
  BY <1>1
<1> QED BY <1>1, <1>2, <1>3, <1>4 DEF Init, Inv

\* Every step keeps the invariant.
LEMMA NextInv == Inv /\ [Next]_vars => Inv'
<1> SUFFICES ASSUME Inv, [Next]_vars PROVE Inv'
  OBVIOUS
<1>1. ASSUME NEW cmd \in session.commands, Execute(cmd) PROVE Inv'
  BY <1>1, ExecuteInv
<1>2. CASE ConfigSetMaxMemory
  BY <1>2, ConfigSetMaxMemoryInv
<1>3. CASE ConfigSetPolicy
  BY <1>3, SessionsAssumption DEF ConfigSetPolicy, Inv
<1>4. CASE ActiveExpire \/ Tick
  BY <1>4, QuietInv
<1>5. CASE FlushOutcome
  BY <1>5 DEF FlushOutcome, Inv
<1>6. CASE Restart
  BY <1>6, RestartInv
<1>7. CASE UNCHANGED vars
  BY <1>7 DEF vars, Inv
<1> QED BY <1>1, <1>2, <1>3, <1>4, <1>5, <1>6, <1>7 DEF Next

\* The invariant implies the types,
LEMMA InvTyped == Inv => TypeOK
<1> SUFFICES ASSUME Inv PROVE TypeOK
  OBVIOUS
<1>1. DOMAIN db.data \subseteq Key
  BY DEF Inv, Logged, Sound, WellFormed
<1>2. \A i \in DOMAIN log : log[i].cmd.name \in WriteCommands /\ log[i].at \in 0 .. now
  BY DEF Inv, Logged, EntryTyped
<1> QED BY <1>1, <1>2 DEF Inv, TypeOK

\* and that a restart now is faithful.
LEMMA InvFaithful == Inv => RestartFaithful
<1> SUFFICES ASSUME Inv PROVE RestartFaithful
  OBVIOUS
<1>1. now \in Nat /\ now >= now
  BY SessionsAssumption DEF Inv
<1>2. Replayed(db, log, now)
  BY <1>1 DEF Inv, Logged
<1> QED BY <1>2 DEF Replayed, RestartFaithful

\* and that no number is out of range.
LEMMA InvFits == Inv => NumbersFit
<1> SUFFICES ASSUME Inv PROVE NumbersFit
  OBVIOUS
<1>1. ASSUME NEW k \in DOMAIN db.data, NEW e, e = db.data[k]
      PROVE  /\ e.expiresAtMs \in LLong
             /\ e.value.type = "string" =>
                   \A i \in DOMAIN e.value.text : e.value.text[i] \in Piece
  <2>1. EntryOK(k, e)
    BY <1>1 DEF Inv, Logged, Sound
  <2>2. ASSUME NEW text \in Seq(Piece), e.value = StringValue(text)
        PROVE  \A i \in DOMAIN e.value.text : e.value.text[i] \in Piece
    BY <2>2 DEF StringValue
  <2>3. ASSUME e.value.type = "string" PROVE \E text \in Seq(Piece) : e.value = StringValue(text)
    <3>1. /\ \A items : ListValue(items).type # "string"
          /\ \A fields : HashValue(fields).type # "string"
          /\ \A members : SetValue(members).type # "string"
      BY DEF ListValue, HashValue, SetValue
    <3> QED BY <2>1, <2>3, <3>1, Zenon DEF EntryOK, IsValue
  <2> QED BY <2>1, <2>2, <2>3 DEF EntryOK
<1>2. \A i \in DOMAIN log : log[i].cmd.name = "PEXPIREAT" => log[i].cmd.amount[1] \in LLong
  BY DEF Inv, Logged, EntryTyped
<1> QED BY <1>1, <1>2 DEF NumbersFit

\* The processor's variables keep their types: nothing but writes gets into
\* the log, none stamped with a time to come, and the database holds no
\* other keys than Key.
THEOREM TypesAreKept == Spec => []TypeOK
<1>1. Spec => []Inv
  BY InitInv, NextInv, PTL DEF Spec
<1> QED BY <1>1, InvTyped, PTL

\* A restart is faithful, whenever it happens, whatever the commands, the
\* limits and the policies, however long the log: the replay of the file
\* brings back exactly the live keys with their values and their deadlines,
\* except for keys amended under a deadline that has since passed.
THEOREM RestartIsFaithful == Spec => []RestartFaithful
<1>1. Spec => []Inv
  BY InitInv, NextInv, PTL DEF Spec
<1> QED BY <1>1, InvFaithful, PTL

\* Whatever clients add, subtract and ask for, and whatever the clock reads
\* meanwhile, no sum and no deadline outside long long is stored or logged.
THEOREM NumbersAlwaysFit == Spec => []NumbersFit
<1>1. Spec => []Inv
  BY InitInv, NextInv, PTL DEF Spec
<1> QED BY <1>1, InvFits, PTL
=============================================================================
