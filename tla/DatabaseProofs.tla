--------------------------- MODULE DatabaseProofs ----------------------------
(***************************************************************************)
(* The safety properties of Database hold in every reachable state, for    *)
(* every set of keys and every choice of the arguments.  The lemmas about  *)
(* the methods are in DatabaseOpsProofs; here they are put together, first *)
(* for the containers (IndexesConsistent), then for the memory (TypeOK,    *)
(* MemoryExact, NoEmptyAggregate, EvictionMakesRoom), then for what a      *)
(* caller sees: the containers implement the map of module Keyspace, step  *)
(* by step, a step puts the key it writes in front and keeps the order of  *)
(* the others, and an expired key makes no difference to any method that   *)
(* names a key (ExpiredInvisible).                                         *)
(***************************************************************************)
EXTENDS Database, DatabaseOpsProofs

Inv == WellFormed(db) /\ now \in Nat

\* A step that leaves well-formed containers keeps the invariant.
LEMMA StepInv ==
    ASSUME NEW d, WellFormed(d), db' = d, now' \in Nat
    PROVE  Inv'
BY DEF Inv, WellFormed, LruConsistent, VolatileConsistent

\* So does a method call with a well-formed result.
LEMMA CallInv ==
    ASSUME NEW r, NEW t \in Nat, Call(r, t), WellFormed(r.db)
    PROVE  Inv'
BY StepInv DEF Call

\* Clock readings are natural numbers.
LEMMA LaterNat ==
    ASSUME NEW t \in Nat, NEW u \in Later(t)
    PROVE  u \in Nat
BY ArgumentsAssumption DEF Later

\* Every method that names a key keeps the invariant.
LEMMA KeyCommandInv ==
    ASSUME Inv, NEW k \in Key, KeyCommand(k)
    PROVE  Inv'
<1>0. WellFormed(db) /\ now \in Nat
  BY DEF Inv
<1>1. CASE Del(k)
  BY <1>0, <1>1, KeyspaceWF, CallInv DEF Del
<1>2. CASE Peek(k)
  <2>1. ASSUME NEW t \in Later(now),
               Call(ttlMs(db, now, t, k), t) \/ Call(ttl(db, now, t, k), t)
        PROVE  Inv'
    <3>1. t \in Nat
      BY <1>0, LaterNat
    <3>2. WellFormed(ttlMs(db, now, t, k).db) /\ WellFormed(ttl(db, now, t, k).db)
      BY <1>0, <3>1, ExpirationWF
    <3> QED BY <2>1, <3>1, <3>2, CallInv
  <2>2. CASE Call(exists(db, now, k), now) \/ Call(type(db, now, k), now)
             \/ Call(stringLength(db, now, k), now) \/ Call(listLength(db, now, k), now)
    BY <1>0, <2>2, KeyspaceWF, StringWF, ListWF, CallInv
  <2>3. CASE \/ Call(hashLength(db, now, k), now)
             \/ Call(setCardinality(db, now, k), now)
             \/ \E w \in Word : Call(hashExists(db, now, k, w), now)
             \/ \E w \in Word : Call(setIsMember(db, now, k, w), now)
    BY <1>0, <2>3, HashWF, SetWF, CallInv
  <2> QED BY <1>2, <2>1, <2>2, <2>3 DEF Peek
<1>3. CASE Set(k) \/ Get(k) \/ IncrementBy(k) \/ AppendText(k)
  BY <1>0, <1>3, StringWF, CallInv DEF Set, Get, IncrementBy, AppendText
<1>4. CASE ExpireAtMs(k)
  <2>1. PICK deadline \in Deadlines : \E t \in Later(now) :
            Call(expireAtMs(db, now, t, k, deadline), t)
    BY <1>4 DEF ExpireAtMs
  <2>2. PICK t \in Later(now) : Call(expireAtMs(db, now, t, k, deadline), t)
    BY <2>1
  <2>3. t \in Nat /\ deadline \in Int
    BY <1>0, LaterNat, ArgumentsAssumption, LLongAssumption DEF LLong, LLongMin
  <2> QED BY <1>0, <2>2, <2>3, ExpireAtMsWF, CallInv
<1>5. CASE Expire(k)
  <2>1. PICK seconds \in Seconds : \E t1 \in Later(now) : \E t2 \in Later(t1) :
            Call(expire(db, now, t1, t2, k, seconds), t2)
    BY <1>5 DEF Expire
  <2>2. PICK t1 \in Later(now) : \E t2 \in Later(t1) :
            Call(expire(db, now, t1, t2, k, seconds), t2)
    BY <2>1
  <2>3. PICK t2 \in Later(t1) : Call(expire(db, now, t1, t2, k, seconds), t2)
    BY <2>2
  <2>4. t1 \in Nat /\ t2 \in Nat
    BY <1>0, LaterNat
  <2>5. seconds \in Int /\ LLongMax \in Int /\ SecondMs \in Int
    BY ArgumentsAssumption, LLongAssumption DEF LLong, LLongMin
  <2>6. Deadline(now, seconds) \in Int
    BY <1>0, <2>5 DEF Deadline
  <2>7. WellFormed(expire(db, now, t1, t2, k, seconds).db)
    BY <1>0, <2>4, <2>6, ExpireAtMsWF DEF expire
  <2> QED BY <2>3, <2>4, <2>7, CallInv
<1>6. CASE Persist(k)
  BY <1>0, <1>6, ExpirationWF, CallInv DEF Persist
<1>7. CASE ListPush(k) \/ ListPop(k) \/ ListRange(k) \/ ListIndex(k)
  BY <1>0, <1>7, ListWF, CallInv DEF ListPush, ListPop, ListRange, ListIndex
<1>8. CASE HashSet(k) \/ HashGet(k) \/ HashDelete(k) \/ HashGetAll(k)
  BY <1>0, <1>8, HashWF, CallInv DEF HashSet, HashGet, HashDelete, HashGetAll
<1>9. CASE SetAdd(k) \/ SetRemove(k) \/ SetMembers(k)
  BY <1>0, <1>9, SetWF, CallInv DEF SetAdd, SetRemove, SetMembers
<1> QED BY <1>1, <1>2, <1>3, <1>4, <1>5, <1>6, <1>7, <1>8, <1>9 DEF KeyCommand

\* After every method call, every iteration of the eviction and of the
\* expiration loop, lru and volatileKeys describe exactly the keys of data:
\* no iterator dangles and no volatileIndex is stale, for any number of
\* keys, any arguments and any times.
THEOREM IndexesInvariant == Spec => []IndexesConsistent
<1>1. Init => Inv
  BY EmptyWF DEF Init, Inv
<1>2. Inv /\ [Next]_vars => Inv'
  <2> SUFFICES ASSUME Inv, [Next]_vars PROVE Inv'
    OBVIOUS
  <2>0. WellFormed(db) /\ now \in Nat
    BY DEF Inv
  <2>1. CASE \E k \in Key : KeyCommand(k)
    BY <2>1, KeyCommandInv
  <2>2. CASE Clear
    BY <2>0, <2>2, EmptyWF, CallInv DEF Clear, Result
  <2>3. CASE SetMaxMemory \/ SetEvictionPolicy \/ EvictStart \/ EvictReturn
             \/ CycleStart \/ CycleRepeat \/ CycleReturn \/ Tick \/ UNCHANGED vars
    <3>1. db' = db /\ now' \in Nat
      BY <2>0, <2>3 DEF SetMaxMemory, SetEvictionPolicy, EvictStart, EvictReturn,
                        CycleStart, CycleRepeat, CycleReturn, Tick, vars
    <3> QED BY <2>0, <3>1, StepInv
  <2>4. CASE EvictVictim
    <3>1. db.lru \in Seq(Key) /\ db.lru # <<>>
      BY <2>0, <2>4 DEF EvictVictim, CannotEvict, WellFormed, LruConsistent
    <3>2. Len(db.lru) \in 1 .. Len(db.lru)
      BY <3>1, LenProperties, EmptySeq
    <3>3. db.lru[Len(db.lru)] \in DOMAIN db.data
      BY <2>0, <3>1, <3>2 DEF WellFormed, LruConsistent
    <3> QED BY <2>0, <2>4, <3>3, EraseWF, StepInv DEF EvictVictim
  <2>5. ASSUME NEW i \in 1 .. Len(db.volatileKeys), CycleSample(i)
        PROVE  Inv'
    <3>1. db.volatileKeys[i] \in DOMAIN db.data
      BY <2>0 DEF WellFormed, VolatileConsistent
    <3>2. WellFormed(erase(db, db.volatileKeys[i]))
      BY <2>0, <3>1, EraseWF
    <3>3. now' = now /\ (db' = db \/ db' = erase(db, db.volatileKeys[i]))
      BY <2>5 DEF CycleSample
    <3> QED BY <2>0, <3>2, <3>3, StepInv
  <2> QED BY <2>1, <2>2, <2>3, <2>4, <2>5 DEF Next
<1>3. Inv => IndexesConsistent
  BY DEF Inv, WellFormed, IndexesConsistent
<1> QED BY <1>1, <1>2, <1>3, PTL DEF Spec

(***************************************************************************)
(* The invariant.                                                          *)
(***************************************************************************)
CycleTyped ==
    /\ cycle \in [current : Nat, samples : Nat, sampled : Nat, expired : Nat]
    /\ pc = "expire" => cycle.current <= now

MemoryInv ==
    /\ Sound(db)
    /\ now \in 0 .. MaxTime
    /\ memoryLimit \in Nat
    /\ policy \in {"NoEviction", "AllKeysLru"}
    /\ pc \in {"idle", "evict", "expire"}
    /\ CycleTyped

\* The arguments of a push are not an empty sequence.
LEMMA ArgumentsType ==
    ASSUME NEW words \in Arguments
    PROVE  words \in Seq(Word) /\ words # <<>>
<1>1. PICK n \in 1 .. MaxArgs : words \in [1 .. n -> Word]
  BY DEF Arguments
<1>2. n \in Nat \ {0}
  BY ArgumentsAssumption
<1>3. DOMAIN words = 1 .. n /\ 1 \in 1 .. n
  BY <1>1, <1>2
<1> QED BY <1>1, <1>2, <1>3

\* A deadline that expire computes and does not reject fits the type.
LEMMA DeadlineType ==
    ASSUME NEW t \in Nat, NEW u \in Nat, t <= u, NEW seconds \in LLong
    PROVE  /\ Deadline(t, seconds) \in Int
           /\ Deadline(t, seconds) > u => Deadline(t, seconds) \in LLong
<1>1. seconds \in Int /\ LLongMax \in Nat /\ SecondMs \in Int
  BY LLongAssumption DEF LLong, LLongMin
<1>2. seconds * SecondMs \in Int
  BY <1>1
<1>3. Deadline(t, seconds) \in Int /\ (Deadline(t, seconds) <= LLongMax \/ Deadline(t, seconds) = t)
  BY <1>1, <1>2 DEF Deadline
<1> QED BY <1>1, <1>3 DEF LLong, LLongMin

\* A method call with a sound result keeps the invariant.
LEMMA CallSound ==
    ASSUME MemoryInv, NEW r, NEW t \in Later(now), Call(r, t), Sound(r.db)
    PROVE  MemoryInv'
<1>1. db' = r.db /\ now' = t /\ UNCHANGED <<memoryLimit, policy, pc, cycle>> /\ pc = "idle"
  BY DEF Call
<1>2. t \in 0 .. MaxTime
  BY ArgumentsAssumption DEF Later, MemoryInv
<1>3. Sound(db)'
  BY <1>1
<1> QED BY <1>1, <1>2, <1>3 DEF MemoryInv, CycleTyped

\* Every method that names a key keeps the invariant.
LEMMA KeyCommandSound ==
    ASSUME MemoryInv, NEW k \in Key, KeyCommand(k)
    PROVE  MemoryInv'
<1>0. Sound(db) /\ now \in Nat /\ now \in Later(now)
  BY ArgumentsAssumption DEF MemoryInv, Later
<1>1. CASE Del(k) \/ Get(k) \/ Persist(k) \/ HashGetAll(k) \/ SetMembers(k)
  <2>1. 0 \in Nat /\ (0 > 0 => 0 \in LLong)
    OBVIOUS
  <2>2. Sound(persist(db, now, k).db)
    BY <1>0, <2>1, ExpireAtMsSound
  <2> QED BY <1>0, <1>1, <2>2, KeyspaceSound, ReadSound, CallSound
          DEF Del, Get, Persist, HashGetAll, SetMembers
<1>2. CASE Peek(k)
  BY <1>0, <1>2, KeyspaceSound, CallSound DEF Peek
<1>3. CASE Set(k)
  BY <1>0, <1>3, SetSound, CallSound, ArgumentsAssumption DEF Set, Piece
<1>4. CASE IncrementBy(k)
  <2>1. \A delta \in Deltas : delta \in Int
    BY ArgumentsAssumption, LLongAssumption DEF LLong, LLongMin
  <2> QED BY <1>0, <1>4, <2>1, IncrementSound, CallSound DEF IncrementBy
<1>5. CASE AppendText(k)
  BY <1>0, <1>5, AppendSound, CallSound, ArgumentsAssumption DEF AppendText, AppendTexts, Piece
<1>6. CASE ExpireAtMs(k)
  <2>1. PICK deadline \in Deadlines, t \in Later(now) :
            Call(expireAtMs(db, now, t, k, deadline), t)
    BY <1>6 DEF ExpireAtMs
  <2>2. t \in Nat /\ deadline \in LLong /\ deadline \in Int
    BY <1>0, LaterNat, ArgumentsAssumption, LLongAssumption DEF LLong, LLongMin
  <2> QED BY <1>0, <2>1, <2>2, ExpireAtMsSound, CallSound
<1>7. CASE Expire(k)
  <2>1. PICK seconds \in Seconds : \E t1 \in Later(now) : \E t2 \in Later(t1) :
            Call(expire(db, now, t1, t2, k, seconds), t2)
    BY <1>7 DEF Expire
  <2>2. PICK t1 \in Later(now) : \E t2 \in Later(t1) :
            Call(expire(db, now, t1, t2, k, seconds), t2)
    BY <2>1
  <2>3. PICK t2 \in Later(t1) : Call(expire(db, now, t1, t2, k, seconds), t2)
    BY <2>2
  <2>4. t1 \in Nat /\ t2 \in Nat
    BY <1>0, LaterNat
  <2>5. now <= t2 /\ t2 \in Later(now) /\ seconds \in LLong
    BY <1>0, <2>4, ArgumentsAssumption DEF Later
  <2> DEFINE when == Deadline(now, seconds)
  <2>6. when \in Int /\ (when > t2 => when \in LLong)
    BY <1>0, <2>4, <2>5, DeadlineType
  <2> HIDE DEF when
  <2>7. Sound(expireAtMs(db, t1, t2, k, when).db)
    BY <1>0, <2>4, <2>6, ExpireAtMsSound
  <2> QED BY <2>3, <2>5, <2>7, CallSound DEF expire, when
<1>8. CASE ListPush(k)
  BY <1>0, <1>8, ArgumentsType, ListPushSound, CallSound DEF ListPush
<1>9. CASE ListPop(k)
  BY <1>0, <1>9, ListPopSound, CallSound DEF ListPop
<1>10. CASE ListRange(k) \/ ListIndex(k) \/ HashGet(k)
  BY <1>0, <1>10, ReadSound, CallSound DEF ListRange, ListIndex, HashGet
<1>11. CASE HashSet(k)
  <2>1. PICK pairs \in PairArguments : Call(hashSet(db, now, k, pairs), now)
    BY <1>11 DEF HashSet
  <2>2. PICK m \in 1 .. MaxArgs : pairs \in [1 .. m -> Word \X Word]
    BY DEF PairArguments
  <2>3. m \in Nat \ {0}
    BY ArgumentsAssumption
  <2>4. Sound(hashSet(db, now, k, pairs).db)
    BY <1>0, <2>2, <2>3, HashSetSound
  <2> QED BY <1>0, <2>1, <2>4, CallSound
<1>12. CASE HashDelete(k)
  BY <1>0, <1>12, HashDeleteSound, CallSound DEF HashDelete
<1>13. CASE SetAdd(k)
  BY <1>0, <1>13, SetAddSound, CallSound DEF SetAdd, SetArguments
<1>14. CASE SetRemove(k)
  BY <1>0, <1>14, SetRemoveSound, CallSound DEF SetRemove
<1> QED BY <1>1, <1>2, <1>3, <1>4, <1>5, <1>6, <1>7, <1>8, <1>9, <1>10, <1>11, <1>12,
           <1>13, <1>14 DEF KeyCommand

\* The sum over the entries is a number of bytes.
LEMMA TotalNat ==
    ASSUME NEW data, IsFiniteSet(DOMAIN data), \A k \in DOMAIN data : data[k].memory \in Nat
    PROVE  TotalMemory(data) \in Nat
<1> DEFINE m == [k \in DOMAIN data |-> data[k].memory]
<1>1. DOMAIN m = DOMAIN data /\ \A k \in DOMAIN m : m[k] \in Nat
  OBVIOUS
<1> HIDE DEF m
<1>2. SumFunction(m) \in Nat
  BY <1>1, SumType DEF SumFunction
<1> QED BY <1>2 DEF TotalMemory, m

\* The number of draws of a round of activeExpireCycle.
LEMMA NewLoopType ==
    ASSUME NEW current \in Nat, WellFormed(db)
    PROVE  /\ NewLoop(current) \in [current : Nat, samples : Nat, sampled : Nat, expired : Nat]
           /\ NewLoop(current).current = current
<1> DEFINE n == Len(db.volatileKeys)
           S == {SamplesPerLoop, n}
<1>1. n \in Nat /\ SamplesPerLoop \in Nat
  BY ArgumentsAssumption, LenProperties DEF WellFormed, VolatileConsistent
<1>2. Min(S) \in Nat
  <2> HIDE DEF n
  <2>1. \E x \in S : \A y \in S : x <= y
    BY <1>1
  <2>2. Min(S) \in S
    BY <2>1 DEF Min
  <2> QED BY <1>1, <2>2
<1> QED BY <1>1, <1>2 DEF NewLoop

\* An iteration of one of the two loops keeps the invariant, and so does a
\* step that leaves the object alone.
LEMMA LoopSound ==
    ASSUME MemoryInv
    PROVE  /\ EvictVictim => MemoryInv'
           /\ \A i \in 1 .. Len(db.volatileKeys) : CycleSample(i) => MemoryInv'
           /\ SetMaxMemory \/ SetEvictionPolicy \/ EvictStart \/ EvictReturn => MemoryInv'
           /\ CycleStart \/ CycleRepeat \/ CycleReturn \/ Tick => MemoryInv'
<1>0. Sound(db) /\ WellFormed(db) /\ now \in Nat /\ MaxTime \in Nat
  BY ArgumentsAssumption DEF MemoryInv, Sound
<1>1. ASSUME EvictVictim PROVE MemoryInv'
  <2> DEFINE victim == db.lru[Len(db.lru)]
  <2>1. db.lru \in Seq(Key) /\ db.lru # <<>>
    BY <1>0, <1>1 DEF EvictVictim, CannotEvict, WellFormed, LruConsistent
  <2>2. Len(db.lru) \in 1 .. Len(db.lru)
    BY <2>1, LenProperties, EmptySeq
  <2>3. victim \in DOMAIN db.data
    BY <1>0, <2>1, <2>2 DEF WellFormed, LruConsistent
  <2>4. db' = erase(db, victim) /\ UNCHANGED <<memoryLimit, policy, now, pc, cycle>>
    BY <1>1 DEF EvictVictim
  <2> HIDE DEF victim
  <2>5. Sound(db)'
    BY <1>0, <2>3, <2>4, EraseSound, SoundIsSoundBut
  <2> QED BY <2>4, <2>5 DEF MemoryInv, CycleTyped
<1>2. ASSUME NEW i \in 1 .. Len(db.volatileKeys), CycleSample(i) PROVE MemoryInv'
  <2> DEFINE k == db.volatileKeys[i]
             dead == cycle.current >= db.data[k].expiresAtMs
  <2>1. k \in DOMAIN db.data
    BY <1>0 DEF WellFormed, VolatileConsistent
  <2>2. /\ db' = (IF dead THEN erase(db, k) ELSE db)
        /\ cycle' = [cycle EXCEPT !.sampled = @ + 1, !.expired = IF dead THEN @ + 1 ELSE @]
        /\ UNCHANGED <<memoryLimit, policy, now, pc>>
    BY <1>2 DEF CycleSample
  <2> HIDE DEF k, dead
  <2>3. Sound(db)'
    BY <1>0, <2>1, <2>2, EraseSound, SoundIsSoundBut
  <2>4. CycleTyped'
    <3>1. /\ cycle \in [current : Nat, samples : Nat, sampled : Nat, expired : Nat]
          /\ pc = "expire" => cycle.current <= now
      BY DEF MemoryInv, CycleTyped
    <3>2. /\ cycle' \in [current : Nat, samples : Nat, sampled : Nat, expired : Nat]
          /\ cycle'.current = cycle.current
      <4> DEFINE n == IF dead THEN cycle.expired + 1 ELSE cycle.expired
                 m == cycle.sampled + 1
      <4>1. n \in Nat /\ m \in Nat
        BY <3>1
      <4>2. cycle' = [cycle EXCEPT !.sampled = m, !.expired = n]
        BY <2>2, <3>1
      <4> HIDE DEF n, m
      <4> QED BY <3>1, <4>1, <4>2
    <3> QED BY <2>2, <3>1, <3>2 DEF CycleTyped
  <2> QED BY <2>2, <2>3, <2>4 DEF MemoryInv
<1>3. ASSUME SetMaxMemory \/ SetEvictionPolicy \/ EvictStart \/ EvictReturn
      PROVE  MemoryInv'
  <2>1. db' = db /\ now' = now /\ cycle' = cycle /\ pc' \in {"idle", "evict"}
    BY <1>3 DEF MemoryInv, SetMaxMemory, SetEvictionPolicy, EvictStart, EvictReturn
  <2>2. memoryLimit' \in Nat /\ policy' \in {"NoEviction", "AllKeysLru"}
    BY <1>3, ArgumentsAssumption
       DEF MemoryInv, SetMaxMemory, SetEvictionPolicy, EvictStart, EvictReturn
  <2>3. Sound(db)'
    BY <1>0, <2>1
  <2> QED BY <2>1, <2>2, <2>3 DEF MemoryInv, CycleTyped
<1>4. ASSUME CycleStart \/ CycleRepeat \/ CycleReturn \/ Tick PROVE MemoryInv'
  <2>1. /\ db' = db /\ memoryLimit' = memoryLimit /\ policy' = policy
        /\ pc' \in {"idle", "evict", "expire"}
        /\ now' \in 0 .. MaxTime /\ now <= now'
    BY <1>0, <1>4 DEF MemoryInv, CycleStart, CycleRepeat, CycleReturn, Tick
  <2>2. Sound(db)'
    BY <1>0, <2>1
  <2>3. CycleTyped'
    <3>1. CASE CycleStart
      BY <1>0, <3>1, NewLoopType DEF CycleStart, CycleTyped
    <3>2. CASE CycleRepeat
      <4>1. cycle.current \in Nat /\ cycle.current <= now
        BY <3>2 DEF MemoryInv, CycleTyped, CycleRepeat
      <4> QED BY <1>0, <3>2, <4>1, NewLoopType DEF CycleRepeat, CycleTyped
    <3>3. CASE CycleReturn
      BY <3>3 DEF CycleReturn, CycleTyped, NoCycle
    <3>4. CASE Tick
      BY <1>0, <3>4 DEF Tick, CycleTyped, MemoryInv
    <3> QED BY <1>4, <3>1, <3>2, <3>3, <3>4
  <2> QED BY <2>1, <2>2, <2>3 DEF MemoryInv
<1> QED BY <1>1, <1>2, <1>3, <1>4

\* The invariant holds: the object stays sound under every interleaving of
\* method calls, loop iterations and readings of the clock.
THEOREM ObjectStaysSound == Spec => []MemoryInv
<1>1. Init => MemoryInv
  <2> SUFFICES ASSUME Init PROVE MemoryInv
    OBVIOUS
  <2>1. Sound(db)
    BY EmptySound DEF Init
  <2> QED BY <2>1, ArgumentsAssumption DEF Init, MemoryInv, CycleTyped, NoCycle
<1>2. MemoryInv /\ [Next]_vars => MemoryInv'
  <2> SUFFICES ASSUME MemoryInv, [Next]_vars PROVE MemoryInv'
    OBVIOUS
  <2>1. CASE \E k \in Key : KeyCommand(k)
    BY <2>1, KeyCommandSound
  <2>2. CASE Clear
    <3>1. now \in Later(now)
      BY ArgumentsAssumption DEF MemoryInv, Later
    <3>2. Result(EmptyDB, Void).db = EmptyDB
      BY DEF Result
    <3> QED BY <2>2, <3>1, <3>2, EmptySound, CallSound DEF Clear
  <2>3. CASE UNCHANGED vars
    <3>1. Sound(db)'
      BY <2>3 DEF vars, MemoryInv
    <3> QED BY <2>3, <3>1 DEF vars, MemoryInv, CycleTyped
  <2> QED BY <2>1, <2>2, <2>3, LoopSound DEF Next
<1> QED BY <1>1, <1>2, PTL DEF Spec

\* Every container, count and loop variable of the object has its type.
THEOREM TypeInvariant == Spec => []TypeOK
<1>1. MemoryInv => TypeOK
  <2> SUFFICES ASSUME MemoryInv PROVE TypeOK
    OBVIOUS
  <2>1. Sound(db) /\ SoundBut(db, 0)
    BY SoundIsSoundBut DEF MemoryInv
  <2>2. IsFiniteSet(DOMAIN db.data) /\ \A k \in DOMAIN db.data : db.data[k].memory \in Nat
    BY <2>1, SoundFacts
  <2>3. DOMAIN db.data \subseteq Key
        /\ \A k \in DOMAIN db.data : /\ db.data[k].expiresAtMs \in LLong
                                     /\ IsValue(db.data[k].value)
    BY <2>1 DEF Sound, WellFormed, EntryOK
  <2>4. \A k \in DOMAIN db.data : db.data[k].value.type \in {"string", "list", "hash", "set"}
    BY <2>3, ValueCases
  <2>5. db.memoryUsed \in Nat
    BY <2>1, <2>2, TotalNat DEF Sound
  <2>6. DOMAIN cycle = DOMAIN NoCycle /\ \A x \in DOMAIN cycle : cycle[x] \in Nat
    BY DEF MemoryInv, CycleTyped, NoCycle
  <2> QED BY <2>1, <2>2, <2>3, <2>4, <2>5, <2>6 DEF TypeOK, MemoryInv, Sound
<1> QED BY <1>1, ObjectStaysSound, PTL

\* memoryUsed, which create, erase, addMemory and removeMemory keep by
\* increments, is the sum of what every entry costs, counted from scratch,
\* for any keys, values, arguments and times.
THEOREM MemoryIsExact == Spec => []MemoryExact
<1>1. MemoryInv => MemoryExact
  BY DEF MemoryInv, Sound, EntryOK, MemoryExact
<1> QED BY <1>1, ObjectStaysSound, PTL

\* The methods that remove elements erase the key with the last of them, so
\* listPop never takes the front or the back of an empty list.
THEOREM NoEmptyAggregates == Spec => []NoEmptyAggregate
<1>1. MemoryInv => NoEmptyAggregate
  <2> SUFFICES ASSUME MemoryInv, NEW k \in DOMAIN db.data,
                      db.data[k].value.type # "string"
               PROVE  Length(db.data[k].value) > 0
    BY DEF NoEmptyAggregate
  <2> DEFINE v == db.data[k].value
  <2>1. IsValue(v) /\ NonEmpty(v)
    BY DEF MemoryInv, Sound, EntryOK
  <2>a. v.type # "string"
    OBVIOUS
  <2> HIDE DEF v
  <2>2. CASE v.type = "list"
    <3>1. v.items \in Seq(Word) /\ v.items # <<>>
      BY <2>1, <2>2, ValueCases DEF NonEmpty
    <3>2. Len(v.items) \in Nat /\ Len(v.items) # 0
      BY <3>1, LenProperties, EmptySeq
    <3> QED BY <2>2, <3>2 DEF Length, v
  <2>3. CASE v.type = "hash"
    <3>1. IsFields(v.fields) /\ DOMAIN v.fields # {}
      BY <2>1, <2>3, ValueCases DEF NonEmpty
    <3>2. IsFiniteSet(DOMAIN v.fields)
      BY <3>1, FieldsFacts
    <3>3. Cardinality(DOMAIN v.fields) \in Nat /\ Cardinality(DOMAIN v.fields) # 0
      BY <3>1, <3>2, FS_CardinalityType, FS_EmptySet
    <3> QED BY <2>3, <3>3 DEF Length, v
  <2>4. CASE v.type = "set"
    <3>1. IsFiniteSet(v.members) /\ v.members # {}
      BY <2>1, <2>4, ValueCases DEF NonEmpty
    <3>2. Cardinality(v.members) \in Nat /\ Cardinality(v.members) # 0
      BY <3>1, FS_CardinalityType, FS_EmptySet
    <3> QED BY <2>4, <3>2 DEF Length, v
  <2> QED BY <2>1, <2>a, <2>2, <2>3, <2>4, ValueCases
<1> QED BY <1>1, ObjectStaysSound, PTL

\* evictIfNeeded under the LRU policy never gives up: when lru is empty so
\* is data, and then memoryUsed is zero, which no limit is below.
THEOREM EvictionSucceeds == Spec => EvictionMakesRoom
<1>1. MemoryInv /\ [Next]_vars
         => [pc = "evict" /\ pc' = "idle" /\ policy = "AllKeysLru"
                => db.memoryUsed <= memoryLimit]_vars
  <2> SUFFICES ASSUME MemoryInv, [Next]_vars, pc = "evict", pc' = "idle",
                      policy = "AllKeysLru"
               PROVE  db.memoryUsed <= memoryLimit
    OBVIOUS
  <2>1. EvictReturn
    <3>1. ~UNCHANGED vars
      BY DEF vars
    <3>2. ASSUME NEW k \in Key, KeyCommand(k) PROVE FALSE
      BY <3>2 DEF KeyCommand, Del, Peek, Set, Get, IncrementBy, AppendText, ExpireAtMs,
                  Expire, Persist, ListPush, ListPop, ListRange, ListIndex, HashSet,
                  HashGet, HashDelete, HashGetAll, SetAdd, SetRemove, SetMembers, Call
    <3>3. ~Clear
      BY DEF Clear, Call
    <3> QED BY <3>1, <3>2, <3>3 DEF Next, SetMaxMemory, SetEvictionPolicy, EvictStart,
              EvictVictim, CycleStart, CycleSample, CycleRepeat, CycleReturn, Tick
  <2>2. CASE ~OverLimit
    <3>1. db.memoryUsed \in Int /\ memoryLimit \in Int
      <4>1. SoundBut(db, 0)
        BY SoundIsSoundBut DEF MemoryInv
      <4>2. IsFiniteSet(DOMAIN db.data) /\ \A k \in DOMAIN db.data : db.data[k].memory \in Nat
        BY <4>1, SoundFacts
      <4> QED BY <4>2, TotalNat DEF MemoryInv, Sound
    <3> QED BY <2>2, <3>1 DEF OverLimit
  <2>3. CASE db.lru = <<>>
    <3>1. DOMAIN db.data = {}
      BY <2>3 DEF MemoryInv, Sound, WellFormed, LruConsistent
    <3>2. TotalMemory(db.data) = 0
      <4> DEFINE m == [k \in DOMAIN db.data |-> db.data[k].memory]
      <4>1. DOMAIN m = {}
        BY <3>1
      <4> HIDE DEF m
      <4>2. SumFunction(m) = 0
        BY <4>1, SumEmpty DEF SumFunction
      <4> QED BY <4>2 DEF TotalMemory, m
    <3> QED BY <3>2 DEF MemoryInv, Sound
  <2> QED BY <2>1, <2>2, <2>3 DEF EvictReturn, CannotEvict
<1> QED BY <1>1, ObjectStaysSound, PTL DEF Spec, EvictionMakesRoom

(***************************************************************************)
(* The steps of the map.                                                   *)
(***************************************************************************)
\* What a caller sees of a key.
LEMMA ViewFacts ==
    ASSUME NEW d, NEW t
    PROVE  /\ DOMAIN View(d, t) = keys(d, t)
           /\ \A x \in keys(d, t) : View(d, t)[x] = [value |-> d.data[x].value,
                                                     deadline |-> d.data[x].expiresAtMs]
BY DEF View

\* The keys that are alive at u are those that were alive at t and whose
\* deadline is later than u.
LEMMA AliveFacts ==
    ASSUME NEW d, NEW t \in Int, NEW u \in Int, t <= u,
           \A x \in DOMAIN d.data : d.data[x].expiresAtMs \in Int
    PROVE  /\ keys(d, u) \subseteq keys(d, t)
           /\ DOMAIN Keyspace!Alive(View(d, t), u) = keys(d, u)
           /\ Keyspace!Alive(View(d, t), u) = View(d, u)
<1>1. keys(d, u) \subseteq keys(d, t)
  BY DEF keys, IsExpired
<1>a. /\ DOMAIN View(d, t) = keys(d, t)
      /\ \A x \in keys(d, t) : /\ View(d, t)[x].deadline = d.data[x].expiresAtMs
                               /\ View(d, t)[x] = [value |-> d.data[x].value,
                                                   deadline |-> d.data[x].expiresAtMs]
  BY ViewFacts
<1>b. \A x \in keys(d, u) : View(d, u)[x] = [value |-> d.data[x].value,
                                            deadline |-> d.data[x].expiresAtMs]
  BY ViewFacts
<1>2. {x \in DOMAIN View(d, t) : \/ View(d, t)[x].deadline = Keyspace!NoDeadline
                                 \/ View(d, t)[x].deadline > u} = keys(d, u)
  <2>1. \A x \in keys(d, t) : \/ View(d, t)[x].deadline = Keyspace!NoDeadline
                              \/ View(d, t)[x].deadline > u
                              <=> ~IsExpired(d.data[x], u)
    <3> SUFFICES ASSUME NEW x \in keys(d, t)
                 PROVE  \/ View(d, t)[x].deadline = Keyspace!NoDeadline
                        \/ View(d, t)[x].deadline > u
                        <=> ~IsExpired(d.data[x], u)
      OBVIOUS
    <3>1. View(d, t)[x].deadline = d.data[x].expiresAtMs
      BY <1>a
    <3>2. d.data[x].expiresAtMs \in Int
      BY DEF keys
    <3> QED BY <3>1, <3>2 DEF IsExpired, NO_EXPIRY, Keyspace!NoDeadline
  <2>2. keys(d, u) = {x \in keys(d, t) : ~IsExpired(d.data[x], u)}
    BY <1>1 DEF keys
  <2> QED BY <1>a, <2>1, <2>2
<1>3. DOMAIN Keyspace!Alive(View(d, t), u) = keys(d, u)
  BY <1>2 DEF Keyspace!Alive
<1>4. \A x \in keys(d, u) : View(d, t)[x] = View(d, u)[x]
  BY <1>1, <1>a, <1>b
<1>5. Keyspace!Alive(View(d, t), u) = [x \in keys(d, u) |-> View(d, t)[x]]
  BY <1>2 DEF Keyspace!Alive
<1>6. View(d, u) = [x \in keys(d, u) |-> View(d, u)[x]]
  BY DEF View
<1> QED BY <1>1, <1>3, <1>4, <1>5, <1>6

SameElsewhere(v, w, k, u) ==
    [x \in DOMAIN w \ {k} |-> w[x]] = [x \in DOMAIN Keyspace!Alive(v, u) \ {k} |-> v[x]]

\* A step that leaves the entries of the other keys alone.
LEMMA ElsewhereFacts ==
    ASSUME NEW d, NEW c, NEW k, NEW t \in Int, NEW u \in Int, t <= u, Others(d, c, k),
           \A x \in DOMAIN d.data : d.data[x].expiresAtMs \in Int
    PROVE  SameElsewhere(View(d, t), View(c, u), k, u)
<1>1. DOMAIN Keyspace!Alive(View(d, t), u) = keys(d, u) /\ keys(d, u) \subseteq keys(d, t)
  BY AliveFacts
<1>2. DOMAIN View(c, u) = keys(c, u)
  BY ViewFacts
<1>3. keys(c, u) \ {k} = keys(d, u) \ {k}
  BY DEF keys, Others, SameEntry, IsExpired
<1>4. ASSUME NEW x \in keys(c, u) \ {k} PROVE View(c, u)[x] = View(d, t)[x]
  <2>1. /\ x \in keys(d, t) /\ x \in keys(c, u) /\ x \in DOMAIN d.data \ {k}
    BY <1>1, <1>3 DEF keys
  <2>2. SameEntry(d, c, x)
    BY <2>1 DEF Others
  <2>3. View(c, u)[x] = [value |-> c.data[x].value, deadline |-> c.data[x].expiresAtMs]
    BY <2>1, ViewFacts
  <2>4. View(d, t)[x] = [value |-> d.data[x].value, deadline |-> d.data[x].expiresAtMs]
    BY <2>1, ViewFacts
  <2> QED BY <2>2, <2>3, <2>4 DEF SameEntry
<1> QED BY <1>1, <1>2, <1>3, <1>4 DEF SameElsewhere

\* A method that names k is a step of the map.
LEMMA MethodRefines ==
    ASSUME MemoryInv, now' \in Int, NEW k \in Key, NEW t \in Int, now <= t, t <= now',
           \A x \in DOMAIN db'.data : db'.data[x].expiresAtMs \in Int,
           KeyStep(db, t, db', k) \/ DeadlineStep(db, t, db', now', k)
    PROVE  Keyspace!Next
<1>0. /\ now \in Int /\ now <= now'
      /\ \A x \in DOMAIN db.data : db.data[x].expiresAtMs \in Int
  BY ArgumentsAssumption, LLongAssumption DEF MemoryInv, Sound, EntryOK, LLong, LLongMin
<1>1. Others(db, db', k)
  BY DEF KeyStep, DeadlineStep
<1>2. keys(db, t) \subseteq keys(db, now)
  BY <1>0, AliveFacts
<1> DEFINE w == View(db', now')
           v == View(db, now)
<1>3. [x \in DOMAIN w \ {k} |-> w[x]] =
      [x \in DOMAIN Keyspace!Alive(v, now') \ {k} |-> v[x]]
  <2> DEFINE c == db'
             u == now'
  <2>1. u \in Int /\ now <= u /\ Others(db, c, k)
    BY <1>0, <1>1
  <2> HIDE DEF c, u
  <2>2. SameElsewhere(View(db, now), View(c, u), k, u)
    BY <1>0, <2>1, ElsewhereFacts
  <2> QED BY <2>2 DEF c, u, SameElsewhere
<1>4. /\ DOMAIN v = keys(db, now) /\ DOMAIN w = keys(db', now')
      /\ \A x \in keys(db, now) : v[x] = [value |-> db.data[x].value,
                                          deadline |-> db.data[x].expiresAtMs]
      /\ \A x \in keys(db', now') : w[x] = [value |-> db'.data[x].value,
                                            deadline |-> db'.data[x].expiresAtMs]
  BY ViewFacts
<1>5. Keyspace!Elsewhere(k)
  BY <1>0, <1>3 DEF Keyspace!Elsewhere
<1>6. CASE k \notin keys(db', now')
  BY <1>4, <1>5, <1>6 DEF Keyspace!Remove, Keyspace!Next
<1>7. CASE Plain(db', k)
  <2>1. k \in keys(db', now') /\ db'.data[k].expiresAtMs = NO_EXPIRY
    BY <1>7 DEF Plain, keys, Has, IsExpired
  <2>2. Keyspace!Write(k)
    BY <1>4, <1>5, <2>1 DEF Keyspace!Write, Keyspace!NoDeadline, NO_EXPIRY
  <2> QED BY <2>2 DEF Keyspace!Next
<1>8. CASE Kept(db, t, db', k) /\ k \in keys(db', now')
  <2>1. Keyspace!Update(k)
    BY <1>2, <1>4, <1>5, <1>8 DEF Keyspace!Update, Kept
  <2> QED BY <2>1 DEF Keyspace!Next
<1>9. CASE Moved(db, t, db', now', k) /\ k \in keys(db', now')
  <2>1. Keyspace!SetDeadline(k)
    BY <1>2, <1>4, <1>5, <1>9 DEF Keyspace!SetDeadline, Moved
  <2> QED BY <2>1 DEF Keyspace!Next
<1>10. Gone(db', k) => k \notin keys(db', now')
  BY DEF Gone, Has, keys
<1> QED BY <1>6, <1>7, <1>8, <1>9, <1>10 DEF KeyStep, DeadlineStep

(***************************************************************************)
(* The actions.                                                            *)
(***************************************************************************)
\* What a call on k does between two readings of the clock.
KeyEffect(k) ==
    \E t \in Int : /\ now <= t /\ t <= now'
                   /\ KeyStep(db, t, db', k) \/ DeadlineStep(db, t, db', now', k)

\* Every method that names a key is a step on that key alone.
LEMMA KeyCommandEffect ==
    ASSUME MemoryInv, NEW k \in Key, KeyCommand(k)
    PROVE  KeyEffect(k)
<1>0. WellFormed(db) /\ now \in Nat /\ now \in Int /\ now <= now
  BY ArgumentsAssumption DEF MemoryInv, Sound
<1>1. ASSUME NEW r, NEW t \in Later(now), Call(r, t), KeyStep(db, now, r.db, k)
      PROVE  KeyEffect(k)
  <2>1. db' = r.db /\ now' = t /\ now <= t
    BY <1>0, <1>1 DEF Call, Later
  <2> QED BY <1>0, <1>1, <2>1 DEF KeyEffect
<1>2. now \in Later(now)
  BY ArgumentsAssumption DEF MemoryInv, Later
<1>3. CASE Del(k) \/ Get(k) \/ Persist(k) \/ HashGetAll(k) \/ SetMembers(k)
  BY <1>0, <1>1, <1>2, <1>3, LookupStep DEF Del, Get, Persist, HashGetAll, SetMembers
<1>4. CASE Peek(k)
  BY <1>0, <1>1, <1>2, <1>4, LookupStep DEF Peek
<1>5. CASE ListRange(k) \/ ListIndex(k) \/ HashGet(k)
  BY <1>0, <1>1, <1>2, <1>5, LookupStep DEF ListRange, ListIndex, HashGet
<1>6. CASE Set(k) \/ IncrementBy(k) \/ AppendText(k)
  BY <1>0, <1>1, <1>2, <1>6, StringStep DEF Set, IncrementBy, AppendText
<1>7. CASE ListPush(k) \/ ListPop(k)
  BY <1>0, <1>1, <1>2, <1>7, ListStep DEF ListPush, ListPop
<1>8. CASE HashSet(k) \/ HashDelete(k)
  BY <1>0, <1>1, <1>2, <1>8, HashStep DEF HashSet, HashDelete
<1>9. CASE SetAdd(k) \/ SetRemove(k)
  BY <1>0, <1>1, <1>2, <1>9, SetStep DEF SetAdd, SetRemove
<1>10. CASE ExpireAtMs(k)
  <2>1. PICK deadline \in Deadlines, t \in Later(now) :
            Call(expireAtMs(db, now, t, k, deadline), t)
    BY <1>10 DEF ExpireAtMs
  <2>2. t \in Nat /\ deadline \in Int /\ now <= t
    BY <1>0, LaterNat, ArgumentsAssumption, LLongAssumption DEF LLong, LLongMin, Later
  <2>3. db' = expireAtMs(db, now, t, k, deadline).db /\ now' = t
    BY <2>1 DEF Call
  <2>4. KeyStep(db, now, db', k) \/ DeadlineStep(db, now, db', t, k)
    BY <1>0, <2>2, <2>3, ExpireAtMsStep
  <2> QED BY <1>0, <2>2, <2>3, <2>4 DEF KeyEffect
<1>11. CASE Expire(k)
  <2>1. PICK seconds \in Seconds : \E t1 \in Later(now) : \E t2 \in Later(t1) :
            Call(expire(db, now, t1, t2, k, seconds), t2)
    BY <1>11 DEF Expire
  <2>2. PICK t1 \in Later(now) : \E t2 \in Later(t1) :
            Call(expire(db, now, t1, t2, k, seconds), t2)
    BY <2>1
  <2>3. PICK t2 \in Later(t1) : Call(expire(db, now, t1, t2, k, seconds), t2)
    BY <2>2
  <2>4. t1 \in Nat /\ t2 \in Nat
    BY <1>0, LaterNat
  <2>5. now <= t1 /\ t1 <= t2 /\ now <= t2 /\ seconds \in LLong
    BY <1>0, <2>4, ArgumentsAssumption DEF Later
  <2> DEFINE when == Deadline(now, seconds)
  <2>6. when \in Int
    BY <1>0, <2>4, <2>5, DeadlineType
  <2>7. db' = expireAtMs(db, t1, t2, k, when).db /\ now' = t2
    BY <2>3 DEF Call, expire
  <2> HIDE DEF when
  <2>8. KeyStep(db, t1, db', k) \/ DeadlineStep(db, t1, db', t2, k)
    BY <1>0, <2>4, <2>6, <2>7, ExpireAtMsStep
  <2> QED BY <2>4, <2>5, <2>7, <2>8 DEF KeyEffect
<1> QED BY <1>3, <1>4, <1>5, <1>6, <1>7, <1>8, <1>9, <1>10, <1>11 DEF KeyCommand

\* An iteration of the eviction loop, or one of the expiration loop that
\* finds a dead key, erases one key.
LEMMA LoopEffect ==
    ASSUME MemoryInv
    PROVE  /\ EvictVictim => \E k \in Key : KeyEffect(k)
           /\ \A i \in 1 .. Len(db.volatileKeys) : CycleSample(i) =>
                 /\ now' = now
                 /\ db' = db \/ \E k \in Key : KeyEffect(k) /\ ~Has(db', k) /\ k \notin keys(db, now)
<1>0. WellFormed(db) /\ now \in Int /\ now <= now
      /\ \A x \in DOMAIN db.data : db.data[x].expiresAtMs \in Int
  BY ArgumentsAssumption, LLongAssumption DEF MemoryInv, Sound, EntryOK, LLong, LLongMin
<1>1. ASSUME NEW k \in DOMAIN db.data, db' = erase(db, k), now' = now
      PROVE  k \in Key /\ KeyEffect(k) /\ ~Has(db', k)
  <2>1. KeyStep(db, now, db', k) /\ ~Has(db', k)
    BY <1>0, <1>1, EraseAnyStep
  <2> QED BY <1>0, <1>1, <2>1 DEF KeyEffect, WellFormed
<1>2. ASSUME EvictVictim PROVE \E k \in Key : KeyEffect(k)
  <2>1. db.lru \in Seq(Key) /\ db.lru # <<>>
    BY <1>0, <1>2 DEF EvictVictim, CannotEvict, WellFormed, LruConsistent
  <2>2. Len(db.lru) \in 1 .. Len(db.lru)
    BY <2>1, LenProperties, EmptySeq
  <2>3. db.lru[Len(db.lru)] \in DOMAIN db.data
    BY <1>0, <2>1, <2>2 DEF WellFormed, LruConsistent
  <2> QED BY <1>1, <1>2, <2>3 DEF EvictVictim
<1>3. ASSUME NEW i \in 1 .. Len(db.volatileKeys), CycleSample(i)
      PROVE  /\ now' = now
             /\ db' = db \/ \E k \in Key : KeyEffect(k) /\ ~Has(db', k) /\ k \notin keys(db, now)
  <2> DEFINE k == db.volatileKeys[i]
  <2>1. /\ k \in DOMAIN db.data /\ db.data[k].volatileIndex = i
        /\ db.data[k].expiresAtMs # NO_EXPIRY
    BY <1>0 DEF WellFormed, VolatileConsistent, NOT_VOLATILE
  <2>2. /\ db' = IF cycle.current >= db.data[k].expiresAtMs THEN erase(db, k) ELSE db
        /\ now' = now /\ pc = "expire"
    BY <1>3 DEF CycleSample
  <2>3. cycle.current \in Int /\ cycle.current <= now
    BY <2>2 DEF MemoryInv, CycleTyped
  <2> HIDE DEF k
  <2>4. CASE cycle.current >= db.data[k].expiresAtMs
    <3>1. k \notin keys(db, now)
      BY <1>0, <2>1, <2>3, <2>4 DEF keys, IsExpired
    <3> QED BY <1>1, <2>1, <2>2, <2>4, <3>1
  <2> QED BY <2>2, <2>4
<1> QED BY <1>2, <1>3

\* A step on one key moves at most that key to the front.
LEMMA EffectKeepsOrder ==
    ASSUME NEW k, KeyEffect(k)
    PROVE  KeepsOrder(db.lru, db'.lru)
<1>1. WellFormed(db') /\ LruStep(db, db', k)
  BY DEF KeyEffect, KeyStep, DeadlineStep
<1>2. CASE InOrder(db.lru, db'.lru)
  <2>1. \A i, j \in 0 + 1 .. Len(db'.lru) : i <= j => NotAfter(db.lru, db'.lru[i], db'.lru[j])
    BY <1>2 DEF InOrder
  <2> QED BY <2>1 DEF KeepsOrder
<1>3. CASE db'.lru # <<>> /\ db'.lru[1] = k
  <2>1. /\ db'.lru \in Seq(Key) /\ Len(db'.lru) \in Nat
        /\ \A i, j \in 1 .. Len(db'.lru) : db'.lru[i] = db'.lru[j] => i = j
    BY <1>1, LenProperties DEF WellFormed, LruConsistent
  <2>2. \A i \in 1 + 1 .. Len(db'.lru) : i \in 1 .. Len(db'.lru) /\ db'.lru[i] # k
    BY <1>3, <2>1
  <2>3. \A i, j \in 1 + 1 .. Len(db'.lru) : i <= j => NotAfter(db.lru, db'.lru[i], db'.lru[j])
    BY <1>1, <2>2 DEF LruStep, InOrderBut
  <2> QED BY <2>3 DEF KeepsOrder
<1> QED BY <1>1, <1>2, <1>3 DEF LruStep

\* The other steps change neither the object nor, but for Tick, the clock.
LEMMA QuietSteps ==
    ASSUME MemoryInv, [Next]_vars
    PROVE  \/ \E k \in Key : KeyEffect(k)
           \/ Clear
           \/ db' = db /\ now' \in Int /\ now <= now'
<1>0. now \in Int
  BY DEF MemoryInv
<1>1. CASE \E k \in Key : KeyCommand(k)
  BY <1>1, KeyCommandEffect
<1>2. CASE EvictVictim
  BY <1>2, LoopEffect
<1>3. CASE \E i \in 1 .. Len(db.volatileKeys) : CycleSample(i)
  BY <1>0, <1>3, LoopEffect
<1>4. CASE SetMaxMemory \/ SetEvictionPolicy \/ EvictStart \/ EvictReturn
           \/ CycleStart \/ CycleRepeat \/ CycleReturn \/ Tick \/ UNCHANGED vars
  BY <1>0, <1>4 DEF SetMaxMemory, SetEvictionPolicy, EvictStart, EvictReturn,
                    CycleStart, CycleRepeat, CycleReturn, Tick, vars
<1> QED BY <1>1, <1>2, <1>3, <1>4 DEF Next

\* The hash table, the recency list and the vector of volatile keys together
\* implement the map that callers see: a key that is dead but still stored,
\* the moment it is erased, lazily, by eviction or by the cycle, and the
\* swap-and-pop of another key's deadline are all invisible; a method
\* changes its own key only; an update in place keeps type and deadline.
THEOREM ContainersImplementMap == Spec => ImplementsKeyspace
<1>1. Init => Keyspace!Init
  <2> SUFFICES ASSUME Init PROVE Keyspace!Init
    OBVIOUS
  <2>1. DOMAIN db.data = {} /\ now = 0
    BY DEF Init, EmptyDB, EmptyData, DB
  <2>2. keys(db, now) = {}
    BY <2>1 DEF keys
  <2>3. View(db, now) = [k \in {} |-> k]
    BY <2>2 DEF View
  <2> QED BY <2>1, <2>3 DEF Keyspace!Init
<1>2. MemoryInv /\ MemoryInv' /\ [Next]_vars => [Keyspace!Next]_<<View(db, now), now>>
  <2> SUFFICES ASSUME MemoryInv, MemoryInv', [Next]_vars
               PROVE  Keyspace!Next
    OBVIOUS
  <2>0. /\ now \in Int /\ now' \in Int
        /\ \A x \in DOMAIN db.data : db.data[x].expiresAtMs \in Int
        /\ \A x \in DOMAIN db'.data : db'.data[x].expiresAtMs \in Int
    BY ArgumentsAssumption, LLongAssumption DEF MemoryInv, Sound, EntryOK, LLong, LLongMin
  <2>1. CASE \E k \in Key : KeyEffect(k)
    BY <2>0, <2>1, MethodRefines DEF KeyEffect
  <2>2. CASE Clear
    <3>1. db' = EmptyDB /\ now' = now
      BY <2>2 DEF Clear, Call, Result
    <3>2. DOMAIN db'.data = {}
      BY <3>1 DEF EmptyDB, EmptyData, DB
    <3>3. DOMAIN View(db', now') = {}
      BY <3>2, ViewFacts DEF keys
    <3> QED BY <2>0, <3>1, <3>3 DEF Keyspace!Next, Keyspace!Wipe
  <2>3. CASE db' = db /\ now' \in Int /\ now <= now'
    <3> DEFINE u == now'
    <3>1. u \in Int /\ now <= u
      BY <2>3
    <3> HIDE DEF u
    <3>2. Keyspace!Alive(View(db, now), u) = View(db, u)
      BY <2>0, <3>1, AliveFacts
    <3>3. View(db', now') = Keyspace!Alive(View(db, now), now')
      BY <2>3, <3>2 DEF u
    <3>4. Keyspace!TimePasses
      BY <2>0, <2>3, <3>3 DEF Keyspace!TimePasses
    <3> QED BY <3>4 DEF Keyspace!Next
  <2> QED BY <2>1, <2>2, <2>3, QuietSteps
<1> QED BY <1>1, <1>2, ObjectStaysSound, PTL DEF Spec, ImplementsKeyspace, Keyspace!Spec

\* A step on one key leaves the other keys as they are, and that key at the
\* front if it is new or has changed.
LEMMA EffectIsRecent ==
    ASSUME NEW k, KeyEffect(k)
    PROVE  \A x \in Key : Recent(db, db', x)
<1>1. Others(db, db', k)
  BY DEF KeyEffect, KeyStep, DeadlineStep
<1>2. Recent(db, db', k)
  BY DEF KeyEffect, KeyStep, DeadlineStep, Moved, Recent, keys, Has
<1>3. ASSUME NEW x \in Key, x # k PROVE Recent(db, db', x)
  BY <1>1, <1>3 DEF Others, SameEntry, Recent, Has
<1> QED BY <1>2, <1>3

\* The recency list is in the order of the writes: the key a step creates or
\* changes is at the front, unless it has only lost fields or members, and
\* the order of all the others is kept, whatever the lengths of the lists.
THEOREM RecencyIsKept == Spec => RecencyOrder
<1>1. MemoryInv /\ [Next]_vars =>
         [KeepsOrder(db.lru, db'.lru) /\ \A k \in Key : Recent(db, db', k)]_vars
  <2> SUFFICES ASSUME MemoryInv, [Next]_vars
               PROVE  KeepsOrder(db.lru, db'.lru) /\ \A k \in Key : Recent(db, db', k)
    OBVIOUS
  <2>1. CASE \E k \in Key : KeyEffect(k)
    BY <2>1, EffectKeepsOrder, EffectIsRecent
  <2>2. CASE Clear
    <3>1. db'.lru = <<>> /\ DOMAIN db'.data = {}
      BY <2>2 DEF Clear, Call, Result, EmptyDB, EmptyData, DB
    <3> QED BY <3>1 DEF KeepsOrder, Recent, Has
  <2>3. CASE db' = db
    <3>1. \A i, j \in 0 + 1 .. Len(db.lru) : i <= j => NotAfter(db.lru, db.lru[i], db.lru[j])
      BY DEF NotAfter
    <3> QED BY <2>3, <3>1 DEF KeepsOrder, Recent
  <2> QED BY <2>1, <2>2, <2>3, QuietSteps
<1> QED BY <1>1, ObjectStaysSound, PTL DEF Spec, RecencyOrder

\* activeExpireCycle, which reads the clock once and then erases keys while
\* its loops run, never takes a key that a caller could still see.
THEOREM OnlyDeadExpire == Spec => ExpiryRemovesOnlyDead
<1>1. MemoryInv /\ [Next]_vars
         => [pc = "expire" => View(db', now) = View(db, now)]_vars
  <2> SUFFICES ASSUME MemoryInv, [Next]_vars, pc = "expire"
               PROVE  View(db', now) = View(db, now)
    OBVIOUS
  <2>1. ASSUME NEW i \in 1 .. Len(db.volatileKeys), CycleSample(i)
        PROVE  View(db', now) = View(db, now)
    <3>1. \/ db' = db
          \/ \E k \in Key : KeyEffect(k) /\ ~Has(db', k) /\ k \notin keys(db, now)
      BY <2>1, LoopEffect
    <3>2. ASSUME NEW k \in Key, KeyEffect(k), ~Has(db', k), k \notin keys(db, now)
          PROVE  View(db', now) = View(db, now)
      <4>1. Others(db, db', k)
        BY <3>2 DEF KeyEffect, KeyStep, DeadlineStep
      <4>2. k \notin keys(db', now)
        BY <3>2 DEF keys, Has
      <4>3. keys(db', now) = keys(db, now)
        BY <3>2, <4>1, <4>2 DEF keys, Others, SameEntry, IsExpired
      <4>4. \A x \in keys(db, now) : SameEntry(db, db', x)
        BY <3>2, <4>1 DEF Others, keys
      <4> QED BY <4>3, <4>4 DEF View, SameEntry
    <3> QED BY <3>1, <3>2
  <2>2. CASE db' = db
    BY <2>2
  <2>3. CASE \E k \in Key : KeyCommand(k)
    BY <2>3 DEF KeyCommand, Del, Peek, Set, Get, IncrementBy, AppendText, ExpireAtMs,
                Expire, Persist, ListPush, ListPop, ListRange, ListIndex, HashSet,
                HashGet, HashDelete, HashGetAll, SetAdd, SetRemove, SetMembers, Call
  <2>4. ~Clear /\ ~EvictVictim
    BY DEF Clear, Call, EvictVictim
  <2>5. CASE SetMaxMemory \/ SetEvictionPolicy \/ EvictStart \/ EvictReturn
             \/ CycleStart \/ CycleRepeat \/ CycleReturn \/ Tick \/ UNCHANGED vars
    BY <2>2, <2>5 DEF SetMaxMemory, SetEvictionPolicy, EvictStart, EvictReturn,
                      CycleStart, CycleRepeat, CycleReturn, Tick, vars
  <2> QED BY <2>1, <2>3, <2>4, <2>5 DEF Next
<1> QED BY <1>1, ObjectStaysSound, PTL DEF Spec, ExpiryRemovesOnlyDead

(***************************************************************************)
(* Dead keys make no difference.  Two objects are Alike at time t if they  *)
(* differ in dead keys only: the same keys are alive, with the same        *)
(* entries, in the same order.  Each helper keeps two alike objects alike, *)
(* so each method gives the same answer on both and leaves them alike.     *)
(***************************************************************************)
Alike(d, e, t) ==
    /\ WellFormed(d) /\ WellFormed(e)
    /\ keys(d, t) = keys(e, t)
    /\ \A x \in keys(d, t) : SameEntry(d, e, x)
    /\ \A x, y \in keys(d, t) : NotAfter(d.lru, x, y) <=> NotAfter(e.lru, x, y)

\* The keys other than k stand in s as they stand in before.
SamePairs(before, s, k) ==
    \A x, y \in Key \ {k} : NotAfter(s, x, y) <=> NotAfter(before, x, y)

\* k stands in front of all others.
AtFront(s, k) ==
    \A i \in 1 .. Len(s) : NotAfter(s, k, s[i]) /\ (NotAfter(s, s[i], k) => s[i] = k)

\* Unlinking a key leaves the others where they stand, and the key nowhere.
LEMMA UnlinkPairs ==
    ASSUME NEW d, WellFormed(d), NEW k \in DOMAIN d.data
    PROVE  SamePairs(d.lru, Unlink(d.lru, k), k)
<1> DEFINE s == d.lru
           p == CHOOSE i \in DOMAIN s : s[i] = k
           u == Unlink(s, k)
           n == Len(s)
<1>0. k \in Key /\ LruConsistent(d)
  BY DEF WellFormed
<1>1. /\ s \in Seq(Key) /\ n \in Nat /\ DOMAIN s = 1 .. n
      /\ \E i \in 1 .. n : s[i] = k
  BY <1>0, LenProperties DEF LruConsistent
<1>2. p \in 1 .. n /\ s[p] = k
  BY <1>1
<1>3. u = RemoveAt(s, p)
  BY DEF Unlink
<1>a. InOrder(s, u)
  BY UnlinkOrder
<1> HIDE DEF s, p, u, n
<1>5. /\ Len(u) = n - 1
      /\ \A i \in 1 .. n - 1 : u[i] = IF i < p THEN s[i] ELSE s[i + 1]
  BY <1>1, <1>2, <1>3, RemoveAtProperties DEF n
<1>6. ASSUME NEW x, NEW y, NotAfter(u, x, y) PROVE NotAfter(s, x, y)
  <2>1. PICK a \in 1 .. Len(u), b \in 1 .. Len(u) : a <= b /\ u[a] = x /\ u[b] = y
    BY <1>6 DEF NotAfter
  <2> QED BY <1>a, <2>1 DEF InOrder
<1>7. ASSUME NEW x, NEW y, x # k, y # k, NotAfter(s, x, y) PROVE NotAfter(u, x, y)
  <2>1. PICK a \in 1 .. n, b \in 1 .. n : a <= b /\ s[a] = x /\ s[b] = y
    BY <1>7 DEF NotAfter, n
  <2>2. a # p /\ b # p
    BY <1>2, <1>7, <2>1
  <2>3. \A z \in 1 .. n : z # p => \E i \in 1 .. n - 1 :
            /\ u[i] = s[z] /\ i = IF z < p THEN z ELSE z - 1
    <3> SUFFICES ASSUME NEW z \in 1 .. n, z # p
                 PROVE  \E i \in 1 .. n - 1 : u[i] = s[z] /\ i = IF z < p THEN z ELSE z - 1
      OBVIOUS
    <3>1. CASE z < p
      <4>1. z \in 1 .. n - 1
        BY <1>1, <1>2, <3>1
      <4> QED BY <3>1, <4>1, <1>5
    <3>2. CASE ~(z < p)
      <4>1. z - 1 \in 1 .. n - 1 /\ ~(z - 1 < p) /\ (z - 1) + 1 = z
        BY <1>1, <1>2, <3>2
      <4>2. u[z - 1] = s[z]
        BY <1>5, <4>1
      <4> QED BY <3>2, <4>1, <4>2
    <3> QED BY <3>1, <3>2
  <2>4. PICK i \in 1 .. n - 1 : u[i] = x /\ i = IF a < p THEN a ELSE a - 1
    BY <2>1, <2>2, <2>3
  <2>5. PICK j \in 1 .. n - 1 : u[j] = y /\ j = IF b < p THEN b ELSE b - 1
    BY <2>1, <2>2, <2>3
  <2>6. i <= j
    BY <1>1, <1>2, <2>1, <2>2, <2>4, <2>5
  <2>7. i \in 1 .. Len(u) /\ j \in 1 .. Len(u)
    BY <1>5
  <2> QED BY <2>4, <2>5, <2>6, <2>7 DEF NotAfter
<1>8. SamePairs(s, u, k)
  BY <1>6, <1>7 DEF SamePairs
<1> QED BY <1>8 DEF s, u

\* A key put in front of a list it is not in.
LEMMA ConsPairs ==
    ASSUME NEW s \in Seq(Key), NEW k \in Key, \A i \in 1 .. Len(s) : s[i] # k
    PROVE  SamePairs(s, <<k>> \o s, k) /\ AtFront(<<k>> \o s, k)
<1> DEFINE r == <<k>> \o s
<1>1. /\ r \in Seq(Key) /\ Len(r) = Len(s) + 1 /\ r[1] = k
      /\ \A i \in 1 .. Len(s) : r[i + 1] = s[i]
      /\ Len(s) \in Nat
  BY ConsProperties, LenProperties
<1> HIDE DEF r
<1>2. ASSUME NEW i \in 1 .. Len(r), i # 1
      PROVE  i - 1 \in 1 .. Len(s) /\ r[i] = s[i - 1]
  <2>1. i - 1 \in 1 .. Len(s) /\ (i - 1) + 1 = i
    BY <1>1, <1>2
  <2> QED BY <1>1, <2>1
<1>3. ASSUME NEW x, NEW y, x # k, y # k, NotAfter(r, x, y) PROVE NotAfter(s, x, y)
  <2>1. PICK a \in 1 .. Len(r), b \in 1 .. Len(r) : a <= b /\ r[a] = x /\ r[b] = y
    BY <1>3 DEF NotAfter
  <2>2. a # 1 /\ b # 1
    BY <1>1, <1>3, <2>1
  <2>3. /\ a - 1 \in 1 .. Len(s) /\ b - 1 \in 1 .. Len(s)
        /\ s[a - 1] = x /\ s[b - 1] = y
    BY <1>2, <2>1, <2>2
  <2>4. a - 1 <= b - 1
    BY <1>1, <2>1
  <2> QED BY <2>3, <2>4 DEF NotAfter
<1>4. ASSUME NEW x, NEW y, NotAfter(s, x, y) PROVE NotAfter(r, x, y)
  <2>1. PICK a \in 1 .. Len(s), b \in 1 .. Len(s) : a <= b /\ s[a] = x /\ s[b] = y
    BY <1>4 DEF NotAfter
  <2>2. /\ a + 1 \in 1 .. Len(r) /\ b + 1 \in 1 .. Len(r) /\ a + 1 <= b + 1
        /\ r[a + 1] = x /\ r[b + 1] = y
    BY <1>1, <2>1
  <2> QED BY <2>2 DEF NotAfter
<1>5. SamePairs(s, r, k)
  BY <1>3, <1>4 DEF SamePairs
<1>6. ASSUME NEW i \in 1 .. Len(r) PROVE NotAfter(r, k, r[i])
  <2>1. 1 \in 1 .. Len(r) /\ 1 <= i
    BY <1>1
  <2> QED BY <1>1, <2>1 DEF NotAfter
<1>7. ASSUME NEW x, NotAfter(r, x, k) PROVE x = k
  <2>1. PICK a \in 1 .. Len(r), b \in 1 .. Len(r) : a <= b /\ r[a] = x /\ r[b] = k
    BY <1>7 DEF NotAfter
  <2>2. b = 1
    BY <1>2, <2>1
  <2>3. a = 1
    BY <1>1, <2>1, <2>2
  <2> QED BY <1>1, <2>1, <2>3
<1> QED BY <1>5, <1>6, <1>7 DEF AtFront, r

\* k is alive in both objects, with the same entry, or in neither.
AlikeAt(d, e, t, k) ==
    /\ k \in keys(d, t) <=> k \in keys(e, t)
    /\ k \in keys(d, t) => SameEntry(d, e, k)

\* The live keys stand on the same side of k in both.
SamePlace(d, e, t, k) ==
    \A x \in keys(d, t) : /\ NotAfter(d.lru, k, x) <=> NotAfter(e.lru, k, x)
                          /\ NotAfter(d.lru, x, k) <=> NotAfter(e.lru, x, k)

\* What a step on k may do to the rest of d.
Beside(d, c, k) == WellFormed(c) /\ Others(d, c, k) /\ SamePairs(d.lru, c.lru, k)

\* A step on k of two alike objects that leaves the other keys alone leaves
\* them alike, if k is then alive in both or in neither, with the same entry
\* and in the same place.
LEMMA AlikeStep ==
    ASSUME NEW d, NEW e, NEW t, NEW k, Alike(d, e, t), NEW c, NEW b,
           Beside(d, c, k), Beside(e, b, k), AlikeAt(c, b, t, k),
           k \in keys(c, t) => SamePlace(c, b, t, k)
    PROVE  Alike(c, b, t)
<1>0. /\ DOMAIN c.data \subseteq Key /\ DOMAIN b.data \subseteq Key
      /\ DOMAIN d.data \subseteq Key /\ DOMAIN e.data \subseteq Key
  BY DEF Alike, Beside, WellFormed
<1>1. keys(c, t) \ {k} = keys(d, t) \ {k} /\ keys(b, t) \ {k} = keys(e, t) \ {k}
  BY DEF Beside, Others, SameEntry, keys, IsExpired
<1>2. keys(c, t) = keys(b, t)
  BY <1>1 DEF Alike, AlikeAt
<1>3. ASSUME NEW x \in keys(c, t) PROVE SameEntry(c, b, x)
  <2>1. CASE x = k
    BY <1>3, <2>1 DEF AlikeAt
  <2>2. CASE x # k
    <3>1. x \in keys(d, t) /\ x \in keys(e, t) /\ x \in DOMAIN d.data \ {k}
          /\ x \in DOMAIN e.data \ {k}
      BY <1>1, <1>2, <1>3, <2>2 DEF keys
    <3>2. SameEntry(d, c, x) /\ SameEntry(e, b, x) /\ SameEntry(d, e, x)
      BY <3>1 DEF Beside, Others, Alike
    <3> QED BY <3>2 DEF SameEntry
  <2> QED BY <2>1, <2>2
<1>4. ASSUME NEW x \in keys(c, t), NEW y \in keys(c, t)
      PROVE  NotAfter(c.lru, x, y) <=> NotAfter(b.lru, x, y)
  <2>1. CASE x = k \/ y = k
    BY <1>4, <2>1 DEF SamePlace
  <2>2. CASE x # k /\ y # k
    <3>1. /\ x \in keys(d, t) /\ y \in keys(d, t)
          /\ x \in Key \ {k} /\ y \in Key \ {k}
      BY <1>0, <1>1, <1>4, <2>2 DEF keys
    <3>2. NotAfter(d.lru, x, y) <=> NotAfter(e.lru, x, y)
      BY <3>1 DEF Alike
    <3>3. /\ NotAfter(c.lru, x, y) <=> NotAfter(d.lru, x, y)
          /\ NotAfter(b.lru, x, y) <=> NotAfter(e.lru, x, y)
      BY <3>1 DEF Beside, SamePairs
    <3> QED BY <3>2, <3>3
  <2> QED BY <2>1, <2>2
<1> QED BY <1>2, <1>3, <1>4 DEF Alike, Beside

\* A step that leaves lru alone leaves k in its place.
LEMMA PlaceKept ==
    ASSUME NEW d, NEW e, NEW t, NEW k, Alike(d, e, t), k \in keys(d, t), NEW c, NEW b,
           c.lru = d.lru, b.lru = e.lru, keys(c, t) \subseteq keys(d, t)
    PROVE  SamePlace(c, b, t, k)
BY DEF SamePlace, Alike

\* A step that puts k at the front of both puts it in the same place.
LEMMA PlaceAtFront ==
    ASSUME NEW c, NEW b, NEW t, NEW k, WellFormed(c), WellFormed(b),
           keys(c, t) = keys(b, t), AtFront(c.lru, k), AtFront(b.lru, k)
    PROVE  SamePlace(c, b, t, k)
<1> SUFFICES ASSUME NEW x \in keys(c, t)
             PROVE  /\ NotAfter(c.lru, k, x) /\ NotAfter(b.lru, k, x)
                    /\ NotAfter(c.lru, x, k) => x = k
                    /\ NotAfter(b.lru, x, k) => x = k
  BY DEF SamePlace
<1>1. /\ x \in DOMAIN c.data /\ x \in DOMAIN b.data /\ x \in Key
  BY DEF keys, WellFormed
<1>2. PICK i \in 1 .. Len(c.lru) : c.lru[i] = x
  BY <1>1 DEF WellFormed, LruConsistent
<1>3. PICK j \in 1 .. Len(b.lru) : b.lru[j] = x
  BY <1>1 DEF WellFormed, LruConsistent
<1> QED BY <1>2, <1>3 DEF AtFront

\* Alike is symmetric.
LEMMA AlikeSymmetric ==
    ASSUME NEW d, NEW e, NEW t, Alike(d, e, t)
    PROVE  Alike(e, d, t)
BY DEF Alike, SameEntry

\* An object is like itself.
LEMMA AlikeItself ==
    ASSUME NEW d, NEW t, WellFormed(d)
    PROVE  Alike(d, d, t)
BY DEF Alike, SameEntry

\* A step that does nothing is a step on k.
LEMMA BesideItself ==
    ASSUME NEW d, NEW k, WellFormed(d)
    PROVE  Beside(d, d, k)
BY DEF Beside, Others, SameEntry, SamePairs

\* erase leaves the other keys alone.
LEMMA EraseBeside ==
    ASSUME NEW d, WellFormed(d), NEW k, Has(d, k), NEW c, c = erase(d, k)
    PROVE  Beside(d, c, k) /\ ~Has(c, k)
<1>0. k \in DOMAIN d.data
  BY DEF Has
<1>1. WellFormed(c) /\ ~Has(c, k)
  BY <1>0, EraseWF
<1>2. /\ DOMAIN c.data = DOMAIN d.data \ {k}
      /\ \A x \in DOMAIN d.data \ {k} : SameEntry(d, c, x)
      /\ c.lru = Unlink(d.lru, k)
  BY <1>0, EraseEffect
<1>3. SamePairs(d.lru, c.lru, k)
  BY <1>0, <1>2, UnlinkPairs
<1> QED BY <1>1, <1>2, <1>3 DEF Beside, Others

\* Erasing a dead key leaves an object like itself.
LEMMA EraseDeadAlike ==
    ASSUME NEW d, NEW e, NEW t, NEW k, Alike(d, e, t), Has(e, k), k \notin keys(e, t)
    PROVE  Alike(d, erase(e, k), t) /\ ~Has(erase(e, k), k)
<1> DEFINE b == erase(e, k)
<1>1. Beside(e, b, k) /\ ~Has(b, k)
  BY EraseBeside DEF Alike
<1>2. Beside(d, d, k)
  BY BesideItself DEF Alike
<1> HIDE DEF b
<1>3. k \notin keys(b, t) /\ k \notin keys(d, t)
  BY <1>1 DEF Alike, keys, Has
<1>4. Alike(d, b, t)
  BY <1>1, <1>2, <1>3, AlikeStep DEF AlikeAt
<1> QED BY <1>1, <1>4 DEF b

\* erase of the same key.
LEMMA EraseAlike ==
    ASSUME NEW d, NEW e, NEW t, NEW k, Alike(d, e, t), Has(d, k), Has(e, k)
    PROVE  /\ Alike(erase(d, k), erase(e, k), t)
           /\ ~Has(erase(d, k), k) /\ ~Has(erase(e, k), k)
<1> DEFINE c == erase(d, k)
           b == erase(e, k)
<1>1. Beside(d, c, k) /\ ~Has(c, k) /\ Beside(e, b, k) /\ ~Has(b, k)
  BY EraseBeside DEF Alike
<1> HIDE DEF b, c
<1>2. k \notin keys(c, t) /\ k \notin keys(b, t)
  BY <1>1 DEF keys, Has
<1>3. Alike(c, b, t)
  BY <1>1, <1>2, AlikeStep DEF AlikeAt
<1> QED BY <1>1, <1>3 DEF b, c

\* Steps on k after which it is alive in both leave the same keys alive.
LEMMA SameLive ==
    ASSUME NEW d, NEW e, NEW t, NEW k, Alike(d, e, t), NEW c, NEW b,
           Beside(d, c, k), Beside(e, b, k), k \in keys(c, t), k \in keys(b, t)
    PROVE  keys(c, t) = keys(b, t)
<1>1. keys(c, t) \ {k} = keys(d, t) \ {k} /\ keys(b, t) \ {k} = keys(e, t) \ {k}
  BY DEF Beside, Others, SameEntry, keys, IsExpired
<1> QED BY <1>1 DEF Alike

\* create puts the key in front, alive.
LEMMA CreateAlike ==
    ASSUME NEW d, NEW e, NEW t, NEW k \in Key, Alike(d, e, t), ~Has(d, k), ~Has(e, k), NEW v
    PROVE  /\ Alike(create(d, k, v), create(e, k, v), t)
           /\ k \in keys(create(d, k, v), t)
<1>1. ASSUME NEW g, WellFormed(g), ~Has(g, k), NEW c, c = create(g, k, v)
      PROVE  /\ Beside(g, c, k) /\ AtFront(c.lru, k) /\ k \in keys(c, t)
             /\ c.data[k].value = v /\ c.data[k].expiresAtMs = NO_EXPIRY
             /\ c.data[k].memory = ENTRY_OVERHEAD + Size[k] + payloadMemory(v)
  <2>a. k \notin DOMAIN g.data
    BY <1>1 DEF Has
  <2>1. k \notin DOMAIN g.data /\ g.lru \in Seq(Key) /\ \A i \in 1 .. Len(g.lru) : g.lru[i] # k
    BY <1>1 DEF Has, WellFormed, LruConsistent
  <2>2. /\ DOMAIN c.data = DOMAIN g.data \cup {k}
        /\ \A x \in DOMAIN g.data : SameEntry(g, c, x)
        /\ c.data[k].value = v /\ c.data[k].expiresAtMs = NO_EXPIRY
        /\ c.data[k].memory = ENTRY_OVERHEAD + Size[k] + payloadMemory(v)
        /\ c.lru = <<k>> \o g.lru
    BY <1>1, <2>a, CreateEffect
  <2>3. WellFormed(c)
    BY <1>1, <2>1, CreateWF
  <2>4. SamePairs(g.lru, c.lru, k) /\ AtFront(c.lru, k)
    BY <2>1, <2>2, ConsPairs
  <2>5. Others(g, c, k) /\ k \in keys(c, t)
    BY <2>1, <2>2 DEF Others, keys, IsExpired
  <2> QED BY <2>2, <2>3, <2>4, <2>5 DEF Beside
<1> DEFINE c == create(d, k, v)
           b == create(e, k, v)
<1>2. /\ Beside(d, c, k) /\ AtFront(c.lru, k) /\ k \in keys(c, t)
      /\ c.data[k].value = v /\ c.data[k].expiresAtMs = NO_EXPIRY
      /\ c.data[k].memory = ENTRY_OVERHEAD + Size[k] + payloadMemory(v)
  BY <1>1 DEF Alike
<1>3. /\ Beside(e, b, k) /\ AtFront(b.lru, k) /\ k \in keys(b, t)
      /\ b.data[k].value = v /\ b.data[k].expiresAtMs = NO_EXPIRY
      /\ b.data[k].memory = ENTRY_OVERHEAD + Size[k] + payloadMemory(v)
  BY <1>1 DEF Alike
<1> HIDE DEF b, c
<1>4. AlikeAt(c, b, t, k)
  BY <1>2, <1>3 DEF AlikeAt, SameEntry
<1>5. keys(c, t) = keys(b, t)
  BY <1>2, <1>3, SameLive
<1>6. SamePlace(c, b, t, k)
  BY <1>2, <1>3, <1>5, PlaceAtFront DEF Beside
<1>7. Alike(c, b, t)
  BY <1>2, <1>3, <1>4, <1>6, AlikeStep
<1> QED BY <1>2, <1>7 DEF b, c

\* touch puts a key in front.
LEMMA TouchAlike ==
    ASSUME NEW d, NEW e, NEW t, NEW k, Alike(d, e, t), k \in keys(d, t)
    PROVE  Alike(touch(d, k), touch(e, k), t)
<1>1. ASSUME NEW g, WellFormed(g), k \in keys(g, t), NEW c, c = touch(g, k)
      PROVE  /\ Beside(g, c, k) /\ AtFront(c.lru, k) /\ c.data = g.data
  <2> DEFINE u == Unlink(g.lru, k)
  <2>1. k \in DOMAIN g.data /\ k \in Key
    BY <1>1 DEF keys, WellFormed
  <2>2. WellFormed(c) /\ c.data = g.data /\ c.lru = <<k>> \o u
    BY <1>1, <2>1, TouchWF, TouchEffect
  <2>3. u \in Seq(Key) /\ \A i \in 1 .. Len(u) : u[i] # k
    BY <1>1, <2>1, UnlinkOrder
  <2>4. SamePairs(g.lru, u, k)
    BY <1>1, <2>1, UnlinkPairs
  <2> HIDE DEF u
  <2>5. SamePairs(u, c.lru, k) /\ AtFront(c.lru, k)
    BY <2>1, <2>2, <2>3, ConsPairs
  <2>6. SamePairs(g.lru, c.lru, k)
    BY <2>4, <2>5 DEF SamePairs
  <2>7. Others(g, c, k)
    BY <2>2 DEF Others, SameEntry
  <2> QED BY <2>2, <2>5, <2>6, <2>7 DEF Beside
<1> DEFINE c == touch(d, k)
           b == touch(e, k)
<1>2. Beside(d, c, k) /\ AtFront(c.lru, k) /\ c.data = d.data
  BY <1>1 DEF Alike
<1>3. Beside(e, b, k) /\ AtFront(b.lru, k) /\ b.data = e.data
  BY <1>1 DEF Alike
<1> HIDE DEF b, c
<1>4. keys(c, t) = keys(b, t) /\ AlikeAt(c, b, t, k)
  BY <1>2, <1>3 DEF keys, Alike, AlikeAt, SameEntry
<1>5. SamePlace(c, b, t, k)
  BY <1>2, <1>3, <1>4, PlaceAtFront DEF Beside
<1>6. Alike(c, b, t)
  BY <1>2, <1>3, <1>4, <1>5, AlikeStep
<1> QED BY <1>6 DEF b, c

\* A step on a live key that leaves lru alone and gives the key the same
\* entry in both objects.
LEMMA AmendAlike ==
    ASSUME NEW d, NEW e, NEW t, NEW k, Alike(d, e, t), k \in keys(d, t), NEW c, NEW b,
           WellFormed(c), WellFormed(b), DOMAIN c.data = DOMAIN d.data,
           DOMAIN b.data = DOMAIN e.data, c.lru = d.lru, b.lru = e.lru,
           \A x \in DOMAIN d.data \ {k} : SameEntry(d, c, x),
           \A x \in DOMAIN e.data \ {k} : SameEntry(e, b, x), SameEntry(c, b, k)
    PROVE  Alike(c, b, t) /\ (k \in keys(c, t) <=> ~IsExpired(c.data[k], t))
<1>1. Beside(d, c, k) /\ Beside(e, b, k)
  BY DEF Beside, Others, SamePairs
<1>2. k \in DOMAIN c.data /\ k \in DOMAIN b.data
  BY DEF keys, Alike
<1>3. AlikeAt(c, b, t, k)
  BY <1>2 DEF AlikeAt, keys, SameEntry, IsExpired
<1>4. keys(c, t) \subseteq keys(d, t)
  BY <1>1 DEF Beside, Others, SameEntry, keys, IsExpired
<1>5. SamePlace(c, b, t, k)
  BY <1>4, PlaceKept
<1>6. Alike(c, b, t)
  BY <1>1, <1>3, <1>5, AlikeStep
<1> QED BY <1>2, <1>6 DEF keys

\* assign to a live key, which stays alive.
LEMMA AssignAlike ==
    ASSUME NEW d, NEW e, NEW t, NEW k, Alike(d, e, t), k \in keys(d, t), NEW v, NEW n
    PROVE  /\ Alike(assign(d, k, v, n), assign(e, k, v, n), t)
           /\ k \in keys(assign(d, k, v, n), t)
<1> DEFINE c == assign(d, k, v, n)
           b == assign(e, k, v, n)
<1>0. /\ k \in DOMAIN d.data /\ k \in DOMAIN e.data /\ WellFormed(d) /\ WellFormed(e)
      /\ SameEntry(d, e, k) /\ ~IsExpired(d.data[k], t)
  BY DEF Alike, keys
<1>1. /\ DOMAIN c.data = DOMAIN d.data /\ c.lru = d.lru
      /\ \A x \in DOMAIN d.data \ {k} : SameEntry(d, c, x)
      /\ c.data[k].value = v /\ c.data[k].expiresAtMs = d.data[k].expiresAtMs
      /\ c.data[k].memory = d.data[k].memory + n
  BY <1>0, AssignEffect
<1>2. /\ DOMAIN b.data = DOMAIN e.data /\ b.lru = e.lru
      /\ \A x \in DOMAIN e.data \ {k} : SameEntry(e, b, x)
      /\ b.data[k].value = v /\ b.data[k].expiresAtMs = e.data[k].expiresAtMs
      /\ b.data[k].memory = e.data[k].memory + n
  BY <1>0, AssignEffect
<1>3. WellFormed(c) /\ WellFormed(b)
  BY <1>0, AssignWF
<1> HIDE DEF b, c
<1>4. SameEntry(c, b, k) /\ ~IsExpired(c.data[k], t)
  BY <1>0, <1>1, <1>2 DEF SameEntry, IsExpired
<1>5. Alike(c, b, t) /\ k \in keys(c, t)
  BY <1>1, <1>2, <1>3, <1>4, AmendAlike
<1> QED BY <1>5 DEF b, c

\* clearExpiry of a live key.
LEMMA ClearExpiryAlike ==
    ASSUME NEW d, NEW e, NEW t, NEW k, Alike(d, e, t), k \in keys(d, t)
    PROVE  Alike(clearExpiry(d, k), clearExpiry(e, k), t)
<1> DEFINE c == clearExpiry(d, k)
           b == clearExpiry(e, k)
<1>0. /\ k \in DOMAIN d.data /\ k \in DOMAIN e.data /\ WellFormed(d) /\ WellFormed(e)
      /\ SameEntry(d, e, k)
  BY DEF Alike, keys
<1>1. /\ DOMAIN c.data = DOMAIN d.data /\ c.lru = d.lru
      /\ \A x \in DOMAIN d.data \ {k} : SameEntry(d, c, x)
      /\ c.data[k].value = d.data[k].value /\ c.data[k].memory = d.data[k].memory
      /\ c.data[k].expiresAtMs = NO_EXPIRY
  BY <1>0, ClearExpiryEffect
<1>2. /\ DOMAIN b.data = DOMAIN e.data /\ b.lru = e.lru
      /\ \A x \in DOMAIN e.data \ {k} : SameEntry(e, b, x)
      /\ b.data[k].value = e.data[k].value /\ b.data[k].memory = e.data[k].memory
      /\ b.data[k].expiresAtMs = NO_EXPIRY
  BY <1>0, ClearExpiryEffect
<1>3. WellFormed(c) /\ WellFormed(b)
  BY <1>0, ClearExpiryWF
<1> HIDE DEF b, c
<1>4. SameEntry(c, b, k)
  BY <1>0, <1>1, <1>2 DEF SameEntry
<1>5. Alike(c, b, t)
  BY <1>1, <1>2, <1>3, <1>4, AmendAlike
<1> QED BY <1>5 DEF b, c

\* setExpiry of a live key.
LEMMA SetExpiryAlike ==
    ASSUME NEW d, NEW e, NEW t, NEW k, Alike(d, e, t), k \in keys(d, t),
           NEW when \in Int, when # NO_EXPIRY
    PROVE  Alike(setExpiry(d, k, when), setExpiry(e, k, when), t)
<1> DEFINE c == setExpiry(d, k, when)
           b == setExpiry(e, k, when)
<1>0. /\ k \in DOMAIN d.data /\ k \in DOMAIN e.data /\ WellFormed(d) /\ WellFormed(e)
      /\ SameEntry(d, e, k)
  BY DEF Alike, keys
<1>1. /\ DOMAIN c.data = DOMAIN d.data /\ c.lru = d.lru
      /\ \A x \in DOMAIN d.data \ {k} : SameEntry(d, c, x)
      /\ c.data[k].value = d.data[k].value /\ c.data[k].memory = d.data[k].memory
      /\ c.data[k].expiresAtMs = when
  BY <1>0, SetExpiryEffect
<1>2. /\ DOMAIN b.data = DOMAIN e.data /\ b.lru = e.lru
      /\ \A x \in DOMAIN e.data \ {k} : SameEntry(e, b, x)
      /\ b.data[k].value = e.data[k].value /\ b.data[k].memory = e.data[k].memory
      /\ b.data[k].expiresAtMs = when
  BY <1>0, SetExpiryEffect
<1>3. WellFormed(c) /\ WellFormed(b)
  BY <1>0, SetExpiryWF
<1> HIDE DEF b, c
<1>4. SameEntry(c, b, k)
  BY <1>0, <1>1, <1>2 DEF SameEntry
<1>5. Alike(c, b, t)
  BY <1>1, <1>2, <1>3, <1>4, AmendAlike
<1> QED BY <1>5 DEF b, c

\* findLive: afterwards the key is in both objects or in neither, and alive.
LEMMA FindLiveAlike ==
    ASSUME NEW d, NEW e, NEW t, NEW k, Alike(d, e, t), NEW f, f = findLive(d, t, k),
           NEW h, h = findLive(e, t, k)
    PROVE  /\ Alike(f, h, t) /\ (Has(f, k) <=> Has(h, k))
           /\ Has(f, k) => /\ k \in keys(f, t) /\ f.data[k].value = h.data[k].value
                           /\ f.data[k].expiresAtMs = h.data[k].expiresAtMs
                           /\ f.data[k].memory = h.data[k].memory
<1>1. ASSUME NEW g, NEW b, Alike(b, g, t), NEW c, c = findLive(g, t, k)
      PROVE  Alike(b, c, t) /\ (Has(c, k) <=> k \in keys(c, t))
  <2>1. CASE Has(g, k) /\ IsExpired(g.data[k], t)
    <3>1. c = erase(g, k) /\ k \notin keys(g, t)
      BY <1>1, <2>1 DEF findLive, keys
    <3>2. Alike(b, c, t) /\ ~Has(c, k)
      BY <1>1, <2>1, <3>1, EraseDeadAlike
    <3> QED BY <3>2 DEF keys, Has
  <2>2. CASE ~(Has(g, k) /\ IsExpired(g.data[k], t))
    <3>1. c = g
      BY <1>1, <2>2 DEF findLive
    <3> QED BY <1>1, <2>2, <3>1 DEF keys, Has
  <2> QED BY <2>1, <2>2
<1>2. Alike(d, h, t) /\ (Has(h, k) <=> k \in keys(h, t))
  BY <1>1
<1>3. Alike(h, d, t)
  BY <1>2, AlikeSymmetric
<1>4. Alike(h, f, t) /\ (Has(f, k) <=> k \in keys(f, t))
  BY <1>1, <1>3
<1>5. Alike(f, h, t)
  BY <1>4, AlikeSymmetric
<1>6. keys(f, t) = keys(h, t) /\ \A x \in keys(f, t) : SameEntry(f, h, x)
  BY <1>5 DEF Alike
<1> QED BY <1>2, <1>4, <1>5, <1>6 DEF SameEntry

\* findOrCreate: the key is alive in both objects.
LEMMA FindOrCreateAlike ==
    ASSUME NEW d, NEW e, NEW t, NEW k \in Key, Alike(d, e, t), NEW v,
           NEW f, f = findOrCreate(d, t, k, v), NEW h, h = findOrCreate(e, t, k, v)
    PROVE  /\ Alike(f, h, t) /\ k \in keys(f, t)
           /\ f.data[k].value = h.data[k].value
<1> DEFINE c == findLive(d, t, k)
           b == findLive(e, t, k)
<1>1. /\ Alike(c, b, t) /\ (Has(c, k) <=> Has(b, k))
      /\ Has(c, k) => k \in keys(c, t)
  BY FindLiveAlike
<1>2. /\ f = IF Has(c, k) THEN c ELSE create(c, k, v)
      /\ h = IF Has(b, k) THEN b ELSE create(b, k, v)
  BY DEF findOrCreate
<1> HIDE DEF b, c
<1>3. Alike(f, h, t) /\ k \in keys(f, t)
  <2>1. CASE Has(c, k)
    BY <1>1, <1>2, <2>1
  <2>2. CASE ~Has(c, k)
    BY <1>1, <1>2, <2>2, CreateAlike
  <2> QED BY <2>1, <2>2
<1> QED BY <1>3 DEF Alike, SameEntry

(***************************************************************************)
(* The methods.                                                            *)
(***************************************************************************)
\* Two calls of a method agree: the same answer, and alike objects.
Agree(r, s, t) == r.ret = s.ret /\ Alike(r.db, s.db, t)

\* Methods that look a key up or remove it.
LEMMA LookupAgree ==
    ASSUME NEW d, NEW e, NEW t, NEW k \in Key, Alike(d, e, t), NEW x
    PROVE  /\ Agree(del(d, t, k), del(e, t, k), t)
           /\ Agree(exists(d, t, k), exists(e, t, k), t)
           /\ Agree(type(d, t, k), type(e, t, k), t)
           /\ Agree(stringLength(d, t, k), stringLength(e, t, k), t)
           /\ Agree(listLength(d, t, k), listLength(e, t, k), t)
           /\ Agree(hashLength(d, t, k), hashLength(e, t, k), t)
           /\ Agree(setCardinality(d, t, k), setCardinality(e, t, k), t)
           /\ Agree(hashExists(d, t, k, x), hashExists(e, t, k, x), t)
           /\ Agree(setIsMember(d, t, k, x), setIsMember(e, t, k, x), t)
           /\ Agree(ttlMs(d, t, x, k), ttlMs(e, t, x, k), t)
           /\ Agree(ttl(d, t, x, k), ttl(e, t, x, k), t)
           /\ Agree(persist(d, t, k), persist(e, t, k), t)
<1> DEFINE f == findLive(d, t, k)
           h == findLive(e, t, k)
<1>1. /\ Alike(f, h, t) /\ (Has(f, k) <=> Has(h, k))
      /\ Has(f, k) => /\ k \in keys(f, t) /\ f.data[k].value = h.data[k].value
                      /\ f.data[k].expiresAtMs = h.data[k].expiresAtMs
  BY FindLiveAlike
<1> HIDE DEF f, h
<1>2. Agree(del(d, t, k), del(e, t, k), t)
  <2>1. /\ del(d, t, k) = IF Has(f, k) THEN Result(erase(f, k), Bool(TRUE))
                          ELSE Result(f, Bool(FALSE))
        /\ del(e, t, k) = IF Has(h, k) THEN Result(erase(h, k), Bool(TRUE))
                          ELSE Result(h, Bool(FALSE))
    BY DEF del, f, h
  <2>2. CASE Has(f, k)
    <3>1. Alike(erase(f, k), erase(h, k), t)
      BY <1>1, <2>2, EraseAlike
    <3> QED BY <1>1, <2>1, <2>2, <3>1 DEF Agree, Result
  <2>3. CASE ~Has(f, k)
    <3>1. del(d, t, k) = Result(f, Bool(FALSE)) /\ del(e, t, k) = Result(h, Bool(FALSE))
      BY <1>1, <2>1, <2>3, Zenon
    <3> QED BY <1>1, <3>1 DEF Agree, Result
  <2> QED BY <2>2, <2>3
<1>3. Agree(exists(d, t, k), exists(e, t, k), t)
  <2>1. exists(d, t, k) = Result(f, Bool(Has(f, k))) /\ exists(e, t, k) = Result(h, Bool(Has(h, k)))
    BY DEF exists, f, h
  <2>2. Has(f, k) = Has(h, k)
    BY <1>1 DEF Has
  <2> QED BY <1>1, <2>1, <2>2 DEF Agree, Result
<1>4. Agree(type(d, t, k), type(e, t, k), t)
  BY <1>1 DEF type, Agree, Result, f, h
<1>5. Agree(stringLength(d, t, k), stringLength(e, t, k), t)
  BY <1>1 DEF stringLength, valueAs, Agree, Result, f, h
<1>6. Agree(listLength(d, t, k), listLength(e, t, k), t)
  BY <1>1 DEF listLength, valueAs, Agree, Result, f, h
<1>7. Agree(hashLength(d, t, k), hashLength(e, t, k), t)
  BY <1>1 DEF hashLength, valueAs, Agree, Result, f, h
<1>8. Agree(setCardinality(d, t, k), setCardinality(e, t, k), t)
  BY <1>1 DEF setCardinality, valueAs, Agree, Result, f, h
<1>9. Agree(hashExists(d, t, k, x), hashExists(e, t, k, x), t)
  BY <1>1 DEF hashExists, valueAs, Agree, Result, f, h
<1>10. Agree(setIsMember(d, t, k, x), setIsMember(e, t, k, x), t)
  BY <1>1 DEF setIsMember, valueAs, Agree, Result, f, h
<1>11. Agree(ttlMs(d, t, x, k), ttlMs(e, t, x, k), t)
  BY <1>1 DEF ttlMs, Agree, Result, f, h
<1>12. Agree(ttl(d, t, x, k), ttl(e, t, x, k), t)
  BY <1>11 DEF ttl, Agree, Result
<1>13. Agree(persist(d, t, k), persist(e, t, k), t)
  <2>1. Has(f, k) => Alike(clearExpiry(f, k), clearExpiry(h, k), t)
    BY <1>1, ClearExpiryAlike
  <2> QED BY <1>1, <2>1 DEF persist, Agree, Result, f, h
<1> QED BY <1>2, <1>3, <1>4, <1>5, <1>6, <1>7, <1>8, <1>9, <1>10, <1>11, <1>12, <1>13

\* Methods that read a value and touch its key.
LEMMA ReadAgree ==
    ASSUME NEW d, NEW e, NEW t, NEW k \in Key, Alike(d, e, t), NEW x, NEW y
    PROVE  /\ Agree(get(d, t, k), get(e, t, k), t)
           /\ Agree(listRange(d, t, k, x, y), listRange(e, t, k, x, y), t)
           /\ Agree(listIndex(d, t, k, x), listIndex(e, t, k, x), t)
           /\ Agree(hashGet(d, t, k, x), hashGet(e, t, k, x), t)
           /\ Agree(hashGetAll(d, t, k), hashGetAll(e, t, k), t)
           /\ Agree(setMembers(d, t, k), setMembers(e, t, k), t)
<1> DEFINE f == findLive(d, t, k)
           h == findLive(e, t, k)
<1>1. /\ Alike(f, h, t) /\ (Has(f, k) <=> Has(h, k))
      /\ Has(f, k) => k \in keys(f, t) /\ f.data[k].value = h.data[k].value
  BY FindLiveAlike
<1>a. Has(f, k) => Alike(touch(f, k), touch(h, k), t)
  BY <1>1, TouchAlike
<1> HIDE DEF f, h
<1>2. Agree(get(d, t, k), get(e, t, k), t)
  BY <1>1, <1>a DEF get, valueAs, Agree, Result, f, h
<1>3. Agree(listRange(d, t, k, x, y), listRange(e, t, k, x, y), t)
  BY <1>1, <1>a DEF listRange, valueAs, Agree, Result, f, h
<1>4. Agree(listIndex(d, t, k, x), listIndex(e, t, k, x), t)
  BY <1>1, <1>a DEF listIndex, valueAs, Agree, Result, f, h
<1>5. Agree(hashGet(d, t, k, x), hashGet(e, t, k, x), t)
  BY <1>1, <1>a DEF hashGet, valueAs, Agree, Result, f, h
<1>6. Agree(hashGetAll(d, t, k), hashGetAll(e, t, k), t)
  BY <1>1, <1>a DEF hashGetAll, valueAs, Agree, Result, f, h
<1>7. Agree(setMembers(d, t, k), setMembers(e, t, k), t)
  BY <1>1, <1>a DEF setMembers, valueAs, Agree, Result, f, h
<1> QED BY <1>2, <1>3, <1>4, <1>5, <1>6, <1>7

\* What follows an update in place.
LEMMA UpdateAlike ==
    ASSUME NEW d, NEW e, NEW t, NEW k, Alike(d, e, t), k \in keys(d, t), NEW v, NEW n
    PROVE  /\ Alike(assign(d, k, v, n), assign(e, k, v, n), t)
           /\ Alike(touch(assign(d, k, v, n), k), touch(assign(e, k, v, n), k), t)
           /\ Alike(erase(assign(d, k, v, n), k), erase(assign(e, k, v, n), k), t)
<1> DEFINE c == assign(d, k, v, n)
           b == assign(e, k, v, n)
<1>1. Alike(c, b, t) /\ k \in keys(c, t)
  BY AssignAlike
<1> HIDE DEF b, c
<1>2. Has(c, k) /\ Has(b, k)
  BY <1>1 DEF Alike, keys, Has
<1>3. Alike(touch(c, k), touch(b, k), t) /\ Alike(erase(c, k), erase(b, k), t)
  BY <1>1, <1>2, TouchAlike, EraseAlike
<1> QED BY <1>1, <1>3 DEF b, c

\* Methods that write a string.
LEMMA StringAgree ==
    ASSUME NEW d, NEW e, NEW t, NEW k \in Key, Alike(d, e, t), NEW x
    PROVE  /\ Agree(set(d, t, k, x), set(e, t, k, x), t)
           /\ Agree(incrementBy(d, t, k, x), incrementBy(e, t, k, x), t)
           /\ Agree(append(d, t, k, x), append(e, t, k, x), t)
<1> DEFINE f == findLive(d, t, k)
           h == findLive(e, t, k)
           g == findOrCreate(d, t, k, StringValue(<<0>>))
           i == findOrCreate(e, t, k, StringValue(<<0>>))
<1>1. /\ Alike(f, h, t) /\ (Has(f, k) <=> Has(h, k))
      /\ Has(f, k) => k \in keys(f, t) /\ f.data[k].value = h.data[k].value
  BY FindLiveAlike
<1>2. Alike(g, i, t) /\ k \in keys(g, t) /\ g.data[k].value = i.data[k].value
  BY FindOrCreateAlike
<1> HIDE DEF f, h, g, i
<1>3. Agree(set(d, t, k, x), set(e, t, k, x), t)
  <2> DEFINE c == IF Has(f, k) THEN erase(f, k) ELSE f
             b == IF Has(h, k) THEN erase(h, k) ELSE h
  <2>1. Alike(c, b, t) /\ ~Has(c, k) /\ ~Has(b, k)
    <3>1. CASE Has(f, k)
      BY <1>1, <3>1, EraseAlike
    <3>2. CASE ~Has(f, k)
      BY <1>1, <3>2
    <3> QED BY <3>1, <3>2
  <2>2. /\ set(d, t, k, x) = Result(create(c, k, StringValue(x)), Void)
        /\ set(e, t, k, x) = Result(create(b, k, StringValue(x)), Void)
    BY DEF set, f, h
  <2> HIDE DEF b, c
  <2>3. Alike(create(c, k, StringValue(x)), create(b, k, StringValue(x)), t)
    BY <2>1, CreateAlike
  <2> QED BY <2>2, <2>3 DEF Agree, Result
<1>4. Agree(incrementBy(d, t, k, x), incrementBy(e, t, k, x), t)
  <2> DEFINE text == g.data[k].value.text
             sum == text[1] + x
             v == StringValue(<<sum>>)
             n == DecimalSize(sum) - TextSize(text)
             Body(c) == IF ~valueAs(c, k, "string") THEN Result(c, WrongTypeError)
                        ELSE IF ~parseStrictInteger(text) THEN Result(c, NotIntegerError)
                        ELSE IF sum \notin LLong THEN Result(c, OverflowError)
                        ELSE Result(touch(assign(c, k, v, n), k), Int_(sum))
  <2>1. incrementBy(d, t, k, x) = Body(g) /\ incrementBy(e, t, k, x) = Body(i)
    BY <1>2 DEF incrementBy, AddOverflows, g, i
  <2>2. Alike(touch(assign(g, k, v, n), k), touch(assign(i, k, v, n), k), t)
    BY <1>2, UpdateAlike
  <2>3. valueAs(g, k, "string") <=> valueAs(i, k, "string")
    BY <1>2 DEF valueAs
  <2> HIDE DEF v, n, sum, text
  <2>4. Agree(Body(g), Body(i), t)
    BY <1>2, <2>2, <2>3 DEF Agree, Result
  <2> QED BY <2>1, <2>4
<1>5. Agree(append(d, t, k, x), append(e, t, k, x), t)
  <2> DEFINE longer == f.data[k].value.text \o x
             v == StringValue(longer)
             n == TextSize(x)
             Body(c) == IF ~Has(c, k) THEN Result(create(c, k, StringValue(x)), Int_(n))
                        ELSE IF ~valueAs(c, k, "string") THEN Result(c, WrongTypeError)
                        ELSE Result(touch(assign(c, k, v, n), k), Int_(TextSize(longer)))
  <2>1. append(d, t, k, x) = Body(f) /\ append(e, t, k, x) = Body(h)
    BY <1>1 DEF append, f, h
  <2>2. /\ Has(f, k) => Alike(touch(assign(f, k, v, n), k), touch(assign(h, k, v, n), k), t)
        /\ ~Has(f, k) => Alike(create(f, k, StringValue(x)), create(h, k, StringValue(x)), t)
    BY <1>1, UpdateAlike, CreateAlike
  <2>3. Has(f, k) => (valueAs(f, k, "string") <=> valueAs(h, k, "string"))
    BY <1>1 DEF valueAs
  <2> HIDE DEF v, n, longer
  <2>4. Agree(Body(f), Body(h), t)
    BY <1>1, <2>2, <2>3 DEF Agree, Result
  <2> QED BY <2>1, <2>4
<1> QED BY <1>3, <1>4, <1>5

\* Methods that write a list.
LEMMA ListAgree ==
    ASSUME NEW d, NEW e, NEW t, NEW k \in Key, Alike(d, e, t), NEW x, NEW y
    PROVE  /\ Agree(listPush(d, t, k, x, y), listPush(e, t, k, x, y), t)
           /\ Agree(listPop(d, t, k, x), listPop(e, t, k, x), t)
<1> DEFINE f == findLive(d, t, k)
           h == findLive(e, t, k)
           g == findOrCreate(d, t, k, ListValue(<<>>))
           i == findOrCreate(e, t, k, ListValue(<<>>))
<1>1. /\ Alike(f, h, t) /\ (Has(f, k) <=> Has(h, k))
      /\ Has(f, k) => k \in keys(f, t) /\ f.data[k].value = h.data[k].value
  BY FindLiveAlike
<1>2. Alike(g, i, t) /\ k \in keys(g, t) /\ g.data[k].value = i.data[k].value
  BY FindOrCreateAlike
<1> HIDE DEF f, h, g, i
<1>3. Agree(listPush(d, t, k, x, y), listPush(e, t, k, x, y), t)
  <2> DEFINE items == g.data[k].value.items
             pushed == IF y = "Left" THEN Reverse(x) \o items ELSE items \o x
             v == ListValue(pushed)
             n == SumCost(x)
             Body(c) == IF ~valueAs(c, k, "list") THEN Result(c, WrongTypeError)
                        ELSE Result(touch(assign(c, k, v, n), k), Int_(Len(pushed)))
  <2>1. listPush(d, t, k, x, y) = Body(g) /\ listPush(e, t, k, x, y) = Body(i)
    BY <1>2 DEF listPush, g, i
  <2>2. Alike(touch(assign(g, k, v, n), k), touch(assign(i, k, v, n), k), t)
    BY <1>2, UpdateAlike
  <2>3. valueAs(g, k, "list") <=> valueAs(i, k, "list")
    BY <1>2 DEF valueAs
  <2> HIDE DEF v, n, pushed, items
  <2>4. Agree(Body(g), Body(i), t)
    BY <1>2, <2>2, <2>3 DEF Agree, Result
  <2> QED BY <2>1, <2>4
<1>4. Agree(listPop(d, t, k, x), listPop(e, t, k, x), t)
  <2> DEFINE items == f.data[k].value.items
             value == IF x = "Left" THEN Head(items) ELSE Last(items)
             rest == IF x = "Left" THEN Tail(items) ELSE Front(items)
             v == ListValue(rest)
             n == -elementCost(value)
             Body(c) == IF ~Has(c, k) THEN Result(c, Nil)
                        ELSE IF ~valueAs(c, k, "list") THEN Result(c, WrongTypeError)
                        ELSE Result(IF rest = <<>> THEN erase(assign(c, k, v, n), k)
                                    ELSE touch(assign(c, k, v, n), k), Bulk(value))
  <2>1. listPop(d, t, k, x) = Body(f) /\ listPop(e, t, k, x) = Body(h)
    BY <1>1 DEF listPop, f, h
  <2>2. Has(f, k) =>
          /\ Alike(touch(assign(f, k, v, n), k), touch(assign(h, k, v, n), k), t)
          /\ Alike(erase(assign(f, k, v, n), k), erase(assign(h, k, v, n), k), t)
    BY <1>1, UpdateAlike
  <2>3. Has(f, k) => (valueAs(f, k, "list") <=> valueAs(h, k, "list"))
    BY <1>1 DEF valueAs
  <2> HIDE DEF v, n, rest, value, items
  <2>4. Agree(Body(f), Body(h), t)
    BY <1>1, <2>2, <2>3 DEF Agree, Result
  <2> QED BY <2>1, <2>4
<1> QED BY <1>3, <1>4

\* Methods that write a hash.
LEMMA HashAgree ==
    ASSUME NEW d, NEW e, NEW t, NEW k \in Key, Alike(d, e, t), NEW x
    PROVE  /\ Agree(hashSet(d, t, k, x), hashSet(e, t, k, x), t)
           /\ Agree(hashDelete(d, t, k, x), hashDelete(e, t, k, x), t)
<1> DEFINE f == findLive(d, t, k)
           h == findLive(e, t, k)
           g == findOrCreate(d, t, k, HashValue(<<>>))
           i == findOrCreate(e, t, k, HashValue(<<>>))
<1>1. /\ Alike(f, h, t) /\ (Has(f, k) <=> Has(h, k))
      /\ Has(f, k) => k \in keys(f, t) /\ f.data[k].value = h.data[k].value
  BY FindLiveAlike
<1>2. Alike(g, i, t) /\ k \in keys(g, t) /\ g.data[k].value = i.data[k].value
  BY FindOrCreateAlike
<1> HIDE DEF f, h, g, i
<1>3. Agree(hashSet(d, t, k, x), hashSet(e, t, k, x), t)
  <2> DEFINE Fold(fields) == FoldLeft(HashSetStep,
                                      [fields |-> fields, added |-> 0, bytes |-> 0], x)
             r == Fold(g.data[k].value.fields)
             v == HashValue(r.fields)
             n == r.bytes
             Body(c) == IF ~valueAs(c, k, "hash") THEN Result(c, WrongTypeError)
                        ELSE Result(touch(assign(c, k, v, n), k), Int_(r.added))
  <2>1. /\ hashSet(d, t, k, x) =
             IF ~valueAs(g, k, "hash") THEN Result(g, WrongTypeError)
             ELSE Result(touch(assign(g, k, HashValue(Fold(g.data[k].value.fields).fields),
                                      Fold(g.data[k].value.fields).bytes), k),
                         Int_(Fold(g.data[k].value.fields).added))
        /\ hashSet(e, t, k, x) =
             IF ~valueAs(i, k, "hash") THEN Result(i, WrongTypeError)
             ELSE Result(touch(assign(i, k, HashValue(Fold(i.data[k].value.fields).fields),
                                      Fold(i.data[k].value.fields).bytes), k),
                         Int_(Fold(i.data[k].value.fields).added))
    BY DEF hashSet, g, i
  <2> HIDE DEF Fold
  <2>2. hashSet(d, t, k, x) = Body(g) /\ hashSet(e, t, k, x) = Body(i)
    BY <1>2, <2>1
  <2>3. Alike(touch(assign(g, k, v, n), k), touch(assign(i, k, v, n), k), t)
    BY <1>2, UpdateAlike
  <2>4. valueAs(g, k, "hash") <=> valueAs(i, k, "hash")
    BY <1>2 DEF valueAs
  <2> HIDE DEF v, n, r
  <2>5. Agree(Body(g), Body(i), t)
    BY <1>2, <2>3, <2>4 DEF Agree, Result
  <2> QED BY <2>2, <2>5
<1>4. Agree(hashDelete(d, t, k, x), hashDelete(e, t, k, x), t)
  <2> DEFINE fields == f.data[k].value.fields
             gone == x \cap DOMAIN fields
             kept == [z \in DOMAIN fields \ gone |-> fields[z]]
             v == HashValue(kept)
             n == -FieldsCost([z \in gone |-> fields[z]])
             Body(c) == IF ~Has(c, k) THEN Result(c, Int_(0))
                        ELSE IF ~valueAs(c, k, "hash") THEN Result(c, WrongTypeError)
                        ELSE Result(IF DOMAIN kept = {} THEN erase(assign(c, k, v, n), k)
                                    ELSE assign(c, k, v, n), Int_(Cardinality(gone)))
  <2>1. hashDelete(d, t, k, x) = Body(f)
    BY DEF hashDelete, f
  <2>2. hashDelete(e, t, k, x) = Body(h)
    BY <1>1 DEF hashDelete, h
  <2>3. Has(f, k) =>
          /\ Alike(assign(f, k, v, n), assign(h, k, v, n), t)
          /\ Alike(erase(assign(f, k, v, n), k), erase(assign(h, k, v, n), k), t)
    BY <1>1, UpdateAlike
  <2>4. Has(f, k) => (valueAs(f, k, "hash") <=> valueAs(h, k, "hash"))
    BY <1>1 DEF valueAs
  <2> HIDE DEF v, n, kept, gone, fields
  <2>5. Agree(Body(f), Body(h), t)
    BY <1>1, <2>3, <2>4 DEF Agree, Result
  <2> QED BY <2>1, <2>2, <2>5
<1> QED BY <1>3, <1>4

\* Methods that write a set.
LEMMA SetAgree ==
    ASSUME NEW d, NEW e, NEW t, NEW k \in Key, Alike(d, e, t), NEW x
    PROVE  /\ Agree(setAdd(d, t, k, x), setAdd(e, t, k, x), t)
           /\ Agree(setRemove(d, t, k, x), setRemove(e, t, k, x), t)
<1> DEFINE f == findLive(d, t, k)
           h == findLive(e, t, k)
           g == findOrCreate(d, t, k, SetValue({}))
           i == findOrCreate(e, t, k, SetValue({}))
<1>1. /\ Alike(f, h, t) /\ (Has(f, k) <=> Has(h, k))
      /\ Has(f, k) => k \in keys(f, t) /\ f.data[k].value = h.data[k].value
  BY FindLiveAlike
<1>2. Alike(g, i, t) /\ k \in keys(g, t) /\ g.data[k].value = i.data[k].value
  BY FindOrCreateAlike
<1> HIDE DEF f, h, g, i
<1>3. Agree(setAdd(d, t, k, x), setAdd(e, t, k, x), t)
  <2> DEFINE members == g.data[k].value.members
             new == x \ members
             v == SetValue(members \cup new)
             n == MembersCost(new)
             Body(c) == IF ~valueAs(c, k, "set") THEN Result(c, WrongTypeError)
                        ELSE Result(touch(assign(c, k, v, n), k), Int_(Cardinality(new)))
  <2>1. setAdd(d, t, k, x) = Body(g) /\ setAdd(e, t, k, x) = Body(i)
    BY <1>2 DEF setAdd, g, i
  <2>2. Alike(touch(assign(g, k, v, n), k), touch(assign(i, k, v, n), k), t)
    BY <1>2, UpdateAlike
  <2>3. valueAs(g, k, "set") <=> valueAs(i, k, "set")
    BY <1>2 DEF valueAs
  <2> HIDE DEF v, n, new, members
  <2>4. Agree(Body(g), Body(i), t)
    BY <1>2, <2>2, <2>3 DEF Agree, Result
  <2> QED BY <2>1, <2>4
<1>4. Agree(setRemove(d, t, k, x), setRemove(e, t, k, x), t)
  <2> DEFINE members == f.data[k].value.members
             gone == x \cap members
             v == SetValue(members \ gone)
             n == -MembersCost(gone)
             Body(c) == IF ~Has(c, k) THEN Result(c, Int_(0))
                        ELSE IF ~valueAs(c, k, "set") THEN Result(c, WrongTypeError)
                        ELSE Result(IF members = gone THEN erase(assign(c, k, v, n), k)
                                    ELSE assign(c, k, v, n), Int_(Cardinality(gone)))
  <2>1. setRemove(d, t, k, x) = Body(f) /\ setRemove(e, t, k, x) = Body(h)
    BY <1>1 DEF setRemove, f, h
  <2>2. Has(f, k) =>
          /\ Alike(assign(f, k, v, n), assign(h, k, v, n), t)
          /\ Alike(erase(assign(f, k, v, n), k), erase(assign(h, k, v, n), k), t)
    BY <1>1, UpdateAlike
  <2>3. Has(f, k) => (valueAs(f, k, "set") <=> valueAs(h, k, "set"))
    BY <1>1 DEF valueAs
  <2> HIDE DEF v, n, gone, members
  <2>4. Agree(Body(f), Body(h), t)
    BY <1>1, <2>2, <2>3 DEF Agree, Result
  <2> QED BY <2>1, <2>4
<1> QED BY <1>3, <1>4

\* expireAtMs: both keys are erased or get the deadline.
LEMMA ExpireAtMsAgree ==
    ASSUME NEW d, NEW e, NEW t \in Nat, NEW k \in Key, Alike(d, e, t), NEW when \in Int
    PROVE  Agree(expireAtMs(d, t, t, k, when), expireAtMs(e, t, t, k, when), t)
<1> DEFINE f == findLive(d, t, k)
           h == findLive(e, t, k)
<1>1. /\ Alike(f, h, t) /\ (Has(f, k) <=> Has(h, k))
      /\ Has(f, k) => k \in keys(f, t)
  BY FindLiveAlike
<1>2. /\ expireAtMs(d, t, t, k, when) =
           IF ~Has(f, k) THEN Result(f, Bool(FALSE))
           ELSE IF when <= t THEN Result(erase(f, k), Bool(TRUE))
           ELSE Result(setExpiry(f, k, when), Bool(TRUE))
      /\ expireAtMs(e, t, t, k, when) =
           IF ~Has(h, k) THEN Result(h, Bool(FALSE))
           ELSE IF when <= t THEN Result(erase(h, k), Bool(TRUE))
           ELSE Result(setExpiry(h, k, when), Bool(TRUE))
  BY DEF expireAtMs
<1> HIDE DEF f, h
<1>3. CASE ~Has(f, k)
  <2>1. /\ expireAtMs(d, t, t, k, when) = Result(f, Bool(FALSE))
        /\ expireAtMs(e, t, t, k, when) = Result(h, Bool(FALSE))
    BY <1>1, <1>2, <1>3, Zenon
  <2> QED BY <1>1, <2>1 DEF Agree, Result
<1>4. CASE Has(f, k) /\ when <= t
  <2>1. /\ expireAtMs(d, t, t, k, when) = Result(erase(f, k), Bool(TRUE))
        /\ expireAtMs(e, t, t, k, when) = Result(erase(h, k), Bool(TRUE))
    BY <1>1, <1>2, <1>4, Zenon
  <2>2. Alike(erase(f, k), erase(h, k), t)
    BY <1>1, <1>4, EraseAlike
  <2> QED BY <2>1, <2>2 DEF Agree, Result
<1>5. CASE Has(f, k) /\ ~(when <= t)
  <2>1. /\ expireAtMs(d, t, t, k, when) = Result(setExpiry(f, k, when), Bool(TRUE))
        /\ expireAtMs(e, t, t, k, when) = Result(setExpiry(h, k, when), Bool(TRUE))
    BY <1>1, <1>2, <1>5, Zenon
  <2>2. when # NO_EXPIRY
    BY <1>5 DEF NO_EXPIRY
  <2>3. Alike(setExpiry(f, k, when), setExpiry(h, k, when), t)
    BY <1>1, <1>5, <2>2, SetExpiryAlike
  <2> QED BY <2>1, <2>3 DEF Agree, Result
<1> QED BY <1>3, <1>4, <1>5

(***************************************************************************)
(* The object with all dead keys erased.                                   *)
(***************************************************************************)
\* One step of the fold of Purged, and the function it is defined by.
PurgeStep(d, g, s) == IF s = {} THEN d ELSE erase(g[s \ {Pick(s)}], Pick(s))
IsPurge(d, S, g) == g = [s \in SUBSET S |-> PurgeStep(d, g, s)]

\* That function exists.
LEMMA PurgeExists ==
    ASSUME NEW d, NEW S, IsFiniteSet(S)
    PROVE  \E g : IsPurge(d, S, g)
<1> DEFINE Upto(n, g) == \A s \in SUBSET S : Cardinality(s) <= n => g[s] = PurgeStep(d, g, s)
           P == {n \in Nat : \E g : Upto(n, g)}
<1>0. \A s \in SUBSET S : IsFiniteSet(s) /\ Cardinality(s) \in Nat
  BY FS_Subset, FS_CardinalityType
<1>1. 0 \in P
  <2> DEFINE g == [s \in SUBSET S |-> d]
  <2>1. ASSUME NEW s \in SUBSET S, Cardinality(s) <= 0
        PROVE  g[s] = PurgeStep(d, g, s)
    <3>1. s = {}
      BY <1>0, <2>1, FS_EmptySet
    <3> QED BY <3>1 DEF PurgeStep
  <2>2. Upto(0, g)
    BY <2>1
  <2> QED BY <2>2
<1>2. ASSUME NEW n \in Nat, n \in P PROVE n + 1 \in P
  <2>1. PICK g : Upto(n, g)
    BY <1>2
  <2> DEFINE h == [s \in SUBSET S |-> PurgeStep(d, g, s)]
  <2>2. ASSUME NEW s \in SUBSET S, Cardinality(s) <= n + 1
        PROVE  h[s] = PurgeStep(d, h, s)
    <3>1. CASE s = {}
      BY <3>1 DEF PurgeStep
    <3>2. CASE s # {}
      <4> DEFINE r == s \ {Pick(s)}
      <4>1. r \in SUBSET S /\ Cardinality(r) <= n
        <5>1. Pick(s) \in s /\ Cardinality(r) = Cardinality(s) - 1
          BY <3>2, <1>0, PickInSet, FS_RemoveElement
        <5> QED BY <5>1, <2>2, <1>0
      <4>2. h[r] = g[r]
        BY <4>1, <2>1
      <4>3. h[s] = erase(g[r], Pick(s))
        BY <3>2 DEF PurgeStep
      <4> QED BY <4>2, <4>3, <3>2 DEF PurgeStep
    <3> QED BY <3>1, <3>2
  <2>3. Upto(n + 1, h)
    BY <2>2
  <2>4. \E k : Upto(n + 1, k)
    <3> HIDE DEF Upto, h
    <3> QED BY <2>3
  <2>5. n + 1 \in Nat
    OBVIOUS
  <2> QED BY <2>4, <2>5, Zenon
<1>3. Nat \subseteq P
  <2> HIDE DEF P
  <2> QED BY <1>1, <1>2, InductionOnNat
<1>4. PICK g : Upto(Cardinality(S), g)
  BY <1>0, <1>3
<1> DEFINE h == [s \in SUBSET S |-> PurgeStep(d, g, s)]
<1>5. ASSUME NEW s \in SUBSET S PROVE h[s] = g[s]
  <2>1. Cardinality(s) <= Cardinality(S)
    BY FS_Subset
  <2> QED BY <1>4, <2>1
<1>6. ASSUME NEW s \in SUBSET S PROVE PurgeStep(d, g, s) = PurgeStep(d, h, s)
  <2>1. CASE s = {}
    BY <2>1 DEF PurgeStep
  <2>2. CASE s # {}
    <3>1. s \ {Pick(s)} \in SUBSET S
      OBVIOUS
    <3>2. h[s \ {Pick(s)}] = g[s \ {Pick(s)}]
      BY <1>5, <3>1
    <3> QED BY <2>2, <3>2 DEF PurgeStep
  <2> QED BY <2>1, <2>2
<1>7. h = [s \in SUBSET S |-> PurgeStep(d, h, s)]
  BY <1>6
<1> HIDE DEF h
<1> QED BY <1>7 DEF IsPurge

\* Purged is that function at the set of all dead keys.
LEMMA PurgedIsPurge ==
    ASSUME NEW d, NEW t, NEW g, IsPurge(d, DOMAIN d.data \ keys(d, t), g)
    PROVE  \E h : /\ IsPurge(d, DOMAIN d.data \ keys(d, t), h)
                  /\ Purged(d, t) = h[DOMAIN d.data \ keys(d, t)]
BY Zenon DEF Purged, FoldSet, MapThenFoldSet, IsPurge, PurgeStep, Pick

\* An object is like the one with its dead keys erased.
LEMMA PurgedAlike ==
    ASSUME NEW d, WellFormed(d), NEW t
    PROVE  Alike(d, Purged(d, t), t)
<1> DEFINE S == DOMAIN d.data \ keys(d, t)
<1>a. IsFiniteSet(S)
  <2>1. IsFiniteSet(DOMAIN d.data)
    BY DataFinite
  <2> QED BY <2>1, FS_Subset
<1>1. PICK g : IsPurge(d, S, g) /\ Purged(d, t) = g[S]
  <2>1. PICK h : IsPurge(d, S, h)
    BY <1>a, PurgeExists
  <2> QED BY <2>1, PurgedIsPurge
<1>b. S \subseteq DOMAIN d.data /\ \A x \in S : x \notin keys(d, t)
  OBVIOUS
<1> HIDE DEF S
<1>2. \A s \in SUBSET S : /\ IsFiniteSet(s) /\ Cardinality(s) \in Nat
                          /\ g[s] = PurgeStep(d, g, s)
  BY <1>1, <1>a, FS_Subset, FS_CardinalityType DEF IsPurge
<1> DEFINE Good(s) == Alike(d, g[s], t) /\ DOMAIN g[s].data = DOMAIN d.data \ s
           P == {n \in Nat : \A s \in SUBSET S : Cardinality(s) = n => Good(s)}
<1>3. 0 \in P
  <2>1. ASSUME NEW s \in SUBSET S, Cardinality(s) = 0 PROVE Good(s)
    <3>1. s = {}
      BY <1>2, <2>1, FS_EmptySet
    <3>2. g[s] = d
      BY <1>2, <3>1 DEF PurgeStep
    <3> QED BY <3>1, <3>2, AlikeItself
  <2> QED BY <2>1
<1>4. ASSUME NEW n \in Nat, n \in P PROVE n + 1 \in P
  <2>1. ASSUME NEW s \in SUBSET S, Cardinality(s) = n + 1 PROVE Good(s)
    <3>1. PICK x : x = Pick(s)
      OBVIOUS
    <3>2. s # {} /\ x \in s /\ Cardinality(s \ {x}) = n
      BY <1>2, <2>1, <3>1, PickRemoved
    <3>3. PICK r : r = s \ {x}
      OBVIOUS
    <3>4. r \in SUBSET S /\ Cardinality(r) = n
      BY <3>2, <3>3
    <3>5. Alike(d, g[r], t) /\ DOMAIN g[r].data = DOMAIN d.data \ r
      BY <1>4, <3>4
    <3>6. g[s] = erase(g[r], x)
      BY <1>2, <3>1, <3>2, <3>3 DEF PurgeStep
    <3>7. Has(g[r], x) /\ x \notin keys(g[r], t)
      BY <1>b, <3>2, <3>3, <3>5 DEF Has, Alike
    <3>8. Alike(d, g[s], t)
      BY <3>5, <3>6, <3>7, EraseDeadAlike
    <3>9. DOMAIN g[s].data = DOMAIN g[r].data \ {x}
      BY <3>5, <3>6, <3>7, EraseEffect DEF Alike, Has
    <3> QED BY <3>2, <3>3, <3>5, <3>8, <3>9
  <2> QED BY <2>1
<1>5. Nat \subseteq P
  <2> HIDE DEF P
  <2> QED BY <1>3, <1>4, InductionOnNat
<1>6. Good(S)
  BY <1>2, <1>5
<1> QED BY <1>1, <1>6

(***************************************************************************)
(* What a caller sees.                                                     *)
(***************************************************************************)
\* A caller cannot tell alike objects apart.
LEMMA SameAnswer ==
    ASSUME NEW r, NEW s, NEW t, Agree(r, s, t)
    PROVE  Answer(r, t) = Answer(s, t)
<1> DEFINE c == r.db
           b == s.db
<1>1. Alike(c, b, t) /\ r.ret = s.ret
  BY DEF Agree
<1> HIDE DEF b, c
<1>2. View(c, t) = View(b, t)
  BY <1>1 DEF View, Alike, SameEntry
<1>3. Recency(c, t) = Recency(b, t)
  <2>1. keys(c, t) = keys(b, t)
    BY <1>1 DEF Alike
  <2>2. ASSUME NEW x \in keys(c, t)
        PROVE  {y \in keys(c, t) : NotAfter(c.lru, x, y)} =
               {y \in keys(b, t) : NotAfter(b.lru, x, y)}
    BY <1>1 DEF Alike
  <2> QED BY <2>1, <2>2 DEF Recency
<1> QED BY <1>1, <1>2, <1>3 DEF Answer, b, c

\* Nor by listing the keys or inspecting one.
LEMMA SameInspect ==
    ASSUME NEW d, NEW e, NEW t, NEW k, Alike(d, e, t)
    PROVE  keys(d, t) = keys(e, t) /\ inspect(d, t, k) = inspect(e, t, k)
<1>1. CASE k \in keys(d, t)
  <2>1. /\ k \in keys(e, t) /\ SameEntry(d, e, k)
        /\ Has(d, k) /\ Has(e, k) /\ ~IsExpired(d.data[k], t) /\ ~IsExpired(e.data[k], t)
    BY <1>1 DEF Alike, keys, Has
  <2> QED BY <2>1 DEF inspect, SameEntry, Alike
<1>2. CASE k \notin keys(d, t)
  <2>1. inspect(d, t, k) = Nil
    BY <1>2 DEF inspect, keys, Has
  <2>2. inspect(e, t, k) = Nil
    BY <1>2 DEF inspect, keys, Has, Alike
  <2> QED BY <2>1, <2>2 DEF Alike
<1> QED BY <1>1, <1>2

\* ExpiredInvisible holds: a dead key that is still in the containers makes
\* no difference to the answer of any method that names a key, of keys and
\* of inspect, nor to what the method leaves for later calls.
THEOREM DeadKeysAreInvisible == Spec => []ExpiredInvisible
<1>1. MemoryInv => ExpiredInvisible
  <2> SUFFICES ASSUME MemoryInv, NEW k \in Key
               PROVE  Answers(db, now, k) = Answers(Purged(db, now), now, k)
    BY DEF ExpiredInvisible
  <2> DEFINE d == db
             e == Purged(db, now)
             t == now
             A(r) == Answer(r, t)
  <2>1. Alike(d, e, t)
    BY PurgedAlike DEF MemoryInv, Sound
  <2>a. t \in Nat /\ Deadlines \subseteq Int
    BY ArgumentsAssumption, LLongAssumption DEF MemoryInv, LLong, LLongMin
  <2> HIDE DEF d, e, t
  <2>2. keys(d, t) = keys(e, t) /\ inspect(d, t, k) = inspect(e, t, k)
    BY <2>1, SameInspect
  <2>3. /\ A(del(d, t, k)) = A(del(e, t, k)) /\ A(exists(d, t, k)) = A(exists(e, t, k))
        /\ A(type(d, t, k)) = A(type(e, t, k))
        /\ A(stringLength(d, t, k)) = A(stringLength(e, t, k))
        /\ A(listLength(d, t, k)) = A(listLength(e, t, k))
        /\ A(hashLength(d, t, k)) = A(hashLength(e, t, k))
        /\ A(setCardinality(d, t, k)) = A(setCardinality(e, t, k))
        /\ A(ttlMs(d, t, t, k)) = A(ttlMs(e, t, t, k))
        /\ A(ttl(d, t, t, k)) = A(ttl(e, t, t, k))
        /\ A(persist(d, t, k)) = A(persist(e, t, k))
        /\ \A x : A(hashExists(d, t, k, x)) = A(hashExists(e, t, k, x))
        /\ \A x : A(setIsMember(d, t, k, x)) = A(setIsMember(e, t, k, x))
    BY <2>1, LookupAgree, SameAnswer, ZenonT(30)
  <2>4. /\ A(get(d, t, k)) = A(get(e, t, k))
        /\ A(hashGetAll(d, t, k)) = A(hashGetAll(e, t, k))
        /\ A(setMembers(d, t, k)) = A(setMembers(e, t, k))
        /\ \A x : /\ A(listRange(d, t, k, x, -1)) = A(listRange(e, t, k, x, -1))
                  /\ A(listIndex(d, t, k, x)) = A(listIndex(e, t, k, x))
                  /\ A(hashGet(d, t, k, x)) = A(hashGet(e, t, k, x))
    BY <2>1, ReadAgree, SameAnswer, ZenonT(30)
  <2>5. \A x : /\ A(set(d, t, k, x)) = A(set(e, t, k, x))
               /\ A(incrementBy(d, t, k, x)) = A(incrementBy(e, t, k, x))
               /\ A(append(d, t, k, x)) = A(append(e, t, k, x))
    BY <2>1, StringAgree, SameAnswer
  <2>6. \A x, y : /\ A(listPush(d, t, k, x, y)) = A(listPush(e, t, k, x, y))
                  /\ A(listPop(d, t, k, x)) = A(listPop(e, t, k, x))
    BY <2>1, ListAgree, SameAnswer
  <2>7. \A x : /\ A(hashSet(d, t, k, x)) = A(hashSet(e, t, k, x))
               /\ A(hashDelete(d, t, k, x)) = A(hashDelete(e, t, k, x))
               /\ A(setAdd(d, t, k, x)) = A(setAdd(e, t, k, x))
               /\ A(setRemove(d, t, k, x)) = A(setRemove(e, t, k, x))
    BY <2>1, HashAgree, SetAgree, SameAnswer
  <2>8. \A x \in Deadlines : A(expireAtMs(d, t, t, k, x)) = A(expireAtMs(e, t, t, k, x))
    BY <2>1, <2>a, ExpireAtMsAgree, SameAnswer
  <2> HIDE DEF A
  <2>9. Answers(d, t, k) = Answers(e, t, k)
    BY <2>2, <2>3, <2>4, <2>5, <2>6, <2>7, <2>8, SMTT(60) DEF Answers, A
  <2> QED BY <2>9 DEF d, e, t
<1> QED BY <1>1, ObjectStaysSound, PTL
==============================================================================
