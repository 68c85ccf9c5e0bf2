------------------------------ MODULE Database -------------------------------
(***************************************************************************)
(* The Database object as a state machine: one action per public method    *)
(* that can change its state, with every argument from a small set.        *)
(*                                                                         *)
(* The methods are called one at a time (the server is single-threaded),   *)
(* so a method is one step.  The two methods that contain a loop whose     *)
(* length depends on the data, evictIfNeeded and activeExpireCycle, are    *)
(* one step per iteration; pc says which loop is running and no other      *)
(* method starts until it returns.  Time passes between any two steps, and *)
(* between two clock readings of one method.                               *)
(***************************************************************************)
EXTENDS DatabaseOps

CONSTANTS
    Texts,           \* string arguments of SET and APPEND
    Deltas,          \* arguments of incrementBy
    Deadlines,       \* arguments of expireAtMs
    Seconds,         \* arguments of expire
    Indexes,         \* arguments of listRange and listIndex
    Limits,          \* arguments of setMaxMemory
    SamplesPerLoop,  \* argument of activeExpireCycle (20 by default)
    MaxArgs,         \* bound: elements in one call
    MaxLen,          \* bound: elements of a value, pieces of a text
    MaxTime          \* bound: the last reading of the clock

ASSUME ArgumentsAssumption ==
    /\ Texts \subseteq Seq(Word \cup LLong)
    /\ Deltas \subseteq LLong
    /\ Deadlines \subseteq LLong
    /\ Seconds \subseteq LLong
    /\ Indexes \subseteq LLong
    /\ Limits \subseteq Nat
    /\ SamplesPerLoop \in Nat \ {0}
    /\ MaxArgs \in Nat
    /\ MaxLen \in Nat
    /\ MaxTime \in Nat

VARIABLES
    db,           \* data, lru, volatileKeys, memoryUsed
    memoryLimit,  \* 0: no limit
    policy,       \* what to do above the limit
    now,          \* the clock, in milliseconds
    pc,           \* the loop that is running, or "idle"
    cycle         \* the locals of activeExpireCycle

vars == <<db, memoryLimit, policy, now, pc, cycle>>

NoCycle == [current |-> 0, samples |-> 0, sampled |-> 0, expired |-> 0]

TypeOK ==
    /\ DOMAIN db = {"data", "lru", "volatileKeys", "memoryUsed"}
    /\ DOMAIN db.data \subseteq Key
    /\ \A k \in DOMAIN db.data :
          /\ db.data[k].expiresAtMs \in LLong
          /\ db.data[k].memory \in Nat
          /\ db.data[k].value.type \in {"string", "list", "hash", "set"}
    /\ db.memoryUsed \in Nat
    /\ memoryLimit \in Nat
    /\ policy \in {"NoEviction", "AllKeysLru"}
    /\ now \in 0 .. MaxTime
    /\ pc \in {"idle", "evict", "expire"}
    /\ DOMAIN cycle = DOMAIN NoCycle /\ \A x \in DOMAIN cycle : cycle[x] \in Nat

Init ==
    /\ db = EmptyDB
    /\ memoryLimit = 0
    /\ policy = "NoEviction"
    /\ now = 0
    /\ pc = "idle"
    /\ cycle = NoCycle

(***************************************************************************)
(* Method calls.  r is the result of the method, t its last clock reading. *)
(***************************************************************************)
Length(value) ==
    CASE value.type = "string" -> Len(value.text)
      [] value.type = "list" -> Len(value.items)
      [] value.type = "hash" -> Cardinality(DOMAIN value.fields)
      [] value.type = "set" -> Cardinality(value.members)

WithinBounds(d) == \A k \in DOMAIN d.data : Length(d.data[k].value) <= MaxLen

Call(r, t) ==
    /\ pc = "idle"
    /\ WithinBounds(r.db)
    /\ db' = r.db
    /\ now' = t
    /\ UNCHANGED <<memoryLimit, policy, pc, cycle>>

Later(t) == t .. MaxTime
Arguments == UNION {[1 .. n -> Word] : n \in 1 .. MaxArgs}
PairArguments == UNION {[1 .. n -> Word \X Word] : n \in 1 .. MaxArgs}
\* Appending digits to digits would make another integer: only words.
AppendTexts == {text \in Texts : text \in Seq(Word)}
SetArguments ==
    {S \in SUBSET Word : S # {} /\ IsFiniteSet(S) /\ Cardinality(S) <= MaxArgs}

Del(k) == Call(del(db, now, k), now)

\* Methods that read a key without touching it; they may expire it.
Peek(k) ==
    \/ Call(exists(db, now, k), now)
    \/ Call(type(db, now, k), now)
    \/ Call(stringLength(db, now, k), now)
    \/ Call(listLength(db, now, k), now)
    \/ Call(hashLength(db, now, k), now)
    \/ Call(setCardinality(db, now, k), now)
    \/ \E w \in Word : Call(hashExists(db, now, k, w), now)
    \/ \E w \in Word : Call(setIsMember(db, now, k, w), now)
    \/ \E t \in Later(now) : Call(ttlMs(db, now, t, k), t)
    \/ \E t \in Later(now) : Call(ttl(db, now, t, k), t)

Set(k) == \E text \in Texts : Call(set(db, now, k, text), now)
Get(k) == Call(get(db, now, k), now)
IncrementBy(k) == \E delta \in Deltas : Call(incrementBy(db, now, k, delta), now)
AppendText(k) == \E text \in AppendTexts : Call(append(db, now, k, text), now)

ExpireAtMs(k) ==
    \E deadline \in Deadlines : \E t \in Later(now) :
        Call(expireAtMs(db, now, t, k, deadline), t)

Expire(k) ==
    \E seconds \in Seconds : \E t1 \in Later(now) : \E t2 \in Later(t1) :
        Call(expire(db, now, t1, t2, k, seconds), t2)

Persist(k) == Call(persist(db, now, k), now)

ListPush(k) ==
    \E words \in Arguments, side \in {"Left", "Right"} :
        Call(listPush(db, now, k, words, side), now)

ListPop(k) == \E side \in {"Left", "Right"} : Call(listPop(db, now, k, side), now)

ListRange(k) ==
    \E start \in Indexes, stop \in Indexes :
        Call(listRange(db, now, k, start, stop), now)

ListIndex(k) == \E index \in Indexes : Call(listIndex(db, now, k, index), now)

HashSet(k) == \E pairs \in PairArguments : Call(hashSet(db, now, k, pairs), now)
HashGet(k) == \E field \in Word : Call(hashGet(db, now, k, field), now)
HashDelete(k) == \E names \in SetArguments : Call(hashDelete(db, now, k, names), now)
HashGetAll(k) == Call(hashGetAll(db, now, k), now)

SetAdd(k) == \E words \in SetArguments : Call(setAdd(db, now, k, words), now)
SetRemove(k) == \E words \in SetArguments : Call(setRemove(db, now, k, words), now)
SetMembers(k) == Call(setMembers(db, now, k), now)

Clear == Call(Result(EmptyDB, Void), now)

SetMaxMemory ==
    /\ pc = "idle"
    /\ \E bytes \in Limits : memoryLimit' = bytes
    /\ UNCHANGED <<db, policy, now, pc, cycle>>

SetEvictionPolicy ==
    /\ pc = "idle"
    /\ policy' \in {"NoEviction", "AllKeysLru"}
    /\ UNCHANGED <<db, memoryLimit, now, pc, cycle>>

(***************************************************************************)
(* evictIfNeeded: while above the limit, erase the key at the back of lru. *)
(* It returns whether memoryUsed is within the limit when it stops.        *)
(***************************************************************************)
OverLimit == db.memoryUsed > memoryLimit
CannotEvict == policy = "NoEviction" \/ db.lru = <<>>

EvictStart ==
    /\ pc = "idle"
    /\ memoryLimit # 0
    /\ pc' = "evict"
    /\ UNCHANGED <<db, memoryLimit, policy, now, cycle>>

EvictVictim ==
    /\ pc = "evict"
    /\ OverLimit
    /\ ~CannotEvict
    /\ db' = erase(db, db.lru[Len(db.lru)])
    /\ UNCHANGED <<memoryLimit, policy, now, pc, cycle>>

EvictReturn ==
    /\ pc = "evict"
    /\ ~OverLimit \/ CannotEvict
    /\ pc' = "idle"
    /\ UNCHANGED <<db, memoryLimit, policy, now, cycle>>

(***************************************************************************)
(* activeExpireCycle: sample volatile keys, erase the expired ones, repeat *)
(* while more than a quarter of the sample was expired and the time budget *)
(* lasts.  The clock is read once; without volatile keys nothing happens.  *)
(***************************************************************************)
NewLoop(current) ==
    [current |-> current,
     samples |-> Min({SamplesPerLoop, Len(db.volatileKeys)}),
     sampled |-> 0, expired |-> 0]

Sampling == cycle.sampled < cycle.samples /\ db.volatileKeys # <<>>

CycleStart ==
    /\ pc = "idle"
    /\ db.volatileKeys # <<>>
    /\ pc' = "expire"
    /\ cycle' = NewLoop(now)
    /\ UNCHANGED <<db, memoryLimit, policy, now>>

\* Slips: a key dies a millisecond before, or after, its deadline.
CycleSample_At(i, time) ==
    /\ pc = "expire"
    /\ Sampling
    /\ i \in DOMAIN db.volatileKeys
    /\ LET k == db.volatileKeys[i]
           dead == time >= db.data[k].expiresAtMs
       IN  /\ db' = IF dead THEN erase(db, k) ELSE db
           /\ cycle' = [cycle EXCEPT !.sampled = @ + 1,
                                     !.expired = IF dead THEN @ + 1 ELSE @]
    /\ UNCHANGED <<memoryLimit, policy, now, pc>>

CycleSample_Early(i) == CycleSample_At(i, cycle.current + 1)
CycleSample_Late(i) == CycleSample_At(i, cycle.current - 1)

CycleSample(i) ==
    /\ pc = "expire"
    /\ Sampling
    /\ i \in DOMAIN db.volatileKeys
    /\ LET k == db.volatileKeys[i]
           dead == cycle.current >= db.data[k].expiresAtMs
       IN  /\ db' = IF dead THEN erase(db, k) ELSE db
           /\ cycle' = [cycle EXCEPT !.sampled = @ + 1,
                                     !.expired = IF dead THEN @ + 1 ELSE @]
    /\ UNCHANGED <<memoryLimit, policy, now, pc>>

FewExpired == cycle.expired * 4 <= cycle.sampled

\* Slip: the loop repeats although few of the sampled keys were expired.
CycleRepeat_Always ==
    /\ pc = "expire"
    /\ ~Sampling
    /\ db.volatileKeys # <<>>
    /\ cycle' = NewLoop(cycle.current)
    /\ UNCHANGED <<db, memoryLimit, policy, now, pc>>

CycleRepeat ==
    /\ pc = "expire"
    /\ ~Sampling
    /\ ~FewExpired
    /\ db.volatileKeys # <<>>
    /\ cycle' = NewLoop(cycle.current)
    /\ UNCHANGED <<db, memoryLimit, policy, now, pc>>

\* The sample was good, or the budget is spent, or no volatile key is left.
CycleReturn ==
    /\ pc = "expire"
    /\ ~Sampling
    /\ pc' = "idle"
    /\ cycle' = NoCycle
    /\ UNCHANGED <<db, memoryLimit, policy, now>>

Tick ==
    /\ now < MaxTime
    /\ now' = now + 1
    /\ UNCHANGED <<db, memoryLimit, policy, pc, cycle>>

KeyCommand(k) ==
    \/ Del(k) \/ Peek(k) \/ Set(k) \/ Get(k) \/ IncrementBy(k) \/ AppendText(k)
    \/ ExpireAtMs(k) \/ Expire(k) \/ Persist(k)
    \/ ListPush(k) \/ ListPop(k) \/ ListRange(k) \/ ListIndex(k)
    \/ HashSet(k) \/ HashGet(k) \/ HashDelete(k) \/ HashGetAll(k)
    \/ SetAdd(k) \/ SetRemove(k) \/ SetMembers(k)

Next ==
    \/ \E k \in Key : KeyCommand(k)
    \/ Clear
    \/ SetMaxMemory
    \/ SetEvictionPolicy
    \/ EvictStart \/ EvictVictim \/ EvictReturn
    \/ CycleStart
    \/ \E i \in 1 .. Len(db.volatileKeys) : CycleSample(i)
    \/ CycleRepeat \/ CycleReturn
    \/ Tick

Spec == Init /\ [][Next]_vars
-----------------------------------------------------------------------------
(***************************************************************************)
(* Safety.                                                                 *)
(***************************************************************************)
\* The three containers of the object describe the same set of keys after
\* every method: the swap-and-pop of clearExpiry, the splice of touch and
\* the order of the steps of erase never leave a stale pointer behind.
IndexesConsistent == LruConsistent(db) /\ VolatileConsistent(db)

\* memoryUsed, maintained by increments in a dozen methods, is what a count
\* from scratch gives, for every entry and for the whole object.
MemoryExact ==
    /\ \A k \in DOMAIN db.data :
          db.data[k].memory =
              ENTRY_OVERHEAD + Size[k] + payloadMemory(db.data[k].value)
    /\ db.memoryUsed = TotalMemory(db.data)

\* No stored list, hash or set is empty: listPop's front() and back() are
\* always defined.
NoEmptyAggregate ==
    \A k \in DOMAIN db.data :
        db.data[k].value.type # "string" => Length(db.data[k].value) > 0

\* When evictIfNeeded returns under the LRU policy, memory is within the
\* limit: its lru.empty() exit is never taken above the limit.
EvictionMakesRoom ==
    [][pc = "evict" /\ pc' = "idle" /\ policy = "AllKeysLru"
          => db.memoryUsed <= memoryLimit]_vars

\* Moved to the front of lru: at most one key; order of the others: kept.
KeepsOrder(before, after) ==
    \E n \in {0, 1} : \A i, j \in n + 1 .. Len(after) :
        i <= j => NotAfter(before, after[i], after[j])

\* The recency list is in the order of the writes: a key that is new or whose
\* value has changed is at the front, unless it has only lost fields or
\* members, and a step moves at most one key and keeps the order of all the
\* others.  (Reads move keys too, but leave nothing else to tell them by.)
RecencyOrder ==
    [][/\ KeepsOrder(db.lru, db'.lru)
       /\ \A k \in Key : Recent(db, db', k)]_vars

\* What a caller can see of d at time t.
View(d, t) ==
    [k \in keys(d, t) |-> [value |-> d.data[k].value,
                           deadline |-> d.data[k].expiresAtMs]]

Keyspace == INSTANCE Keyspace WITH view <- View(db, now)

\* The containers implement the map: lazy and active expiration are
\* invisible, and no method disturbs a key other than its own.
ImplementsKeyspace == Keyspace!Spec

\* activeExpireCycle erases dead keys only, whatever it draws and however
\* the vector it samples from is reordered between two draws.
ExpiryRemovesOnlyDead == [][pc = "expire" => View(db', now) = View(db, now)]_vars

(***************************************************************************)
(* A key that is dead but not yet erased makes no difference to callers:   *)
(* every method that names a key, keys and inspect return the same, and    *)
(* leave the same keys in the same recency order, as if all dead keys had  *)
(* just been erased.  size, usedMemory, volatileKeyCount and evictIfNeeded *)
(* are not meant: they count dead keys until somebody erases them.         *)
(***************************************************************************)
Purged(d, t) == FoldSet(LAMBDA k, e : erase(e, k), d, DOMAIN d.data \ keys(d, t))

\* For each key a caller can see, those it stands in front of in lru.
Recency(d, t) == [x \in keys(d, t) |-> {y \in keys(d, t) : NotAfter(d.lru, x, y)}]

Answer(r, t) == <<r.ret, View(r.db, t), Recency(r.db, t)>>

Answers(d, t, k) ==
    LET A(r) == Answer(r, t)
    IN  <<A(del(d, t, k)), A(exists(d, t, k)), A(type(d, t, k)),
          keys(d, t), inspect(d, t, k),
          [x \in Texts |-> A(set(d, t, k, x))],
          [x \in AppendTexts |-> A(append(d, t, k, x))],
          A(get(d, t, k)), A(stringLength(d, t, k)),
          [x \in Deltas |-> A(incrementBy(d, t, k, x))],
          [x \in Deadlines |-> A(expireAtMs(d, t, t, k, x))],
          A(persist(d, t, k)), A(ttlMs(d, t, t, k)), A(ttl(d, t, t, k)),
          A(listPop(d, t, k, "Left")), A(listPop(d, t, k, "Right")),
          [x \in Indexes |-> A(listIndex(d, t, k, x))],
          [x \in Indexes |-> A(listRange(d, t, k, x, -1))],
          A(listLength(d, t, k)),
          [x \in Word |->
             <<A(listPush(d, t, k, <<x>>, "Left")), A(listPush(d, t, k, <<x>>, "Right")),
               A(hashSet(d, t, k, <<<<x, x>>>>)), A(hashGet(d, t, k, x)),
               A(hashExists(d, t, k, x)), A(hashDelete(d, t, k, {x})),
               A(setAdd(d, t, k, {x})), A(setRemove(d, t, k, {x})),
               A(setIsMember(d, t, k, x))>>],
          A(hashGetAll(d, t, k)), A(hashLength(d, t, k)),
          A(setMembers(d, t, k)), A(setCardinality(d, t, k))>>

ExpiredInvisible ==
    \A k \in Key : Answers(db, now, k) = Answers(Purged(db, now), now, k)

(***************************************************************************)
(* database.hpp says of ttlMs: "-2 if missing, -1 if no expiry, otherwise  *)
(* milliseconds left".  So the answer -1 means that the key has no expiry, *)
(* also when the clock moves between the two readings of one call.         *)
(***************************************************************************)
TtlMinusOneMeansNoExpiry ==
    \A k \in keys(db, now), t \in Later(now) :
        ttlMs(db, now, t, k).ret = Int_(-1) => db.data[k].expiresAtMs = NO_EXPIRY

(***************************************************************************)
(* Liveness.  The server calls activeExpireCycle ten times a second        *)
(* whatever the clients do, and the draws are uniform: a key that is       *)
(* offered again and again is drawn eventually.                            *)
(***************************************************************************)
DrawKey(k) == \E i \in 1 .. Len(db.volatileKeys) : db.volatileKeys[i] = k /\ CycleSample(i)

LoopFairness ==
    /\ WF_vars(EvictVictim) /\ WF_vars(EvictReturn)
    /\ WF_vars(CycleReturn)
    /\ WF_vars(\E i \in 1 .. Len(db.volatileKeys) : CycleSample(i))

CronFairness ==
    /\ SF_vars(CycleStart)
    /\ \A k \in Key : SF_vars(DrawKey(k))

FairSpec == Spec /\ LoopFairness /\ CronFairness

\* Both loops return.  The expiration loop may repeat for as long as its
\* budget lasts, but every repetition has erased something.
LoopsReturn == (pc # "idle") ~> (pc = "idle")

\* A dead key gives its memory back even if no command names it again.
DeadKeysReclaimed ==
    \A k \in Key : (Has(db, k) /\ k \notin keys(db, now))
                       ~> (Has(db, k) => k \in keys(db, now))
=============================================================================
