----------------------------- MODULE DatabaseOps -----------------------------
(***************************************************************************)
(* The methods of class Database (src/src/database.cpp) as operators on    *)
(* the object's state.                                                     *)
(*                                                                         *)
(* A database d is a record of the four containers of the class:           *)
(*   data         the hash table: a function from the keys that have a     *)
(*                node to their Entry;                                     *)
(*   lru          the recency list, front first (a Node* is its key);      *)
(*   volatileKeys the vector of the keys that have an expiry;              *)
(*   memoryUsed   the estimate kept incrementally by create, erase,        *)
(*                addMemory and removeMemory.                              *)
(* An Entry's lruPosition is an iterator of std::list, which stays on its  *)
(* element whatever else the list does; it is the position of the key in   *)
(* lru.  volatileIndex is an index into a vector and is kept as the code   *)
(* keeps it (counted from 1; 0 is NOT_VOLATILE).                           *)
(*                                                                         *)
(* A method takes the value of every clock reading the code makes (t, or   *)
(* t1 and t2) and returns the new database and what the code returns or    *)
(* throws.  The counters of DatabaseStats only feed INFO and are left out. *)
(***************************************************************************)
EXTENDS Integers, Sequences, FiniteSets, TLC, FiniteSetsExt, SequencesExt

CONSTANTS
    Key,       \* the names of keys
    Word,      \* strings that do not parse as an integer, not empty
    Size,      \* number of characters of a key or a word
    LLongMax,  \* the largest long long
    SecondMs   \* milliseconds in a second (1000 in the code)

ASSUME SizeAssumption == Size \in [Key \cup Word -> Nat \ {0}]
ASSUME LLongAssumption == LLongMax \in Nat \ {0} /\ SecondMs \in Nat \ {0}
\* An integer of the type has at most 19 digits (2^63 < 10^19).
ASSUME DigitsAssumption == \E w \in 1 .. 19 : LLongMax + 1 < 10^w

ENTRY_OVERHEAD == 96
ELEMENT_OVERHEAD == 32

NO_EXPIRY == -1
NOT_VOLATILE == 0

LLongMin == -LLongMax - 1
LLong == LLongMin .. LLongMax

ASSUME WordAssumption == \A word \in Word : word \notin LLong

\* What a text is made of.
Piece == Word \cup LLong

(***************************************************************************)
(* Values.  A text is a sequence of pieces, each a word or an integer in   *)
(* decimal, written one after the other.                                   *)
(***************************************************************************)
StringValue(text) == [type |-> "string", text |-> text]
ListValue(items) == [type |-> "list", items |-> items]
HashValue(fields) == [type |-> "hash", fields |-> fields]
SetValue(members) == [type |-> "set", members |-> members]

\* Characters of the decimal form of n (std::to_string).
DecimalSize(n) ==
    LET magnitude == IF n < 0 THEN -n ELSE n
        digits == CHOOSE w \in 1 .. 19 :
                      /\ magnitude < 10^w
                      /\ w = 1 \/ magnitude >= 10^(w - 1)
    IN  IF n < 0 THEN digits + 1 ELSE digits

PieceSize(piece) == IF piece \in Word THEN Size[piece] ELSE DecimalSize(piece)
TextSize(text) == SumFunction([i \in DOMAIN text |-> PieceSize(text[i])])

\* A text parses iff it is exactly one integer; the empty text does not.
parseStrictInteger(text) == Len(text) = 1 /\ text[1] \notin Word

elementCost(word) == Size[word] + ELEMENT_OVERHEAD

\* The loops that add up the cost of the elements of a container.
SumCost(words) == SumFunction([i \in DOMAIN words |-> elementCost(words[i])])
FieldsCost(fields) ==
    SumFunction([f \in DOMAIN fields |-> elementCost(f) + Size[fields[f]]])
MembersCost(members) == SumFunction([m \in members |-> elementCost(m)])

payloadMemory(value) ==
    CASE value.type = "string" -> TextSize(value.text)
      [] value.type = "list" -> SumCost(value.items)
      [] value.type = "hash" -> FieldsCost(value.fields)
      [] value.type = "set" -> MembersCost(value.members)

(***************************************************************************)
(* The object and its private helpers.                                     *)
(***************************************************************************)
DB(data, lru, volatileKeys, memoryUsed) ==
    [data |-> data, lru |-> lru, volatileKeys |-> volatileKeys,
     memoryUsed |-> memoryUsed]

Entry(value, expiresAtMs, memory, volatileIndex) ==
    [value |-> value, expiresAtMs |-> expiresAtMs, memory |-> memory,
     volatileIndex |-> volatileIndex]

EmptyData == [k \in {} |-> Entry(StringValue(<<>>), NO_EXPIRY, 0, NOT_VOLATILE)]
EmptyDB == DB(EmptyData, <<>>, <<>>, 0)

Has(d, k) == k \in DOMAIN d.data
IsExpired(e, t) == e.expiresAtMs # NO_EXPIRY /\ t >= e.expiresAtMs

\* data with the entry of k replaced (k may be new).
With(data, k, e) == [x \in DOMAIN data \cup {k} |-> IF x = k THEN e ELSE data[x]]

\* lru without the element that k's lruPosition points to.
Unlink(lru, k) == RemoveAt(lru, CHOOSE i \in DOMAIN lru : lru[i] = k)

\* Slip: the key changes places with the front instead of moving there.
touch_SwapsFront(d, k) ==
    DB(d.data,
       [i \in DOMAIN d.lru |-> IF i = 1 THEN k
                               ELSE IF d.lru[i] = k THEN d.lru[1] ELSE d.lru[i]],
       d.volatileKeys, d.memoryUsed)

\* Slip: the key stays where it is.
touch_Nothing(d, k) == d

touch(d, k) ==
    DB(d.data, <<k>> \o Unlink(d.lru, k), d.volatileKeys, d.memoryUsed)

create(d, k, value) ==
    LET Costing(memory) ==
            DB(With(d.data, k, Entry(value, NO_EXPIRY, memory, NOT_VOLATILE)),
               <<k>> \o d.lru, d.volatileKeys, d.memoryUsed + memory)
    IN  Costing(ENTRY_OVERHEAD + Size[k] + payloadMemory(value))

setExpiry(d, k, unixTimeMs) ==
    LET e == d.data[k]
    IN  IF e.volatileIndex = NOT_VOLATILE
        THEN DB(With(d.data, k, Entry(e.value, unixTimeMs, e.memory,
                                      Len(d.volatileKeys) + 1)),
                d.lru, Append(d.volatileKeys, k), d.memoryUsed)
        ELSE DB(With(d.data, k, Entry(e.value, unixTimeMs, e.memory,
                                      e.volatileIndex)),
                d.lru, d.volatileKeys, d.memoryUsed)

\* Slip: the volatileIndex of the key that takes the slot is not updated.
clearExpiry_KeepsMovedIndex(d, k) ==
    LET e == d.data[k]
        n == Len(d.volatileKeys)
        swapped == [i \in 1 .. n - 1 |-> IF i = e.volatileIndex THEN d.volatileKeys[n]
                                         ELSE d.volatileKeys[i]]
    IN  DB(With(d.data, k, Entry(e.value, NO_EXPIRY, e.memory, NOT_VOLATILE)), d.lru,
           IF e.volatileIndex = NOT_VOLATILE THEN d.volatileKeys ELSE swapped,
           d.memoryUsed)

\* Slip: the key that takes the slot loses its expiry too.
clearExpiry_ClearsMoved(d, k) ==
    LET e == d.data[k]
        n == Len(d.volatileKeys)
        last == IF n = 0 THEN k ELSE d.volatileKeys[n]
        Cleared(x) == Entry(d.data[x].value, NO_EXPIRY, d.data[x].memory, NOT_VOLATILE)
    IN  IF e.volatileIndex = NOT_VOLATILE
        THEN DB(With(d.data, k, Cleared(k)), d.lru, d.volatileKeys, d.memoryUsed)
        ELSE DB(With(With(d.data, last, Cleared(last)), k, Cleared(k)), d.lru,
                SelectSeq(d.volatileKeys, LAMBDA x : x \notin {k, last}), d.memoryUsed)

\* The last key takes the slot of the removed one, then the slot's old
\* owner (possibly the same node) is marked not volatile.
clearExpiry(d, k) ==
    LET e == d.data[k]
        index == e.volatileIndex
        n == Len(d.volatileKeys)
        last == d.volatileKeys[n]
        l == d.data[last]
        moved == With(d.data, last, Entry(l.value, l.expiresAtMs, l.memory, index))
        swapped == [i \in 1 .. n - 1 |-> IF i = index THEN last
                                                      ELSE d.volatileKeys[i]]
        cleared == Entry(e.value, NO_EXPIRY, e.memory, NOT_VOLATILE)
    IN  IF index = NOT_VOLATILE
        THEN DB(With(d.data, k, cleared), d.lru, d.volatileKeys, d.memoryUsed)
        ELSE DB(With(moved, k, cleared), d.lru, swapped, d.memoryUsed)

\* Slip: the memory of the erased key is not given back.
erase_KeepsMemory(d, k) ==
    LET Cleared(c) ==
            DB([x \in DOMAIN c.data \ {k} |-> c.data[x]], Unlink(c.lru, k),
               c.volatileKeys, c.memoryUsed)
    IN  Cleared(clearExpiry(d, k))

\* Slip: the memory of the erased key is given back twice.
erase_FreesTwice(d, k) ==
    LET Cleared(c) ==
            DB([x \in DOMAIN c.data \ {k} |-> c.data[x]], Unlink(c.lru, k),
               c.volatileKeys, c.memoryUsed - 2 * c.data[k].memory)
    IN  Cleared(clearExpiry(d, k))

erase(d, k) ==
    LET Cleared(c) ==
            DB([x \in DOMAIN c.data \ {k} |-> c.data[x]], Unlink(c.lru, k),
               c.volatileKeys, c.memoryUsed - c.data[k].memory)
    IN  Cleared(clearExpiry(d, k))

\* Lazy expiration: an expired key is removed on access.
findLive(d, t, k) ==
    IF Has(d, k) /\ IsExpired(d.data[k], t) THEN erase(d, k) ELSE d

\* A method that adds to a missing key creates it with an initial value.
findOrCreate(d, t, k, value) ==
    LET Live(f) == IF Has(f, k) THEN f ELSE create(f, k, value)
    IN  Live(findLive(d, t, k))

\* The new contents of k's value, and addMemory / removeMemory (a negative
\* amount) for the bytes it gained.
assign(d, k, value, bytes) ==
    LET e == d.data[k]
    IN  DB(With(d.data, k, Entry(value, e.expiresAtMs, e.memory + bytes,
                                 e.volatileIndex)),
           d.lru, d.volatileKeys, d.memoryUsed + bytes)

\* valueAs<T> finds the alternative T; otherwise it throws WrongTypeError.
valueAs(d, k, T) == d.data[k].value.type = T

(***************************************************************************)
(* What a method returns or throws.                                        *)
(***************************************************************************)
Result(d, ret) == [db |-> d, ret |-> ret]
Bool(b) == <<"bool", b>>
Int_(n) == <<"int", n>>
Bulk(s) == <<"bulk", s>>
Array(s) == <<"array", s>>
Nil == <<"nil">>
Void == <<"void">>
WrongTypeError == <<"error", "WRONGTYPE">>
NotIntegerError == <<"error", "not an integer">>
OverflowError == <<"error", "overflow">>

(***************************************************************************)
(* Keyspace.                                                               *)
(***************************************************************************)
del(d, t, k) ==
    LET Live(f) ==
            IF Has(f, k) THEN Result(erase(f, k), Bool(TRUE)) ELSE Result(f, Bool(FALSE))
    IN  Live(findLive(d, t, k))

exists(d, t, k) ==
    LET Live(f) == Result(f, Bool(Has(f, k))) IN Live(findLive(d, t, k))

type(d, t, k) ==
    LET Live(f) ==
            Result(f, IF Has(f, k) THEN Bulk(f.data[k].value.type) ELSE Nil)
    IN  Live(findLive(d, t, k))

\* The keys a pattern that matches everything yields; nothing is removed.
keys(d, t) == {k \in DOMAIN d.data : ~IsExpired(d.data[k], t)}

\* What inspect reports of k; remaining <= 0 counts as missing.
inspect(d, t, k) ==
    IF ~Has(d, k) \/ IsExpired(d.data[k], t) THEN Nil
    ELSE <<"info", d.data[k].value,
           IF d.data[k].expiresAtMs = NO_EXPIRY THEN -1
           ELSE d.data[k].expiresAtMs - t, d.data[k].memory>>

(***************************************************************************)
(* Strings.                                                                *)
(***************************************************************************)
set(d, t, k, text) ==
    LET Live(f) ==
            Result(create(IF Has(f, k) THEN erase(f, k) ELSE f, k, StringValue(text)),
                   Void)
    IN  Live(findLive(d, t, k))

get(d, t, k) ==
    LET Live(f) ==
            IF ~Has(f, k) THEN Result(f, Nil)
            ELSE IF ~valueAs(f, k, "string") THEN Result(f, WrongTypeError)
            ELSE Result(touch(f, k), Bulk(f.data[k].value.text))
    IN  Live(findLive(d, t, k))

\* Slip: only the upper end of long long is checked.
AddOverflows_Above(sum) == sum > LLongMax

AddOverflows(sum) == sum \notin LLong

incrementBy(d, t, k, delta) ==
    LET Live(g) ==
            LET text == g.data[k].value.text
                sum == text[1] + delta
            IN  IF ~valueAs(g, k, "string") THEN Result(g, WrongTypeError)
                ELSE IF ~parseStrictInteger(text) THEN Result(g, NotIntegerError)
                ELSE IF AddOverflows(sum) THEN Result(g, OverflowError)
                ELSE Result(touch(assign(g, k, StringValue(<<sum>>),
                                         DecimalSize(sum) - TextSize(text)), k),
                            Int_(sum))
    IN  Live(findOrCreate(d, t, k, StringValue(<<0>>)))

append(d, t, k, text) ==
    LET Live(f) ==
            LET longer == f.data[k].value.text \o text
            IN  IF ~Has(f, k)
                THEN Result(create(f, k, StringValue(text)), Int_(TextSize(text)))
                ELSE IF ~valueAs(f, k, "string") THEN Result(f, WrongTypeError)
                ELSE Result(touch(assign(f, k, StringValue(longer), TextSize(text)), k),
                            Int_(TextSize(longer)))
    IN  Live(findLive(d, t, k))

stringLength(d, t, k) ==
    LET Live(f) ==
            Result(f, IF ~Has(f, k) THEN Int_(0)
                      ELSE IF ~valueAs(f, k, "string") THEN WrongTypeError
                      ELSE Int_(TextSize(f.data[k].value.text)))
    IN  Live(findLive(d, t, k))

(***************************************************************************)
(* Expiration.  t1 is the clock reading of findLive, t2 the later reading  *)
(* of the method itself.                                                   *)
(***************************************************************************)
expireAtMs(d, t1, t2, k, unixTimeMs) ==
    LET Live(f) ==
            IF ~Has(f, k) THEN Result(f, Bool(FALSE))
            ELSE IF unixTimeMs <= t2 THEN Result(erase(f, k), Bool(TRUE))
            ELSE Result(setExpiry(f, k, unixTimeMs), Bool(TRUE))
    IN  Live(findLive(d, t1, k))

\* t0 is the reading the deadline is computed from; it saturates.
Deadline(t0, seconds) ==
    IF seconds <= 0 THEN t0
    ELSE IF t0 + seconds * SecondMs > LLongMax THEN LLongMax
    ELSE t0 + seconds * SecondMs

expire(d, t0, t1, t2, k, seconds) ==
    expireAtMs(d, t1, t2, k, Deadline(t0, seconds))

\* Slip: the key is looked up without the check for its deadline.
persist_Unchecked(d, t, k) ==
    IF ~Has(d, k) THEN Result(d, Bool(FALSE))
    ELSE IF d.data[k].expiresAtMs = NO_EXPIRY THEN Result(d, Bool(FALSE))
    ELSE Result(clearExpiry(d, k), Bool(TRUE))

persist(d, t, k) ==
    LET Live(f) ==
            IF ~Has(f, k) THEN Result(f, Bool(FALSE))
            ELSE IF f.data[k].expiresAtMs = NO_EXPIRY THEN Result(f, Bool(FALSE))
            ELSE Result(clearExpiry(f, k), Bool(TRUE))
    IN  Live(findLive(d, t, k))

ttlMs(d, t1, t2, k) ==
    LET Live(f) ==
            Result(f, IF ~Has(f, k) THEN Int_(-2)
                      ELSE IF f.data[k].expiresAtMs = NO_EXPIRY THEN Int_(-1)
                      ELSE Int_(f.data[k].expiresAtMs - t2))
    IN  Live(findLive(d, t1, k))

ttl(d, t1, t2, k) ==
    LET Rounded(r) ==
            Result(r.db, IF r.ret[2] < 0 THEN r.ret
                         ELSE Int_((r.ret[2] + SecondMs \div 2) \div SecondMs))
    IN  Rounded(ttlMs(d, t1, t2, k))

(***************************************************************************)
(* Lists.  Pushing to the left one value after the other reverses them.    *)
(***************************************************************************)
listPush(d, t, k, words, side) ==
    LET Live(g) ==
            LET items == g.data[k].value.items
                pushed == IF side = "Left" THEN Reverse(words) \o items ELSE items \o words
            IN  IF ~valueAs(g, k, "list") THEN Result(g, WrongTypeError)
                ELSE Result(touch(assign(g, k, ListValue(pushed), SumCost(words)), k),
                            Int_(Len(pushed)))
    IN  Live(findOrCreate(d, t, k, ListValue(<<>>)))

\* front() and back() of an empty list are undefined: NoEmptyAggregate.
listPop(d, t, k, side) ==
    LET Live(f) ==
            LET items == f.data[k].value.items
                value == IF side = "Left" THEN Head(items) ELSE Last(items)
                rest == IF side = "Left" THEN Tail(items) ELSE Front(items)
                g == assign(f, k, ListValue(rest), -elementCost(value))
            IN  IF ~Has(f, k) THEN Result(f, Nil)
                ELSE IF ~valueAs(f, k, "list") THEN Result(f, WrongTypeError)
                ELSE Result(IF rest = <<>> THEN erase(g, k) ELSE touch(g, k), Bulk(value))
    IN  Live(findLive(d, t, k))

listRange(d, t, k, start, stop) ==
    LET Live(f) ==
            LET items == f.data[k].value.items
                length == Len(items)
                first == Max({0, IF start < 0 THEN start + length ELSE start})
                final == Min({length - 1, IF stop < 0 THEN stop + length ELSE stop})
            IN  IF ~Has(f, k) THEN Result(f, Array(<<>>))
                ELSE IF ~valueAs(f, k, "list") THEN Result(f, WrongTypeError)
                ELSE IF first > final \/ first >= length THEN Result(f, Array(<<>>))
                ELSE Result(touch(f, k), Array(SubSeq(items, first + 1, final + 1)))
    IN  Live(findLive(d, t, k))

listIndex(d, t, k, index) ==
    LET Live(f) ==
            LET items == f.data[k].value.items
                position == IF index < 0 THEN index + Len(items) ELSE index
            IN  IF ~Has(f, k) THEN Result(f, Nil)
                ELSE IF ~valueAs(f, k, "list") THEN Result(f, WrongTypeError)
                ELSE IF position \notin 0 .. Len(items) - 1 THEN Result(f, Nil)
                ELSE Result(touch(f, k), Bulk(items[position + 1]))
    IN  Live(findLive(d, t, k))

listLength(d, t, k) ==
    LET Live(f) ==
            Result(f, IF ~Has(f, k) THEN Int_(0)
                      ELSE IF ~valueAs(f, k, "list") THEN WrongTypeError
                      ELSE Int_(Len(f.data[k].value.items)))
    IN  Live(findLive(d, t, k))

(***************************************************************************)
(* Hashes.  fields is a sequence of pairs <<field, value>>, applied in     *)
(* order: a field named twice is added once and then overwritten.          *)
(***************************************************************************)
\* Slip: the bytes of an overwritten value are not subtracted.
HashSetStep_ForgetsOld(acc, pair) ==
    LET inserted == pair[1] \notin DOMAIN acc.fields
    IN  [fields |-> With(acc.fields, pair[1], pair[2]),
         added |-> IF inserted THEN acc.added + 1 ELSE acc.added,
         bytes |-> acc.bytes + Size[pair[2]] +
                   (IF inserted THEN elementCost(pair[1]) ELSE 0)]

HashSetStep(acc, pair) ==
    LET field == pair[1]
        value == pair[2]
        inserted == field \notin DOMAIN acc.fields
    IN  [fields |-> With(acc.fields, field, value),
         added |-> IF inserted THEN acc.added + 1 ELSE acc.added,
         bytes |-> acc.bytes + Size[value] +
                   (IF inserted THEN elementCost(field)
                                ELSE -Size[acc.fields[field]])]

hashSet(d, t, k, pairs) ==
    LET Live(g) ==
            LET r == FoldLeft(HashSetStep,
                              [fields |-> g.data[k].value.fields, added |-> 0, bytes |-> 0],
                              pairs)
            IN  IF ~valueAs(g, k, "hash") THEN Result(g, WrongTypeError)
                ELSE Result(touch(assign(g, k, HashValue(r.fields), r.bytes), k),
                            Int_(r.added))
    IN  Live(findOrCreate(d, t, k, HashValue(<<>>)))

hashGet(d, t, k, field) ==
    LET Live(f) ==
            LET fields == f.data[k].value.fields
            IN  IF ~Has(f, k) THEN Result(f, Nil)
                ELSE IF ~valueAs(f, k, "hash") THEN Result(f, WrongTypeError)
                ELSE IF field \notin DOMAIN fields THEN Result(f, Nil)
                ELSE Result(touch(f, k), Bulk(fields[field]))
    IN  Live(findLive(d, t, k))

\* The key is not touched, unlike in listPop.
hashDelete(d, t, k, names) ==
    LET Live(f) ==
            LET fields == f.data[k].value.fields
                gone == names \cap DOMAIN fields
                kept == [x \in DOMAIN fields \ gone |-> fields[x]]
                bytes == FieldsCost([x \in gone |-> fields[x]])
                g == assign(f, k, HashValue(kept), -bytes)
            IN  IF ~Has(f, k) THEN Result(f, Int_(0))
                ELSE IF ~valueAs(f, k, "hash") THEN Result(f, WrongTypeError)
                ELSE Result(IF DOMAIN kept = {} THEN erase(g, k) ELSE g,
                            Int_(Cardinality(gone)))
    IN  Live(findLive(d, t, k))

hashGetAll(d, t, k) ==
    LET Live(f) ==
            IF ~Has(f, k) THEN Result(f, Array(<<>>))
            ELSE IF ~valueAs(f, k, "hash") THEN Result(f, WrongTypeError)
            ELSE Result(touch(f, k), Array(f.data[k].value.fields))
    IN  Live(findLive(d, t, k))

hashLength(d, t, k) ==
    LET Live(f) ==
            Result(f, IF ~Has(f, k) THEN Int_(0)
                      ELSE IF ~valueAs(f, k, "hash") THEN WrongTypeError
                      ELSE Int_(Cardinality(DOMAIN f.data[k].value.fields)))
    IN  Live(findLive(d, t, k))

hashExists(d, t, k, field) ==
    LET Live(f) ==
            Result(f, IF ~Has(f, k) THEN Bool(FALSE)
                      ELSE IF ~valueAs(f, k, "hash") THEN WrongTypeError
                      ELSE Bool(field \in DOMAIN f.data[k].value.fields))
    IN  Live(findLive(d, t, k))

(***************************************************************************)
(* Sets.  The order of the arguments does not matter, so they are a set.   *)
(***************************************************************************)
setAdd(d, t, k, words) ==
    LET Live(g) ==
            LET members == g.data[k].value.members
                new == words \ members
            IN  IF ~valueAs(g, k, "set") THEN Result(g, WrongTypeError)
                ELSE Result(touch(assign(g, k, SetValue(members \cup new),
                                         MembersCost(new)), k),
                            Int_(Cardinality(new)))
    IN  Live(findOrCreate(d, t, k, SetValue({})))

\* Slip: the key stays when its last member is removed.
setRemove_KeepsEmpty(d, t, k, words) ==
    LET Live(f) ==
            LET gone == words \cap f.data[k].value.members
            IN  IF ~Has(f, k) THEN Result(f, Int_(0))
                ELSE IF ~valueAs(f, k, "set") THEN Result(f, WrongTypeError)
                ELSE Result(assign(f, k, SetValue(f.data[k].value.members \ gone),
                                   -MembersCost(gone)),
                            Int_(Cardinality(gone)))
    IN  Live(findLive(d, t, k))

setRemove(d, t, k, words) ==
    LET Live(f) ==
            LET members == f.data[k].value.members
                gone == words \cap members
                g == assign(f, k, SetValue(members \ gone),
                            -MembersCost(gone))
            IN  IF ~Has(f, k) THEN Result(f, Int_(0))
                ELSE IF ~valueAs(f, k, "set") THEN Result(f, WrongTypeError)
                ELSE Result(IF members = gone THEN erase(g, k) ELSE g,
                            Int_(Cardinality(gone)))
    IN  Live(findLive(d, t, k))

setMembers(d, t, k) ==
    LET Live(f) ==
            IF ~Has(f, k) THEN Result(f, Array(<<>>))
            ELSE IF ~valueAs(f, k, "set") THEN Result(f, WrongTypeError)
            ELSE Result(touch(f, k), Array(f.data[k].value.members))
    IN  Live(findLive(d, t, k))

setIsMember(d, t, k, member) ==
    LET Live(f) ==
            Result(f, IF ~Has(f, k) THEN Bool(FALSE)
                      ELSE IF ~valueAs(f, k, "set") THEN WrongTypeError
                      ELSE Bool(member \in f.data[k].value.members))
    IN  Live(findLive(d, t, k))

setCardinality(d, t, k) ==
    LET Live(f) ==
            Result(f, IF ~Has(f, k) THEN Int_(0)
                      ELSE IF ~valueAs(f, k, "set") THEN WrongTypeError
                      ELSE Int_(Cardinality(f.data[k].value.members)))
    IN  Live(findLive(d, t, k))

(***************************************************************************)
(* evictIfNeeded in one step, for the callers that use its outcome: its    *)
(* loop runs until memoryUsed is within the limit or lru is empty.  The    *)
(* loop as a process of its own is in module Database.                     *)
(***************************************************************************)
\* One turn: the key at the back goes; evicted lists the victims in order.
EvictStep(acc, i) ==
    [db |-> erase(acc.db, Last(acc.db.lru)),
     evicted |-> Append(acc.evicted, Last(acc.db.lru))]

\* The loop after n turns.
EraseBack(d, n) ==
    FoldLeft(EvictStep, [db |-> d, evicted |-> <<>>], [i \in 1 .. n |-> i])

evictIfNeeded(d, limit, policy) ==
    LET Outcome(acc) ==
            [db |-> acc.db, evicted |-> acc.evicted,
             withinLimit |-> limit = 0 \/ acc.db.memoryUsed <= limit]
        Stops(n) == n = Len(d.lru) \/ EraseBack(d, n).db.memoryUsed <= limit
    IN  Outcome(EraseBack(d, IF limit = 0 \/ policy = "NoEviction" THEN 0
                             ELSE Min({n \in 0 .. Len(d.lru) : Stops(n)})))

(***************************************************************************)
(* What holds of the object between two calls.                             *)
(***************************************************************************)
\* lru holds every key of data exactly once: a lruPosition never dangles
\* and eviction can reach every key.
LruConsistent(d) ==
    /\ d.lru \in Seq(Key)
    /\ \A i, j \in 1 .. Len(d.lru) : d.lru[i] = d.lru[j] => i = j
    /\ \A k \in Key : k \in DOMAIN d.data <=> \E i \in 1 .. Len(d.lru) : d.lru[i] = k

\* volatileKeys and the volatileIndex of the entries are inverse to each
\* other, and a key is volatile exactly when it has an expiry.
VolatileConsistent(d) ==
    /\ d.volatileKeys \in Seq(Key)
    /\ \A i \in 1 .. Len(d.volatileKeys) :
          /\ d.volatileKeys[i] \in DOMAIN d.data
          /\ d.data[d.volatileKeys[i]].volatileIndex = i
    /\ \A k \in DOMAIN d.data :
          LET e == d.data[k]
          IN  /\ e.volatileIndex \in 0 .. Len(d.volatileKeys)
              /\ e.volatileIndex = NOT_VOLATILE <=> e.expiresAtMs = NO_EXPIRY
              /\ e.volatileIndex # NOT_VOLATILE =>
                    d.volatileKeys[e.volatileIndex] = k

TotalMemory(data) == SumFunction([k \in DOMAIN data |-> data[k].memory])

\* x stands before y in s, or is y.
NotAfter(s, x, y) == \E p, q \in 1 .. Len(s) : p <= q /\ s[p] = x /\ s[q] = y

\* Losing fields or members, the one change of a value that does not touch.
Shrunk(v, w) ==
    \/ v.type = "hash" /\ w.type = "hash" /\ DOMAIN w.fields \subseteq DOMAIN v.fields
    \/ v.type = "set" /\ w.type = "set" /\ w.members \subseteq v.members

IsFront(d, k) == d.lru # <<>> /\ d.lru[1] = k

\* k, if c has it, was in d and has at most lost elements, or is at the front.
Recent(d, c, k) ==
    Has(c, k) =>
        \/ IsFront(c, k)
        \/ /\ Has(d, k)
           /\ \/ c.data[k].value = d.data[k].value
              \/ Shrunk(d.data[k].value, c.data[k].value)
=============================================================================
