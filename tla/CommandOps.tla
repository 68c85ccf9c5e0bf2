----------------------------- MODULE CommandOps ------------------------------
(***************************************************************************)
(* The handlers of class CommandProcessor (src/src/commands.cpp) as        *)
(* operators: what a command does to the database, what it replies, and    *)
(* what it hands to propagate for the append-only file.                    *)
(*                                                                         *)
(* A command is a record: its name and its parsed arguments.  A numeric    *)
(* argument is a text, as it arrives.  c is the sequence of clock readings *)
(* a handler makes, in order; they never decrease.  Names are in upper     *)
(* case: execute folds them before it looks them up.                       *)
(***************************************************************************)
EXTENDS DatabaseOps

Reply(d, ret, log) == [db |-> d, ret |-> ret, log |-> log]
IsError(ret) == ret[1] = "error"
Error(message) == <<"error", message>>
OK == <<"status", "OK">>

\* The commands that reach the log in a form of their own.
DelCommand(k) == [name |-> "DEL", keys |-> <<k>>]
SetCommand(k, text) ==
    [name |-> "SET", key |-> k, text |-> text, options |-> {}, expiry |-> <<>>]
PexpireatCommand(k, deadline) ==
    [name |-> "PEXPIREAT", key |-> k, amount |-> <<deadline>>]

\* The database threw, or the handler propagates the command it was given.
PropagateIf(condition, r, cmd) ==
    Reply(r.db, r.ret, IF condition /\ ~IsError(r.ret) THEN <<cmd>> ELSE <<>>)

Propagate(r, cmd) == PropagateIf(TRUE, r, cmd)
PropagateUnless(nothing, r, cmd) == PropagateIf(r.ret # nothing, r, cmd)
Silent(r) == Reply(r.db, r.ret, <<>>)

parseInteger(text) == parseStrictInteger(text)

\* The loops of DEL and EXISTS: the i-th key, and the keys counted so far.
Counted(acc, r) == [db |-> r.db, count |-> acc.count + (IF r.ret[2] THEN 1 ELSE 0)]
DelStep(c, cmd, acc, i) == Counted(acc, del(acc.db, c[i], cmd.keys[i]))
ExistsStep(c, cmd, acc, i) == Counted(acc, exists(acc.db, c[i], cmd.keys[i]))
DelLoop(c, cmd, base) ==
    FoldLeftDomain(LAMBDA acc, i : DelStep(c, cmd, acc, i), base, cmd.keys)
ExistsLoop(c, cmd, base) ==
    FoldLeftDomain(LAMBDA acc, i : ExistsStep(c, cmd, acc, i), base, cmd.keys)

cmdDel(d, c, cmd) ==
    LET Total(all) ==
            PropagateIf(all.count > 0, Result(all.db, Int_(all.count)), cmd)
    IN  Total(DelLoop(c, cmd, [db |-> d, count |-> 0]))

cmdExists(d, c, cmd) ==
    LET Total(all) == Reply(all.db, Int_(all.count), <<>>)
    IN  Total(ExistsLoop(c, cmd, [db |-> d, count |-> 0]))

(***************************************************************************)
(* EXPIRE, PEXPIRE, EXPIREAT and PEXPIREAT.  Whatever the form, the log    *)
(* gets the absolute deadline in milliseconds, or a DEL if the key did not *)
(* survive the call.                                                       *)
(***************************************************************************)
UnitMs(cmd) == IF cmd.name \in {"EXPIRE", "EXPIREAT"} THEN SecondMs ELSE 1
IsAbsolute(cmd) == cmd.name \in {"EXPIREAT", "PEXPIREAT"}

\* Slip: the product is checked and the sum is not.
Overflows_Product(product, deadline) == product \notin LLong

Overflows(product, deadline) == product \notin LLong \/ deadline \notin LLong

expireGeneric(d, c, cmd) ==
    LET product == cmd.amount[1] * UnitMs(cmd)
        deadline == IF IsAbsolute(cmd) THEN product ELSE product + c[1]
        Survived(e) ==
            Reply(e.db, Int_(1),
                  IF e.ret[2] THEN <<PexpireatCommand(cmd.key, deadline)>>
                              ELSE <<DelCommand(cmd.key)>>)
        Done(r) ==
            IF ~r.ret[2] THEN Reply(r.db, Int_(0), <<>>)
            ELSE Survived(exists(r.db, c[4], cmd.key))
    IN  IF ~parseInteger(cmd.amount) THEN Reply(d, NotIntegerError, <<>>)
        ELSE IF Overflows(product, deadline)
        THEN Reply(d, Error("invalid expire time"), <<>>)
        ELSE Done(expireAtMs(d, c[2], c[3], cmd.key, deadline))

cmdPersist(d, c, cmd) ==
    LET Done(r) ==
            PropagateIf(r.ret[2], Result(r.db, Int_(IF r.ret[2] THEN 1 ELSE 0)), cmd)
    IN  Done(persist(d, c[1], cmd.key))

(***************************************************************************)
(* SET key value [NX | XX] [EX seconds | PX milliseconds]: the condition   *)
(* is decided now and not logged; the deadline is logged separately.       *)
(***************************************************************************)
\* Slip: the deadline is set but not logged.
cmdSet_ForgetsDeadline(d, c, cmd) ==
    LET when == cmd.expiry[2][1] * (IF cmd.expiry[1] = "EX" THEN SecondMs ELSE 1) + c[1]
        Stored(s) ==
            Reply(IF cmd.expiry = <<>> THEN s.db
                  ELSE expireAtMs(s.db, c[3], c[4], cmd.key, when).db,
                  OK, <<SetCommand(cmd.key, cmd.text)>>)
    IN  Stored(set(d, c[3], cmd.key, cmd.text))

cmdSet(d, c, cmd) ==
    LET timed == cmd.expiry # <<>>
        amount == cmd.expiry[2]
        when == amount[1] * (IF cmd.expiry[1] = "EX" THEN SecondMs ELSE 1) + c[1]
        plain == SetCommand(cmd.key, cmd.text)
        Stored(s) ==
            IF timed
            THEN Reply(expireAtMs(s.db, c[3], c[4], cmd.key, when).db, OK,
                       <<plain, PexpireatCommand(cmd.key, when)>>)
            ELSE Reply(s.db, OK, <<plain>>)
        Checked(present) ==
            IF \/ "NX" \in cmd.options /\ present.ret[2]
               \/ "XX" \in cmd.options /\ ~present.ret[2]
            THEN Reply(present.db, Nil, <<>>)
            ELSE Stored(set(present.db, c[3], cmd.key, cmd.text))
    IN  IF timed /\ ~parseInteger(amount) THEN Reply(d, NotIntegerError, <<>>)
        ELSE IF timed /\ (amount[1] <= 0 \/ when \notin LLong)
        THEN Reply(d, Error("invalid expire time"), <<>>)
        ELSE IF cmd.options = {"NX", "XX"} THEN Reply(d, Error("syntax"), <<>>)
        ELSE Checked(exists(d, c[2], cmd.key))

\* pairs: <<key, text>>, set one after the other.
MsetStep(c, cmd, e, i) == set(e, c[i], cmd.pairs[i][1], cmd.pairs[i][2]).db
MsetLoop(c, cmd, d) ==
    FoldLeftDomain(LAMBDA e, i : MsetStep(c, cmd, e, i), d, cmd.pairs)

cmdMset(d, c, cmd) == Reply(MsetLoop(c, cmd, d), OK, <<cmd>>)

\* A key of another type answers nil instead of an error.
MgetStep(c, cmd, acc, i) ==
    LET r == get(acc.db, c[i], cmd.keys[i])
    IN  [db |-> r.db,
         values |-> Append(acc.values, IF IsError(r.ret) THEN Nil ELSE r.ret)]
MgetLoop(c, cmd, base) ==
    FoldLeftDomain(LAMBDA acc, i : MgetStep(c, cmd, acc, i), base, cmd.keys)

cmdMget(d, c, cmd) ==
    LET Total(all) == Reply(all.db, Array(all.values), <<>>)
    IN  Total(MgetLoop(c, cmd, [db |-> d, values |-> <<>>]))

\* INCR, DECR, INCRBY and DECRBY; the least long long has no negation.
cmdIncrBy(d, c, cmd) ==
    LET given == IF cmd.name \in {"INCR", "DECR"} THEN <<1>> ELSE cmd.amount
        delta == IF cmd.name \in {"DECR", "DECRBY"} THEN -given[1] ELSE given[1]
    IN  IF ~parseInteger(given) THEN Reply(d, NotIntegerError, <<>>)
        ELSE IF cmd.name = "DECRBY" /\ given[1] = LLongMin
        THEN Reply(d, OverflowError, <<>>)
        ELSE Propagate(incrementBy(d, c[1], cmd.key, delta), cmd)

cmdAppend(d, c, cmd) == Propagate(append(d, c[1], cmd.key, cmd.text), cmd)

cmdPush(d, c, cmd) ==
    Propagate(listPush(d, c[1], cmd.key, cmd.words,
                       IF cmd.name = "LPUSH" THEN "Left" ELSE "Right"), cmd)

cmdPop(d, c, cmd) ==
    PropagateUnless(Nil, listPop(d, c[1], cmd.key,
                                 IF cmd.name = "LPOP" THEN "Left" ELSE "Right"), cmd)

cmdHset(d, c, cmd) == Propagate(hashSet(d, c[1], cmd.key, cmd.fields), cmd)

cmdHdel(d, c, cmd) ==
    PropagateUnless(Int_(0), hashDelete(d, c[1], cmd.key, cmd.members), cmd)

cmdSadd(d, c, cmd) ==
    PropagateUnless(Int_(0), setAdd(d, c[1], cmd.key, cmd.members), cmd)

\* Slip: the removal is not logged.
cmdSrem_Silent(d, c, cmd) ==
    Silent(setRemove(d, c[1], cmd.key, cmd.members))

cmdSrem(d, c, cmd) ==
    PropagateUnless(Int_(0), setRemove(d, c[1], cmd.key, cmd.members), cmd)

cmdFlushall(d, cmd) == Reply(EmptyDB, OK, <<[name |-> "FLUSHALL"]>>)

(***************************************************************************)
(* Commands that only read.  The ones that name a key may expire it or     *)
(* move it to the front of lru.                                            *)
(***************************************************************************)
\* Slip: a read is logged like a write.
cmdGet_Propagates(d, c, cmd) == Propagate(get(d, c[1], cmd.key), cmd)

cmdGet(d, c, cmd) == Silent(get(d, c[1], cmd.key))
cmdStrlen(d, c, cmd) == Silent(stringLength(d, c[1], cmd.key))
cmdType(d, c, cmd) == Silent(type(d, c[1], cmd.key))
cmdKeys(d, c) == Silent(Result(d, Array(keys(d, c[1]))))
cmdMemory(d, c, cmd) == Silent(Result(d, inspect(d, c[1], cmd.key)))
cmdDbsize(d) == Silent(Result(d, Int_(Cardinality(DOMAIN d.data))))

\* TTL and PTTL.
cmdTtl(d, c, cmd) ==
    Silent(IF cmd.name = "TTL" THEN ttl(d, c[1], c[2], cmd.key)
                               ELSE ttlMs(d, c[1], c[2], cmd.key))

\* LRANGE, LLEN and LINDEX; a number that does not parse is refused first.
cmdListRead(d, c, cmd) ==
    LET Numbers(texts, r) ==
            IF \A i \in DOMAIN texts : parseInteger(texts[i]) THEN r
            ELSE Result(d, NotIntegerError)
    IN  Silent(CASE cmd.name = "LLEN" -> listLength(d, c[1], cmd.key)
                 [] cmd.name = "LRANGE" ->
                       Numbers(<<cmd.start, cmd.stop>>,
                               listRange(d, c[1], cmd.key, cmd.start[1], cmd.stop[1]))
                 [] cmd.name = "LINDEX" ->
                       Numbers(<<cmd.amount>>,
                               listIndex(d, c[1], cmd.key, cmd.amount[1])))

cmdHget(d, c, cmd) == Silent(hashGet(d, c[1], cmd.key, cmd.member))

\* HLEN, HEXISTS, and the three that list a hash.
cmdHashRead(d, c, cmd) ==
    Silent(CASE cmd.name = "HLEN" -> hashLength(d, c[1], cmd.key)
             [] cmd.name = "HEXISTS" -> hashExists(d, c[1], cmd.key, cmd.member)
             [] cmd.name \in {"HGETALL", "HKEYS", "HVALS"} ->
                   hashGetAll(d, c[1], cmd.key))

\* SMEMBERS, SISMEMBER and SCARD.
cmdSetRead(d, c, cmd) ==
    Silent(CASE cmd.name = "SMEMBERS" -> setMembers(d, c[1], cmd.key)
             [] cmd.name = "SISMEMBER" -> setIsMember(d, c[1], cmd.key, cmd.member)
             [] cmd.name = "SCARD" -> setCardinality(d, c[1], cmd.key))

(***************************************************************************)
(* The command table: which handler, which commands write, and which of    *)
(* those are refused above the memory limit.                               *)
(***************************************************************************)
DenyOomCommands ==
    {"SET", "MSET", "INCR", "DECR", "INCRBY", "DECRBY", "APPEND", "LPUSH",
     "RPUSH", "HSET", "SADD"}

WriteCommands ==
    DenyOomCommands \cup
    {"DEL", "EXPIRE", "PEXPIRE", "EXPIREAT", "PEXPIREAT", "PERSIST",
     "LPOP", "RPOP", "HDEL", "SREM", "FLUSHALL"}

writeHandler(d, c, cmd) ==
    CASE cmd.name = "DEL" -> cmdDel(d, c, cmd)
      [] cmd.name \in {"EXPIRE", "PEXPIRE", "EXPIREAT", "PEXPIREAT"} ->
            expireGeneric(d, c, cmd)
      [] cmd.name = "PERSIST" -> cmdPersist(d, c, cmd)
      [] cmd.name = "SET" -> cmdSet(d, c, cmd)
      [] cmd.name = "MSET" -> cmdMset(d, c, cmd)
      [] cmd.name \in {"INCR", "DECR", "INCRBY", "DECRBY"} -> cmdIncrBy(d, c, cmd)
      [] cmd.name = "APPEND" -> cmdAppend(d, c, cmd)
      [] cmd.name \in {"LPUSH", "RPUSH"} -> cmdPush(d, c, cmd)
      [] cmd.name \in {"LPOP", "RPOP"} -> cmdPop(d, c, cmd)
      [] cmd.name = "HSET" -> cmdHset(d, c, cmd)
      [] cmd.name = "HDEL" -> cmdHdel(d, c, cmd)
      [] cmd.name = "SADD" -> cmdSadd(d, c, cmd)
      [] cmd.name = "SREM" -> cmdSrem(d, c, cmd)
      [] cmd.name = "FLUSHALL" -> cmdFlushall(d, cmd)

readHandler(d, c, cmd) ==
    CASE cmd.name = "EXISTS" -> cmdExists(d, c, cmd)
      [] cmd.name = "MGET" -> cmdMget(d, c, cmd)
      [] cmd.name = "GET" -> cmdGet(d, c, cmd)
      [] cmd.name = "STRLEN" -> cmdStrlen(d, c, cmd)
      [] cmd.name = "TYPE" -> cmdType(d, c, cmd)
      [] cmd.name \in {"TTL", "PTTL"} -> cmdTtl(d, c, cmd)
      [] cmd.name \in {"LLEN", "LRANGE", "LINDEX"} -> cmdListRead(d, c, cmd)
      [] cmd.name = "HGET" -> cmdHget(d, c, cmd)
      [] cmd.name \in {"HLEN", "HEXISTS", "HGETALL", "HKEYS", "HVALS"} ->
            cmdHashRead(d, c, cmd)
      [] cmd.name \in {"SCARD", "SISMEMBER", "SMEMBERS"} -> cmdSetRead(d, c, cmd)
      [] cmd.name = "MEMORY" -> cmdMemory(d, c, cmd)
      [] cmd.name = "KEYS" -> cmdKeys(d, c)
      [] cmd.name = "DBSIZE" -> cmdDbsize(d)

(***************************************************************************)
(* What execute lets through to a handler: the arity of the table and the  *)
(* shape of the arguments.  A number is any text; a handler parses it.  A  *)
(* command that names n keys makes n clock readings, and no other makes    *)
(* more than four.                                                         *)
(***************************************************************************)
KeylessCommands == {"DEL", "EXISTS", "MGET", "MSET", "FLUSHALL", "KEYS", "DBSIZE"}

ReadCommands ==
    {"EXISTS", "MGET", "GET", "TYPE", "STRLEN", "TTL", "PTTL", "LLEN", "LRANGE",
     "LINDEX", "HLEN", "HGET", "HEXISTS", "HGETALL", "HKEYS", "HVALS", "SCARD",
     "SISMEMBER", "SMEMBERS", "MEMORY", "KEYS", "DBSIZE"}

IsCommand(cmd, readings) ==
    LET Named(names) == cmd.name \in names
    IN  /\ Named(WriteCommands \cup ReadCommands)
        /\ ~Named(KeylessCommands) => cmd.key \in Key
        /\ Named({"DEL", "EXISTS", "MGET"}) =>
              cmd.keys \in Seq(Key) /\ Len(cmd.keys) <= readings
        /\ Named({"MSET"}) =>
              cmd.pairs \in Seq(Key \X Seq(Piece)) /\ Len(cmd.pairs) <= readings
        /\ Named({"SET"}) =>
              /\ cmd.text \in Seq(Piece)
              /\ cmd.options \subseteq {"NX", "XX"}
              /\ cmd.expiry # <<>> => /\ cmd.expiry[1] \in {"EX", "PX"}
                                     /\ cmd.expiry[2] \in Seq(Piece)
        /\ Named({"EXPIRE", "PEXPIRE", "EXPIREAT", "PEXPIREAT", "INCRBY", "DECRBY"}) =>
              cmd.amount \in Seq(Piece)
        /\ Named({"APPEND"}) => cmd.text \in Seq(Word)
        /\ Named({"LPUSH", "RPUSH"}) => cmd.words \in Seq(Word) \ {<<>>}
        /\ Named({"HSET"}) => cmd.fields \in Seq(Word \X Word) \ {<<>>}
        /\ Named({"HDEL", "SADD", "SREM"}) =>
              IsFiniteSet(cmd.members) /\ cmd.members \subseteq Word /\ cmd.members # {}
=============================================================================
