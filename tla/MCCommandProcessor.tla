------------------------- MODULE MCCommandProcessor --------------------------
(***************************************************************************)
(* Instances of CommandProcessor for TLC.                                  *)
(***************************************************************************)
EXTENDS CommandProcessor

CONSTANTS k1, k2, w1

TwoKeys == {k1, k2}
MCSize == [x \in Key \cup Word |-> 1]

KeyCommand(name, k) == [name |-> name, key |-> k]
Amount(name, k, n) == [name |-> name, key |-> k, amount |-> <<n>>]
Words(name, k) == [name |-> name, key |-> k, words |-> <<w1>>]
Members(name, k) == [name |-> name, key |-> k, members |-> {w1}]
SetWith(k, options, expiry) ==
    [name |-> "SET", key |-> k, text |-> <<1>>, options |-> options, expiry |-> expiry]

\* Deadlines set, moved, cleared and passed, one key.
TtlCommands ==
    {SetCommand(k1, <<1>>), SetWith(k1, {"NX"}, <<"PX", <<1>>>>),
     SetWith(k1, {"XX"}, <<"EX", <<1>>>>), Amount("PEXPIRE", k1, 1),
     Amount("EXPIREAT", k1, 1), KeyCommand("PERSIST", k1), KeyCommand("INCR", k1),
     [name |-> "DEL", keys |-> <<k1>>], Words("RPUSH", k1)}

\* Two keys of which the limits admit both, one or none; one of them may be
\* volatile.
EvictionCommands ==
    {SetCommand(k, <<1>>) : k \in Key} \cup {KeyCommand("GET", k) : k \in Key}
    \cup {Amount("PEXPIREAT", k1, 1), [name |-> "FLUSHALL"],
          [name |-> "DEL", keys |-> <<k1, k2>>],
          [name |-> "MSET", pairs |-> <<<<k1, <<2>>>>, <<k2, <<2>>>>>>]}

\* Every type of value on one key.
ValueCommands ==
    LET k == k1
    IN  {SetCommand(k, <<w1>>), SetWith(k, {}, <<"PX", <<0>>>>),
            SetWith(k, {"NX", "XX"}, <<>>),
            [name |-> "APPEND", key |-> k, text |-> <<w1>>],
            Amount("DECRBY", k, 2), Amount("INCRBY", k, LLongMin),
            Amount("DECRBY", k, LLongMin), KeyCommand("DECR", k),
            Amount("PEXPIREAT", k, 2), Amount("EXPIRE", k, LLongMax),
            Amount("PEXPIRE", k, LLongMax),
            [name |-> "EXPIRE", key |-> k, amount |-> <<w1>>],
            KeyCommand("PERSIST", k), KeyCommand("TTL", k), KeyCommand("TYPE", k),
            KeyCommand("STRLEN", k), KeyCommand("LLEN", k), KeyCommand("HKEYS", k),
            KeyCommand("HLEN", k), KeyCommand("SCARD", k), KeyCommand("SMEMBERS", k),
            KeyCommand("MEMORY", k), [name |-> "KEYS"], [name |-> "DBSIZE"],
            [name |-> "LRANGE", key |-> k, start |-> <<0>>, stop |-> <<-1>>],
            Amount("LINDEX", k, 0), [name |-> "LINDEX", key |-> k, amount |-> <<w1>>],
            [name |-> "HGET", key |-> k, member |-> w1],
            [name |-> "HEXISTS", key |-> k, member |-> w1],
            [name |-> "SISMEMBER", key |-> k, member |-> w1],
            Words("LPUSH", k), Words("RPUSH", k), KeyCommand("LPOP", k),
            KeyCommand("RPOP", k),
            [name |-> "HSET", key |-> k, fields |-> <<<<w1, w1>>>>],
            Members("HDEL", k), Members("SADD", k), Members("SREM", k),
            [name |-> "DEL", keys |-> <<k>>], [name |-> "EXISTS", keys |-> <<k, k>>],
            [name |-> "MGET", keys |-> <<k>>], [name |-> "FLUSHALL"]}

TtlSession ==
    [commands |-> TtlCommands, limits |-> {0}, policies |-> {"NoEviction"},
     maxLog |-> 4, maxTime |-> 4]
EvictionSession ==
    [commands |-> EvictionCommands, limits |-> {0, 50, 150},
     policies |-> {"NoEviction", "AllKeysLru"}, maxLog |-> 4, maxTime |-> 1]
ValueSession ==
    [commands |-> ValueCommands, limits |-> {0}, policies |-> {"NoEviction"},
     maxLog |-> 3, maxTime |-> 2]

MCSessions == {TtlSession, EvictionSession, ValueSession}
TtlSessions == {TtlSession}
=============================================================================
