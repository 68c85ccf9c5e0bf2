-------------------------- MODULE CommandProcessor ---------------------------
(***************************************************************************)
(* CommandProcessor::execute and what a restart makes of the log it wrote. *)
(*                                                                         *)
(* log is the sequence of all commands handed to AppendOnlyFile::append    *)
(* since the file was created, each stamped with the time it was executed  *)
(* (the stamp is for the properties only: neither the file nor load has    *)
(* it).  How much of it a crash may cost is the subject of                 *)
(* AppendOnlyFile; here a restart finds all of it.                         *)
(*                                                                         *)
(* The clock never runs backwards, also across restarts.                   *)
(***************************************************************************)
EXTENDS CommandOps

CONSTANTS
    MaxReadings,\* how often one handler reads the clock, at most
    Sessions    \* what may happen to one file: [commands, limits, policies, maxLog,
                \* maxTime], the commands clients send, the arguments of CONFIG SET
                \* for maxmemory and its policy, and bounds on the log and the clock

ASSUME ReadingsAssumption == MaxReadings \in Nat /\ MaxReadings >= 4

ASSUME SessionsAssumption ==
    \A s \in Sessions :
        /\ \A cmd \in s.commands : IsCommand(cmd, MaxReadings)
        /\ s.limits \subseteq Nat
        /\ s.policies \subseteq {"NoEviction", "AllKeysLru"}
        /\ s.maxLog \in Nat
        /\ s.maxTime \in Nat

VARIABLES
    session,
    db,           \* the Database
    memoryLimit,
    policy,
    healthy,      \* AppendOnlyFile::healthy
    log,          \* what has been propagated
    now

vars == <<session, db, memoryLimit, policy, healthy, log, now>>

TypeOK ==
    /\ DOMAIN db.data \subseteq Key
    /\ memoryLimit \in Nat
    /\ policy \in {"NoEviction", "AllKeysLru"}
    /\ healthy \in BOOLEAN
    /\ Len(log) <= session.maxLog
    /\ \A i \in DOMAIN log : log[i].cmd.name \in WriteCommands /\ log[i].at \in 0 .. now
    /\ now \in 0 .. session.maxTime

Init ==
    /\ session \in Sessions
    /\ db = EmptyDB
    /\ memoryLimit = 0
    /\ policy = "NoEviction"
    /\ healthy = TRUE
    /\ log = <<>>
    /\ now = 0

(***************************************************************************)
(* Running a command: a write needs a healthy file and room for its data;  *)
(* evictions reach the log before the command does.                        *)
(***************************************************************************)
\* Slip: evictions do not reach the log.
PropagatedEvictions_None(evicted) == <<>>

PropagatedEvictions(evicted) == [i \in DOMAIN evicted |-> DelCommand(evicted[i])]

After(evictions, r) == Reply(r.db, r.ret, evictions \o r.log)

executeWrite(room, c, cmd) ==
    After(PropagatedEvictions(room.evicted),
          IF ~room.withinLimit /\ cmd.name \in DenyOomCommands
          THEN Reply(room.db, Error("OOM"), <<>>)
          ELSE writeHandler(room.db, c, cmd))

execute(d, limit, evictionPolicy, ok, c, cmd) ==
    IF cmd.name \notin WriteCommands THEN readHandler(d, c, cmd)
    ELSE IF ~ok THEN Reply(d, Error("MISCONF"), <<>>)
    ELSE executeWrite(evictIfNeeded(d, limit, evictionPolicy), c, cmd)

\* At most one millisecond passes while a handler runs, between any two of
\* its clock readings.
Readings ==
    {[i \in 1 .. MaxReadings |-> IF i <= s THEN now ELSE now + 1] :
        s \in IF now < session.maxTime THEN 1 .. MaxReadings ELSE {MaxReadings}}

Stamped(commands, t) == [i \in DOMAIN commands |-> [cmd |-> commands[i], at |-> t]]

Record(d, commands, t) ==
    /\ Len(log) + Len(commands) <= session.maxLog
    /\ db' = d
    /\ log' = log \o Stamped(commands, t)

RecordReply(r, t) == Record(r.db, r.log, t)

Execute(cmd) ==
    \E c \in Readings :
        /\ RecordReply(execute(db, memoryLimit, policy, healthy, c, cmd), c[1])
        /\ now' = c[MaxReadings]
        /\ UNCHANGED <<session, memoryLimit, policy, healthy>>

ConfigSetMaxMemory ==
    \E bytes \in session.limits :
        LET room == evictIfNeeded(db, bytes, policy)
        IN  /\ memoryLimit' = bytes
            /\ Record(room.db, PropagatedEvictions(room.evicted), now)
            /\ UNCHANGED <<session, policy, healthy, now>>

ConfigSetPolicy ==
    /\ policy' \in session.policies
    /\ UNCHANGED <<session, db, memoryLimit, healthy, log, now>>

(***************************************************************************)
(* The environment of the processor: the cron's activeExpireCycle erases   *)
(* dead keys, a flush succeeds or fails, time passes, the server restarts. *)
(***************************************************************************)
ActiveExpire ==
    /\ \E k \in DOMAIN db.data \ keys(db, now) : db' = erase(db, k)
    /\ UNCHANGED <<session, memoryLimit, policy, healthy, log, now>>

FlushOutcome ==
    /\ healthy' = ~healthy
    /\ UNCHANGED <<session, db, memoryLimit, policy, log, now>>

Tick ==
    /\ now < session.maxTime
    /\ now' = now + 1
    /\ UNCHANGED <<session, db, memoryLimit, policy, healthy, log>>

\* load replays through execute, without a limit and without a file; it
\* gives up at the first command that is answered with an error.  A replay
\* is taken to be instantaneous: where the code reads the clock at every
\* command (a long file may take seconds), all readings here are t.
Outcome(r) == [db |-> r.db, ok |-> ~IsError(r.ret)]

Replay(acc, cmd, t) ==
    IF acc.ok
    THEN Outcome(execute(acc.db, 0, "NoEviction", TRUE, [i \in 1 .. MaxReadings |-> t],
                         cmd))
    ELSE acc

load(entries, t) ==
    FoldLeft(LAMBDA acc, entry : Replay(acc, entry.cmd, t),
             [db |-> EmptyDB, ok |-> TRUE], entries)

\* The server stops and starts again; the limit and the policy come from
\* the command line and are set after the replay.
Restart ==
    /\ \E l \in {load(log, now)} : l.ok /\ db' = l.db
    /\ memoryLimit' \in session.limits
    /\ policy' \in session.policies
    /\ healthy' = TRUE
    /\ UNCHANGED <<session, log, now>>

Next ==
    \/ \E cmd \in session.commands : Execute(cmd)
    \/ ConfigSetMaxMemory
    \/ ConfigSetPolicy
    \/ ActiveExpire
    \/ FlushOutcome
    \/ Tick
    \/ Restart

Spec == Init /\ [][Next]_vars
-----------------------------------------------------------------------------
(***************************************************************************)
(* What a restart must preserve.                                           *)
(***************************************************************************)
Visible(d, k, t) ==
    IF k \in keys(d, t) THEN <<d.data[k].value, d.data[k].expiresAtMs>> ELSE <<>>

\* cmd replaces or removes k as a whole, so that nothing before it matters.
Overwrites(cmd, k) ==
    \/ cmd.name = "FLUSHALL"
    \/ cmd.name = "SET" /\ cmd.key = k
    \/ cmd.name = "DEL" /\ k \in ToSet(cmd.keys)
    \/ cmd.name = "MSET" /\ \E i \in DOMAIN cmd.pairs : cmd.pairs[i][1] = k

\* cmd changes the value or the deadline of k where it is.
Amends(cmd, k) ==
    /\ cmd.name \notin {"FLUSHALL", "SET", "DEL", "MSET"}
    /\ cmd.key = k

\* The i-th entry sets a deadline of k, and none up to the n-th overwrites it.
Deadlined(entries, i, n, k) ==
    /\ entries[i].cmd.name = "PEXPIREAT"
    /\ entries[i].cmd.key = k
    /\ ~\E m \in i + 1 .. n : Overwrites(entries[m].cmd, k)

\* Some logged deadline of k has passed by time t and k was amended before
\* it passed.  A replay applies the deadline first and erases k at once, so
\* that the amendment meets a missing key.
AmendedUnderPastDeadline(entries, k, t) ==
    \E i \in DOMAIN entries : \E j \in i + 1 .. Len(entries) :
        /\ Deadlined(entries, i, j - 1, k)
        /\ Amends(entries[j].cmd, k)
        /\ entries[j].at < entries[i].cmd.amount[1]
        /\ entries[i].cmd.amount[1] <= t

\* What a replay of entries at time t makes of a server that holds d: it
\* brings back exactly the live keys, with their values and their deadlines,
\* except for keys amended while volatile whose old deadline has passed;
\* without such a key it succeeds.
Faithful(d, entries, t) ==
    LET Kept(k) == ~AmendedUnderPastDeadline(entries, k, t)
        Restores(l) ==
            /\ (\A k \in Key : Kept(k)) => l.ok
            /\ l.ok => \A k \in Key : Kept(k) => Visible(l.db, k, t) = Visible(d, k, t)
    IN  Restores(load(entries, t))

\* A restart is faithful, whenever it happens.
RestartFaithful == Faithful(db, log, now)

\* The numbers a client makes fit in a long long, in the database and in the
\* log: no sum of incrementBy and no deadline of expireGeneric or set gets
\* past its overflow check, however the sums and the clock got there.  (Of
\* the sums a replay cannot tell: it makes them again with the same checks.)
NumbersFit ==
    /\ \A k \in DOMAIN db.data :
          LET e == db.data[k]
          IN  /\ e.expiresAtMs \in LLong
              /\ e.value.type = "string" =>
                    \A i \in DOMAIN e.value.text : e.value.text[i] \in Piece
    /\ \A i \in DOMAIN log :
          log[i].cmd.name = "PEXPIREAT" => log[i].cmd.amount[1] \in LLong

\* Absolute timestamps keep TTLs correct across restarts: a key has the
\* same deadline, or none, after a restart.
RestartKeepsTtl ==
    LET DeadlineOf(d) == [k \in keys(d, now) |-> d.data[k].expiresAtMs]
        Kept(l) == l.ok => DeadlineOf(l.db) = DeadlineOf(db)
    IN  Kept(load(log, now))

\* A log the server wrote is accepted by the server.
LogLoads == load(log, now).ok
=============================================================================
