# FlashKV in TLA+

A verification project for FlashKV, a single-threaded key-value server that speaks the Redis protocol, keeps
its data in memory and its history in an append-only file. The modules model the storage engine, the command
layer, the file, the protocol and the event loop; TLC checks them on small instances, and TLAPS proves the safety
properties of the storage engine, the command layer, the file and the event loop for every instance.
Paths below are relative to the repository; line numbers are in `PROJECT.json`.

## The system

| Part | State | Operations | Works with |
|---|---|---|---|
| `Database` (`src/database.cpp`) | hash table `data`, recency list `lru`, vector `volatileKeys`, `memoryUsed`, limit and policy | strings, lists, hashes, sets, expiration, eviction | called by `CommandProcessor` and, for active expiration, by the server |
| `CommandProcessor` (`src/commands.cpp`) | none of its own but counters | `execute`: guards, eviction, handler, propagation | `Database`, `AppendOnlyFile::append`, `healthy` |
| `AppendOnlyFile` (`src/aof.cpp`) | `buffer`, `needsSync`, `writeFailed`, the file | `append`, `flush`, `sync`, `load`, `open`, destructor | called by the processor (append) and the server (flush, sync, load) |
| Server (`src/tcp_server.cpp`) | clients with input and output buffers, timers | poll loop: accept, read, parse, execute, flush, reply; cron; shutdown | all of the above |
| RESP (`src/resp.cpp`) | none | incremental parser, tokenizer, encoders | server, `load`, shell |
| Shell, reply formatting, playground, benchmark | - | front ends | `CommandProcessor` |

What makes them hard to test, and what each must guarantee:

* **Database.** Three containers describe the same keys and are kept in step by hand (iterators into the list,
  indexes into a vector that is compacted by swap-and-pop). Memory is counted by increments. Keys die at a moment
  nobody acts on, and are erased later by whoever meets them. Correct means: the containers agree, the count is
  exact, dead keys make no difference to commands on keys, eviction takes keys from the back of a list kept in order
  of use and makes room.
* **CommandProcessor.** What is logged is not what was sent: deadlines become absolute, conditions are dropped,
  evictions are added. One command reads the clock up to four times, or once per key it names. Correct means: replaying the log restores the
  keyspace.
* **AppendOnlyFile.** Writes are partial, fail and are retried; the process or the machine goes down at any moment.
  Correct means: nothing is lost or repeated while it runs, what is synced survives, the file stays loadable, and
  write commands are not refused for ever.
* **Server.** One thread serves clients that pipeline, split, half-close, reset and do not read; between them sits
  the file, whose writes fail. Correct means: replies in order and one per request, acknowledged writes kept,
  nothing left undone when the loop sleeps, memory bounded per client, everyone served, a signal obeyed.
* **RESP.** The parser meets its input in chunks, and a file that a crash cut anywhere; arguments may look like
  protocol. Correct means: where the input is split makes no difference, what was encoded is understood, and a
  repaired file can grow.
* **Glob matching.** Patterns come from clients and run on the only thread. Correct means: remembering one star is
  enough, and the work is bounded.

`PROJECT.json` lists the hazards one by one, each at its line, with the properties aimed at it.

## The modules

* `DatabaseOps` - the methods of `Database` as operators on a record of the four containers. A method takes the value
  of every clock reading the code makes and returns the new object and the answer or the exception.
* `Database` - the object as a state machine, one action per public method. The program has one thread, so a method
  is one step; the two data-dependent loops, `evictIfNeeded` and `activeExpireCycle`, take one step per iteration
  (`EvictStart/Victim/Return`, `CycleStart/Sample/Repeat/Return`, with `pc` and the loop's locals in `cycle`).
  Time passes between steps and between two readings of one method.
* `Keyspace` - the abstract specification: a map from live keys to a value and a deadline, in which a key disappears
  the moment its deadline is reached. `Database` implements it under the mapping `View` (property
  `ImplementsKeyspace`).
* `DatabaseOpsProofs` - lemmas about the methods, for the proofs of both `Database` and `CommandProcessor`.
  `DatabaseProofs` - the proofs about `Database`: the containers agree; memory is exact; the containers implement
  `Keyspace`. `Sums` - lemmas on induction and on sums over finite sets and sequences.
* `CommandOps` - the handlers of `CommandProcessor`: the effect, the reply and what goes to the log. `IsCommand` says
  which commands get as far as a handler. `APPEND` appends words: a digit behind a digit would be another number.
* `CommandProcessor` - `execute` with its guards, `CONFIG SET`, the log, time, active expiration, and restarts that
  replay the log as `main` does (no limit, no file, giving up at the first error), in an instant.
* `CommandProcessorProofs` - the proofs about it.
* `AppendOnlyFile` - buffer, file and disk in units smaller than a command, with partial writes, failures, fsync,
  the destructor, crashes, power failures and `load`'s repair.
* `AppendOnlyFileProofs` - the proofs about it.
* `Server` - the event loop, one step per system call, request or write of the file, composed with `AppendOnlyFile`
  (`File == INSTANCE AppendOnlyFile`: the server takes the steps of the file, so `append`, `flush`, `sync` and the
  destructor are the ones modelled there). Beside the loop are the kernel (backlog, lowest free descriptor, bounded
  socket buffers, the events `poll` reports), the peers, the clock and the signal. A scenario says what the peers
  may send and how they may leave. Requests are of a few kinds, in two units each, since how bytes become requests
  is the subject of `Resp`; what commands do is the subject of `CommandProcessor`.
* `ServerProofs`, `ServerReplyProofs`, `ServerOrderProofs` - the proofs about it: the file, the bound on replies held,
  and the order of replies.
* `Resp` - the parser, the tokenizer, the encoders, `quote` and the reader of replies, character by character, with
  `processInput` and `AppendOnlyFile::load` as the callers of the parser. The machine receives a stream in chunks of
  any size. The commands it executes are four that need no database.
* `Glob` - `globMatch`, one action per turn of its loop.
* `MCDatabase`, `MCCommandProcessor`, `MCServer`, `MCResp`, `MCGlob` - the instances for TLC. `AppendOnlyFile` needs
  none.

State corresponds to the code name by name. What differs: a `Node*` is its key; `lruPosition` is the key's place in
`lru` (a list iterator stays on its element); `volatileIndex` counts from 1 and 0 is `NOT_VOLATILE`. A string is a
sequence of pieces, each a word or an integer in decimal, because only the length, parsing and concatenation of
strings matter; `Size` gives the length of a word. `long long` keeps its bounds (`LLongMax` is a parameter) and every
overflow check of the code is there. Random draws are nondeterministic. `evictIfNeeded` exists twice: as the loop in
`Database`, and in one step in `DatabaseOps` for the command layer, which needs the list of victims. In
`CommandProcessor` each logged command carries the time it was executed; the properties use the stamp, the model
of `load` does not.

Definitions that contain an underscore after the name of an operation (`erase_KeepsMemory`) are slips: the operation
with one plausible mistake. No specification uses them; substituted for the operation they violate the property
`PROJECT.json` names, which shows that the property depends on the code being right there.

## The runs

| Run | Shows |
|---|---|
| `db_indexes` | Three keys, commands, both loops and time interleaved: `IndexesConsistent`, `MemoryExact`, `RecencyOrder`, `EvictionMakesRoom`, `ImplementsKeyspace`, `ExpiryRemovesOnlyDead`; under fairness `LoopsReturn` and `DeadKeysReclaimed`. |
| `db_values` | All four types on two keys, dead or alive, words of different lengths, negative and overflowing increments: `MemoryExact`, `NoEmptyAggregate`, `ImplementsKeyspace`, `RecencyOrder`, and `ExpiredInvisible`: every method that names a key, `keys` and `inspect` give the answer, the keyspace and the recency order they would give had the dead keys been erased (`size`, `usedMemory`, `volatileKeyCount` and `evictIfNeeded` do count dead keys, and are left out). |
| `cp_restart` | `RestartFaithful` in three sessions: deadlines, evictions, every command and its errors; `NumbersFit` with sums and deadlines at both ends of `long long`. |
| `aof_faults` | `NothingLostOrRepeated`, `UnhealthyHasPending`, `FileIsWellFormed`, `SyncedCommandsSurvive`, and under fairness `HealthReturns`. |
| `server` | `RepliesInOrder`, `AcknowledgedIsKept`, `SleepsWithAllWritten`, `OutputBounded`, `HangsUpOnlyWhenDone`, and under fairness `PeersAreServed` and `ShutdownObeyed`. |
| `resp` | `SplitIndependent`, `Intention`, `RepairedFileGrows`, `RepliesReadBack`. |
| `glob` | `NoMatchLost`, `TurnsBounded`, `ClassesMeanWhatTheyList`. |

Five runs are expected to find a violation, each of something the repository says of the program:

* `server_flush`: `handleClientEvents` flushes the file before it sends a reply and ignores the result. When the
  write fails the client is told `OK` all the same, against "Replies may only leave once their writes are in the
  AOF". `AcknowledgedIsKept` is what remains true: every acknowledged write is in the file or the file is marked
  unhealthy and still has it in its buffer; from then on writes are refused, but the buffer is tried again only on
  the way to the next reply, or at shutdown.
* `cp_restart_ttl`: `SET k 1 PX ..`, `INCR k` before the deadline, restart after it. The replay applies the deadline
  at once, erases the key, and `INCR` creates it again without one: an expired counter is back for ever. `PERSIST`
  or a later `PEXPIREAT` in place of `INCR` loses the key instead. `RestartFaithful` is what remains true: every key
  is restored exactly unless it was amended under a deadline that has passed by the time of the restart.
* `cp_reload`: the same start, then the key expires and is used as a list. The replay answers `RPUSH` with
  `WRONGTYPE`, `load` gives up, the server does not start.
* `db_ttl`: `ttlMs` reads the clock twice; if the deadline passes in between, the answer -1 says "no expiry".
* `aof_fsync`: `sync` forgets that a sync is due before it knows whether `fsync` worked.

**Bounds.** Two keys suffice to see one disturb another; the swap-and-pop and the recency order need three
(the removed key, the moved one, a bystander). Two or three clock values give every order of two deadlines and
a reading. The memory limit admits one key and a half, of two or three, or (in `cp_restart`) none, so that eviction
takes one victim, several or all of them, or cannot make room. A sample of two out of three lets the loop draw a slot that was refilled.
The log holds four commands: a key set with its deadline (two), amended, used again. In `AppendOnlyFile` a command
has three units, so that a truncated one may be cut at two places, and two crashes let a repaired file be damaged again.
Keys are symmetric only in `db_values`, a safety run in which they all have the same size.

`Server`: requests of two units, chunks of two, two reads per event and a query buffer of four make a request end
inside a chunk, a chunk end inside a request, an event end with data left, and a request of five exceed the buffer;
a socket that takes one reply and a watermark of two make sending stop and reading pause with five requests. The
scenarios are a pipeline that goes on behind `QUIT`; five reads with a peer that may be gone before it has all
replies; two appends with a peer that may leave; a request that is refused; a blank and an oversized one; two peers for one descriptor; two peers at once. Peers act only at
the loop's system calls: between two of them the loop cannot tell. `Resp`: two commands with every pair of awkward
arguments, cut at every place; one character changed to each of six others at every place; every quoted pair of
thirteen characters; every line of up to three of five characters; limits small enough to be exceeded. `Glob`: all
patterns of up to three of nine characters, all of five letters and stars, all classes of up to two ranges, closed
or not, with a minus sign escaped or bare at either end.

Deadlock is checked in every run but `resp` and `glob`, whose machines end with their input.

**Fairness.** `Database`: the steps of a running loop happen (one thread, nothing preempts it for ever), the cron
job starts again and again, and a key that is offered to the uniform random draw again and again is drawn.
Repeating the expiration loop is never required, so that the proof of termination does not rest on the time budget.
`AppendOnlyFile`: a flush with data is started (the server flushes before it sends a reply, so this assumes that
clients keep sending commands), a started flush goes on, a disk that is asked again and again takes a write at some
time, a destructor that was started ends, a server that went down is started again. `aof_fsync` assumes besides that `sync` is called,
and that `fsync` succeeds if it is called again and again; its counterexample needs a single failure.
`Server`: the loop's thread runs (weak fairness of `Loop`; no call of it but `poll` blocks), time passes while it is
in `poll`, and a peer reads the replies that wait for it. The last is strong fairness, because a peer's steps are
taken at the loop's system calls and are disabled in between. Nothing is assumed of the disk, and a `poll` that
fails ends the server like a signal.

## The proofs

Every theorem holds for all values of the constants that satisfy the named assumptions: any keys, words and sizes,
arguments, times, limits, connections and scenarios.

**`Database`** (`SizeAssumption`, `LLongAssumption`, `DigitsAssumption`, `WordAssumption`, `ArgumentsAssumption`: sizes are
positive, `long long` has at most 19 digits, a word is not a number, arguments have their types).

* `IndexesInvariant`: `[]IndexesConsistent`. The inductive invariant adds that `data` has keys in its domain and that
  `now` is a natural number; the latter is needed because `expireAtMs` stores a deadline later than the clock, hence
  never the value -1 that marks "no expiry". Each private helper (`create`, `erase`, `touch`, `setExpiry`,
  `clearExpiry`, `findLive`) keeps a well-formed object well-formed; each method is a composition of helpers; each
  action is a call of a method or an iteration that calls `erase`. The hard lemma is `ClearExpiryWF`, the swap-and-pop.
* `ObjectStaysSound`: `[]MemoryInv`, from which `TypeInvariant`, `MemoryIsExact`, `NoEmptyAggregates` and
  `EvictionSucceeds` follow. An object is `Sound` if it is well-formed, every entry's `memory` is its overhead and the bytes
  of its value, no aggregate is empty, and `memoryUsed` is the sum over the entries. Within a method the value may be
  empty for a moment and the bytes of one entry differ from its value's; `SoundBut` says by how much. One lemma per
  helper and per method shows that the count moves by what the value gained or lost; underneath are the lemmas of
  `Sums` and one about the fold of `hashSet`, in which a field named twice is paid for once. `EvictionSucceeds` needs
  exactness: when the list is empty the table is, so the count is zero, which no limit is below.
* `ContainersImplementMap`: `Spec => ImplementsKeyspace`, the refinement. `KeyStep(d, t, c, k)` is what a method that
  names `k` may do to an object: the entries of the other keys and their order in `lru` stay, and `k` is gone, has no
  deadline, or was alive and keeps type and deadline. Every helper keeps it, so every method does, and under `View` it
  is a step of the map; erasing a dead key is a stutter, and the passing of time its `TimePasses`. It also says that
  `k` is at the front of `lru` unless its value is the old one or part of it, which is broken for a moment between an
  update in place and the `touch` behind it (`AmidStep`). The same lemmas give `RecencyIsKept` (the order of writes: a
  read moves a key too, but a state does not show that there was one) and `OnlyDeadExpire`.
* `DeadKeysAreInvisible`: `[]ExpiredInvisible`. It compares two objects, one with its dead keys and one without, which
  no invariant of a single object can do. Two objects are `Alike` at a time if the same keys are alive in both, with the
  same entries, in the same order. Erasing a dead key from one of them keeps them alike, hence so does `findLive`, after
  which both have the key or neither; every helper applied to both keeps them alike; so every method returns the same
  and leaves them alike. `Purged` erases the dead keys one by one, by induction on their number.

**`CommandProcessor`** (the assumptions on sizes and numbers above, `ReadingsAssumption`, `SessionsAssumption`: a handler
reads the clock at most `MaxReadings` times, at least four, and clients send commands that satisfy `IsCommand`).
`RestartIsFaithful`, `NumbersAlwaysFit` and `TypesAreKept`, for logs of any length.

* `RestartFaithful` speaks of a replay now, but time passes before the restart, so the invariant `Logged(db, log, now)` speaks
  of a replay at every later time too: what it brings back agrees with `db` on the keys alive then. It adds that `db` is
  `Sound`, and that a deadline in `db` is in the log and not overwritten there (`DeadlineLogged`): a key that has died by
  the time of the replay is then dead in the replay, or its `PEXPIREAT` has erased it.
* A step that logs nothing may only drop dead keys and reorder `lru` (`QuietLogged`; reads, refused writes, active
  expiration, time). A logged command overwrites or amends. `DEL`, `SET`, `MSET`, `FLUSHALL` give the same cells whatever was
  there (`OverwriteLogged`). The others amend one key: server and
  replay find the same value and deadline (`Coupled`), so that the same method leaves the same; or the key is dead by
  then and stays so; or it was amended under that deadline, which is the exception (`AmendLogged`). A replayed
  `PEXPIREAT` whose time has passed erases the key, which is dead on the server as well (`DueLogged`).
* Each handler is shown to log one of these, at the time it read, although it reads the clock again before and after
  (`HandlerLogged`): `EXPIRE` computes its deadline from the first reading and `expireAtMs` uses two later ones; `SET` with
  a deadline logs two commands; `DEL` counts over a loop. The loops (`DEL`, `EXISTS`, `MGET`, `MSET`, eviction, `load`) are
  folds; a fold is the end of a chain of its steps (`FoldIsChain`) and induction goes along the chain. Evictions are
  `DEL`s in front of the command (`EvictLogged`), also when the command is then refused for lack of memory.

The proof uses of the readings only that they do not decrease and start at the time of the stamp. A replay is taken
to be instantaneous: the code reads the clock at every command it loads, the model gives all of them the same time.
`NumbersAlwaysFit` needs no induction of its own: `Sound` says that every stored number is a `long long`, and the
invariant says it of every deadline in the log.

**`AppendOnlyFile`** (`UnitsAssumption`). `TypeInvariant`, `NothingLost`, `UnhealthyCanRecover`, `FileWellFormed`,
`SyncedSurvive`. The properties are not inductive alone: appending to the buffer keeps `file \o Pending = appended`
only when flush's cursor is zero, and loading only when the buffer is empty (`AtRest` says in which control states
that is so); and the file is in order because it is a prefix of a history that is (`HistoryInOrder`). For
`SyncedSurvive` a command that is whole in the synced part is whole in the file, so `load`'s repair, which cuts the
file to a multiple of a command's length, does not reach it.

**`Server`** (`LimitsAssumption`, `ScenariosAssumption`: one event's reads fit the query buffer, as they do in the code,
and a scenario is one). `ServerProofs` instantiates `AppendOnlyFileProofs` with the loop's file and
shows that every step of the loop is a step of the file or leaves it alone (`LoopUsesFile`), so the file's invariant
and its theorems carry over. The invariant of the loop, `Inv`, adds to that

* `Shape`: kernel, descriptors, clients and the descriptors still to be handled fit together, and every reply that
  says a write is done is of a write that was executed (`Earned`); a descriptor is handled at most once in an
  iteration, which is why closing one does not disturb the events of the others;
* `FileControl`: at which places of the loop the file is being written, synced or closed;
* `LogInv`: what was appended is what was executed, in that order;
* `UnwrittenInv`: while the file is healthy, data waits in its buffer only during a flush, or while a client is
  handled that has a reply waiting for that flush. It is the reason why the flush on the way to a reply is enough.

From it follow `TypeInvariant`, `SleepsWritten` and, with one more induction, `AcknowledgedKept`: a reply is handed over
only when the buffer of a healthy file is empty, and `file` only grows.

`ServerReplyProofs` proves `OutputIsBounded`. Its invariant, `OutputInv`, follows a client through one event: between events
it is `Settled` (no whole request in the input, at most `Rest` replies held, at most half of the buffer sent);
POLLIN is reported only below the watermark, POLLHUP only of a peer that is gone; each read adds at most a chunk to
what was left of one request; and while requests are processed twice the replies held plus the input left
never exceeds twice what was held at first plus the units of one event (`AnswersWithin`), since a request takes at
least two units - but for a request longer than the query buffer, which takes more.

`ServerOrderProofs` proves `RepliesAreInOrder` and `HangsUpWhenDone`. Both speak of the requests a peer sent, but the loop
sees bytes only, so the invariant `OrderInv` ties the two together. For each client there is a number `k` of requests
that were taken out of its input (`Taken`): the input is exactly what was received of the stream behind the `k`-th
request (`StreamLayout` says where each request lies in the flattened stream), and the replies given so far,
delivered, in the socket and still held, answer the first `k` requests and, if the parser has refused, the next one
(`Conversation`). `closeAfterWrite` is set only for a reason: `QUIT` was the `k`-th, the parser refused, or the peer has
finished and all was received (`Closing`); then no request follows that could be due (`GivenIsDue`). Beside it are what
holds of connections that were not accepted yet, of the events of one iteration, and of the reason for which the loop is
about to close (`LeaveInv`); `RepliesInOrder` alone is not inductive, since it does not say where in the stream the input starts.

The proof corrected the property. `OutputBounded` first allowed the watermark and the answers of one event; the induction
failed at a client whose peer has reset: `handleClientEvents` reads on POLLHUP whether or not POLLIN was asked for, so a
client at its bound takes the answers of one more event before `recv` or `send` reports the error. The property now
says so, and the scenario of five reads has a peer that may reset.

**Only model-checked.** All liveness (fairness and ENABLED are beyond the prover). `Resp` and `Glob` use RECURSIVE
operators, which the prover does not accept.
Induction itself is not out of reach: the library's induction theorems take an operator as a parameter and cannot be
instantiated, but `Sums` derives from the well-foundedness of `<` that a set of naturals with 0 and every
successor is all of them, and the proofs about sums, folds and flattened sequences use it in that form.

## What is not modelled

The parsing and formatting of memory sizes, the command line and the set-up of the listener: string conversion and
start-up code without state that lasts. The shell and the playground: loops around `tokenizeCommandLine`,
`CommandProcessor` and `formatReply`, which are modelled, without concurrency or persistence of their own. The
layout `formatReply` prints. The benchmark. In the modelled parts: the counters of `INFO`, arity errors outside
`Resp`, the text of messages, calls that a signal interrupts and that are made again, a failing `fcntl` in
`acceptClients`. The clock is assumed not to run backwards, within a process and across restarts.

Two things seen on the way that no document contradicts. `respError` copies the name of an unknown command into the
reply as it came, so a name with a line end in it makes an error reply that reads as two; `RepliesReadBack` leaves
such names out. And a line longer than `MAX_INLINE_SIZE` is refused only if the parser meets it before its line end
has arrived; that is the one exception `SplitIndependent` makes.

## Plan

1. Sharpen `Keyspace`: one abstract action per command, with its answer.
2. `Resp` and `Glob` with recursive functions in place of recursive operators, for proofs about the parser.
