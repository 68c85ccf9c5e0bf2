------------------------------- MODULE Server --------------------------------
(***************************************************************************)
(* The event loop of class Server (src/src/tcp_server.cpp) with its        *)
(* clients, the kernel between them, and the append-only file.             *)
(*                                                                         *)
(* The loop is one thread: a system call, the handling of one request or   *)
(* one write of the file is a step, and between two steps the peers send,  *)
(* read, half-close and reset.  A scenario has, for every connection, the  *)
(* requests its peer may send and the ways it may leave ("fin", "reset"),  *)
(* and the number of descriptors the process has for clients.              *)
(*                                                                         *)
(* Requests are a stream of units, the smallest piece recv can split one   *)
(* into: <<connection, number of the request, part>>.  A reply is one      *)
(* unit, <<connection, number of the request, outcome>>.  The file is the  *)
(* one of AppendOnlyFile: the server takes its steps.                      *)
(*                                                                         *)
(* Left out: calls interrupted by a signal and tried again, and a failure  *)
(* of fcntl on a descriptor just accepted.                                 *)
(***************************************************************************)
EXTENDS Integers, Sequences, SequencesExt, FiniteSetsExt

CONSTANTS
    Connection,
    Scenarios,         \* what the peers may do, and the descriptors there are
    SendBuffer,        \* replies a socket takes before its peer reads
    ReadChunkSize,     \* READ_CHUNK_SIZE, in units
    MaxReadsPerEvent,  \* MAX_READS_PER_EVENT
    MaxQueryBuffer,    \* MAX_QUERY_BUFFER, in units
    OutputHighWatermark,  \* OUTPUT_HIGH_WATERMARK, in replies
    MaxCommands        \* bound: commands appended to the file

\* One event never fills the query buffer, so that it takes a single request
\* longer than the limit to exceed it.
ASSUME LimitsAssumption ==
    /\ SendBuffer \in Nat \ {0}
    /\ ReadChunkSize \in Nat \ {0} /\ MaxReadsPerEvent \in Nat \ {0}
    /\ OutputHighWatermark \in Nat \ {0}
    /\ MaxQueryBuffer \in Nat /\ ReadChunkSize * MaxReadsPerEvent <= MaxQueryBuffer
    /\ MaxCommands \in Nat

VARIABLES
    \* the kernel and the peers
    scenario,
    status,      \* "new", "backlog" (connected), "open" (accepted) or "closed"
    peer,        \* "open", "fin" (will send no more) or "reset" (gone)
    sent,        \* units the peer has sent
    received,    \* units recv has returned
    tx,          \* replies in the socket
    got,         \* replies the peer has read
    fds,         \* descriptor |-> connection
    \* the server
    pc,
    clients,     \* descriptor |-> Client
    todo,        \* descriptors of this iteration still to be handled, with revents
    socket,      \* the descriptor being handled
    reads,       \* the loop variable of readFromClient
    shutdownRequested,
    cronDue,     \* nextCron has been reached
    executed,    \* history: the write requests, numbered as in the file
    \* the append-only file
    buffer, written, file, synced, needsSync, writeFailed, closing, filePc,
    nextCommand, ends, appended

netVars == <<scenario, status, peer, sent, received, tx, got, fds>>
loopVars == <<pc, clients, todo, socket, reads, shutdownRequested, cronDue, executed>>
fileVars == <<buffer, written, file, synced, needsSync, writeFailed, closing, filePc,
              nextCommand, ends, appended>>
vars == <<netVars, loopVars, fileVars>>

File == INSTANCE AppendOnlyFile
            WITH Units <- 1, MaxCrashes <- 1, pc <- filePc, next <- nextCommand,
                 crashes <- ends

(***************************************************************************)
(* Requests.  "write" and "evict" append to the file, "write" only while   *)
(* the file is healthy ("evict" is CONFIG SET maxmemory with a victim);    *)
(* "bad" is refused by the parser at its first unit; "blank" is an empty   *)
(* line; "huge" is longer than the query buffer.                           *)
(***************************************************************************)
Kinds == {"write", "evict", "read", "quit", "bad", "blank", "huge"}
RequestLength(kind) == IF kind = "huge" THEN MaxQueryBuffer + 1 ELSE 2

ASSUME ScenariosAssumption ==
    \A s \in Scenarios :
        /\ s.requests \in [Connection -> Seq(Kinds)]
        /\ s.leaves \in [Connection -> SUBSET {"fin", "reset"}]
        /\ s.fds \in Nat \ {0}

Request(c, i) == [p \in 1 .. RequestLength(scenario.requests[c][i]) |-> <<c, i, p>>]
Stream(c) == FlattenSeq([i \in DOMAIN scenario.requests[c] |-> Request(c, i)])
KindOf(unit) == scenario.requests[unit[1]][unit[2]]

Client == [input |-> <<>>, output |-> <<>>, outputOffset |-> 0, closeAfterWrite |-> FALSE]
pendingOutput(client) == Len(client.output) - client.outputOffset
PendingReplies(client) ==
    SubSeq(client.output, client.outputOffset + 1, Len(client.output))

Unread(c) == sent[c] - received[c]
SocketOf(c) == CHOOSE fd \in DOMAIN fds : fds[fd] = c

TypeOK ==
    /\ status \in [Connection -> {"new", "backlog", "open", "closed"}]
    /\ peer \in [Connection -> {"open", "fin", "reset"}]
    /\ \A c \in Connection :
          /\ received[c] \in 0 .. sent[c] /\ sent[c] <= Len(Stream(c))
          /\ Len(tx[c]) <= SendBuffer
    /\ DOMAIN fds \subseteq 1 .. scenario.fds
    /\ DOMAIN clients = DOMAIN fds
    /\ {fds[fd] : fd \in DOMAIN fds} = {c \in Connection : status[c] = "open"}
    /\ \A fd \in DOMAIN clients : pendingOutput(clients[fd]) >= 0
    /\ socket \in 0 .. scenario.fds
    /\ File!TypeOK

Init ==
    /\ scenario \in Scenarios
    /\ status = [c \in Connection |-> "new"]
    /\ peer = [c \in Connection |-> "open"]
    /\ sent = [c \in Connection |-> 0]
    /\ received = [c \in Connection |-> 0]
    /\ tx = [c \in Connection |-> <<>>]
    /\ got = [c \in Connection |-> <<>>]
    /\ fds = <<>>
    /\ pc = "test"
    /\ clients = <<>>
    /\ todo = {} /\ socket = 0 /\ reads = 0
    /\ shutdownRequested = FALSE /\ cronDue = FALSE
    /\ executed = <<>>
    /\ File!Init

(***************************************************************************)
(* The peers, the clock and the signal.                                    *)
(***************************************************************************)
Connected(c) == status[c] \in {"backlog", "open"}

\* The loop learns of its peers only in these calls: what they do between two
\* of them is done at the next one.
InSystemCall == pc \in {"poll", "read", "stopped"} \/ (pc = "send" /\ filePc = "ready")

Connect(c) ==
    /\ InSystemCall /\ status[c] = "new" /\ pc # "stopped"
    /\ scenario.requests[c] # <<>>
    /\ status' = [status EXCEPT ![c] = "backlog"]
    /\ UNCHANGED <<scenario, peer, sent, received, tx, got, fds, loopVars, fileVars>>

PeerSends(c) ==
    /\ InSystemCall /\ Connected(c) /\ peer[c] = "open" /\ sent[c] < Len(Stream(c))
    /\ sent' = [sent EXCEPT ![c] = @ + 1]
    /\ UNCHANGED <<scenario, status, peer, received, tx, got, fds, loopVars, fileVars>>

PeerFinishes(c) ==
    /\ InSystemCall /\ Connected(c) /\ peer[c] = "open" /\ "fin" \in scenario.leaves[c]
    /\ peer' = [peer EXCEPT ![c] = "fin"]
    /\ UNCHANGED <<scenario, status, sent, received, tx, got, fds, loopVars, fileVars>>

\* The peer closes with replies unread, or dies.
PeerResets(c) ==
    /\ InSystemCall /\ Connected(c) /\ peer[c] # "reset" /\ "reset" \in scenario.leaves[c]
    /\ peer' = [peer EXCEPT ![c] = "reset"]
    /\ tx' = [tx EXCEPT ![c] = <<>>]
    /\ UNCHANGED <<scenario, status, sent, received, got, fds, loopVars, fileVars>>

PeerReads(c) ==
    /\ InSystemCall /\ tx[c] # <<>>
    /\ tx' = [tx EXCEPT ![c] = Tail(@)]
    /\ got' = [got EXCEPT ![c] = Append(@, Head(tx[c]))]
    /\ UNCHANGED <<scenario, status, peer, sent, received, fds, loopVars, fileVars>>

\* Outside poll the passing of nextCron makes no difference before the next poll.
CronTimeReached ==
    /\ pc = "poll" /\ ~cronDue
    /\ cronDue' = TRUE
    /\ UNCHANGED <<netVars, pc, clients, todo, socket, reads, shutdownRequested,
                   executed, fileVars>>

\* SIGINT or SIGTERM: a poll in progress ends with EINTR and the loop
\* continues.  No other call of the loop blocks, so that a signal at any other
\* time than before or in poll is noticed at the next test.
handleShutdownSignal ==
    /\ ~shutdownRequested /\ pc \in {"test", "build", "poll"}
    /\ shutdownRequested' = TRUE
    /\ pc' = IF pc = "poll" THEN "test" ELSE pc
    /\ UNCHANGED <<netVars, clients, todo, socket, reads, cronDue, executed, fileVars>>

(***************************************************************************)
(* run: test the flag, build the descriptors, poll.                        *)
(***************************************************************************)
Goto(label) == pc' = label

LoopTest ==
    /\ pc = "test"
    /\ Goto(IF shutdownRequested THEN "stop" ELSE "build")
    /\ UNCHANGED <<netVars, clients, todo, socket, reads, shutdownRequested, cronDue,
                   executed, fileVars>>

CallPoll ==
    /\ pc = "build"
    /\ Goto("poll")
    /\ UNCHANGED <<netVars, clients, todo, socket, reads, shutdownRequested, cronDue,
                   executed, fileVars>>

\* Slip: reading goes on while replies pile up.
RequestedEvents_NoBackpressure(client) ==
    (IF client.closeAfterWrite THEN {} ELSE {"IN"})
    \cup (IF pendingOutput(client) > 0 THEN {"OUT"} ELSE {})

RequestedEvents(client) ==
    (IF pendingOutput(client) < OutputHighWatermark /\ ~client.closeAfterWrite
     THEN {"IN"} ELSE {})
    \cup (IF pendingOutput(client) > 0 THEN {"OUT"} ELSE {})

\* What poll reports of a connection.  Errors are always reported; which of
\* the two flags a reset raises differs between systems.
ReturnedEvents(c, requested, onReset) ==
    (requested \cap
        ((IF Unread(c) > 0 \/ peer[c] # "open" THEN {"IN"} ELSE {})
         \cup (IF Len(tx[c]) < SendBuffer \/ peer[c] = "reset" THEN {"OUT"} ELSE {})))
    \cup (IF peer[c] = "reset" THEN onReset ELSE {})

Descriptors(onReset) ==
    {[fd |-> fd,
      revents |-> ReturnedEvents(fds[fd], RequestedEvents(clients[fd]), onReset)] :
        fd \in DOMAIN clients}

Backlog == {c \in Connection : status[c] = "backlog"}

\* Slip: poll waits without a timeout.
PollMayReturn_NoTimeout(descriptors) ==
    Backlog # {} \/ \E d \in descriptors : d.revents # {}

PollMayReturn(descriptors) ==
    cronDue \/ Backlog # {} \/ \E d \in descriptors : d.revents # {}

PollReturns ==
    /\ pc = "poll"
    /\ \E onReset \in {{"ERR"}, {"HUP"}, {"ERR", "HUP"}} :
          /\ PollMayReturn(Descriptors(onReset))
          /\ todo' = Descriptors(onReset)
    /\ Goto(IF Backlog # {} THEN "accept" ELSE "events")
    /\ UNCHANGED <<netVars, clients, socket, reads, shutdownRequested, cronDue,
                   executed, fileVars>>

\* run returns 1; the process ends as it does after a signal.
PollFails ==
    /\ pc = "poll"
    /\ Goto("stop")
    /\ UNCHANGED <<netVars, clients, todo, socket, reads, shutdownRequested, cronDue,
                   executed, fileVars>>

(***************************************************************************)
(* acceptClients.  The kernel gives out the lowest free descriptor; with   *)
(* none left accept fails and the connection waits in the backlog.         *)
(***************************************************************************)
FreeFds == (1 .. scenario.fds) \ DOMAIN fds

\* emplace keeps an entry that is already there.
Emplaced(f, x, v) == [y \in DOMAIN f \cup {x} |-> IF y \in DOMAIN f THEN f[y] ELSE v]

Accept(c) ==
    /\ pc = "accept" /\ c \in Backlog /\ FreeFds # {}
    /\ status' = [status EXCEPT ![c] = "open"]
    /\ fds' = Emplaced(fds, Min(FreeFds), c)
    /\ clients' = Emplaced(clients, Min(FreeFds), Client)
    /\ UNCHANGED <<scenario, peer, sent, received, tx, got, pc, todo, socket, reads,
                   shutdownRequested, cronDue, executed, fileVars>>

AcceptReturns ==
    /\ pc = "accept" /\ (Backlog = {} \/ FreeFds = {})
    /\ Goto("events")
    /\ UNCHANGED <<netVars, clients, todo, socket, reads, shutdownRequested, cronDue,
                   executed, fileVars>>

(***************************************************************************)
(* handleClientEvents.                                                     *)
(***************************************************************************)
FirstStep(revents) ==
    IF "ERR" \in revents THEN "close"
    ELSE IF revents \cap {"IN", "HUP"} # {} THEN "read"
    ELSE "reply"

handleClientEvents ==
    /\ pc = "events"
    /\ \E d \in todo :
          /\ todo' = todo \ {d}
          /\ socket' = d.fd
          /\ Goto(FirstStep(d.revents))
    /\ reads' = 0
    /\ UNCHANGED <<netVars, clients, shutdownRequested, cronDue, executed, fileVars>>

Me == clients[socket]
SetClient(client) == clients' = [clients EXCEPT ![socket] = client]

\* readFromClient: data, nothing more for now, the end, or an error.
AfterReading(input) == IF Len(input) > MaxQueryBuffer THEN "close" ELSE "process"

RecvData ==
    /\ pc = "read"
    /\ \E c \in {fds[socket]} : \E n \in {Min({Unread(c), ReadChunkSize})} :
       \E input \in {Me.input \o SubSeq(Stream(c), received[c] + 1, received[c] + n)} :
          /\ n > 0
          /\ received' = [received EXCEPT ![c] = @ + n]
          /\ SetClient([Me EXCEPT !.input = input])
          /\ Goto(IF n < ReadChunkSize \/ reads + 1 = MaxReadsPerEvent
                  THEN AfterReading(input) ELSE "read")
          /\ reads' = IF n < ReadChunkSize THEN reads ELSE reads + 1
    /\ UNCHANGED <<scenario, status, peer, sent, tx, got, fds, todo, socket,
                   shutdownRequested, cronDue, executed, fileVars>>

\* Slip: nothing to read is taken for an error.
RecvWouldBlock_Closes ==
    /\ pc = "read" /\ Unread(fds[socket]) = 0 /\ peer[fds[socket]] = "open"
    /\ Goto("close")
    /\ UNCHANGED <<netVars, clients, todo, socket, reads, shutdownRequested, cronDue,
                   executed, fileVars>>

RecvWouldBlock ==
    /\ pc = "read" /\ Unread(fds[socket]) = 0 /\ peer[fds[socket]] = "open"
    /\ Goto(AfterReading(Me.input))
    /\ UNCHANGED <<netVars, clients, todo, socket, reads, shutdownRequested, cronDue,
                   executed, fileVars>>

\* What is already buffered is still answered.
RecvEnd ==
    /\ pc = "read" /\ Unread(fds[socket]) = 0 /\ peer[fds[socket]] = "fin"
    /\ Goto("processLast")
    /\ UNCHANGED <<netVars, clients, todo, socket, reads, shutdownRequested, cronDue,
                   executed, fileVars>>

RecvError ==
    /\ pc = "read" /\ peer[fds[socket]] = "reset"
    /\ Goto("close")
    /\ UNCHANGED <<netVars, clients, todo, socket, reads, shutdownRequested, cronDue,
                   executed, fileVars>>

(***************************************************************************)
(* processInput, one request a step.                                       *)
(***************************************************************************)
Processing == pc \in {"process", "processLast"}
Whole(input) == input # <<>> /\ Len(input) >= RequestLength(KindOf(Head(input)))
IsBad(input) == input # <<>> /\ KindOf(Head(input)) = "bad"

\* Slip: the rest of a pipeline is run after QUIT.
MayProcess_AfterQuit == Processing
MayProcess == Processing /\ ~Me.closeAfterWrite

Answer(client, outcome) ==
    [client EXCEPT !.output = Append(@, <<Head(client.input)[1], Head(client.input)[2], outcome>>)]

Consume(client) ==
    [client EXCEPT !.input = SubSeq(@, RequestLength(KindOf(Head(@))) + 1, Len(@))]

RequestRefused ==
    /\ MayProcess /\ IsBad(Me.input)
    /\ SetClient([Answer(Me, "error") EXCEPT !.closeAfterWrite = TRUE])
    /\ UNCHANGED <<netVars, pc, todo, socket, reads, shutdownRequested, cronDue,
                   executed, fileVars>>

\* A write while the file is healthy, or evictions, which are logged anyway.
RequestAppends ==
    /\ MayProcess /\ Whole(Me.input)
    /\ \/ KindOf(Head(Me.input)) = "write" /\ ~writeFailed
       \/ KindOf(Head(Me.input)) = "evict"
    /\ File!AppendCommand
    /\ executed' = Append(executed, <<Head(Me.input)[1], Head(Me.input)[2]>>)
    /\ SetClient(Consume(Answer(Me, "ok")))
    /\ UNCHANGED <<netVars, pc, todo, socket, reads, shutdownRequested, cronDue>>

\* The other requests, and writes refused with MISCONF.
RequestAnswered ==
    /\ MayProcess /\ Whole(Me.input)
    /\ \E kind \in {KindOf(Head(Me.input))} :
          /\ \/ kind \in {"read", "quit", "blank", "huge"}
             \/ kind = "write" /\ writeFailed
          /\ SetClient(IF kind = "blank" THEN Consume(Me)
                       ELSE [Consume(Answer(Me, IF kind = "write" THEN "misconf" ELSE "ok"))
                             EXCEPT !.closeAfterWrite = @ \/ kind = "quit"])
    /\ UNCHANGED <<netVars, pc, todo, socket, reads, shutdownRequested, cronDue,
                   executed, fileVars>>

\* Slip: a peer that finished is hung up on as soon as its input is processed.
ProcessReturns_HangsUp ==
    /\ Processing
    /\ Me.closeAfterWrite \/ ~(Whole(Me.input) \/ IsBad(Me.input))
    /\ Goto(IF pc = "processLast" THEN "close" ELSE "reply")
    /\ UNCHANGED <<netVars, clients, todo, socket, reads, shutdownRequested, cronDue,
                   executed, fileVars>>

ProcessReturns ==
    /\ Processing
    /\ Me.closeAfterWrite \/ ~(Whole(Me.input) \/ IsBad(Me.input))
    /\ SetClient([Me EXCEPT !.closeAfterWrite = @ \/ pc = "processLast"])
    /\ Goto("reply")
    /\ UNCHANGED <<netVars, todo, socket, reads, shutdownRequested, cronDue, executed,
                   fileVars>>

(***************************************************************************)
(* The reply: flush, whatever its result, then writeToClient.              *)
(***************************************************************************)
CloseWhenAnswered(client) ==
    IF client.closeAfterWrite /\ pendingOutput(client) = 0 THEN "close" ELSE "events"

\* Slip: only a client with replies to send is ever hung up on.
NothingToReply_KeepsClient ==
    /\ pc = "reply" /\ pendingOutput(Me) = 0
    /\ Goto("events")
    /\ UNCHANGED <<netVars, clients, todo, socket, reads, shutdownRequested, cronDue,
                   executed, fileVars>>

NothingToReply ==
    /\ pc = "reply" /\ pendingOutput(Me) = 0
    /\ Goto(CloseWhenAnswered(Me))
    /\ UNCHANGED <<netVars, clients, todo, socket, reads, shutdownRequested, cronDue,
                   executed, fileVars>>

\* Slip: the replies leave before their writes.
CallFlush_Later ==
    /\ pc = "reply" /\ pendingOutput(Me) > 0
    /\ Goto("send")
    /\ UNCHANGED <<netVars, clients, todo, socket, reads, shutdownRequested, cronDue,
                   executed, fileVars>>

CallFlush ==
    /\ pc = "reply" /\ pendingOutput(Me) > 0
    /\ File!FlushStart \/ File!FlushNothing
    /\ Goto("send")
    /\ UNCHANGED <<netVars, clients, todo, socket, reads, shutdownRequested, cronDue,
                   executed>>

FlushStep ==
    /\ File!WriteSome \/ File!WriteFails \/ File!FlushReturns
    /\ UNCHANGED <<netVars, loopVars>>

Sending == pc = "send" /\ filePc = "ready"
SendRoom(c) == SendBuffer - Len(tx[c])

SendSome ==
    /\ Sending
    /\ \E c \in {fds[socket]} : \E n \in 1 .. Min({pendingOutput(Me), SendRoom(c)}) :
          /\ peer[c] # "reset"
          /\ tx' = [tx EXCEPT ![c] = @ \o SubSeq(PendingReplies(Me), 1, n)]
          /\ SetClient([Me EXCEPT !.outputOffset = @ + n])
    /\ UNCHANGED <<scenario, status, peer, sent, received, got, fds, pc, todo, socket,
                   reads, shutdownRequested, cronDue, executed, fileVars>>

\* Slip: the offset survives the buffer it counts in.
Compacted_KeepsOffset(client) ==
    IF client.outputOffset > Len(client.output) \div 2
    THEN [client EXCEPT !.output = PendingReplies(client)]
    ELSE client

Compacted(client) ==
    IF client.outputOffset = Len(client.output)
    THEN [client EXCEPT !.output = <<>>, !.outputOffset = 0]
    ELSE IF client.outputOffset > Len(client.output) \div 2
    THEN [client EXCEPT !.output = PendingReplies(client), !.outputOffset = 0]
    ELSE client

\* All sent, or the socket buffer is full.
WriteReturns ==
    /\ Sending
    /\ pendingOutput(Me) = 0 \/ (SendRoom(fds[socket]) = 0 /\ peer[fds[socket]] # "reset")
    /\ SetClient(Compacted(Me))
    /\ Goto(CloseWhenAnswered(Me))
    /\ UNCHANGED <<netVars, todo, socket, reads, shutdownRequested, cronDue, executed,
                   fileVars>>

SendError ==
    /\ Sending /\ pendingOutput(Me) > 0 /\ peer[fds[socket]] = "reset"
    /\ Goto("close")
    /\ UNCHANGED <<netVars, clients, todo, socket, reads, shutdownRequested, cronDue,
                   executed, fileVars>>

Without(f, x) == [y \in DOMAIN f \ {x} |-> f[y]]

\* A close with input unread resets the connection: replies that the peer
\* has not read yet may be lost.
CloseClient ==
    /\ pc = "close"
    /\ \E c \in {fds[socket]} :
          /\ status' = [status EXCEPT ![c] = "closed"]
          /\ fds' = Without(fds, socket)
          /\ \/ UNCHANGED tx
             \/ Unread(c) > 0 /\ tx' = [tx EXCEPT ![c] = <<>>]
    /\ clients' = Without(clients, socket)
    /\ Goto("events")
    /\ UNCHANGED <<scenario, peer, sent, received, got, todo, socket, reads,
                   shutdownRequested, cronDue, executed, fileVars>>

(***************************************************************************)
(* The end of an iteration, and of the program: the sockets are closed,    *)
(* then the destructor of the file flushes and syncs.                      *)
(***************************************************************************)
\* activeExpireCycle has no part in this; sync is called once a second.
Cron ==
    /\ pc = "events" /\ todo = {}
    /\ cronDue' = FALSE
    /\ UNCHANGED fileVars \/ File!Sync(TRUE) \/ File!Sync(FALSE)
    /\ Goto("test")
    /\ socket' = 0 /\ reads' = 0
    /\ UNCHANGED <<netVars, clients, todo, shutdownRequested, executed>>

Stop ==
    /\ pc = "stop"
    /\ status' = [c \in Connection |-> IF Connected(c) THEN "closed" ELSE status[c]]
    /\ \E lost \in SUBSET {c \in Connection : status[c] = "open" /\ Unread(c) > 0} :
          tx' = [c \in Connection |-> IF c \in lost THEN <<>> ELSE tx[c]]
    /\ fds' = <<>> /\ clients' = <<>>
    /\ File!Destroy
    /\ Goto("exit")
    /\ UNCHANGED <<scenario, peer, sent, received, got, todo, socket, reads,
                   shutdownRequested, cronDue, executed>>

Exit ==
    /\ pc = "exit"
    /\ \/ File!Sync(TRUE) /\ Goto("exit")
       \/ File!Sync(FALSE) /\ Goto("exit")
       \/ File!CloseFile /\ Goto("stopped")
    /\ UNCHANGED <<netVars, clients, todo, socket, reads, shutdownRequested, cronDue,
                   executed>>

Stopped == pc = "stopped" /\ UNCHANGED vars
-----------------------------------------------------------------------------
Peers(c) ==
    Connect(c) \/ PeerSends(c) \/ PeerFinishes(c) \/ PeerResets(c) \/ PeerReads(c)

Loop ==
    \/ LoopTest \/ CallPoll \/ PollReturns
    \/ (\E c \in Connection : Accept(c)) \/ AcceptReturns
    \/ handleClientEvents
    \/ RecvData \/ RecvWouldBlock \/ RecvEnd \/ RecvError
    \/ RequestRefused \/ RequestAppends \/ RequestAnswered \/ ProcessReturns
    \/ NothingToReply \/ CallFlush \/ FlushStep
    \/ SendSome \/ WriteReturns \/ SendError
    \/ CloseClient
    \/ Cron \/ Stop \/ Exit

Next ==
    \/ \E c \in Connection : Peers(c)
    \/ CronTimeReached \/ handleShutdownSignal
    \/ Loop \/ PollFails
    \/ Stopped

Spec == Init /\ [][Next]_vars
-----------------------------------------------------------------------------
(***************************************************************************)
(* What the peers may rely on.                                             *)
(***************************************************************************)
Kind(c, i) == scenario.requests[c][i]
EndOf(c, i) == Len(FlattenSeq([j \in 1 .. i |-> Request(c, j)]))
EndsConversation(c, i) == Kind(c, i) \in {"quit", "bad"}

\* The requests, by number, that the first n units of c's stream ask to be
\* answered: the whole ones, a bad one as soon as it begins, none behind QUIT
\* or a bad one.
Due(c, n) ==
    {i \in DOMAIN scenario.requests[c] :
        /\ Kind(c, i) # "blank"
        /\ IF Kind(c, i) = "bad" THEN EndOf(c, i - 1) < n ELSE EndOf(c, i) <= n
        /\ \A j \in 1 .. i - 1 : ~EndsConversation(c, j)}

Answered(replies) == {replies[j][2] : j \in DOMAIN replies}

\* The replies are c's, one to each of the first requests in due, in order.
AnswersFirst(replies, c, due) ==
    /\ \A j \in DOMAIN replies : replies[j][1] = c /\ replies[j][2] \in due
    /\ \A j, k \in DOMAIN replies : j < k => replies[j][2] < replies[k][2]
    /\ \A j \in DOMAIN replies : \A i \in due :
          i < replies[j][2] => i \in Answered(replies)

\* Replies reach a peer in the order of its requests, one for each, none of
\* another connection's, and none after QUIT or a protocol error, however the
\* requests were split and the replies sent; and the server goes to sleep only
\* when it has an answer for everything it has read.
RepliesInOrder ==
    \A c \in Connection :
        LET due == Due(c, received[c])
            all == got[c] \o tx[c] \o PendingReplies(clients[SocketOf(c)])
        IN  IF status[c] = "open" /\ peer[c] # "reset"
            THEN AnswersFirst(all, c, due) /\ (pc = "poll" => Answered(all) = due)
            ELSE AnswersFirst(got[c], c, due)

InFile(request) ==
    \E k \in DOMAIN executed : executed[k] = request /\ <<k, 1>> \in ToSet(file)

\* The requests whose success the socket has been told.
Acknowledged ==
    UNION {{<<c, r[2]>> : r \in {r \in ToSet(got[c] \o tx[c]) :
                                    r[3] = "ok" /\ Kind(c, r[2]) \in {"write", "evict"}}} :
              c \in Connection}

\* A write that was acknowledged is in the file, or the file is known to be
\* unhealthy and keeps it for the next flush.
AcknowledgedIsKept ==
    writeFailed \/ \A request \in Acknowledged : InFile(request)

\* tcp_server.cpp:400: Replies may only leave once their writes are in the AOF.
RepliesAfterWrites == \A request \in Acknowledged : InFile(request)

\* The server neither sleeps nor ends with a write it executed outside the
\* file, unless the file refused it: also not when the peer is gone before
\* its reply, or when replies are left unsent.
SleepsWithAllWritten ==
    pc \in {"poll", "stopped"} /\ ~writeFailed =>
        \A k \in DOMAIN executed : InFile(executed[k])

\* The server hangs up on a peer only if the peer is gone, its request is too
\* long, or everything it may expect has been handed to the socket.
HangsUpOnlyWhenDone ==
    [][\A c \in Connection :
          pc = "close" /\ status[c] = "open" /\ status'[c] = "closed" =>
              \/ peer[c] = "reset"
              \/ Len(clients[SocketOf(c)].input) > MaxQueryBuffer
              \/ /\ Answered(got[c] \o tx[c]) = Due(c, received[c])
                 /\ \/ peer[c] = "fin" /\ Unread(c) = 0
                    \/ \E i \in Due(c, received[c]) : EndsConversation(c, i)]_vars

\* The answers that the input of one event may ask for: every request but one
\* at the beginning takes two of the units read.
EventAnswers == (ReadChunkSize * MaxReadsPerEvent + 1) \div 2

\* A client that does not read holds at most the watermark and the answers of
\* one event, besides the error reply that ends the conversation; POLLHUP is
\* followed by a read whatever is held, so that a peer which is gone may add
\* those of one more event.  Sent data takes no more than half of its buffer
\* when the loop sleeps.
OutputBounded ==
    \A fd \in DOMAIN clients :
        LET client == clients[fd]
            errors == IF client.output # <<>> /\ Last(client.output)[3] = "error" THEN 1 ELSE 0
            events == IF peer[fds[fd]] = "reset" THEN 2 ELSE 1
        IN  /\ pendingOutput(client) - errors <=
                   OutputHighWatermark - 1 + events * EventAnswers
            /\ pc = "poll" => client.outputOffset <= Len(client.output) \div 2

(***************************************************************************)
(* Liveness.  The loop's thread runs, time passes while it sleeps, and a   *)
(* peer reads what is there for it (strongly fair because a peer's steps   *)
(* are taken at the loop's system calls).  Nothing is assumed of the disk. *)
(***************************************************************************)
FairSpec ==
    /\ Spec
    /\ WF_vars(Loop)
    /\ WF_vars(CronTimeReached)
    /\ \A c \in Connection : SF_vars(PeerReads(c))

\* A connection is accepted if there is a descriptor for it; a peer that stays
\* gets all its answers; one that leaves is let go, so that its descriptor
\* is free again.
PeersAreServed ==
    \A c \in Connection :
        []<>(/\ status[c] = "backlog" => FreeFds = {}
             /\ status[c] = "open" =>
                    peer[c] = "open" /\ Answered(got[c]) = Due(c, sent[c]))

\* A signal ends the server, also one that comes after the test of the flag
\* and before poll.
ShutdownObeyed == shutdownRequested ~> pc = "stopped"
=============================================================================
