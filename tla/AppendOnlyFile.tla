--------------------------- MODULE AppendOnlyFile ----------------------------
(***************************************************************************)
(* Class AppendOnlyFile (src/src/aof.cpp): a buffer of encoded commands,   *)
(* written to the file by flush and forced to disk by sync, over crashes   *)
(* and restarts.                                                           *)
(*                                                                         *)
(* The file is a sequence of units, the smallest piece a write or a crash  *)
(* can split a command into; every command is encoded in Units of them.    *)
(* write may take any number of units or fail; a retry after EINTR changes *)
(* nothing.  The first synced units of the file are on the disk and        *)
(* survive a power failure, of the rest any prefix may.                    *)
(***************************************************************************)
EXTENDS Integers, Sequences, SequencesExt

CONSTANTS
    Units,        \* units of an encoded command
    MaxCommands,  \* bound: commands ever appended
    MaxCrashes    \* bound: times the process ends or the machine goes down

ASSUME UnitsAssumption ==
    Units \in Nat \ {0} /\ MaxCommands \in Nat /\ MaxCrashes \in Nat

VARIABLES
    buffer,       \* units that append has produced and flush has not written
    written,      \* flush's local: units of buffer already in the file
    file,         \* the contents of the file
    synced,       \* length of the part of the file that is on the disk
    needsSync,
    writeFailed,
    closing,      \* the destructor is running
    pc,           \* "ready", "flush", "sync" (in the destructor) or "down"
    next,         \* the number of the next command
    crashes,
    appended      \* history: the file as it was loaded, and all appended since

vars == <<buffer, written, file, synced, needsSync, writeFailed, closing, pc,
          next, crashes, appended>>

Unit == (1 .. MaxCommands) \X (1 .. Units)
Encode(c) == [p \in 1 .. Units |-> <<c, p>>]

TypeOK ==
    /\ buffer \in Seq(Unit) /\ file \in Seq(Unit) /\ appended \in Seq(Unit)
    /\ written \in 0 .. Len(buffer)
    /\ synced \in 0 .. Len(file)
    /\ needsSync \in BOOLEAN /\ writeFailed \in BOOLEAN /\ closing \in BOOLEAN
    /\ pc \in {"ready", "flush", "sync", "down"}
    /\ next \in 1 .. MaxCommands + 1
    /\ crashes \in 0 .. MaxCrashes

Init ==
    /\ buffer = <<>> /\ written = 0
    /\ file = <<>> /\ synced = 0
    /\ needsSync = FALSE /\ writeFailed = FALSE /\ closing = FALSE
    /\ pc = "ready"
    /\ next = 1
    /\ crashes = 0
    /\ appended = <<>>

AppendCommand ==
    /\ pc = "ready"
    /\ next <= MaxCommands
    /\ buffer' = buffer \o Encode(next)
    /\ appended' = appended \o Encode(next)
    /\ next' = next + 1
    /\ UNCHANGED <<written, file, synced, needsSync, writeFailed, closing, pc, crashes>>

\* The early return of flush; sync's, without needsSync, is alike.
FlushNothing == pc = "ready" /\ buffer = <<>> /\ UNCHANGED vars

FlushStart ==
    /\ pc = "ready"
    /\ buffer # <<>>
    /\ pc' = "flush"
    /\ UNCHANGED <<buffer, written, file, synced, needsSync, writeFailed, closing,
                   next, crashes, appended>>

Pending == SubSeq(buffer, written + 1, Len(buffer))
AfterFlush == IF closing THEN "sync" ELSE "ready"

WriteSome ==
    /\ pc = "flush"
    /\ \E n \in 1 .. Len(buffer) - written :
          /\ file' = file \o SubSeq(buffer, written + 1, written + n)
          /\ written' = written + n
    /\ UNCHANGED <<buffer, synced, needsSync, writeFailed, closing, pc, next,
                   crashes, appended>>

\* Slip: the whole buffer is written again by the next flush.
WriteFails_KeepsAll ==
    /\ pc = "flush"
    /\ written < Len(buffer)
    /\ written' = 0
    /\ writeFailed' = TRUE
    /\ pc' = AfterFlush
    /\ UNCHANGED <<buffer, file, synced, needsSync, closing, next, crashes, appended>>

\* Slip: what could not be written is dropped.
WriteFails_DropsRest ==
    /\ pc = "flush"
    /\ written < Len(buffer)
    /\ buffer' = <<>>
    /\ written' = 0
    /\ writeFailed' = TRUE
    /\ pc' = AfterFlush
    /\ UNCHANGED <<file, synced, needsSync, closing, next, crashes, appended>>

\* The unwritten data is kept for a later flush.
WriteFails ==
    /\ pc = "flush"
    /\ written < Len(buffer)
    /\ buffer' = Pending
    /\ written' = 0
    /\ writeFailed' = TRUE
    /\ pc' = AfterFlush
    /\ UNCHANGED <<file, synced, needsSync, closing, next, crashes, appended>>

\* Slips: a variable is not reset when flush returns.
FlushReturns_With(newWritten, newFailed) ==
    /\ pc = "flush"
    /\ written = Len(buffer)
    /\ buffer' = <<>>
    /\ written' = newWritten
    /\ needsSync' = TRUE
    /\ writeFailed' = newFailed
    /\ pc' = AfterFlush
    /\ UNCHANGED <<file, synced, closing, next, crashes, appended>>

FlushReturns_KeepsWritten == FlushReturns_With(written, FALSE)
FlushReturns_KeepsFailed == FlushReturns_With(0, writeFailed)

FlushReturns ==
    /\ pc = "flush"
    /\ written = Len(buffer)
    /\ buffer' = <<>>
    /\ written' = 0
    /\ needsSync' = TRUE
    /\ writeFailed' = FALSE
    /\ pc' = AfterFlush
    /\ UNCHANGED <<file, synced, closing, next, crashes, appended>>

\* needsSync is cleared before fsync is called, whatever fsync returns.
Sync(result) ==
    /\ pc \in {"ready", "sync"}
    /\ needsSync
    /\ needsSync' = FALSE
    /\ synced' = IF result THEN Len(file) ELSE synced
    /\ UNCHANGED <<buffer, written, file, writeFailed, closing, pc, next, crashes, appended>>

\* The destructor: flush, sync, close.
Destroy ==
    /\ pc = "ready"
    /\ crashes < MaxCrashes
    /\ closing' = TRUE
    /\ pc' = IF buffer = <<>> THEN "sync" ELSE "flush"
    /\ UNCHANGED <<buffer, written, file, synced, needsSync, writeFailed, next,
                   crashes, appended>>

\* What is not in the file is gone with the process.
GoDown(contents) ==
    /\ crashes < MaxCrashes
    /\ crashes' = crashes + 1
    /\ pc' = "down"
    /\ file' = contents
    /\ appended' = contents
    /\ buffer' = <<>>
    /\ written' = 0
    /\ UNCHANGED <<synced, needsSync, writeFailed, closing, next>>

CloseFile == pc = "sync" /\ ~needsSync /\ GoDown(file)

Crash == pc # "down" /\ GoDown(file)

PowerFailure == \E n \in synced .. Len(file) : GoDown(SubSeq(file, 1, n))

\* The commands of s without a truncated one at its end.
WholeLength(s) == Len(s) - (Len(s) % Units)
Whole(s) == SubSeq(s, 1, WholeLength(s))
\* Slips: the file is cut at the wrong place, or not at all.
LoadAndOpen_CutAt(length) ==
    /\ pc = "down"
    /\ file' = SubSeq(file, 1, length)
    /\ synced' = IF synced <= length THEN synced ELSE length
    /\ appended' = SubSeq(file, 1, length)
    /\ needsSync' = FALSE /\ writeFailed' = FALSE /\ closing' = FALSE
    /\ pc' = "ready"
    /\ UNCHANGED <<buffer, written, next, crashes>>

LoadAndOpen_NoRepair == LoadAndOpen_CutAt(Len(file))
LoadAndOpen_CutsLast ==
    LoadAndOpen_CutAt(IF Len(file) < Units THEN 0 ELSE WholeLength(file) - Units)

\* load cuts a truncated command off, then open starts a new object.
LoadAndOpen ==
    /\ pc = "down"
    /\ file' = Whole(file)
    /\ synced' = IF synced <= WholeLength(file) THEN synced ELSE WholeLength(file)
    /\ appended' = Whole(file)
    /\ needsSync' = FALSE /\ writeFailed' = FALSE /\ closing' = FALSE
    /\ pc' = "ready"
    /\ UNCHANGED <<buffer, written, next, crashes>>

Next ==
    \/ AppendCommand
    \/ FlushNothing \/ FlushStart \/ WriteSome \/ WriteFails \/ FlushReturns
    \/ Sync(TRUE) \/ Sync(FALSE)
    \/ Destroy \/ CloseFile
    \/ Crash \/ PowerFailure
    \/ LoadAndOpen

Spec == Init /\ [][Next]_vars
-----------------------------------------------------------------------------
\* What was appended is in the file or still in the buffer, in order, once:
\* partial writes, failures and retries lose and repeat nothing.
NothingLostOrRepeated == file \o Pending = appended

\* After a failed write there is data to retry.  flush clears writeFailed
\* only when it has something to write: an unhealthy file with an empty
\* buffer would refuse write commands for ever.
UnhealthyHasPending == writeFailed /\ pc # "down" => buffer # <<>>

\* A run of whole commands in the order of their numbers, with at most one
\* truncated command, the last.
InOrder(s) ==
    \A i \in 1 .. Len(s) :
        /\ s[i][2] = ((i - 1) % Units) + 1
        /\ i > 1 => IF s[i][2] = 1 THEN s[i][1] > s[i - 1][1]
                                  ELSE s[i][1] = s[i - 1][1]

\* The file is a run of whole commands in the order they were appended,
\* with at most one truncated command, the last: load never meets a broken
\* command in the middle.
FileIsWellFormed == InOrder(file)

\* A whole command that is on the disk stays in the file, where it is,
\* over every crash, power failure and repair.
SyncedCommandsSurvive ==
    [][IsPrefix(Whole(SubSeq(file, 1, synced)), file')]_vars

(***************************************************************************)
(* Liveness.  The server flushes before it replies, polls sync once a      *)
(* second and is restarted when it goes down.  A disk that takes writes    *)
(* again and again finishes one eventually.                                *)
(***************************************************************************)
FlushFairness ==
    /\ WF_vars(FlushStart) /\ SF_vars(WriteSome) /\ WF_vars(FlushReturns)
    /\ WF_vars(CloseFile) /\ WF_vars(LoadAndOpen)

SyncFairness == WF_vars(Sync(TRUE) \/ Sync(FALSE)) /\ SF_vars(Sync(TRUE))

FairSpec == Spec /\ FlushFairness /\ SyncFairness

\* The file gets healthy again.
HealthReturns == writeFailed ~> ~writeFailed

\* aof.hpp: sync forces the data to disk and is called once per second.  So
\* what is in the file is on the disk eventually.
FileReachesDisk == []<>(synced = Len(file))
=============================================================================
