------------------------------ MODULE ConfigRead ------------------------------
(***************************************************************************)
(* Reading and removing one configuration with local disaster recovery:    *)
(* readConfigWithFailover (disaster_recovery.ts), the remove() flows, the  *)
(* Snapshot files they write, and the snapshot lock that serialises them.  *)
(* Http selects the hooks of ClientWorker (client_worker.ts), which also   *)
(* know the un-encoded "legacy" snapshot path, or those of DataClient over *)
(* gRPC (client.ts), which do not.                                         *)
(*                                                                         *)
(* Every await is a step boundary: the server's content, the failover file *)
(* and the disk's ability to write change between any two steps, and the   *)
(* process may crash there.  The lock is the serial queue that KeyedQueue  *)
(* is shown to implement, for the one cache key of this model.             *)
(***************************************************************************)
EXTENDS Naturals, Sequences

CONSTANTS Flow,        \* identities of the getConfig / remove calls in progress
          Content,     \* non-empty configuration contents
          Empty,       \* the empty content ''
          Absent,      \* the server's answer "no such configuration" (null)
          NoFile,      \* a path that holds no file
          Published,   \* what others may put on the server
          Http,        \* TRUE: ClientWorker's hooks, FALSE: DataClient's over gRPC
          MaxCalls,    \* bound on the number of calls
          MaxChanges,  \* bound on the changes of the server's content
          MaxSwitches, \* bound on the changes of the failover file
          MaxCrashes   \* bound on the crashes of the process

ASSUME ConfigReadAssumption ==
    /\ Published \subseteq Content \cup {Empty}
    /\ Empty \notin Content /\ Absent \notin Content /\ NoFile \notin Content
    /\ Empty # Absent
    /\ Http \in BOOLEAN
    /\ MaxCalls \in Nat /\ MaxChanges \in Nat /\ MaxSwitches \in Nat /\ MaxCrashes \in Nat

Answer == Content \cup {Empty, Absent}
File   == Content \cup {NoFile}

VARIABLES
    server,    \* what the server holds
    failover,  \* whether the operator's failover file exists
    snap,      \* the snapshot file at the encoded path
    legacy,    \* the snapshot file at the legacy path
    queue,     \* the calls on the snapshot lock, the holder at the head
    pc,        \* pc[f]: the step call f takes next
    ans,       \* ans[f]: the content call f is storing
    origin,    \* origin[f]: where ans[f] came from, "server" or "snapshot"
    known,     \* history: the last server answer a finished call has reported
    ioError,   \* history: the disk could not be brought in line with the last
               \* answer, or a snapshot that could not be read was replaced
    budget     \* what is left of the four bounds

disk == <<snap, legacy>>
vars == <<server, failover, snap, legacy, queue, pc, ans, origin, known, ioError, budget>>

Steps == {"idle", "getQueued", "fetching", "clearing", "clearingLegacy", "writing",
          "renaming", "fallback", "fallbackLegacy", "removeQueued", "removing"}

\* What the disk is to hold after an answer: save() treats '' as a deletion.
Stored(a) == IF a \in Content THEN a ELSE NoFile

\* What a read finds on disk when the server fails: readSnapshotFallback.
Fallback == IF snap # NoFile THEN snap ELSE IF Http THEN legacy ELSE NoFile

Holds(f) == queue # <<>> /\ Head(queue) = f

-----------------------------------------------------------------------------
Init ==
    /\ server \in Published \cup {Absent}
    /\ failover \in BOOLEAN
    /\ snap \in File
    /\ legacy \in File
    /\ queue = <<>>
    /\ pc = [f \in Flow |-> "idle"]
    /\ ans = [f \in Flow |-> Absent]
    /\ origin = [f \in Flow |-> "server"]
    /\ known = IF Fallback = NoFile THEN Absent ELSE Fallback
    /\ ioError = FALSE
    /\ budget = [calls |-> MaxCalls, changes |-> MaxChanges,
                 switches |-> MaxSwitches, crashes |-> MaxCrashes]

Spend(what) ==
    /\ budget[what] > 0
    /\ budget' = [budget EXCEPT ![what] = @ - 1]

\* getConfig(): withSnapshotLock queues the flow.
CallGet(f) ==
    /\ pc[f] = "idle"
    /\ Spend("calls")
    /\ queue' = Append(queue, f)
    /\ pc' = [pc EXCEPT ![f] = "getQueued"]
    /\ UNCHANGED <<server, failover, disk, ans, origin, known, ioError>>

\* remove(): queued on the same lock.
CallRemove(f) ==
    /\ pc[f] = "idle"
    /\ Spend("calls")
    /\ queue' = Append(queue, f)
    /\ pc' = [pc EXCEPT ![f] = "removeQueued"]
    /\ UNCHANGED <<server, failover, disk, ans, origin, known, ioError>>

Goto(f, step) ==
    /\ pc' = [pc EXCEPT ![f] = step]
    /\ UNCHANGED <<queue, known>>

\* The flow settles and the lock passes on; the caller learns the answer a.
Report(f, a) ==
    /\ pc' = [pc EXCEPT ![f] = "idle"]
    /\ queue' = Tail(queue)
    /\ known' = a

\* Faulty variant: a flow that settles without an answer keeps the lock.
LeaveLocked(f) ==
    /\ pc' = [pc EXCEPT ![f] = "idle"]
    /\ UNCHANGED <<queue, known>>

\* The flow settles without an answer of the server: failover content, a
\* snapshot, a refusal or an error.
Leave(f) == Report(f, known)

\* A stored content is reported as the server's only if it came from there.
ReportStored(f) == Report(f, IF origin[f] = "server" THEN ans[f] ELSE known)

\* Faulty variant: the flow starts without waiting for the lock.
ReadFailoverUnlocked(f) ==
    /\ pc[f] = "getQueued"
    /\ \/ failover /\ Leave(f)
       \/ Goto(f, "fetching")
    /\ UNCHANGED <<server, failover, disk, ans, origin, ioError, budget>>

\* The failover file wins over the server and is returned as it is; one that
\* cannot be read is emitted and passed over.
ReadFailover(f) ==
    /\ pc[f] = "getQueued"
    /\ Holds(f)
    /\ \/ failover /\ Leave(f)
       \/ Goto(f, "fetching")
    /\ UNCHANGED <<server, failover, disk, ans, origin, ioError, budget>>

\* The server answers fetchFromServer; the flow resumes at a later step.
FetchAnswered(f) ==
    /\ pc[f] = "fetching"
    /\ ans' = [ans EXCEPT ![f] = server]
    /\ origin' = [origin EXCEPT ![f] = "server"]
    /\ Goto(f, IF server \in Content THEN "writing" ELSE "clearing")
    /\ UNCHANGED <<server, failover, disk, ioError, budget>>

\* fetchFromServer rejects: server down, refused, or timed out.
FetchFailed(f) ==
    /\ pc[f] = "fetching"
    /\ Goto(f, "fallback")
    /\ UNCHANGED <<server, failover, disk, ans, origin, ioError, budget>>

\* readSnapshotFallback, encoded path.  A file that cannot be read is emitted and
\* counts as none: ClientWorker then tries the legacy path, DataClient rethrows
\* the server's error.
ReadSnapshot(f) ==
    /\ pc[f] = "fallback"
    /\ \/ (snap # NoFile \/ ~Http) /\ Leave(f)
       \/ Http /\ Goto(f, "fallbackLegacy")
    /\ UNCHANGED <<server, failover, disk, ans, origin, ioError, budget>>

\* ClientWorker.getSnapshot, legacy path: a file that is there and is read is
\* migrated to the encoded path.
ReadLegacy(f) ==
    /\ pc[f] = "fallbackLegacy"
    /\ \/ Leave(f) /\ UNCHANGED <<ans, origin>>
       \/ /\ legacy # NoFile
          /\ ans' = [ans EXCEPT ![f] = legacy]
          /\ origin' = [origin EXCEPT ![f] = "snapshot"]
          /\ Goto(f, "writing")
    /\ UNCHANGED <<server, failover, disk, ioError, budget>>

\* Faulty variant: the snapshot file itself is opened for writing.
WriteInPlace(f) ==
    /\ pc[f] = "writing"
    /\ \/ Goto(f, "renaming") /\ snap' = NoFile /\ UNCHANGED ioError
       \/ ReportStored(f) /\ ioError' = (ioError \/ origin[f] = "server") /\ UNCHANGED snap
    /\ UNCHANGED <<server, failover, legacy, ans, origin, budget>>

\* Snapshot.save, first half: the content goes to a temporary file of its own,
\* or the write fails, which is emitted and not thrown.
WriteTemporary(f) ==
    /\ pc[f] = "writing"
    /\ \/ Goto(f, "renaming") /\ UNCHANGED ioError
       \/ ReportStored(f) /\ ioError' = (ioError \/ origin[f] = "server")
    /\ UNCHANGED <<server, failover, disk, ans, origin, budget>>

\* Snapshot.save, second half: rename over the snapshot file, or fail.  A
\* migration finds another content there only if that could not be read.
Rename(f) ==
    /\ pc[f] = "renaming"
    /\ \/ /\ snap' = ans[f]
          /\ ioError' = (origin[f] # "server" /\ (ioError \/ snap \notin {NoFile, ans[f]}))
       \/ /\ UNCHANGED snap
          /\ ioError' = (ioError \/ origin[f] = "server")
    /\ ReportStored(f)
    /\ UNCHANGED <<server, failover, legacy, ans, origin, budget>>

\* Faulty variant: an absent configuration leaves the snapshot file alone.
DeleteSnapshotSkipped(f) ==
    /\ pc[f] = "clearing"
    /\ ReportStored(f)
    /\ UNCHANGED <<server, failover, disk, ans, origin, ioError, budget>>

\* Snapshot.delete of the encoded path, which an unlink error leaves in place.
\* Only ClientWorker, and only for an absent configuration, clears the legacy
\* path as well.
DeleteSnapshot(f) ==
    /\ pc[f] = "clearing"
    /\ \/ snap' = NoFile /\ ioError' = FALSE
       \/ UNCHANGED snap /\ ioError' = (snap # NoFile)
    /\ IF Http /\ ans[f] = Absent THEN Goto(f, "clearingLegacy") ELSE ReportStored(f)
    /\ UNCHANGED <<server, failover, legacy, ans, origin, budget>>

DeleteLegacy(f) ==
    /\ pc[f] = "clearingLegacy"
    /\ \/ legacy' = NoFile /\ UNCHANGED ioError
       \/ UNCHANGED legacy /\ ioError' = (ioError \/ legacy # NoFile)
    /\ ReportStored(f)
    /\ UNCHANGED <<server, failover, snap, ans, origin, budget>>

\* remove(), once it holds the lock, sends the request.
SendRemove(f) ==
    /\ pc[f] = "removeQueued"
    /\ Holds(f)
    /\ Goto(f, "removing")
    /\ UNCHANGED <<server, failover, disk, ans, origin, ioError, budget>>

\* The server deletes the configuration and its confirmation arrives.
RemoveConfirmed(f) ==
    /\ pc[f] = "removing"
    /\ server' = Absent
    /\ ans' = [ans EXCEPT ![f] = Absent]
    /\ origin' = [origin EXCEPT ![f] = "server"]
    /\ Goto(f, "clearing")
    /\ UNCHANGED <<failover, disk, ioError, budget>>

\* The request is refused, fails, or is done but its answer is lost: remove()
\* returns false or rejects, and the snapshot stays.
RemoveUnconfirmed(f) ==
    /\ pc[f] = "removing"
    /\ server' \in {server, Absent}
    /\ Leave(f)
    /\ UNCHANGED <<failover, disk, ans, origin, ioError, budget>>

-----------------------------------------------------------------------------
\* Other clients publish and delete.
ServerChanges ==
    /\ Spend("changes")
    /\ server' \in (Published \cup {Absent}) \ {server}
    /\ UNCHANGED <<failover, disk, queue, pc, ans, origin, known, ioError>>

\* The operator creates or deletes the failover file.
FailoverSwitches ==
    /\ Spend("switches")
    /\ failover' = ~failover
    /\ UNCHANGED <<server, disk, queue, pc, ans, origin, known, ioError>>

\* The process dies and starts again: the files are all that is left.
Crash ==
    /\ Spend("crashes")
    /\ queue' = <<>>
    /\ pc' = [f \in Flow |-> "idle"]
    /\ known' = IF Fallback = NoFile THEN Absent ELSE Fallback
    /\ ioError' = FALSE
    /\ UNCHANGED <<server, failover, disk, ans, origin>>

Advance(f) ==
    \/ ReadFailover(f) \/ FetchAnswered(f) \/ FetchFailed(f)
    \/ ReadSnapshot(f) \/ ReadLegacy(f)
    \/ WriteTemporary(f) \/ Rename(f) \/ DeleteSnapshot(f) \/ DeleteLegacy(f)
    \/ SendRemove(f) \/ RemoveConfirmed(f) \/ RemoveUnconfirmed(f)

Next ==
    \/ \E f \in Flow : CallGet(f) \/ CallRemove(f) \/ Advance(f)
    \/ ServerChanges \/ FailoverSwitches \/ Crash

\* Requests end (an answer, an error or the 3 s timeout) and file operations
\* complete; callers, operators and other clients may do nothing at all.
Fairness == \A f \in Flow : WF_vars(Advance(f))

Spec == Init /\ [][Next]_vars /\ Fairness

-----------------------------------------------------------------------------
\* Type correctness.
TypeOK ==
    /\ server \in Answer
    /\ failover \in BOOLEAN
    /\ snap \in File
    /\ legacy \in File
    /\ queue \in Seq(Flow)
    /\ pc \in [Flow -> Steps]
    /\ ans \in [Flow -> Answer]
    /\ origin \in [Flow -> {"server", "snapshot"}]
    /\ known \in Answer
    /\ ioError \in BOOLEAN
    /\ budget \in [{"calls", "changes", "switches", "crashes"} -> Nat]

\* The steps in which a call holds the lock and may touch the files.
Busy == Steps \ {"idle", "getQueued", "removeQueued"}

\* Until a call that holds an answer begins to store it, and whenever no call
\* holds the lock, what a failing server would make the client read from disk
\* is what the server last told a caller: a removed configuration does not come
\* back (disaster_recovery.ts:6) and an old content does not replace a new one.
\* Reported disk errors are the only excuse.
Storing == {"writing", "renaming", "clearing", "clearingLegacy"}

FallbackIsLastAnswer ==
    (~ioError /\ \A f \in Flow : pc[f] \notin Storing) => Fallback = Stored(known)

\* At every moment, also in the middle of a flow and so after a crash there,
\* the disk shows the last reported answer or the one being stored, never a
\* third content.  (DataClient's hooks; the legacy file of ClientWorker can
\* show through between its two deletions.)
CrashShowsNoThirdContent ==
    (~Http /\ ~ioError) =>
        \/ Fallback = Stored(known)
        \/ \E f \in Flow : pc[f] \in Storing /\ Fallback = Stored(ans[f])

\* A call always settles and releases the lock, whatever fails on its way.
CallsSettle == \A f \in Flow : pc[f] # "idle" ~> pc[f] = "idle"
=============================================================================
