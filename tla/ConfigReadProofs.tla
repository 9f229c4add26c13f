-------------------------- MODULE ConfigReadProofs --------------------------
(***************************************************************************)
(* Proofs about ConfigRead for every number of overlapping calls, every    *)
(* set of contents and every bound.  A content the disk shows can only be  *)
(* wrong while the legacy file is being deleted; the inductive invariant   *)
(* says so, together with what each step of the lock holder has            *)
(* established so far.                                                     *)
(***************************************************************************)
EXTENDS ConfigRead, TLAPS

\* A call past the lock is the lock's holder.
BusyHolds == \A f \in Flow : pc[f] \in Busy => Holds(f)

\* What call f, in its present step, has established about its answer.
StoreFactsOf(f) ==
    /\ pc[f] \in {"writing", "renaming"} =>
         /\ ans[f] \in Content
         /\ origin[f] = "snapshot" => Http /\ ans[f] = legacy
    /\ pc[f] = "clearing" =>
         /\ origin[f] = "server"
         /\ ans[f] = Absent \/ (ans[f] = Empty /\ Empty \in Published)
    /\ pc[f] = "clearingLegacy" =>
         /\ Http /\ origin[f] = "server" /\ ans[f] = Absent
         /\ ~ioError => snap = NoFile
    /\ pc[f] = "fallbackLegacy" => Http

StoreFacts == \A f \in Flow : StoreFactsOf(f)

\* ClientWorker clears the legacy file for an absent configuration but not for
\* an empty one: freshness needs the one or the other to be out of play.
NoEmptyOverLegacy == ~Http \/ Empty \notin Published

DiskFresh ==
    (NoEmptyOverLegacy /\ ~ioError /\ \A f \in Flow : pc[f] # "clearingLegacy")
        => Fallback = Stored(known)

IInv ==
    /\ TypeOK
    /\ server \in Published \cup {Absent}
    /\ BusyHolds
    /\ StoreFacts
    /\ DiskFresh

-----------------------------------------------------------------------------
\* The lock admits one call at a time.
LEMMA OneBusy ==
    ASSUME IInv, NEW f \in Flow, NEW g \in Flow, pc[f] \in Busy, pc[g] \in Busy
    PROVE  f = g
  BY DEF IInv, BusyHolds, Holds

\* The initial states satisfy the inductive invariant.
LEMMA InitEstablishes == Init => IInv
<1> SUFFICES ASSUME Init PROVE IInv
  OBVIOUS
<1>1. Fallback \in File /\ Fallback = Stored(known) /\ known \in Answer
  BY ConfigReadAssumption DEF Init, Fallback, Stored, File, Answer
<1>2. TypeOK
  <2>1. budget \in [{"calls", "changes", "switches", "crashes"} -> Nat]
    BY ConfigReadAssumption DEF Init
  <2>2. server \in Answer /\ queue \in Seq(Flow)
    BY ConfigReadAssumption DEF Init, Answer
  <2> QED
    BY <1>1, <2>1, <2>2 DEF Init, TypeOK, Answer, Steps
<1>3. BusyHolds /\ StoreFacts
  BY DEF Init, BusyHolds, Busy, StoreFacts, StoreFactsOf
<1> QED
  BY <1>1, <1>2, <1>3 DEF Init, IInv, DiskFresh

\* Queueing a call disturbs neither the holder nor the disk.
LEMMA CallPreserves ==
    ASSUME IInv, NEW f \in Flow, CallGet(f) \/ CallRemove(f) PROVE IInv'
<1>1. /\ pc[f] = "idle" /\ queue' = Append(queue, f)
      /\ \E step \in {"getQueued", "removeQueued"} : pc' = [pc EXCEPT ![f] = step]
      /\ UNCHANGED <<server, failover, snap, legacy, ans, origin, known, ioError>>
  BY DEF CallGet, CallRemove, disk
<1>2. TypeOK'
  <2>1. budget' \in [{"calls", "changes", "switches", "crashes"} -> Nat]
    BY DEF IInv, TypeOK, CallGet, CallRemove, Spend
  <2> QED
    BY <1>1, <2>1 DEF IInv, TypeOK, Steps
<1>3. BusyHolds'
  <2> SUFFICES ASSUME NEW g \in Flow, pc'[g] \in Busy PROVE Holds(g)'
    BY DEF BusyHolds, Busy
  <2>1. g # f /\ pc[g] \in Busy
    BY <1>1 DEF IInv, TypeOK, Busy
  <2>2. queue \in Seq(Flow) /\ queue # <<>> /\ Head(queue) = g
    BY <2>1 DEF IInv, TypeOK, BusyHolds, Holds
  <2> QED
    BY <1>1, <2>2 DEF Holds
<1>4. StoreFacts'
  BY <1>1 DEF IInv, TypeOK, StoreFacts, StoreFactsOf
<1>5. DiskFresh'
  BY <1>1 DEF IInv, TypeOK, DiskFresh, Fallback, NoEmptyOverLegacy
<1> QED
  BY <1>1, <1>2, <1>3, <1>4, <1>5 DEF IInv

\* A step of the holder that keeps the lock: the invariant is then typing,
\* freshness and what the step established for the holder itself.
LEMMA GotoSuffices ==
    ASSUME IInv, NEW f \in Flow, NEW step \in Steps, Holds(f), Goto(f, step),
           TypeOK', (server \in Published \cup {Absent})', DiskFresh', StoreFactsOf(f)'
    PROVE  IInv'
<1>1. BusyHolds'
  BY DEF IInv, TypeOK, BusyHolds, Holds, Goto
<1>2. \A g \in Flow : g # f => pc'[g] \notin Busy
  BY DEF IInv, TypeOK, BusyHolds, Holds, Goto
<1>3. StoreFacts'
  BY <1>2 DEF StoreFacts, StoreFactsOf, Busy, Steps
<1> QED
  BY <1>1, <1>3 DEF IInv

\* When the holder settles, nobody is past the lock: what is left to show is
\* typing and freshness.
LEMMA ReportSuffices ==
    ASSUME IInv, NEW f \in Flow, NEW a, Holds(f), Report(f, a),
           TypeOK', (server \in Published \cup {Absent})', DiskFresh'
    PROVE  IInv'
<1>1. \A g \in Flow : pc'[g] \notin Busy
  BY DEF IInv, TypeOK, BusyHolds, Holds, Report, Steps, Busy
<1>2. BusyHolds' /\ StoreFacts'
  BY <1>1 DEF BusyHolds, StoreFacts, StoreFactsOf, Busy, Steps
<1> QED
  BY <1>2 DEF IInv

\* Typing of what Goto and Report change.
LEMMA GotoTyped ==
    ASSUME TypeOK, NEW f \in Flow, NEW step \in Steps, Goto(f, step)
    PROVE  queue' \in Seq(Flow) /\ pc' \in [Flow -> Steps] /\ known' \in Answer
  BY DEF TypeOK, Goto

\* What a finished call reports keeps the types.
LEMMA ReportTyped ==
    ASSUME TypeOK, NEW f \in Flow, NEW a \in Answer, Holds(f), Report(f, a)
    PROVE  queue' \in Seq(Flow) /\ pc' \in [Flow -> Steps] /\ known' \in Answer
<1>1. queue' \in Seq(Flow)
  BY DEF TypeOK, Report, Holds
<1> QED
  BY <1>1 DEF TypeOK, Report, Steps

\* A step that leaves the server, the disk and the error flag as they are and
\* does not begin to clear the legacy file.
LEMMA DiskUntouched ==
    ASSUME IInv, UNCHANGED <<server, snap, legacy, ioError, known>>,
           NEW f \in Flow, pc[f] # "clearingLegacy",
           \A g \in Flow : pc[g] = "clearingLegacy" => pc'[g] = "clearingLegacy"
    PROVE  DiskFresh' /\ (server \in Published \cup {Absent})'
  BY DEF IInv, DiskFresh, Fallback

-----------------------------------------------------------------------------
\* One step of a call preserves the invariant.
LEMMA AdvancePreserves == ASSUME IInv, NEW f \in Flow, Advance(f) PROVE IInv'
<1> USE DEF disk
<1>1. /\ TypeOK /\ BusyHolds /\ StoreFactsOf(f) /\ DiskFresh
      /\ server \in Answer /\ known \in Answer /\ ans[f] \in Answer
  BY DEF IInv, StoreFacts, TypeOK
<1>2. ASSUME UNCHANGED <<server, failover, disk, ans, origin, ioError, budget>>, Holds(f),
             pc[f] # "clearingLegacy",
             \/ Leave(f)
             \/ Goto(f, "fetching") \/ Goto(f, "fallback") \/ Goto(f, "removing")
             \/ Goto(f, "fallbackLegacy") /\ Http
      PROVE  IInv'
  <2>1. known' = known /\ \A g \in Flow : pc[g] = "clearingLegacy" => pc'[g] = "clearingLegacy"
    BY <1>1, <1>2 DEF TypeOK, Leave, Report, Goto
  <2>2. DiskFresh' /\ (server \in Published \cup {Absent})'
    BY <1>2, <2>1, DiskUntouched
  <2>3. CASE Leave(f)
    BY <1>1, <1>2, <2>2, <2>3, ReportTyped, ReportSuffices DEF Leave, TypeOK
  <2>4. ASSUME NEW step \in {"fetching", "fallback", "removing", "fallbackLegacy"},
               Goto(f, step), step = "fallbackLegacy" => Http
        PROVE  IInv'
    <3>1. step \in Steps /\ TypeOK'
      BY <1>1, <1>2, <2>4, GotoTyped DEF TypeOK, Steps
    <3>2. StoreFactsOf(f)'
      BY <1>1, <1>2, <2>4 DEF StoreFactsOf, Goto, TypeOK
    <3> QED
      BY <1>2, <2>2, <2>4, <3>1, <3>2, GotoSuffices
  <2> QED
    BY <1>2, <2>3, <2>4
<1>3. CASE ReadFailover(f)
  BY <1>2, <1>3 DEF ReadFailover
<1>4. CASE FetchFailed(f)
  BY <1>1, <1>2, <1>4 DEF FetchFailed, BusyHolds, Busy, Steps
<1>5. CASE ReadSnapshot(f)
  BY <1>1, <1>2, <1>5 DEF ReadSnapshot, BusyHolds, Busy, Steps
<1>6. CASE SendRemove(f)
  BY <1>2, <1>6 DEF SendRemove
<1>7. CASE FetchAnswered(f)
  <2>1. Holds(f) /\ pc[f] = "fetching"
    BY <1>1, <1>7 DEF FetchAnswered, BusyHolds, Busy, Steps
  <2>2. PICK step \in {"writing", "clearing"} :
           /\ Goto(f, step)
           /\ step = "writing" <=> server \in Content
    BY <1>7 DEF FetchAnswered
  <2>3. step \in Steps /\ TypeOK'
    BY <1>1, <1>7, <2>2, GotoTyped DEF FetchAnswered, TypeOK, Steps
  <2>4. DiskFresh' /\ (server \in Published \cup {Absent})'
    BY <1>1, <1>7, <2>1, <2>2, DiskUntouched DEF FetchAnswered, TypeOK, Goto
  <2>5. StoreFactsOf(f)'
    <3>1. server \in Published \cup {Absent} /\ Published \subseteq Content \cup {Empty}
      BY ConfigReadAssumption DEF IInv
    <3>2. ans'[f] = server /\ origin'[f] = "server" /\ pc'[f] = step
      BY <1>1, <1>7, <2>2 DEF FetchAnswered, TypeOK, Goto
    <3> QED
      BY <2>2, <3>1, <3>2 DEF StoreFactsOf
  <2> QED
    BY <2>1, <2>2, <2>3, <2>4, <2>5, GotoSuffices
<1>8. CASE ReadLegacy(f)
  <2>1. Holds(f) /\ pc[f] = "fallbackLegacy" /\ Http
    BY <1>1, <1>8 DEF ReadLegacy, BusyHolds, Busy, Steps, StoreFactsOf
  <2>2. CASE Leave(f) /\ UNCHANGED <<ans, origin>>
    BY <1>2, <1>8, <2>1, <2>2 DEF ReadLegacy
  <2>3. CASE legacy # NoFile /\ Goto(f, "writing")
             /\ ans' = [ans EXCEPT ![f] = legacy] /\ origin' = [origin EXCEPT ![f] = "snapshot"]
    <3>1. legacy \in Content /\ ans'[f] = legacy /\ origin'[f] = "snapshot" /\ pc'[f] = "writing"
      BY <1>1, <1>8, <2>3 DEF ReadLegacy, TypeOK, File, Goto
    <3>2. "writing" \in Steps /\ Goto(f, "writing") /\ TypeOK'
      BY <1>1, <1>8, <2>3, <3>1, GotoTyped DEF ReadLegacy, TypeOK, Answer, Steps
    <3>3. DiskFresh' /\ (server \in Published \cup {Absent})'
      BY <1>1, <1>8, <2>1, <2>3, DiskUntouched DEF ReadLegacy, TypeOK, Goto
    <3>4. StoreFactsOf(f)'
      BY <1>8, <2>1, <3>1 DEF StoreFactsOf, ReadLegacy
    <3> QED
      BY <2>1, <3>2, <3>3, <3>4, GotoSuffices
  <2> QED
    BY <1>8, <2>2, <2>3 DEF ReadLegacy
<1>9. CASE WriteTemporary(f)
  <2>1. Holds(f) /\ pc[f] = "writing" /\ (server \in Published \cup {Absent})'
    BY <1>1, <1>9 DEF WriteTemporary, BusyHolds, Busy, Steps, IInv
  <2>2. CASE Goto(f, "renaming") /\ UNCHANGED ioError
    <3>1. "renaming" \in Steps /\ TypeOK'
      BY <1>1, <1>9, <2>2, GotoTyped DEF WriteTemporary, TypeOK, Steps
    <3>2. DiskFresh'
      BY <1>1, <1>9, <2>1, <2>2, DiskUntouched DEF WriteTemporary, TypeOK, Goto
    <3>3. StoreFactsOf(f)'
      BY <1>1, <1>9, <2>1, <2>2 DEF StoreFactsOf, WriteTemporary, TypeOK, Goto
    <3> QED
      BY <2>1, <2>2, <3>1, <3>2, <3>3, GotoSuffices
  <2>3. CASE ReportStored(f) /\ ioError' = (ioError \/ origin[f] = "server")
    <3>1. PICK a \in Answer : Report(f, a) /\ (origin[f] # "server" => a = known)
      BY <1>1, <2>3 DEF ReportStored
    <3>2. TypeOK'
      BY <1>1, <1>9, <2>1, <2>3, <3>1, ReportTyped DEF WriteTemporary, TypeOK
    <3>3. DiskFresh'
      BY <1>1, <1>9, <2>1, <2>3, <3>1
         DEF WriteTemporary, TypeOK, DiskFresh, Fallback, Report, NoEmptyOverLegacy
    <3> QED
      BY <2>1, <3>1, <3>2, <3>3, ReportSuffices
  <2> QED
    BY <1>9, <2>2, <2>3 DEF WriteTemporary
<1>10. CASE Rename(f)
  <2>1. /\ Holds(f) /\ pc[f] = "renaming" /\ (server \in Published \cup {Absent})'
        /\ ans[f] \in Content
        /\ origin[f] = "snapshot" => Http /\ ans[f] = legacy
    BY <1>1, <1>10 DEF Rename, BusyHolds, Busy, Steps, IInv, StoreFactsOf
  <2>2. PICK a \in Answer : /\ Report(f, a)
                            /\ a = IF origin[f] = "server" THEN ans[f] ELSE known
    BY <1>1, <1>10 DEF Rename, ReportStored
  <2>3. TypeOK'
    BY <1>1, <1>10, <2>1, <2>2, ReportTyped DEF Rename, TypeOK, File
  <2>4. DiskFresh'
    <3>1. \A g \in Flow : pc[g] # "clearingLegacy"
      BY <1>1, <2>1 DEF BusyHolds, Holds, Busy, Steps
    <3>2. CASE origin[f] = "server"
      BY <1>10, <2>1, <2>2, <3>2, ConfigReadAssumption
         DEF Rename, DiskFresh, Fallback, Stored, Report
    <3>3. CASE origin[f] = "snapshot"
      <4>1. known' = known /\ (ioError' \/ (~ioError /\ Fallback' = Fallback))
        BY <1>1, <1>10, <2>1, <2>2, <3>3, ConfigReadAssumption
           DEF Rename, Fallback, Report, TypeOK
      <4> QED
        BY <1>1, <3>1, <4>1 DEF DiskFresh
    <3> QED
      BY <1>1, <3>2, <3>3 DEF TypeOK
  <2> QED
    BY <2>1, <2>2, <2>3, <2>4, ReportSuffices
<1>11. CASE DeleteSnapshot(f)
  <2>1. /\ Holds(f) /\ pc[f] = "clearing" /\ (server \in Published \cup {Absent})'
        /\ origin[f] = "server"
        /\ ans[f] = Absent \/ (ans[f] = Empty /\ Empty \in Published)
    BY <1>1, <1>11 DEF DeleteSnapshot, BusyHolds, Busy, Steps, IInv, StoreFactsOf
  <2>2. snap' \in File /\ ioError' \in BOOLEAN /\ (~ioError' => snap' = NoFile)
    BY <1>1, <1>11 DEF DeleteSnapshot, TypeOK, File
  <2>3. CASE Http /\ ans[f] = Absent
    <3>1. Goto(f, "clearingLegacy") /\ "clearingLegacy" \in Steps
      BY <1>11, <2>3 DEF DeleteSnapshot, Steps
    <3>2. TypeOK'
      BY <1>1, <1>11, <2>2, <3>1, GotoTyped DEF DeleteSnapshot, TypeOK
    <3>3. pc'[f] = "clearingLegacy"
      BY <1>1, <3>1 DEF Goto, TypeOK
    <3>4. DiskFresh' /\ StoreFactsOf(f)'
      BY <1>11, <2>1, <2>2, <2>3, <3>3 DEF DeleteSnapshot, DiskFresh, StoreFactsOf
    <3> QED
      BY <2>1, <3>1, <3>2, <3>4, GotoSuffices
  <2>4. CASE ~(Http /\ ans[f] = Absent)
    <3>1. Report(f, ans[f])
      BY <1>11, <2>1, <2>4 DEF DeleteSnapshot, ReportStored
    <3>2. TypeOK'
      BY <1>1, <1>11, <2>1, <2>2, <3>1, ReportTyped DEF DeleteSnapshot, TypeOK
    <3>3. DiskFresh'
      BY <2>1, <2>2, <2>4, <3>1, ConfigReadAssumption
         DEF DiskFresh, Fallback, Stored, Report, NoEmptyOverLegacy
    <3> QED
      BY <2>1, <3>1, <3>2, <3>3, ReportSuffices
  <2> QED
    BY <2>3, <2>4
<1>12. CASE DeleteLegacy(f)
  <2>1. /\ Holds(f) /\ (server \in Published \cup {Absent})' /\ origin[f] = "server"
        /\ ans[f] = Absent /\ (~ioError => snap = NoFile)
    BY <1>1, <1>12 DEF DeleteLegacy, BusyHolds, Busy, Steps, IInv, StoreFactsOf
  <2>2. Report(f, Absent) /\ Absent \in Answer
    BY <1>12, <2>1 DEF DeleteLegacy, ReportStored, Answer
  <2>3. TypeOK'
    BY <1>1, <1>12, <2>1, <2>2, ReportTyped DEF DeleteLegacy, TypeOK, File
  <2>4. DiskFresh'
    BY <1>12, <2>1, <2>2, ConfigReadAssumption
       DEF DeleteLegacy, DiskFresh, Fallback, Stored, Report
  <2> QED
    BY <2>1, <2>2, <2>3, <2>4, ReportSuffices
<1>13. CASE RemoveConfirmed(f)
  <2>1. Holds(f) /\ pc[f] = "removing" /\ Goto(f, "clearing") /\ "clearing" \in Steps
    BY <1>1, <1>13 DEF RemoveConfirmed, BusyHolds, Busy, Steps
  <2>2. TypeOK'
    BY <1>1, <1>13, <2>1, GotoTyped DEF RemoveConfirmed, TypeOK, Answer
  <2>3. DiskFresh' /\ (server \in Published \cup {Absent})'
    BY <1>1, <1>13, <2>1 DEF RemoveConfirmed, TypeOK, Goto, DiskFresh, Fallback
  <2>4. StoreFactsOf(f)'
    BY <1>1, <1>13, <2>1 DEF RemoveConfirmed, TypeOK, Goto, StoreFactsOf
  <2> QED
    BY <2>1, <2>2, <2>3, <2>4, GotoSuffices
<1>14. CASE RemoveUnconfirmed(f)
  <2>1. Holds(f) /\ Report(f, known) /\ pc[f] = "removing"
    BY <1>1, <1>14 DEF RemoveUnconfirmed, BusyHolds, Busy, Steps, Leave
  <2>2. TypeOK'
    BY <1>1, <1>14, <2>1, ReportTyped DEF RemoveUnconfirmed, TypeOK, Answer
  <2>3. DiskFresh' /\ (server \in Published \cup {Absent})'
    BY <1>1, <1>14, <2>1 DEF RemoveUnconfirmed, TypeOK, Report, DiskFresh, Fallback, IInv
  <2> QED
    BY <2>1, <2>2, <2>3, ReportSuffices
<1> QED
  BY <1>3, <1>4, <1>5, <1>6, <1>7, <1>8, <1>9, <1>10, <1>11, <1>12, <1>13, <1>14 DEF Advance

\* What the environment does, and a crash, preserve it.
LEMMA EnvironmentPreserves ==
    ASSUME IInv, ServerChanges \/ FailoverSwitches \/ Crash PROVE IInv'
<1> USE DEF disk
<1>1. budget' \in [{"calls", "changes", "switches", "crashes"} -> Nat]
  BY DEF IInv, TypeOK, ServerChanges, FailoverSwitches, Crash, Spend
<1>2. CASE ServerChanges \/ FailoverSwitches
  <2>1. /\ UNCHANGED <<snap, legacy, queue, pc, ans, origin, known, ioError>>
        /\ server' \in Published \cup {Absent} /\ failover' \in BOOLEAN
    BY <1>2 DEF ServerChanges, FailoverSwitches, IInv, TypeOK
  <2>2. TypeOK'
    BY <1>1, <2>1, ConfigReadAssumption DEF IInv, TypeOK, Answer
  <2>3. BusyHolds' /\ StoreFacts' /\ DiskFresh'
    BY <2>1 DEF IInv, BusyHolds, Holds, StoreFacts, StoreFactsOf, DiskFresh, Fallback
  <2> QED
    BY <2>1, <2>2, <2>3 DEF IInv
<1>3. CASE Crash
  <2>1. Fallback \in File
    BY DEF IInv, TypeOK, Fallback, File
  <2>2. TypeOK'
    <3>1. known' \in Answer
      BY <1>3, <2>1 DEF Crash, Answer, File
    <3>2. pc' \in [Flow -> Steps] /\ queue' \in Seq(Flow) /\ ioError' \in BOOLEAN
      <4>1. <<>> \in Seq(Flow)
        OBVIOUS
      <4>2. queue' \in Seq(Flow) /\ ioError' \in BOOLEAN
        BY <1>3, <4>1 DEF Crash
      <4>3. pc' \in [Flow -> Steps]
        BY <1>3 DEF Crash, Steps
      <4> QED
        BY <4>2, <4>3
    <3> QED
      BY <1>1, <1>3, <3>1, <3>2 DEF Crash, IInv, TypeOK
  <2>3. BusyHolds' /\ StoreFacts'
    BY <1>3 DEF Crash, BusyHolds, Busy, StoreFacts, StoreFactsOf
  <2>4. DiskFresh'
    BY <1>3, <2>1, ConfigReadAssumption DEF Crash, DiskFresh, Fallback, Stored, File
  <2> QED
    BY <1>3, <2>2, <2>3, <2>4 DEF Crash, IInv
<1> QED
  BY <1>2, <1>3

\* Typing, mutual exclusion, the holder's facts and freshness of the disk are
\* together an invariant of every flow that goes through the snapshot lock.
THEOREM Inductive == Spec => []IInv
<1>1. IInv /\ [Next]_vars => IInv'
  <2> SUFFICES ASSUME IInv, [Next]_vars PROVE IInv'
    OBVIOUS
  <2>1. CASE UNCHANGED vars
    <3>1. UNCHANGED <<server, failover, snap, legacy, queue, pc, ans, origin, known, ioError, budget>>
      BY <2>1 DEF vars, disk
    <3> QED
      BY <3>1 DEF IInv, TypeOK, BusyHolds, Holds, StoreFacts, StoreFactsOf, DiskFresh, Fallback
  <2>2. CASE Next
    BY <2>2, CallPreserves, AdvancePreserves, EnvironmentPreserves DEF Next
  <2> QED
    BY <2>1, <2>2
<1> QED
  BY InitEstablishes, <1>1, PTL DEF Spec

\* Every state has the declared types.
THEOREM TypeCorrect == Spec => []TypeOK
<1>1. IInv => TypeOK
  BY DEF IInv
<1> QED
  BY Inductive, <1>1, PTL

\* A fallback read shows the last answer a caller was given: whatever the
\* number of overlapping reads and removals, the interleaving, failed requests,
\* crashes and disk errors, no removed or replaced content comes back
\* (disaster_recovery.ts:65-98), as long as the empty content does not meet a
\* legacy snapshot.
THEOREM NoResurrection == Spec => [](NoEmptyOverLegacy => FallbackIsLastAnswer)
<1>1. IInv => (NoEmptyOverLegacy => FallbackIsLastAnswer)
  BY DEF IInv, DiskFresh, FallbackIsLastAnswer, Storing
<1> QED
  BY Inductive, <1>1, PTL

\* Over gRPC no intermediate state of the disk, the one a crash would leave
\* included, shows anything but the last answer or the one being stored
\* (snapshot.ts:61-90, the temporary file and its rename).
THEOREM CrashSafe == Spec => []CrashShowsNoThirdContent
<1>1. IInv => CrashShowsNoThirdContent
  BY DEF IInv, DiskFresh, StoreFacts, StoreFactsOf, NoEmptyOverLegacy, CrashShowsNoThirdContent
<1> QED
  BY Inductive, <1>1, PTL
=============================================================================
