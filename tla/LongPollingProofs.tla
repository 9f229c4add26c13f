-------------------------- MODULE LongPollingProofs --------------------------
(***************************************************************************)
(* Proofs about LongPolling for every set of listeners and contents and    *)
(* every bound.  That a subscribed key has a loop needs to know that the   *)
(* loop waits for its reads (LoopWaits) and ends for nobody; that the last *)
(* call of a listener says what the item has needs the same of what is     *)
(* queued, whoever listens (Queued), since a listener may come while an    *)
(* emission waits.                                                         *)
(***************************************************************************)
EXTENDS LongPolling, SequenceTheorems, TLAPS

\* The loop waits for the read it began; what a check of the failover file
\* holds is in the map or was.
LoopWaits ==
    /\ reads[Loop] # "idle" => loop = "sync"
    /\ \A r \in Reader : reads[r] = "held" => r = Loop
    /\ loop \in {"stat", "file"} => item # NoItem \/ stale # NoItem

\* An item has listeners, and a closed client no item.
ItemHasListeners ==
    /\ item # NoItem => listeners # {}
    /\ closed => item = NoItem

\* The last emission queued says what the item has, or the item has nothing.
Queued ==
    item # NoItem /\ ~stray /\ immediates # <<>>
        => item.content \in {Unset, Last(immediates)}

IInv ==
    /\ TypeOK /\ PollingRuns /\ LoopWaits
    /\ ItemHasListeners /\ Queued /\ ListenersInformed
-----------------------------------------------------------------------------
\* The initial states satisfy the inductive invariant.
LEMMA InitEstablishes == Init => IInv
<1> SUFFICES ASSUME Init PROVE IInv
  OBVIOUS
<1>1. 1 \in Version /\ Loop \in Reader /\ 0 \in 0 .. MaxEdits
  BY LongPollingAssumption DEF Version, Reader, Loop
<1>2. TypeOK
  <2>1. file \in [mtime : 0 .. MaxEdits, content : Local \cup {NoContent}]
    BY <1>1 DEF Init
  <2>2. immediates \in Seq(Content) /\ batch \in Content /\ told \in [Listener -> Content \cup {Unset}]
    BY DEF Init, Content
  <2>3. reads \in [Reader -> {"idle", "queued", "fetching", "held"}]
    BY DEF Init
  <2>4. /\ calls \in 0 .. MaxCalls /\ subs \in 0 .. MaxSubs /\ changes \in 0 .. MaxChanges
        /\ edits \in 0 .. MaxEdits /\ faults \in 0 .. MaxFaults /\ mtime \in 0 .. MaxEdits
    BY LongPollingAssumption DEF Init
  <2>5. loop \in {"off", "top", "stat", "file", "probe", "poll", "sync", "sleep"}
    BY DEF Init
  <2> QED
    BY <1>1, <2>1, <2>2, <2>3, <2>4, <2>5 DEF Init, TypeOK, Out
<1>3. PollingRuns /\ LoopWaits
  BY <1>1 DEF Init, PollingRuns, LoopWaits
<1>4. ItemHasListeners /\ Queued /\ ListenersInformed
  BY DEF Init, ItemHasListeners, Queued, ListenersInformed
<1> QED
  BY <1>2, <1>3, <1>4 DEF IInv
-----------------------------------------------------------------------------
\* The types of the variables a synchronisation and a read touch.
SyncTypes ==
    /\ item \in Item \cup {NoItem} /\ immediates \in Seq(Content)
    /\ stray \in BOOLEAN /\ overwritten \in BOOLEAN

LoopTypes ==
    /\ polling \in BOOLEAN
    /\ loop \in {"off", "top", "stat", "file", "probe", "poll", "sync", "sleep"}
    /\ mtime \in 0 .. MaxEdits /\ probed \in Content \cup {Out}
    /\ stale \in Item \cup {NoItem}

ReadTypes ==
    /\ reads \in [Reader -> {"idle", "queued", "fetching", "held"}]
    /\ batch \in Content /\ snapshot \in Version \cup {NoContent}
    /\ faults \in 0 .. MaxFaults

EnvTypes ==
    /\ server \in Version \cup {NoContent}
    /\ file \in [mtime : 0 .. MaxEdits, content : Local \cup {NoContent}]
    /\ changes \in 0 .. MaxChanges /\ edits \in 0 .. MaxEdits

AppTypes ==
    /\ listeners \in SUBSET Listener /\ told \in [Listener -> Content \cup {Unset}]
    /\ calls \in 0 .. MaxCalls /\ subs \in 0 .. MaxSubs
    /\ closed \in BOOLEAN /\ others \in BOOLEAN

LEMMA Types == TypeOK <=> SyncTypes /\ LoopTypes /\ ReadTypes /\ EnvTypes /\ AppTypes
  BY DEF TypeOK, SyncTypes, LoopTypes, ReadTypes, EnvTypes, AppTypes

\* An item with other contents is an item.
LEMMA Items ==
    /\ NewItem \in Item /\ NewItem # NoItem /\ NewItem.content = Unset
    /\ \A i \in Item :
          /\ i # NoItem
          /\ \A c \in Content : [i EXCEPT !.content = c] \in Item
          /\ [i EXCEPT !.useFailover = FALSE, !.version = 0] \in Item
    /\ \A c \in Content, v \in 0 .. MaxEdits :
          [content |-> c, useFailover |-> TRUE, version |-> v] \in Item
<1>1. NewItem \in Item /\ NewItem.content = Unset
  BY LongPollingAssumption DEF Item, NewItem
<1>2. ASSUME NEW i \in Item
      PROVE  /\ i # NoItem
             /\ \A c \in Content : [i EXCEPT !.content = c] \in Item
             /\ [i EXCEPT !.useFailover = FALSE, !.version = 0] \in Item
  <2>1. \A c \in Content : [i EXCEPT !.content = c] \in Item
    BY DEF Item
  <2> DEFINE j == [i EXCEPT !.useFailover = FALSE]
  <2>2. j \in Item
    BY DEF Item
  <2> HIDE DEF j
  <2>3. [j EXCEPT !.version = 0] \in Item
    BY <2>2, LongPollingAssumption DEF Item
  <2> QED
    BY <2>1, <2>3, NoItemAssumption DEF j
<1>3. \A c \in Content, v \in 0 .. MaxEdits :
         [content |-> c, useFailover |-> TRUE, version |-> v] \in Item
  BY DEF Item
<1> QED
  BY <1>1, <1>2, <1>3

\* Readers and contents.
LEMMA Sets ==
    /\ Loop \in Reader /\ Reader \subseteq Nat
    /\ NoContent \in Content /\ Version \subseteq Content /\ Local \subseteq Content
  BY LongPollingAssumption DEF Loop, Reader, Content

\* A synchronisation.
LEMMA SyncTyped ==
    ASSUME SyncTypes, NEW c \in Content, Sync(c) PROVE SyncTypes'
<1>1. CASE UNCHANGED itemVars
  BY <1>1 DEF itemVars, SyncTypes
<1>2. CASE ~UNCHANGED itemVars
  <2>1. item \in Item /\ item' = [item EXCEPT !.content = c]
    BY <1>2 DEF Sync, SyncTypes
  <2>2. item' \in Item
    BY <2>1, Items
  <2>3. immediates' = Append(immediates, c) /\ stray' = FALSE
        /\ overwritten' = (overwritten \/ item.useFailover)
    BY <1>2 DEF Sync
  <2>4. overwritten' \in BOOLEAN
    BY <2>1, <2>3 DEF SyncTypes, Item
  <2>5. immediates' \in Seq(Content)
    BY <2>3 DEF SyncTypes
  <2> QED
    BY <2>2, <2>3, <2>4, <2>5 DEF SyncTypes
<1> QED
  BY <1>1, <1>2

\* The end of a read.
LEMMA ReadEndsTyped ==
    ASSUME TypeOK, NEW r \in Reader, NEW c \in Content, ReadEnds(r, c)
    PROVE  /\ SyncTypes' /\ LoopTypes' /\ batch' \in Content
           /\ reads' \in [Reader -> {"idle", "queued", "fetching", "held"}]
<1>1. SyncTypes /\ LoopTypes /\ ReadTypes
  BY Types
<1>2. CASE Sync(c) /\ GoesOn(r) /\ reads' = [reads EXCEPT ![r] = "idle"] /\ UNCHANGED batch
  <2>1. SyncTypes'
    BY <1>1, <1>2, SyncTyped
  <2>2. LoopTypes'
    BY <1>1, <1>2 DEF GoesOn, StartLongPulling, LoopTypes
  <2>3. /\ batch' \in Content
        /\ reads' \in [Reader -> {"idle", "queued", "fetching", "held"}]
    BY <1>1, <1>2 DEF ReadTypes
  <2> QED
    BY <2>1, <2>2, <2>3
<1>3. CASE /\ reads' = [reads EXCEPT ![r] = "held"] /\ batch' = c
           /\ UNCHANGED <<itemVars, loopVars>>
  BY <1>1, <1>3 DEF itemVars, loopVars, SyncTypes, LoopTypes, ReadTypes
<1> QED
  BY <1>2, <1>3 DEF ReadEnds

\* A look at the failover file, and what fails.
LEMMA FaultsTyped ==
    ASSUME TypeOK
    PROVE  /\ \A found \in BOOLEAN : Looks(found) => faults' \in 0 .. MaxFaults
           /\ Faulty => faults' \in 0 .. MaxFaults
  BY LongPollingAssumption DEF Looks, Faulty, TypeOK

\* Every step keeps the types.
LEMMA TypeKept == ASSUME TypeOK, LoopWaits, [Next]_vars PROVE TypeOK'
<1>1. SyncTypes /\ LoopTypes /\ ReadTypes /\ EnvTypes /\ AppTypes
  BY Types
<1>2. ASSUME AppCalls
      PROVE  /\ calls' \in 0 .. MaxCalls /\ EnvTypes' /\ others' \in BOOLEAN
             /\ UNCHANGED <<snapshot, faults, batch, polling, loop, mtime, probed, immediates>>
  <2>1. calls' \in 0 .. MaxCalls
    BY <1>1, <1>2, LongPollingAssumption DEF AppCalls, AppTypes
  <2> QED
    BY <1>1, <1>2, <2>1 DEF AppCalls, envVars, EnvTypes, AppTypes
<1>3. ASSUME NEW l \in Listener, Subscribe(l) PROVE TypeOK'
  <2>1. /\ AppCalls /\ listeners' = listeners \cup {l}
        /\ UNCHANGED <<stale, closed, stray, overwritten>>
    BY <1>3 DEF Subscribe
  <2>2. LoopTypes'
    BY <1>1, <1>2, <2>1 DEF LoopTypes
  <2>3. CASE item = NoItem
    <3>1. subs' = subs + 1 /\ item' = NewItem /\ UNCHANGED told /\ subs < MaxSubs
          /\ reads' = [reads EXCEPT ![subs'] = "queued"]
      BY <1>3, <2>3 DEF Subscribe
    <3>2. SyncTypes'
      BY <1>1, <1>2, <2>1, <3>1, Items DEF SyncTypes
    <3>3. ReadTypes'
      BY <1>1, <1>2, <2>1, <3>1 DEF ReadTypes
    <3>4. subs' \in 0 .. MaxSubs
      BY <1>1, <3>1, LongPollingAssumption DEF AppTypes
    <3>5. AppTypes'
      BY <1>1, <1>2, <2>1, <3>1, <3>4 DEF AppTypes
    <3> QED
      BY <1>2, <2>1, <2>2, <3>2, <3>3, <3>5, Types DEF TypeOK, SyncTypes, LoopTypes,
         ReadTypes, EnvTypes, AppTypes
  <2>4. CASE item # NoItem
    <3>1. told' = [told EXCEPT ![l] = item.content] /\ UNCHANGED <<subs, item, reads>>
      BY <1>3, <2>4 DEF Subscribe
    <3>2. item.content \in Content \cup {Unset}
      BY <1>1, <2>4 DEF SyncTypes, Item
    <3>3. SyncTypes' /\ ReadTypes'
      BY <1>1, <1>2, <2>1, <3>1 DEF SyncTypes, ReadTypes
    <3>4. AppTypes'
      BY <1>1, <1>2, <2>1, <3>1, <3>2 DEF AppTypes
    <3> QED
      BY <1>2, <2>1, <2>2, <3>3, <3>4 DEF TypeOK, SyncTypes, LoopTypes,
         ReadTypes, EnvTypes, AppTypes
  <2> QED
    BY <2>3, <2>4
<1>4. ASSUME NEW gone \in SUBSET listeners, UnSubscribe(gone) PROVE TypeOK'
  <2>1. /\ AppCalls /\ listeners' = listeners \ gone
        /\ told' = [l \in Listener |-> IF l \in gone THEN Unset ELSE told[l]]
        /\ UNCHANGED <<subs, reads, closed>>
        /\ ItemLeaves \/ UNCHANGED <<item, stale, stray, overwritten>>
    BY <1>4 DEF UnSubscribe
  <2>2. told' \in [Listener -> Content \cup {Unset}]
    BY <1>1, <2>1 DEF AppTypes
  <2>3. AppTypes'
    BY <1>1, <1>2, <2>1, <2>2 DEF AppTypes
  <2>4. SyncTypes' /\ LoopTypes' /\ ReadTypes'
    BY <1>1, <1>2, <2>1 DEF ItemLeaves, SyncTypes, LoopTypes, ReadTypes
  <2> QED
    BY <1>2, <2>1, <2>3, <2>4 DEF TypeOK, SyncTypes, LoopTypes, ReadTypes, EnvTypes, AppTypes
<1>5. CASE Close
  <2>1. SyncTypes' /\ LoopTypes' /\ AppTypes'
    BY <1>1, <1>5 DEF Close, ItemLeaves, SyncTypes, LoopTypes, AppTypes
  <2>2. ReadTypes' /\ EnvTypes'
    BY <1>1, <1>5 DEF Close, readVars, envVars, ReadTypes, EnvTypes
  <2> QED
    BY <2>1, <2>2 DEF TypeOK, SyncTypes, LoopTypes, ReadTypes, EnvTypes, AppTypes
<1>6. CASE RunImmediate
  <2>1. Head(immediates) \in Content /\ Tail(immediates) \in Seq(Content)
    BY <1>1, <1>6 DEF RunImmediate, SyncTypes
  <2>2. SyncTypes' /\ AppTypes'
    BY <1>1, <1>6, <2>1 DEF RunImmediate, SyncTypes, AppTypes
  <2>3. LoopTypes' /\ ReadTypes' /\ EnvTypes'
    BY <1>1, <1>6 DEF RunImmediate, readVars, envVars, loopVars, ReadTypes, EnvTypes, LoopTypes
  <2> QED
    BY <2>2, <2>3 DEF TypeOK, SyncTypes, LoopTypes, ReadTypes, EnvTypes, AppTypes
<1>7. ASSUME UNCHANGED <<envVars, appVars, others>>, SyncTypes', LoopTypes', ReadTypes'
      PROVE  TypeOK'
  <2>1. EnvTypes' /\ AppTypes'
    BY <1>1, <1>7 DEF envVars, appVars, EnvTypes, AppTypes
  <2> QED
    BY <1>7, <2>1 DEF TypeOK, SyncTypes, LoopTypes, ReadTypes, EnvTypes, AppTypes
<1>8. ASSUME NEW r \in Reader, ReadFile(r) PROVE TypeOK'
  <2>1. CASE ReadEnds(r, file.content)
    <3>1. file.content \in Content
      BY <1>1, Sets DEF EnvTypes
    <3> QED
      BY <1>1, <1>7, <1>8, <2>1, <3>1, ReadEndsTyped, FaultsTyped DEF ReadFile, ReadTypes
  <2>2. CASE /\ reads' = [reads EXCEPT ![r] = "fetching"]
             /\ UNCHANGED <<batch, itemVars, loopVars>>
    <3>1. SyncTypes' /\ LoopTypes' /\ ReadTypes'
      BY <1>1, <1>8, <2>2, FaultsTyped DEF ReadFile, itemVars, loopVars, SyncTypes, LoopTypes, ReadTypes
    <3> QED
      BY <1>7, <1>8, <3>1 DEF ReadFile
  <2> QED
    BY <1>8, <2>1, <2>2 DEF ReadFile
<1>9. ASSUME NEW r \in Reader, FetchAnswered(r) PROVE TypeOK'
  <2>1. server \in Content /\ snapshot' \in Version \cup {NoContent}
    BY <1>1, <1>9, Sets DEF FetchAnswered, EnvTypes, ReadTypes
  <2> QED
    BY <1>1, <1>7, <1>9, <2>1, ReadEndsTyped, FaultsTyped DEF FetchAnswered, ReadTypes
<1>10. ASSUME NEW r \in Reader, FetchFailed(r) PROVE TypeOK'
  <2>1. faults' \in 0 .. MaxFaults
    BY <1>10, FaultsTyped DEF FetchFailed
  <2>2. CASE snapshot # NoContent /\ ReadEnds(r, snapshot)
    <3>1. snapshot \in Content
      BY <1>1, Sets DEF ReadTypes
    <3> QED
      BY <1>1, <1>7, <1>10, <2>1, <2>2, <3>1, ReadEndsTyped DEF FetchFailed, ReadTypes
  <2>3. CASE ReadFails(r)
    <3>1. SyncTypes' /\ LoopTypes' /\ ReadTypes'
      BY <1>1, <1>10, <2>1, <2>3 DEF FetchFailed, ReadFails, GoesOn, StartLongPulling,
         itemVars, SyncTypes, LoopTypes, ReadTypes
    <3> QED
      BY <1>7, <1>10, <3>1 DEF FetchFailed
  <2> QED
    BY <1>10, <2>2, <2>3 DEF FetchFailed
<1>11. CASE BatchApplies
  <2>1. SyncTypes'
    BY <1>1, <1>11, SyncTyped DEF BatchApplies, ReadTypes
  <2>2. LoopTypes' /\ ReadTypes'
    BY <1>1, <1>11, Sets DEF BatchApplies, GoesOn, StartLongPulling, LoopTypes, ReadTypes
  <2> QED
    BY <1>7, <1>11, <2>1, <2>2 DEF BatchApplies
<1>12. ASSUME LoopAndFaults, SyncTypes', LoopTypes', faults' \in 0 .. MaxFaults,
              reads' \in [Reader -> {"idle", "queued", "fetching", "held"}]
       PROVE  TypeOK'
  BY <1>1, <1>7, <1>12 DEF LoopAndFaults, ReadTypes
<1>13. ASSUME LoopOnly, LoopTypes', UNCHANGED <<itemVars, reads>> PROVE TypeOK'
  BY <1>1, <1>12, <1>13 DEF LoopOnly, itemVars, SyncTypes, ReadTypes
<1>14. CASE Top \/ Probe \/ SleepEnds
  <2>1. LoopTypes'
    <3>1. CASE Top \/ SleepEnds
      BY <1>1, <3>1 DEF Top, SleepEnds, LoopTypes
    <3>2. CASE Probe
      <4>1. probed' \in Content \cup {Out}
        BY <1>1, <3>2, Sets DEF Probe, SyncTypes, Item
      <4> QED
        BY <1>1, <3>2, <4>1 DEF Probe, LoopTypes
    <3> QED
      BY <1>14, <3>1, <3>2
  <2> QED
    BY <1>13, <1>14, <2>1 DEF Top, Probe, SleepEnds
<1>15. ASSUME loop \in {"stat", "file"} PROVE Held \in Item
  BY <1>1, <1>15 DEF Held, LoopWaits, SyncTypes, LoopTypes
<1>16. CASE Stat
  <2>1. LoopTypes'
    <3>1. file.mtime \in 0 .. MaxEdits
      BY <1>1 DEF EnvTypes
    <3>2. mtime' \in 0 .. MaxEdits /\ loop' \in {"probe", "file"}
      BY <1>1, <1>16, <3>1 DEF Stat, LoopTypes
    <3>3. stale' \in Item \cup {NoItem}
      BY <1>1, <1>16 DEF Stat, LoopTypes
    <3>4. UNCHANGED <<polling, probed>>
      BY <1>16 DEF Stat
    <3>5. polling' \in BOOLEAN /\ probed' \in Content \cup {Out}
      BY <1>1, <3>4 DEF LoopTypes
    <3> QED
      BY <3>2, <3>3, <3>5 DEF LoopTypes
  <2>2. item' \in Item \cup {NoItem} /\ overwritten' \in BOOLEAN
    BY <1>1, <1>15, <1>16, Items DEF Stat, SetHeld, SyncTypes
  <2> QED
    BY <1>1, <1>12, <1>16, <2>1, <2>2, FaultsTyped DEF Stat, SyncTypes, ReadTypes
<1>17. CASE File
  <2>1. LoopTypes'
    BY <1>1, <1>17, LongPollingAssumption DEF File, LoopTypes
  <2>2. SyncTypes'
    <3>1. CASE UNCHANGED itemVars
      BY <1>1, <3>1 DEF itemVars, SyncTypes
    <3>2. CASE EnterFailover
      <4>1. file.content \in Content
        BY <1>1, Sets DEF EnvTypes
      <4>2. [content |-> file.content, useFailover |-> TRUE, version |-> mtime] \in Item
        BY <1>1, <4>1, Items DEF LoopTypes
      <4>3. item' \in Item \cup {NoItem}
        BY <1>1, <3>2, <4>2 DEF EnterFailover, SetHeld, SyncTypes
      <4>4. immediates' \in Seq(Content)
        BY <1>1, <3>2, <4>1 DEF EnterFailover, SyncTypes
      <4>5. stray' \in BOOLEAN /\ overwritten' \in BOOLEAN
        BY <1>1, <3>2 DEF EnterFailover, SyncTypes
      <4> QED
        BY <4>3, <4>4, <4>5 DEF SyncTypes
    <3> QED
      BY <1>17, <3>1, <3>2 DEF File
  <2> QED
    BY <1>1, <1>12, <1>17, <2>1, <2>2, FaultsTyped DEF File, ReadTypes
<1>18. CASE PollAnswered
  <2>1. LoopTypes' /\ reads' \in [Reader -> {"idle", "queued", "fetching", "held"}]
    BY <1>1, <1>18 DEF PollAnswered, LoopTypes, ReadTypes
  <2>2. SyncTypes'
    BY <1>1, <1>18 DEF PollAnswered, itemVars, SyncTypes
  <2> QED
    BY <1>1, <1>12, <1>18, <2>1, <2>2 DEF PollAnswered, LoopOnly, ReadTypes
<1>19. CASE PollFailed
  <2>1. faults' \in 0 .. MaxFaults
    BY <1>19, FaultsTyped DEF PollFailed
  <2>2. SyncTypes' /\ LoopTypes' /\ ReadTypes'
    BY <1>1, <1>19, <2>1 DEF PollFailed, itemVars, SyncTypes, LoopTypes, ReadTypes
  <2> QED
    BY <1>7, <1>19, <2>2 DEF PollFailed
<1>20. ASSUME UNCHANGED <<appVars, loopVars, itemVars, readVars>>, EnvTypes', others' \in BOOLEAN
       PROVE  TypeOK'
  <2>1. SyncTypes' /\ LoopTypes'
    BY <1>1, <1>20 DEF loopVars, itemVars, SyncTypes, LoopTypes
  <2>2. ReadTypes' /\ AppTypes'
    BY <1>1, <1>20 DEF appVars, readVars, ReadTypes, AppTypes
  <2> QED
    BY <1>20, <2>1, <2>2 DEF TypeOK, SyncTypes, LoopTypes, ReadTypes, EnvTypes, AppTypes
<1>21. CASE ServerChanges
  <2>1. changes' \in Version
    BY <1>1, <1>21, LongPollingAssumption DEF ServerChanges, EnvTypes, Version
  <2>2. EnvTypes' /\ others' \in BOOLEAN
    BY <1>1, <1>21, <2>1 DEF ServerChanges, EnvTypes, AppTypes, Version
  <2> QED
    BY <1>20, <1>21, <2>2 DEF ServerChanges
<1>22. CASE FailoverEdited
  <2>1. edits' \in 0 .. MaxEdits
    BY <1>1, <1>22, LongPollingAssumption DEF FailoverEdited, EnvTypes
  <2>2. EnvTypes' /\ others' \in BOOLEAN
    BY <1>1, <1>22, <2>1 DEF FailoverEdited, EnvTypes, AppTypes
  <2> QED
    BY <1>20, <1>22, <2>2 DEF FailoverEdited
<1>23. CASE OthersLeave \/ UNCHANGED vars
  <2>1. EnvTypes' /\ others' \in BOOLEAN
    BY <1>1, <1>23 DEF OthersLeave, vars, envVars, EnvTypes, AppTypes
  <2> QED
    BY <1>20, <1>23, <2>1 DEF OthersLeave, vars
<1> QED
  BY <1>3, <1>4, <1>5, <1>6, <1>8, <1>9, <1>10, <1>11, <1>14, <1>16, <1>17, <1>18, <1>19,
     <1>21, <1>22, <1>23 DEF Next, Reading, LoopStep
-----------------------------------------------------------------------------
\* A step that leaves the loop and the reads alone and makes no item.
LEMMA LoopLeftAlone ==
    ASSUME PollingRuns, LoopWaits, UNCHANGED <<polling, loop, reads>>,
           item' # NoItem => item # NoItem,
           loop \in {"stat", "file"} => item' # NoItem \/ stale' # NoItem
    PROVE  PollingRuns' /\ LoopWaits'
  BY DEF PollingRuns, LoopWaits

\* The end of a read, with what was read or without.
LEMMA ReadOver ==
    ASSUME TypeOK, PollingRuns, LoopWaits, NEW r \in Reader, reads[r] # "idle",
           item' # NoItem <=> item # NoItem, UNCHANGED stale,
           \/ GoesOn(r) /\ reads' = [reads EXCEPT ![r] = "idle"]
           \/ /\ r = Loop /\ UNCHANGED <<polling, loop>>
              /\ \E step \in {"held", "fetching"} : reads' = [reads EXCEPT ![r] = step]
           \/ UNCHANGED <<polling, loop>> /\ reads' = [reads EXCEPT ![r] = "fetching"]
    PROVE  PollingRuns' /\ LoopWaits'
<1>1. reads \in [Reader -> {"idle", "queued", "fetching", "held"}] /\ Loop \in Reader
  BY Sets DEF TypeOK
<1>2. CASE GoesOn(r) /\ reads' = [reads EXCEPT ![r] = "idle"]
  <2>1. CASE r = Loop
    <3>1. loop = "sync" /\ loop' = "top" /\ UNCHANGED polling /\ polling
      BY <1>2, <2>1 DEF GoesOn, LoopWaits, PollingRuns
    <3>2. PollingRuns'
      BY <3>1 DEF PollingRuns
    <3>3. LoopWaits'
      BY <1>1, <1>2, <2>1, <3>1 DEF LoopWaits
    <3> QED
      BY <3>2, <3>3
  <2>2. CASE r # Loop
    <3>1. polling' = TRUE /\ loop' = IF polling THEN loop ELSE "top"
      BY <1>2, <2>2 DEF GoesOn, StartLongPulling, PollingRuns
    <3>2. PollingRuns'
      BY <3>1 DEF PollingRuns
    <3>3. reads'[Loop] = reads[Loop]
      BY <1>1, <1>2, <2>2
    <3>4. LoopWaits'
      BY <1>1, <1>2, <3>1, <3>3 DEF LoopWaits, PollingRuns
    <3> QED
      BY <3>2, <3>4
  <2> QED
    BY <2>1, <2>2
<1>3. CASE /\ r = Loop /\ UNCHANGED <<polling, loop>>
           /\ \E step \in {"held", "fetching"} : reads' = [reads EXCEPT ![r] = step]
  BY <1>1, <1>3 DEF PollingRuns, LoopWaits
<1>4. CASE UNCHANGED <<polling, loop>> /\ reads' = [reads EXCEPT ![r] = "fetching"]
  BY <1>1, <1>4 DEF PollingRuns, LoopWaits
<1> QED
  BY <1>2, <1>3, <1>4

\* A synchronisation neither makes an item nor takes it away.
LEMMA SyncKeepsItem ==
    ASSUME TypeOK, NEW c \in Content, Sync(c) PROVE item' # NoItem <=> item # NoItem
<1>1. CASE UNCHANGED itemVars
  BY <1>1 DEF itemVars
<1>2. CASE item \in Item /\ item' = [item EXCEPT !.content = c]
  BY <1>2, Items
<1> QED
  BY <1>1, <1>2 DEF Sync, TypeOK

LEMMA ReadEndsKeeps ==
    ASSUME TypeOK, PollingRuns, LoopWaits, NEW r \in Reader, NEW c \in Content,
           reads[r] # "idle", ReadEnds(r, c)
    PROVE  PollingRuns' /\ LoopWaits' /\ (item' # NoItem <=> item # NoItem)
<1>1. item' # NoItem <=> item # NoItem
  BY SyncKeepsItem DEF ReadEnds, itemVars
<1>2. UNCHANGED stale
  BY DEF ReadEnds, GoesOn, loopVars
<1> QED
  BY <1>1, <1>2, ReadOver DEF ReadEnds, loopVars

\* A key that is subscribed has its loop, and a client that is closed none.
LEMMA LoopKept ==
    ASSUME TypeOK, PollingRuns, LoopWaits, ItemHasListeners, [Next]_vars
    PROVE  PollingRuns' /\ LoopWaits' /\ ItemHasListeners'
<1>1. /\ reads \in [Reader -> {"idle", "queued", "fetching", "held"}] /\ Loop \in Reader
      /\ item \in Item \cup {NoItem} /\ stale \in Item \cup {NoItem}
      /\ snapshot \in Version \cup {NoContent} /\ server \in Version \cup {NoContent}
      /\ file.content \in Local \cup {NoContent} /\ batch \in Content /\ subs \in 0 .. MaxSubs
      /\ mtime \in 0 .. MaxEdits
  BY Sets DEF TypeOK
<1>2. ASSUME NEW l \in Listener, Subscribe(l)
      PROVE  PollingRuns' /\ LoopWaits' /\ ItemHasListeners'
  <2>1. ~closed /\ UNCHANGED <<polling, loop, closed, stale>> /\ listeners' # {}
    BY <1>2 DEF Subscribe, AppCalls
  <2>2. ItemHasListeners'
    BY <2>1 DEF ItemHasListeners
  <2>3. CASE item = NoItem
    <3>1. /\ subs' = subs + 1 /\ subs < MaxSubs /\ item' = NewItem
          /\ reads' = [reads EXCEPT ![subs'] = "queued"]
      BY <1>2, <2>3 DEF Subscribe
    <3>2. subs' \in Reader \ {Loop}
      BY <1>1, <3>1, LongPollingAssumption DEF Reader, Loop
    <3>3. reads'[subs'] = "queued" /\ reads'[Loop] = reads[Loop]
      BY <1>1, <3>1, <3>2
    <3>4. PollingRuns'
      BY <2>1, <3>2, <3>3 DEF PollingRuns
    <3>5. LoopWaits'
      BY <1>1, <2>1, <2>3, <3>1, <3>2, <3>3 DEF LoopWaits
    <3> QED
      BY <2>2, <3>4, <3>5
  <2>4. CASE item # NoItem
    <3>1. UNCHANGED <<item, reads>>
      BY <1>2, <2>4 DEF Subscribe
    <3> QED
      BY <2>1, <2>2, <2>4, <3>1, LoopLeftAlone
  <2> QED
    BY <2>3, <2>4
<1>3. ASSUME ItemLeaves, UNCHANGED <<polling, loop, reads>>
      PROVE  PollingRuns' /\ LoopWaits' /\ ItemHasListeners'
  BY <1>3, LoopLeftAlone DEF ItemLeaves, LoopWaits, ItemHasListeners
<1>4. ASSUME NEW gone \in SUBSET listeners, UnSubscribe(gone)
      PROVE  PollingRuns' /\ LoopWaits' /\ ItemHasListeners'
  <2>1. UNCHANGED <<polling, loop, reads, closed>>
    BY <1>4 DEF UnSubscribe, AppCalls
  <2>2. CASE listeners' = {}
    BY <1>3, <1>4, <2>1, <2>2 DEF UnSubscribe
  <2>3. CASE listeners' # {}
    <3>1. UNCHANGED <<item, stale>>
      BY <1>4, <2>3 DEF UnSubscribe
    <3>2. PollingRuns' /\ LoopWaits'
      BY <2>1, <3>1, LoopLeftAlone DEF LoopWaits
    <3> QED
      BY <2>1, <2>3, <3>1, <3>2 DEF ItemHasListeners
  <2> QED
    BY <2>2, <2>3
<1>5. CASE Close
  BY <1>3, <1>5 DEF Close, readVars
<1>6. ASSUME UNCHANGED <<polling, loop, reads, item, stale, listeners, closed>>
      PROVE  PollingRuns' /\ LoopWaits' /\ ItemHasListeners'
  BY <1>6, LoopLeftAlone DEF LoopWaits, ItemHasListeners
<1>7. CASE \/ RunImmediate \/ ServerChanges \/ FailoverEdited \/ OthersLeave
           \/ UNCHANGED vars
  BY <1>6, <1>7 DEF RunImmediate, ServerChanges, FailoverEdited, OthersLeave, vars,
     appVars, loopVars, itemVars, readVars
<1>8. ASSUME UNCHANGED appVars, PollingRuns', LoopWaits', item' # NoItem => item # NoItem
      PROVE  PollingRuns' /\ LoopWaits' /\ ItemHasListeners'
  BY <1>8 DEF appVars, ItemHasListeners
<1>9. ASSUME NEW r \in Reader, ReadFile(r)
      PROVE  PollingRuns' /\ LoopWaits' /\ ItemHasListeners'
  <2>1. reads[r] # "idle" /\ UNCHANGED appVars
    BY <1>9 DEF ReadFile
  <2>2. CASE ReadEnds(r, file.content)
    <3>1. file.content \in Content
      BY <1>1, Sets
    <3> QED
      BY <1>8, <2>1, <2>2, <3>1, ReadEndsKeeps
  <2>3. CASE /\ reads' = [reads EXCEPT ![r] = "fetching"]
             /\ UNCHANGED <<batch, itemVars, loopVars>>
    <3>1. /\ UNCHANGED <<polling, loop, item, stale>>
          /\ reads' = [reads EXCEPT ![r] = "fetching"]
      BY <2>3 DEF itemVars, loopVars
    <3>2. PollingRuns' /\ LoopWaits'
      BY <2>1, <3>1, ReadOver
    <3> QED
      BY <1>8, <2>1, <3>1, <3>2
  <2> QED
    BY <1>9, <2>2, <2>3 DEF ReadFile
<1>10. ASSUME NEW r \in Reader, FetchAnswered(r)
       PROVE  PollingRuns' /\ LoopWaits' /\ ItemHasListeners'
  <2>1. reads[r] # "idle" /\ UNCHANGED appVars /\ ReadEnds(r, server) /\ server \in Content
    BY <1>1, <1>10, Sets DEF FetchAnswered
  <2> QED
    BY <1>8, <2>1, ReadEndsKeeps
<1>11. ASSUME NEW r \in Reader, FetchFailed(r)
       PROVE  PollingRuns' /\ LoopWaits' /\ ItemHasListeners'
  <2>1. reads[r] # "idle" /\ UNCHANGED appVars
    BY <1>11 DEF FetchFailed
  <2>2. CASE snapshot # NoContent /\ ReadEnds(r, snapshot)
    <3>1. ReadEnds(r, snapshot) /\ snapshot \in Content
      BY <1>1, <2>2, Sets
    <3> QED
      BY <1>8, <2>1, <3>1, ReadEndsKeeps
  <2>3. CASE ReadFails(r)
    <3>1. /\ GoesOn(r) /\ reads' = [reads EXCEPT ![r] = "idle"]
          /\ UNCHANGED <<item, stale>>
      BY <2>3 DEF ReadFails, itemVars, GoesOn
    <3>2. PollingRuns' /\ LoopWaits'
      BY <2>1, <3>1, ReadOver
    <3> QED
      BY <1>8, <2>1, <3>1, <3>2
  <2> QED
    BY <1>11, <2>2, <2>3 DEF FetchFailed
<1>12. CASE BatchApplies
  <2>1. /\ reads[Loop] # "idle" /\ UNCHANGED <<appVars, stale>> /\ GoesOn(Loop)
        /\ reads' = [reads EXCEPT ![Loop] = "idle"] /\ Sync(batch)
    BY <1>12 DEF BatchApplies, GoesOn
  <2>2. item' # NoItem <=> item # NoItem
    BY <1>1, <2>1, SyncKeepsItem
  <2>3. PollingRuns' /\ LoopWaits'
    BY <1>1, <2>1, <2>2, ReadOver
  <2> QED
    BY <1>8, <2>1, <2>2, <2>3
<1>13. ASSUME UNCHANGED <<appVars, reads, polling>>, loop # "off", loop # "sync",
              loop' \notin {"off", "sync"}, item' # NoItem => item # NoItem,
              loop' \in {"stat", "file"} => item' # NoItem \/ stale' # NoItem
       PROVE  PollingRuns' /\ LoopWaits' /\ ItemHasListeners'
  <2>1. PollingRuns'
    BY <1>13 DEF PollingRuns
  <2>2. LoopWaits'
    BY <1>13 DEF LoopWaits
  <2> QED
    BY <1>8, <1>13, <2>1, <2>2
<1>14. CASE Top
  <2>1. CASE closed \/ (item = NoItem /\ ~others)
    <3>1. /\ item = NoItem /\ loop' = "off" /\ polling' = FALSE /\ loop = "top"
          /\ UNCHANGED <<item, reads, stale, appVars>>
      BY <1>14, <2>1 DEF Top, LoopOnly, LoopAndFaults, ItemHasListeners, itemVars
    <3>2. PollingRuns' /\ LoopWaits'
      BY <3>1 DEF PollingRuns, LoopWaits
    <3> QED
      BY <1>8, <3>1, <3>2
  <2>2. CASE ~(closed \/ (item = NoItem /\ ~others))
    BY <1>13, <1>14, <2>2 DEF Top, LoopOnly, LoopAndFaults, itemVars
  <2> QED
    BY <2>1, <2>2
<1>15. CASE Stat
  BY <1>13, <1>15 DEF Stat, LoopAndFaults, SetHeld, LoopWaits
<1>16. CASE File
  BY <1>13, <1>16 DEF File, EnterFailover, LoopAndFaults, SetHeld, LoopWaits, itemVars
<1>17. CASE Probe \/ SleepEnds
  BY <1>13, <1>17 DEF Probe, SleepEnds, LoopOnly, LoopAndFaults, itemVars
<1>18. CASE PollFailed
  BY <1>13, <1>18 DEF PollFailed, itemVars
<1>19. CASE PollAnswered
  <2>1. CASE probed # Out /\ probed # server
    <3>1. /\ loop = "poll" /\ loop' = "sync" /\ reads' = [reads EXCEPT ![Loop] = "queued"]
          /\ UNCHANGED <<appVars, polling, item, stale>>
      BY <1>19, <2>1 DEF PollAnswered, LoopOnly, LoopAndFaults, itemVars
    <3>2. PollingRuns' /\ LoopWaits'
      BY <1>1, <3>1 DEF PollingRuns, LoopWaits
    <3> QED
      BY <1>8, <3>1, <3>2
  <2>2. CASE ~(probed # Out /\ probed # server)
    BY <1>13, <1>19, <2>2 DEF PollAnswered, LoopOnly, LoopAndFaults, itemVars
  <2> QED
    BY <2>1, <2>2
<1> QED
  BY <1>2, <1>4, <1>5, <1>7, <1>9, <1>10, <1>11, <1>12, <1>14, <1>15, <1>16, <1>17, <1>18,
     <1>19 DEF Next, Reading, LoopStep
-----------------------------------------------------------------------------
\* The last of a queue one emission was added to.
LEMMA LastOfAppend ==
    ASSUME NEW q \in Seq(Content), NEW c \in Content
    PROVE  Append(q, c) # <<>> /\ Last(Append(q, c)) = c
  BY DEF Last

\* The last of a queue is still the last when the first has gone.
LEMMA LastOfTail ==
    ASSUME NEW q \in Seq(Content), q # <<>>
    PROVE  IF Tail(q) = <<>> THEN Last(q) = Head(q) ELSE Last(Tail(q)) = Last(q)
<1>1. /\ Tail(q) \in Seq(Content) /\ Len(Tail(q)) = Len(q) - 1 /\ Len(q) \in Nat \ {0}
      /\ Tail(q) = <<>> <=> Len(Tail(q)) = 0
  BY HeadTailProperties, EmptySeq
<1>2. CASE Len(q) = 1
  <2>1. Len(Tail(q)) = 0
    BY <1>1, <1>2
  <2>2. Tail(q) = <<>>
    BY <1>1, <2>1
  <2>3. Last(q) = q[1] /\ Head(q) = q[1]
    BY <1>2 DEF Last
  <2> QED
    BY <2>2, <2>3
<1>3. CASE Len(q) # 1
  <2>1. Tail(q) # <<>>
    BY <1>1, <1>3
  <2>2. Tail(q)[Len(q) - 1] = q[Len(q)]
    BY <1>1, <1>3
  <2>3. Last(Tail(q)) = Tail(q)[Len(q) - 1] /\ Last(q) = q[Len(q)]
    BY <1>1 DEF Last
  <2> QED
    BY <2>1, <2>2, <2>3
<1> QED
  BY <1>2, <1>3

\* A synchronisation tells whoever listens.
LEMMA SyncInforms ==
    ASSUME TypeOK, Queued, ListenersInformed, NEW c \in Content, Sync(c),
           UNCHANGED <<listeners, told>>
    PROVE  Queued' /\ ListenersInformed'
<1>1. CASE UNCHANGED itemVars
  BY <1>1 DEF itemVars, Queued, ListenersInformed, Final
<1>2. CASE /\ item \in Item /\ item' = [item EXCEPT !.content = c]
           /\ immediates' = Append(immediates, c)
  <2>1. item'.content = c
    BY <1>2 DEF Item
  <2>2. immediates' # <<>> /\ Last(immediates') = c
    BY <1>2, LastOfAppend DEF TypeOK
  <2> QED
    BY <2>1, <2>2 DEF Queued, ListenersInformed, Final
<1> QED
  BY <1>1, <1>2 DEF Sync, TypeOK

\* Nothing of it changes.
LEMMA InformedAlone ==
    ASSUME Queued, ListenersInformed, UNCHANGED <<item, stray, immediates, listeners, told>>
    PROVE  Queued' /\ ListenersInformed'
  BY DEF Queued, ListenersInformed, Final

\* There is no item, or one that was not synchronised.
LEMMA NothingToSay ==
    ASSUME item' = NoItem \/ item'.content = Unset
    PROVE  Queued' /\ ListenersInformed'
  BY DEF Queued, ListenersInformed

\* Every listener was called, or is about to be, with what the item has.
LEMMA InformedKept ==
    ASSUME TypeOK, LoopWaits, ItemHasListeners, Queued, ListenersInformed, [Next]_vars
    PROVE  Queued' /\ ListenersInformed'
<1>1. /\ item \in Item \cup {NoItem} /\ stale \in Item \cup {NoItem}
      /\ snapshot \in Version \cup {NoContent} /\ server \in Version \cup {NoContent}
      /\ file.content \in Local \cup {NoContent} /\ batch \in Content
      /\ immediates \in Seq(Content) /\ told \in [Listener -> Content \cup {Unset}]
      /\ listeners \in SUBSET Listener
  BY DEF TypeOK
<1>2. ASSUME NEW l \in Listener, Subscribe(l) PROVE Queued' /\ ListenersInformed'
  <2>1. /\ listeners' = listeners \cup {l} /\ UNCHANGED <<immediates, stray>>
    BY <1>2 DEF Subscribe, AppCalls
  <2>2. CASE item = NoItem
    BY <1>2, <2>2, NothingToSay, Items DEF Subscribe
  <2>3. CASE item # NoItem
    <3>1. told' = [told EXCEPT ![l] = item.content] /\ UNCHANGED item
      BY <1>2, <2>3 DEF Subscribe
    <3>2. told'[l] = item.content /\ \A k \in listeners \ {l} : told'[k] = told[k]
      BY <1>1, <3>1
    <3> QED
      BY <2>1, <3>1, <3>2 DEF Queued, ListenersInformed, Final
  <2> QED
    BY <2>2, <2>3
<1>3. ASSUME NEW gone \in SUBSET listeners, UnSubscribe(gone)
      PROVE  Queued' /\ ListenersInformed'
  <2>1. /\ listeners' = listeners \ gone /\ UNCHANGED immediates
        /\ told' = [l \in Listener |-> IF l \in gone THEN Unset ELSE told[l]]
    BY <1>3 DEF UnSubscribe, AppCalls
  <2>2. CASE listeners' = {}
    BY <1>3, <2>2, NothingToSay DEF UnSubscribe, ItemLeaves
  <2>3. CASE listeners' # {}
    <3>1. UNCHANGED <<item, stray>>
      BY <1>3, <2>3 DEF UnSubscribe
    <3>2. \A l \in listeners' : l \in listeners /\ told'[l] = told[l]
      BY <1>1, <2>1
    <3> QED
      BY <2>1, <3>1, <3>2 DEF Queued, ListenersInformed, Final
  <2> QED
    BY <2>2, <2>3
<1>4. CASE Close
  BY <1>4, NothingToSay DEF Close, ItemLeaves
<1>5. CASE RunImmediate
  <2>1. /\ immediates # <<>> /\ immediates' = Tail(immediates)
        /\ UNCHANGED <<item, stray, listeners>>
        /\ \A l \in listeners : told'[l] = Head(immediates)
    BY <1>1, <1>5 DEF RunImmediate
  <2>2. IF immediates' = <<>> THEN Last(immediates) = Head(immediates)
                              ELSE Last(immediates') = Last(immediates)
    BY <1>1, <2>1, LastOfTail
  <2> QED
    BY <2>1, <2>2 DEF Queued, ListenersInformed, Final
<1>6. ASSUME NEW r \in Reader, NEW c \in Content, ReadEnds(r, c), UNCHANGED appVars
      PROVE  Queued' /\ ListenersInformed'
  <2>1. CASE Sync(c)
    BY <1>6, <2>1, SyncInforms DEF appVars
  <2>2. CASE UNCHANGED itemVars
    BY <1>6, <2>2, InformedAlone DEF itemVars, appVars
  <2> QED
    BY <1>6, <2>1, <2>2 DEF ReadEnds
<1>7. ASSUME NEW r \in Reader, ReadFile(r) PROVE Queued' /\ ListenersInformed'
  <2>1. CASE ReadEnds(r, file.content)
    <3>1. file.content \in Content
      BY <1>1, Sets
    <3> QED
      BY <1>6, <1>7, <2>1, <3>1 DEF ReadFile
  <2>2. CASE UNCHANGED itemVars
    BY <1>7, <2>2, InformedAlone DEF ReadFile, itemVars, appVars
  <2> QED
    BY <1>7, <2>1, <2>2 DEF ReadFile
<1>8. ASSUME NEW r \in Reader, FetchAnswered(r) PROVE Queued' /\ ListenersInformed'
  <2>1. server \in Content
    BY <1>1, Sets
  <2> QED
    BY <1>6, <1>8, <2>1 DEF FetchAnswered
<1>9. ASSUME NEW r \in Reader, FetchFailed(r) PROVE Queued' /\ ListenersInformed'
  <2>1. CASE snapshot # NoContent /\ ReadEnds(r, snapshot)
    <3>1. snapshot \in Content
      BY <1>1, <2>1, Sets
    <3> QED
      BY <1>6, <1>9, <2>1, <3>1 DEF FetchFailed
  <2>2. CASE ReadFails(r)
    BY <1>9, <2>2, InformedAlone DEF FetchFailed, ReadFails, itemVars, appVars
  <2> QED
    BY <1>9, <2>1, <2>2 DEF FetchFailed
<1>10. CASE BatchApplies
  BY <1>1, <1>10, SyncInforms DEF BatchApplies, appVars
<1>11. CASE Stat
  <2>1. UNCHANGED <<stray, immediates, listeners, told>>
    BY <1>11 DEF Stat, LoopAndFaults, appVars
  <2>2. item' = item \/ (item' = [item EXCEPT !.useFailover = FALSE, !.version = 0]
                           /\ item # NoItem)
    BY <1>11 DEF Stat, SetHeld, Held, LoopWaits
  <2>3. item # NoItem => item'.content = item.content
    BY <1>1, <2>2 DEF Item
  <2>4. item' # NoItem => item # NoItem
    BY <2>2
  <2> QED
    BY <2>1, <2>3, <2>4 DEF Queued, ListenersInformed, Final
<1>12. CASE File
  <2>1. UNCHANGED <<listeners, told>>
    BY <1>12 DEF File, LoopAndFaults, appVars
  <2>2. CASE UNCHANGED itemVars
    BY <2>1, <2>2, InformedAlone DEF itemVars
  <2>3. CASE EnterFailover /\ stale # NoItem
    <3>1. UNCHANGED item /\ (UNCHANGED <<immediates, stray>> \/ stray' = (item # NoItem))
      BY <2>3 DEF EnterFailover, SetHeld
    <3>2. CASE UNCHANGED <<immediates, stray>>
      BY <2>1, <3>1, <3>2, InformedAlone
    <3>3. CASE stray' = (item # NoItem)
      BY <3>1, <3>3 DEF Queued, ListenersInformed
    <3> QED
      BY <3>1, <3>2, <3>3
  <2>4. CASE EnterFailover /\ file.content # NoContent /\ stale = NoItem
    <3>1. /\ item # NoItem /\ Held = item
          /\ item' = [content |-> file.content, useFailover |-> TRUE, version |-> mtime]
          /\ \/ item.content = file.content /\ UNCHANGED <<immediates, stray>>
             \/ immediates' = Append(immediates, file.content)
      BY <1>12, <2>4 DEF File, EnterFailover, SetHeld, Held, LoopWaits
    <3>2. item'.content = file.content
      BY <3>1
    <3>3. CASE item.content = file.content /\ UNCHANGED <<immediates, stray>>
      BY <2>1, <3>1, <3>2, <3>3 DEF Queued, ListenersInformed, Final
    <3>4. CASE immediates' = Append(immediates, file.content)
      <4>1. file.content \in Content
        BY <1>1, <2>4, Sets
      <4>2. immediates' # <<>> /\ Last(immediates') = file.content
        BY <1>1, <3>4, <4>1, LastOfAppend
      <4> QED
        BY <3>2, <4>2 DEF Queued, ListenersInformed, Final
    <3> QED
      BY <3>1, <3>3, <3>4
  <2> QED
    BY <1>12, <2>2, <2>3, <2>4 DEF File, Looks
<1>13. CASE \/ Top \/ Probe \/ SleepEnds \/ PollAnswered \/ PollFailed
            \/ ServerChanges \/ FailoverEdited \/ OthersLeave \/ UNCHANGED vars
  BY <1>13, InformedAlone DEF Top, Probe, SleepEnds, PollAnswered, PollFailed, ServerChanges,
     FailoverEdited, OthersLeave, vars, LoopOnly, LoopAndFaults, appVars, itemVars
<1> QED
  BY <1>2, <1>3, <1>4, <1>5, <1>7, <1>8, <1>9, <1>10, <1>11, <1>12, <1>13
     DEF Next, Reading, LoopStep
-----------------------------------------------------------------------------
\* Every step keeps the inductive invariant.
LEMMA StepKeeps == IInv /\ [Next]_vars => IInv'
  BY TypeKept, LoopKept, InformedKept DEF IInv

\* The inductive invariant holds throughout.
THEOREM Invariance == Spec => []IInv
<1> QED
  BY InitEstablishes, StepKeeps, PTL DEF Spec

\* Every variable stays in its type, for any number of listeners and items.
THEOREM TypeCorrect == Spec => []TypeOK
<1>1. IInv => TypeOK
  BY DEF IInv
<1> QED
  BY <1>1, Invariance, PTL

\* However subscriptions, unsubscriptions, reads and the end of the loop meet,
\* a subscribed key whose first read is over has its loop.
THEOREM SubscribedIsPolled == Spec => []PollingRuns
<1>1. IInv => PollingRuns
  BY DEF IInv
<1> QED
  BY <1>1, Invariance, PTL

\* For any number of listeners, items and emissions that wait: the last call
\* of a listener says what the item has.
THEOREM ListenersAreInformed == Spec => []ListenersInformed
<1>1. IInv => ListenersInformed
  BY DEF IInv
<1> QED
  BY <1>1, Invariance, PTL
=============================================================================
