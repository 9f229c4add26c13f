----------------------------- MODULE LongPolling -----------------------------
(***************************************************************************)
(* Subscriptions of the configuration client over HTTP: ClientWorker       *)
(* (client_worker.ts), which polls the server in one loop for all keys and *)
(* looks at the failover file of each key in every round.                  *)
(*                                                                         *)
(* One key is modelled.  Of other keys only this matters: while there are  *)
(* some the loop goes on without this key, its request is sent without     *)
(* this key, and what was read for this key waits for the reads of the     *)
(* others.  A read is getConfig in outline (failover file, then server,    *)
(* then snapshot, one at a time under the snapshot lock); its details are  *)
(* in ConfigRead.  A content stands for its md5.                           *)
(***************************************************************************)
EXTENDS Integers, SequencesExt

CONSTANTS Listener,
          Local,        \* contents of the failover file
          NoContent,    \* null: no configuration, no file
          Unset,        \* md5 of an item that was never synchronised
          NoItem,       \* the key is not in the map of subscriptions
          MaxCalls,     \* bound on calls of the application
          MaxSubs,      \* bound on items made
          MaxChanges,   \* bound on changes at the server
          MaxEdits,     \* bound on edits of the failover file
          MaxFaults     \* bound on requests, saves and looks at a file that fail

ASSUME LongPollingAssumption ==
    /\ MaxCalls \in Nat /\ MaxSubs \in Nat /\ MaxChanges \in Nat \ {0}
    /\ MaxEdits \in Nat /\ MaxFaults \in Nat
    /\ Local \cap Nat = {}
    /\ {NoContent, Unset} \cap (Local \cup Nat) = {} /\ NoContent # Unset

VARIABLES
    server,      \* content at the server
    file,        \* failover file: time of modification and content
    snapshot,    \* content of the snapshot
    item,        \* subscriptions.get(key)
    stale,       \* the item checkLocalFailover holds, once it left the map
    listeners,   \* this.listeners(key)
    told,        \* history: what each listener was last called with
    immediates,  \* setImmediate(() => this.emit(key, content)), in order
    reads,       \* getConfig calls: of the loop (0) and of each new item
    batch,       \* what the loop has read and not yet applied
    polling,     \* isLongPulling
    loop,        \* where the loop is
    mtime,       \* what getFailoverMtime returned to the loop
    probed,      \* content the poll under way was sent with
    closed,      \* isClose
    others,      \* there are other keys in the map
    stray,       \* history: a stale item told listeners what the item has not
    overwritten, \* history: a first read replaced what failover mode had set
    calls, subs, changes, edits, faults

envVars   == <<server, file, changes, edits>>
appVars   == <<listeners, told, calls, subs, closed>>
loopVars  == <<polling, loop, mtime, probed, stale>>
itemVars  == <<item, immediates, stray, overwritten>>
readVars  == <<reads, batch, snapshot, faults>>

vars == <<envVars, appVars, loopVars, itemVars, readVars, others>>

Loop    == 0
Reader  == 0 .. MaxSubs
Out     == NoItem       \* the key was not in the request
Version == 1 .. MaxChanges
Content == Version \cup Local \cup {NoContent}

Item == [content : Content \cup {Unset}, useFailover : BOOLEAN,
         version : 0 .. MaxEdits]

ASSUME NoItemAssumption == NoItem \notin Item

NewItem == [content |-> Unset, useFailover |-> FALSE, version |-> 0]

Init ==
    /\ server = 1 /\ changes = 1
    /\ file \in [mtime : {0}, content : Local \cup {NoContent}] /\ edits = 0
    /\ snapshot = NoContent
    /\ item = NoItem /\ stale = NoItem
    /\ listeners = {} /\ told = [l \in Listener |-> Unset]
    /\ immediates = <<>>
    /\ reads = [r \in Reader |-> "idle"] /\ batch = NoContent
    /\ others \in BOOLEAN
    /\ polling = others /\ loop = IF others THEN "top" ELSE "off"
    /\ mtime = 0 /\ probed = Out
    /\ closed = FALSE /\ stray = FALSE /\ overwritten = FALSE
    /\ calls = 0 /\ subs = 0 /\ faults = 0

-----------------------------------------------------------------------------
(***************************************************************************)
(* Calls of the application                                                *)
(***************************************************************************)
AppCalls ==
    /\ ~closed /\ calls < MaxCalls
    /\ calls' = calls + 1
    /\ UNCHANGED <<envVars, others, snapshot, faults, batch, polling, loop, mtime,
                   probed, immediates>>

\* Called before anything that is queued (process.nextTick), a listener that
\* comes later knows the content of the item from the start.
Subscribe(l) ==
    /\ AppCalls /\ l \notin listeners
    /\ listeners' = listeners \cup {l}
    /\ IF item = NoItem
       THEN /\ subs < MaxSubs /\ subs' = subs + 1
            /\ item' = NewItem
            /\ reads' = [reads EXCEPT ![subs'] = "queued"]
            /\ UNCHANGED told
       ELSE /\ told' = [told EXCEPT ![l] = item.content]
            /\ UNCHANGED <<subs, item, reads>>
    /\ UNCHANGED <<stale, closed, stray, overwritten>>

\* The check of the failover file goes on with the item it holds.
ItemLeaves ==
    /\ item' = NoItem
    /\ stale' = IF loop \in {"stat", "file"} /\ stale = NoItem THEN item ELSE stale
    /\ stray' = FALSE /\ overwritten' = FALSE

\* With a listener, or without one for all.
UnSubscribe(gone) ==
    /\ AppCalls
    /\ listeners' = listeners \ gone
    /\ told' = [l \in Listener |-> IF l \in gone THEN Unset ELSE told[l]]
    /\ IF listeners' = {} THEN ItemLeaves
       ELSE UNCHANGED <<item, stale, stray, overwritten>>
    /\ UNCHANGED <<subs, reads, closed>>

Close ==
    /\ ~closed /\ closed' = TRUE
    /\ listeners' = {} /\ others' = FALSE /\ told' = [l \in Listener |-> Unset]
    /\ ItemLeaves
    /\ UNCHANGED <<envVars, readVars, polling, loop, mtime, probed,
                   immediates, calls, subs>>

RunImmediate ==
    /\ immediates # <<>>
    /\ told' = [l \in Listener |->
                   IF l \in listeners THEN Head(immediates) ELSE told[l]]
    /\ immediates' = Tail(immediates)
    /\ UNCHANGED <<envVars, listeners, calls, subs, closed, loopVars, item, stray, overwritten,
                   readVars, others>>
-----------------------------------------------------------------------------
(***************************************************************************)
(* syncConfigs and the reads it waits for                                  *)
(***************************************************************************)
StartLongPulling ==
    IF polling THEN UNCHANGED <<polling, loop>>
    ELSE polling' = TRUE /\ loop' = "top"

\* What follows a synchronisation: a new item starts the loop.
GoesOn(r) ==
    /\ IF r = Loop THEN loop' = "top" /\ UNCHANGED polling ELSE StartLongPulling
    /\ UNCHANGED <<mtime, probed, stale>>

\* Faulty variant: the content is stored and nobody told.
SyncSilently(c) ==
    /\ item' = IF item = NoItem THEN item ELSE [item EXCEPT !.content = c]
    /\ UNCHANGED <<immediates, stray, overwritten>>

Sync(c) ==
    IF item = NoItem \/ (item # NoItem /\ item.content = c)
    THEN UNCHANGED itemVars
    ELSE /\ item' = [item EXCEPT !.content = c]
         /\ immediates' = Append(immediates, c)
         /\ stray' = FALSE
         /\ overwritten' = (overwritten \/ item.useFailover)

\* The loop waits for the other keys it reads before it applies anything.
ReadEnds(r, c) ==
    \/ /\ Sync(c) /\ GoesOn(r)
       /\ reads' = [reads EXCEPT ![r] = "idle"]
       /\ UNCHANGED batch
    \/ /\ r = Loop /\ others
       /\ reads' = [reads EXCEPT ![r] = "held"] /\ batch' = c
       /\ UNCHANGED <<itemVars, loopVars>>

\* Faulty variant: a first read that fails throws past the start of the loop.
ReadFailsForGood(r) ==
    /\ loop' = (IF r = Loop THEN "top" ELSE loop)
    /\ reads' = [reads EXCEPT ![r] = "idle"]
    /\ UNCHANGED <<itemVars, batch, polling, mtime, probed, stale>>

\* An error is reported and the item left as it is.
ReadFails(r) ==
    /\ GoesOn(r)
    /\ reads' = [reads EXCEPT ![r] = "idle"]
    /\ UNCHANGED <<itemVars, batch>>

Faulty == faults < MaxFaults /\ faults' = faults + 1

\* A look at the failover file; one that fails finds none.
Looks(found) ==
    \/ found = (file.content # NoContent) /\ UNCHANGED faults
    \/ ~found /\ file.content # NoContent /\ Faulty

ReadFile(r) ==
    /\ reads[r] = "queued"
    /\ \A s \in Reader : reads[s] # "fetching"
    /\ \E found \in BOOLEAN :
         /\ Looks(found)
         /\ IF found
            THEN ReadEnds(r, file.content)
            ELSE /\ reads' = [reads EXCEPT ![r] = "fetching"]
                 /\ UNCHANGED <<batch, itemVars, loopVars>>
    /\ UNCHANGED <<envVars, appVars, snapshot, others>>

\* The answer replaces the snapshot, unless the save fails.
FetchAnswered(r) ==
    /\ reads[r] = "fetching"
    /\ \/ snapshot' = server /\ UNCHANGED faults
       \/ UNCHANGED snapshot /\ Faulty
    /\ ReadEnds(r, server)
    /\ UNCHANGED <<envVars, appVars, others>>

\* There may be no snapshot, or none that can be read.
FetchFailed(r) ==
    /\ reads[r] = "fetching" /\ Faulty
    /\ \/ snapshot # NoContent /\ ReadEnds(r, snapshot)
       \/ ReadFails(r)
    /\ UNCHANGED <<envVars, appVars, snapshot, others>>

BatchApplies ==
    /\ reads[Loop] = "held"
    /\ Sync(batch) /\ GoesOn(Loop)
    /\ reads' = [reads EXCEPT ![Loop] = "idle"] /\ batch' = NoContent
    /\ UNCHANGED <<envVars, appVars, snapshot, faults, others>>
-----------------------------------------------------------------------------
(***************************************************************************)
(* The loop: startLongPulling, checkServerConfigInfo, checkLocalFailover   *)
(***************************************************************************)
LoopAndFaults == UNCHANGED <<envVars, appVars, snapshot, batch, others>>

LoopOnly == LoopAndFaults /\ UNCHANGED faults

\* Faulty variant: the flag stays set when the loop ends.
TopKeepsFlag ==
    /\ LoopOnly /\ loop = "top"
    /\ loop' = CASE closed \/ (item = NoItem /\ ~others) -> "off"
                 [] item # NoItem /\ ~closed -> "stat"
                 [] OTHER -> "probe"
    /\ UNCHANGED <<polling, mtime, probed, stale, itemVars, reads>>

Top ==
    /\ LoopOnly /\ loop = "top"
    /\ IF closed \/ (item = NoItem /\ ~others)
       THEN loop' = "off" /\ polling' = FALSE
       ELSE loop' = (IF item = NoItem THEN "probe" ELSE "stat") /\ UNCHANGED polling
    /\ UNCHANGED <<mtime, probed, stale, itemVars, reads>>

\* The item checkLocalFailover holds.
Held == IF stale = NoItem THEN item ELSE stale

\* It is in the map, or it is not and nobody sees it any more.
SetHeld(new) ==
    IF stale = NoItem THEN item' = new ELSE UNCHANGED item

Stat ==
    /\ LoopAndFaults /\ loop = "stat"
    /\ \E found \in BOOLEAN :
         /\ Looks(found)
         /\ IF ~found
            THEN /\ UNCHANGED mtime
                 /\ SetHeld([Held EXCEPT !.useFailover = FALSE, !.version = 0])
                 /\ loop' = "probe" /\ stale' = NoItem
                 /\ overwritten' = (overwritten /\ stale # NoItem)
            ELSE /\ IF Held.useFailover /\ Held.version = file.mtime
                    THEN loop' = "probe" /\ stale' = NoItem /\ UNCHANGED mtime
                    ELSE loop' = "file" /\ mtime' = file.mtime /\ UNCHANGED stale
                 /\ UNCHANGED <<item, overwritten>>
    /\ UNCHANGED <<polling, probed, immediates, stray, reads>>

\* The item takes over the failover file.  The emission reaches whoever
\* listens to the key, also of a newer item.
EnterFailover ==
    /\ SetHeld([content |-> file.content, useFailover |-> TRUE, version |-> mtime])
    /\ IF Held.content = file.content
       THEN UNCHANGED <<immediates, stray>>
       ELSE /\ immediates' = Append(immediates, file.content)
            /\ stray' = (stale # NoItem /\ item # NoItem)
    /\ overwritten' = (overwritten /\ stale # NoItem)

File ==
    /\ LoopAndFaults /\ loop = "file"
    /\ \E found \in BOOLEAN :
         /\ Looks(found)
         /\ IF found THEN EnterFailover ELSE UNCHANGED itemVars
    /\ loop' = "probe" /\ stale' = NoItem /\ mtime' = 0
    /\ UNCHANGED <<polling, probed, reads>>

\* The md5 of an item never synchronised is sent as an empty one.
Probe ==
    LET included == item # NoItem /\ ~item.useFailover IN
    /\ LoopOnly /\ loop = "probe"
    /\ loop' = IF included \/ others THEN "poll" ELSE "sleep"
    /\ probed' = IF ~included THEN Out
                 ELSE IF item.content = Unset THEN NoContent ELSE item.content
    /\ UNCHANGED <<polling, mtime, stale, itemVars, reads>>

\* The server answers with the keys that differ, or with none after 30 s.
PollAnswered ==
    /\ LoopOnly /\ loop = "poll"
    /\ IF probed # Out /\ probed # server
       THEN loop' = "sync" /\ reads' = [reads EXCEPT ![Loop] = "queued"]
       ELSE loop' = "top" /\ UNCHANGED reads
    /\ probed' = Out
    /\ UNCHANGED <<polling, mtime, stale, itemVars>>

PollFailed ==
    /\ loop = "poll" /\ Faulty
    /\ loop' = "sleep" /\ probed' = Out
    /\ UNCHANGED <<envVars, appVars, snapshot, batch, others, polling,
                   mtime, stale, itemVars, reads>>

\* After an error, or when no key was to be sent.
SleepEnds ==
    /\ LoopOnly /\ loop = "sleep" /\ loop' = "top"
    /\ UNCHANGED <<polling, mtime, probed, stale, itemVars, reads>>
-----------------------------------------------------------------------------
(***************************************************************************)
(* The environment                                                         *)
(***************************************************************************)
ServerChanges ==
    /\ changes < MaxChanges /\ changes' = changes + 1
    /\ server' \in {changes', NoContent} \ {server}
    /\ UNCHANGED <<file, edits, appVars, loopVars, itemVars, readVars,
                   others>>

FailoverEdited ==
    /\ edits < MaxEdits /\ edits' = edits + 1
    /\ \E c \in Local \cup {NoContent} :
          file' = [mtime |-> edits', content |-> c]
    /\ UNCHANGED <<server, changes, appVars, loopVars, itemVars,
                   readVars, others>>

\* The other keys are unsubscribed.
OthersLeave ==
    /\ others /\ others' = FALSE
    /\ UNCHANGED <<envVars, appVars, loopVars, itemVars, readVars>>
-----------------------------------------------------------------------------
LoopStep == Top \/ Stat \/ File \/ Probe \/ PollAnswered \/ SleepEnds

Reading == BatchApplies \/ \E r \in Reader : ReadFile(r) \/ FetchAnswered(r)

Next ==
    \/ \E l \in Listener : Subscribe(l)
    \/ \E gone \in {{l} : l \in listeners} \cup {listeners} : UnSubscribe(gone)
    \/ Close
    \/ RunImmediate \/ Reading \/ LoopStep
    \/ PollFailed \/ \E r \in Reader : FetchFailed(r)
    \/ ServerChanges \/ FailoverEdited \/ OthersLeave

\* Requests are answered, timers fire and queued callbacks run.
Fairness ==
    /\ WF_vars(RunImmediate) /\ WF_vars(Reading) /\ WF_vars(LoopStep)

Spec == Init /\ [][Next]_vars

FairSpec == Spec /\ Fairness
-----------------------------------------------------------------------------
(***************************************************************************)
(* Properties                                                              *)
(***************************************************************************)
TypeOK ==
    /\ server \in Version \cup {NoContent} /\ snapshot \in Version \cup {NoContent}
    /\ file \in [mtime : 0 .. MaxEdits, content : Local \cup {NoContent}]
    /\ item \in Item \cup {NoItem} /\ stale \in Item \cup {NoItem}
    /\ listeners \in SUBSET Listener /\ told \in [Listener -> Content \cup {Unset}]
    /\ immediates \in Seq(Content)
    /\ reads \in [Reader -> {"idle", "queued", "fetching", "held"}]
    /\ batch \in Content
    /\ polling \in BOOLEAN
    /\ loop \in {"off", "top", "stat", "file", "probe", "poll", "sync", "sleep"}
    /\ mtime \in 0 .. MaxEdits /\ probed \in Content \cup {Out}
    /\ closed \in BOOLEAN /\ others \in BOOLEAN
    /\ stray \in BOOLEAN /\ overwritten \in BOOLEAN
    /\ calls \in 0 .. MaxCalls /\ subs \in 0 .. MaxSubs
    /\ changes \in 0 .. MaxChanges /\ edits \in 0 .. MaxEdits
    /\ faults \in 0 .. MaxFaults

\* While a key is subscribed and its first read is over the loop is at work,
\* however unsubscriptions, new subscriptions and the end of the loop meet;
\* and the flag that keeps a second loop away never outlives the loop.
PollingRuns ==
    /\ polling <=> loop # "off"
    /\ item # NoItem /\ (\A r \in Reader \ {Loop} : reads[r] = "idle") => polling

\* What a listener will have been called with once what is queued has run.
Final(l) ==
    IF immediates # <<>> THEN Last(immediates) ELSE told[l]

\* Every listener, a late one too, was called with the content the item
\* has or is about to be, the last of several calls counting.
ListenersInformed ==
    item # NoItem /\ ~stray
        => \A l \in listeners : item.content \in {Unset, Final(l)}

Governing == IF file.content # NoContent THEN file.content ELSE server

\* In the end listeners know the failover file while there is one and the
\* content of the server otherwise, whatever failed on the way.  An item that
\* was never synchronised is not told of a configuration that does not exist.
ListenersFollow ==
    <>[](~stray /\ ~overwritten =>
            \A l \in listeners :
               told[l] = Governing
                 \/ (Governing = NoContent /\ item.content = Unset))
=============================================================================
