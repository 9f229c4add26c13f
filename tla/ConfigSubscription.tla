-------------------------- MODULE ConfigSubscription --------------------------
(***************************************************************************)
(* The gRPC subscription of one configuration: DataClient.subscribe,       *)
(* unSubscribe, the initialisation of a subscription, the handling of a    *)
(* pushed change, the failover-file watcher and close (client.ts), with    *)
(* the listen context GrpcConfigProxy keeps and sends again after a        *)
(* reconnect (grpc_config_proxy.ts).                                       *)
(*                                                                         *)
(* Everything the client does for the key goes through its operation queue *)
(* (KeyedQueue), so the model has one program counter, that of the running *)
(* operation; an operation is cut at every await.  Between two cuts the    *)
(* application subscribes, unsubscribes or closes, pushes arrive, the      *)
(* connection drops, the operator edits the failover file.  The calls of   *)
(* listeners are steps too, since a listener may call the client back.     *)
(*                                                                         *)
(* Contents are numbers: version v of the server's configuration is v >= 0 *)
(* and edition n of the failover file is -n.  Two versions may have equal  *)
(* text; Text[v] = 0 is the empty or missing configuration.                *)
(***************************************************************************)
EXTENDS Integers, SequencesExt

CONSTANTS Listener,     \* the listener functions of the application
          NoListener,   \* in operations that serve no listener in particular
          None,         \* no content, no context, no snapshot
          MaxVersion,   \* the server's last version
          Text,         \* Text[v]: the text of version v, 0 when empty
          MaxEditions,  \* bound on the editions of the failover file
          MaxCalls,     \* bound on the application's calls
          MaxFaults,    \* bound on requests that fail on a live connection,
                        \* failed saves and failed looks at the failover file
          MaxDrops,     \* bound on losses of the connection
          Reentrant,    \* whether listeners call the client back
          ServerProbes  \* whether a listen request with an outdated md5 is
                        \* answered by a change notification

ASSUME ConfigSubscriptionAssumption ==
    /\ MaxVersion \in Nat \ {0} /\ MaxEditions \in Nat /\ MaxCalls \in Nat
    /\ MaxFaults \in Nat /\ MaxDrops \in Nat
    /\ Text \in [0 .. MaxVersion -> Nat]
    /\ Reentrant \in BOOLEAN /\ ServerProbes \in BOOLEAN
    /\ NoListener \notin Listener
    /\ None \notin Int
    /\ None \notin [array : Seq(Listener), live : BOOLEAN, i : Nat, c : Int]

VARIABLES
    subs,      \* _grpcSubscribers.get(key); empty when the key has no entry
    sid,       \* identity of the key's state object; it has one while subs # <<>>
    fs,        \* that state object (GrpcFailoverState)
    watcher,   \* the failover watcher's interval is running
    checking,  \* _failoverChecking
    closed,    \* _closed
    queue,     \* the key's operation queue, the running operation at the head
    pc,        \* where the running operation stands
    loc,       \* its local variables
    walk,      \* the loop of _notifyGrpcListeners, None outside of it
    ctx,       \* md5 in GrpcConfigProxy._listenContexts, None without a context
    up,        \* the connection is established
    remote,    \* md5 the server holds for this connection's listen, None if none
    resend,    \* md5 in the listen request a reconnect sends, None when none is
    pushes,    \* change notifications on their way to the client
    server,    \* the server's current version
    snap,      \* the snapshot file
    file,      \* the failover file
    stale,     \* history: the last answer could not be saved
    seen,      \* history: what each listener was last called with
    newest,    \* history: the newest server version each listener was called with
    budget     \* what is left of the bounds on calls, faults and drops

client  == <<subs, sid, fs, watcher, closed>>
op      == <<queue, pc, loc, checking>>
link    == <<up, remote, resend, pushes>>
world   == <<server, snap, file, stale>>
history == <<seen, newest>>
vars == <<client, op, walk, ctx, link, world, history, budget>>

Contents == -MaxEditions .. MaxVersion
Txt(c) == IF c < 0 THEN c ELSE Text[c]
Texts  == {Txt(c) : c \in Contents} \cup {0}

FreshState == [on |-> FALSE, version |-> 0, content |-> None,
               registered |-> FALSE, md5 |-> 0]
NoLocals == [sid |-> 0, asked |-> 0, res |-> 0, mtime |-> 0, reg |-> FALSE]
Op(type, s, l) == [type |-> type, sid |-> s, l |-> l]

Running(type) == queue # <<>> /\ Head(queue).type = type

\* _isGrpcStateActive for the state object the running operation holds.
Active == ~closed /\ subs # <<>> /\ sid = loc.sid

\* ... and _hasGrpcListener for the listener an initialisation serves.
Wanted == Active /\ Head(queue).l \in Range(subs)

\* JavaScript is between two awaits: nothing else of the client can run.
Sync == walk # None \/ pc = "register"

\* The application runs when the event loop is free, or as a called listener.
AppTurn == ~Sync \/ (Reentrant /\ walk # None /\ walk.i > 0)

Spend(what) ==
    /\ budget[what] > 0
    /\ budget' = [budget EXCEPT ![what] = @ - 1]

-----------------------------------------------------------------------------
Init ==
    /\ subs = <<>> /\ sid = 0 /\ fs = FreshState
    /\ watcher = FALSE /\ checking = FALSE /\ closed = FALSE
    /\ queue = <<>> /\ pc = "idle" /\ loc = NoLocals /\ walk = None
    /\ ctx = None /\ up = TRUE /\ remote = None /\ resend = None /\ pushes = 0
    /\ server = 1
    /\ snap \in {None, 0}
    /\ file = [edition |-> 0, present |-> FALSE] /\ stale = FALSE
    /\ seen = [l \in Listener |-> None]
    /\ newest = [l \in Listener |-> 0]
    /\ budget = [calls |-> MaxCalls, faults |-> MaxFaults, drops |-> MaxDrops]

-----------------------------------------------------------------------------
(* The application *)

\* subscribe(): adds the listener, creates the state object with the key's
\* first listener, starts the watcher and queues the initialisation.
Subscribe(l) ==
    /\ AppTurn /\ Spend("calls")
    /\ ~closed
    /\ subs' = Append(subs, l)
    /\ IF subs = <<>> THEN sid' = sid + 1 /\ fs' = FreshState ELSE UNCHANGED <<sid, fs>>
    /\ watcher' = TRUE
    /\ queue' = Append(queue, Op("init", sid', l))
    /\ IF l \in Range(subs)
         THEN UNCHANGED history
         ELSE seen' = [seen EXCEPT ![l] = None] /\ newest' = [newest EXCEPT ![l] = 0]
    /\ UNCHANGED <<checking, closed, pc, loc, walk, ctx, link, world>>

\* The loop of _notifyGrpcListeners walks the array itself: it follows later
\* changes of the array, and keeps it when the key's entry is dropped.
Detached(array) ==
    IF walk # None /\ walk.live THEN [walk EXCEPT !.live = FALSE, !.array = array] ELSE walk

\* Faulty variant: dropping the last listener does not take the listen back.
DropKeyKeepsListen(array) ==
    /\ fs' = FreshState /\ watcher' = FALSE /\ walk' = Detached(array)
    /\ UNCHANGED queue

\* The key's entries go and the removal of the remote listen is queued.
DropKey(array) ==
    /\ fs' = FreshState /\ watcher' = FALSE /\ walk' = Detached(array)
    /\ queue' = Append(queue, Op("remove", 0, NoListener))

\* unSubscribe(info, listener): the last listener takes the key with it.
UnSubscribe(l) ==
    /\ AppTurn /\ Spend("calls")
    /\ sid > 0
    /\ \/ subs = <<>> /\ subs' = <<>>
       \/ \E i \in DOMAIN subs : /\ subs[i] = l /\ \A j \in 1 .. i - 1 : subs[j] # l
                                 /\ subs' = RemoveAt(subs, i)
    /\ IF subs' = <<>> THEN DropKey(<<>>) ELSE UNCHANGED <<fs, watcher, queue, walk>>
    /\ UNCHANGED <<sid, closed, checking, pc, loc, ctx, link, world, history>>

\* unSubscribe(info): the array of listeners leaves the map as it is.
UnSubscribeAll ==
    /\ AppTurn /\ Spend("calls")
    /\ sid > 0
    /\ subs' = <<>> /\ DropKey(subs)
    /\ UNCHANGED <<sid, closed, checking, pc, loc, ctx, link, world, history>>

\* close(): clears the maps and closes proxy and connection; operations in
\* progress or queued are not cancelled.
Close ==
    /\ AppTurn /\ Spend("calls")
    /\ ~closed
    /\ closed' = TRUE
    /\ watcher' = FALSE
    /\ subs' = <<>>
    /\ fs' = FreshState
    /\ walk' = Detached(subs)
    /\ ctx' = None
    /\ up' = FALSE /\ remote' = None /\ resend' = None /\ pushes' = 0
    /\ UNCHANGED <<sid, op, world, history>>

-----------------------------------------------------------------------------
(* Operations of the queue *)

\* Faulty variant: the watcher's round is not marked as over.
EndOpKeepsChecking ==
    /\ queue' = Tail(queue)
    /\ pc' = "idle"
    /\ loc' = NoLocals
    /\ UNCHANGED checking

\* The operation settles; the watcher's round ends with its check.
EndOp ==
    /\ queue' = Tail(queue)
    /\ pc' = "idle"
    /\ loc' = NoLocals
    /\ checking' = (checking /\ Head(queue).type # "check")

Goto(step) == pc' = step /\ UNCHANGED <<queue, loc, checking>>

\* ... without having changed anything.
Abandon == EndOp /\ UNCHANGED <<fs, walk>>

\* A loop over the listeners starts, the operation goes on at step after it.
\* With live the array is the one in the map, else one of its own.
Notify(array, live, c, step) ==
    /\ walk' = [array |-> IF live THEN <<>> ELSE array, live |-> live, i |-> 0, c |-> c]
    /\ pc' = step

\* The state object takes over a content; listeners hear of it if it is new.
Switch(new, c) ==
    /\ fs' = new
    /\ IF Txt(c) # fs.content
         THEN Notify(<<>>, TRUE, c, "finish") /\ UNCHANGED <<queue, loc, checking>>
         ELSE EndOp /\ UNCHANGED walk

Array == IF walk.live THEN subs ELSE walk.array
Called == IF walk.i < Len(Array) THEN {Array[walk.i + 1]} ELSE {}

\* One turn of the loop calls the next listener, or the loop ends.
NotifyNext ==
    /\ walk # None
    /\ IF Called = {} THEN walk' = None ELSE walk' = [walk EXCEPT !.i = @ + 1]
    /\ seen' = [l \in Listener |-> IF l \in Called THEN walk.c ELSE seen[l]]
    /\ newest' = [l \in Listener |->
                   IF l \in Called /\ walk.c > newest[l] THEN walk.c ELSE newest[l]]
    /\ UNCHANGED <<client, op, ctx, link, world, budget>>

FinishOp ==
    /\ walk = None /\ pc = "finish"
    /\ EndOp
    /\ UNCHANGED <<client, walk, ctx, link, world, history, budget>>

\* _initGrpcSubscription begins, unless its subscription is gone.
StartInit ==
    /\ ~Sync /\ pc = "idle" /\ Running("init")
    /\ LET s == Head(queue).sid IN
         IF ~closed /\ subs # <<>> /\ sid = s /\ Head(queue).l \in Range(subs)
           THEN /\ pc' = "read"
                /\ loc' = [NoLocals EXCEPT !.sid = s]
                /\ UNCHANGED <<queue, checking>>
           ELSE EndOp
    /\ UNCHANGED <<client, walk, ctx, link, world, history, budget>>

\* The task of _onGrpcConfigChanged begins; failover mode ignores pushes.
StartPush ==
    /\ ~Sync /\ pc = "idle" /\ Running("push")
    /\ IF closed \/ subs = <<>> \/ fs.on
         THEN EndOp
         ELSE /\ pc' = "read"
              /\ loc' = [NoLocals EXCEPT !.sid = sid]
              /\ UNCHANGED <<queue, checking>>
    /\ UNCHANGED <<client, walk, ctx, link, world, history, budget>>

\* _checkGrpcFailoverForKey begins: a listen that is not registered is sent
\* again first.
StartCheck ==
    /\ ~Sync /\ pc = "idle" /\ Running("check")
    /\ IF closed \/ subs = <<>>
         THEN EndOp /\ UNCHANGED <<fs, ctx>>
         ELSE /\ loc' = [NoLocals EXCEPT !.sid = sid]
              /\ IF fs.registered
                   THEN pc' = "stat" /\ UNCHANGED <<fs, ctx>>
                   ELSE /\ fs' = [fs EXCEPT !.registered = TRUE]
                        /\ ctx' = fs.md5
                        /\ pc' = "adding"
              /\ UNCHANGED <<queue, checking>>
    /\ UNCHANGED <<subs, sid, watcher, closed, walk, link, world, history, budget>>

\* removeListener() forgets the context before it tells the server.
StartRemove ==
    /\ ~Sync /\ pc = "idle" /\ Running("remove")
    /\ IF ctx = None THEN EndOp /\ UNCHANGED ctx ELSE ctx' = None /\ Goto("removing")
    /\ UNCHANGED <<client, walk, link, world, history, budget>>

-----------------------------------------------------------------------------
(* _getConfigWithCache: failover file, then server, then snapshot.  Each way *)
(* it ends goes on with what the waiting operation does with the content.    *)

\* The initialisation commits the content and calls its own listener only; an
\* empty content is neither committed nor reported.
InitCommit(c) ==
    /\ loc' = [loc EXCEPT !.res = c]
    /\ IF Txt(c) # 0
         THEN /\ fs' = [fs EXCEPT !.content = Txt(c)]
              /\ Notify(<<Head(queue).l>>, FALSE, c, "stat")
         ELSE pc' = "stat" /\ UNCHANGED <<fs, walk>>
    /\ UNCHANGED <<queue, checking>>

\* Faulty variant: the subscription is not looked up again after the await.
InitGotUnchecked(c) == Running("init") /\ InitCommit(c)

InitGot(c) == Running("init") /\ IF Wanted THEN InitCommit(c) ELSE Abandon

\* Faulty variant: the listeners are called, the state object is not updated.
PushGotUncommitted(c) ==
    /\ Running("push")
    /\ IF ~Active \/ fs.on
         THEN Abandon
         ELSE Notify(<<>>, TRUE, c, "finish") /\ UNCHANGED <<fs, queue, loc, checking>>

\* A pushed change commits the content and calls every listener.
PushGot(c) ==
    /\ Running("push")
    /\ IF ~Active \/ fs.on
         THEN Abandon
         ELSE /\ fs' = [fs EXCEPT !.content = Txt(c)]
              /\ Notify(<<>>, TRUE, c, "finish") /\ UNCHANGED <<queue, loc, checking>>

LeftFailover(c) == [fs EXCEPT !.on = FALSE, !.version = 0, !.content = Txt(c)]

\* Faulty variant: a snapshot also ends failover mode.
CheckGotAny(c, source) ==
    Running("check") /\ IF Active THEN Switch(LeftFailover(c), c) ELSE Abandon

\* The watcher leaves failover mode, but only with an answer of the server.
CheckGot(c, source) ==
    /\ Running("check")
    /\ IF Active /\ source = "server" THEN Switch(LeftFailover(c), c) ELSE Abandon

Got(c, source) ==
    /\ InitGot(c) \/ PushGot(c) \/ CheckGot(c, source)
    /\ UNCHANGED <<subs, sid, watcher, closed>>

\* A look at the failover file; one that fails finds none.
Looks(found) ==
    \/ found = file.present /\ UNCHANGED budget
    \/ ~found /\ file.present /\ Spend("faults")

ReadFailover ==
    /\ ~Sync /\ pc = "read"
    /\ \E found \in BOOLEAN :
         /\ Looks(found)
         /\ IF found
              THEN Got(-file.edition, "failover")
              ELSE /\ pc' = "fetch"
                   /\ loc' = [loc EXCEPT !.asked = server]
                   /\ UNCHANGED <<queue, checking, client, walk>>
    /\ UNCHANGED <<ctx, link, world, history>>

\* The server reads the configuration; its answer is under way.
FetchServed ==
    /\ ~Sync /\ pc = "fetch" /\ up
    /\ pc' = "answer"
    /\ loc' = [loc EXCEPT !.res = server]
    /\ UNCHANGED <<queue, checking, client, walk, ctx, link, world, history, budget>>

\* Faulty variant: the answer is not saved, an old snapshot stays.
FetchAnsweredUnsaved ==
    /\ ~Sync /\ pc = "answer" /\ ~closed
    /\ Got(loc.res, "server")
    /\ UNCHANGED <<ctx, link, world, history, budget>>

\* What the snapshot is to hold after an answer: an empty one deletes it.
Saved(c) == IF Txt(c) = 0 THEN None ELSE c

\* The answer arrives, in time even if the stream was lost meanwhile; it
\* replaces the snapshot, unless the save fails, which is only emitted.
FetchAnswered ==
    /\ ~Sync /\ pc = "answer" /\ ~closed
    /\ Got(loc.res, "server")
    /\ \/ snap' = Saved(loc.res) /\ UNCHANGED budget
       \/ UNCHANGED snap /\ Spend("faults")
    /\ stale' = (snap' # Saved(loc.res))
    /\ UNCHANGED <<ctx, link, server, file, history>>

\* A request fails: always without a connection, now and then with one.
Fails == IF up THEN Spend("faults") ELSE UNCHANGED budget

\* Without a snapshot that can be read the error is emitted and the operation
\* ends.
FetchFailed ==
    /\ ~Sync /\ pc \in {"fetch", "answer"} /\ Fails
    /\ \/ snap # None /\ Got(snap, "snapshot")
       \/ EndOp /\ UNCHANGED <<client, walk>>
    /\ UNCHANGED <<ctx, link, world, history>>

-----------------------------------------------------------------------------
(* The failover file and the registration of the remote listen *)

\* End of an initialisation: one listen request per state object, with the md5
\* of the content it read first.  registered is the flag of that object, which
\* the last callback may have dropped.
Register(registered) ==
    IF registered
      THEN EndOp /\ UNCHANGED <<fs, ctx>>
      ELSE /\ ctx' = Txt(loc.res)
           /\ fs' = IF Active THEN [fs EXCEPT !.registered = TRUE, !.md5 = Txt(loc.res)] ELSE fs
           /\ Goto("adding")

\* getFailoverMtime of the initialisation.
InitStat ==
    /\ ~Sync /\ pc = "stat" /\ Running("init")
    /\ \E found \in BOOLEAN :
         /\ Looks(found)
         /\ IF ~Wanted
              THEN EndOp /\ UNCHANGED <<fs, ctx>>
              ELSE IF found
                     THEN /\ loc' = [loc EXCEPT !.mtime = file.edition]
                          /\ pc' = "file"
                          /\ UNCHANGED <<queue, checking, fs, ctx>>
                     ELSE Register(fs.registered)
    /\ UNCHANGED <<subs, sid, watcher, closed, walk, link, world, history>>

InFailover == [fs EXCEPT !.on = TRUE, !.version = loc.mtime, !.content = -file.edition]

\* getFailover of the initialisation: the key enters failover mode and the
\* initialisation's own listener is called if the content is new to the key.
InitFile ==
    /\ ~Sync /\ pc = "file" /\ Running("init")
    /\ \E found \in BOOLEAN :
         /\ Looks(found)
         /\ CASE ~Wanted -> Abandon /\ UNCHANGED ctx
              [] Wanted /\ ~found -> Register(fs.registered) /\ UNCHANGED walk
              [] OTHER ->
                   /\ fs' = InFailover
                   /\ loc' = [loc EXCEPT !.reg = fs.registered]
                   /\ IF fs.content # -file.edition
                        THEN Notify(<<Head(queue).l>>, FALSE, -file.edition, "register")
                        ELSE pc' = "register" /\ UNCHANGED walk
                   /\ UNCHANGED <<queue, checking, ctx>>
    /\ UNCHANGED <<subs, sid, watcher, closed, link, world, history>>

\* The rest of the same stretch of code, after the listener returned.
InitRegister ==
    /\ walk = None /\ pc = "register"
    /\ Register(loc.reg)
    /\ UNCHANGED <<subs, sid, watcher, closed, walk, link, world, history, budget>>

\* getFailoverMtime of the watcher's check: no file ends failover mode once the
\* server can be read, a new edition is read.
CheckStat ==
    /\ ~Sync /\ pc = "stat" /\ Running("check")
    /\ \E found \in BOOLEAN :
         /\ Looks(found)
         /\ CASE Active /\ ~found /\ fs.on -> Goto("read")
              [] Active /\ found /\ (~fs.on \/ fs.version # file.edition) ->
                   /\ loc' = [loc EXCEPT !.mtime = file.edition]
                   /\ pc' = "file"
                   /\ UNCHANGED <<queue, checking>>
              [] OTHER -> EndOp
    /\ UNCHANGED <<client, walk, ctx, link, world, history>>

\* getFailover of the watcher's check: every listener is called if the content
\* is new to the key.
CheckFile ==
    /\ ~Sync /\ pc = "file" /\ Running("check")
    /\ \E found \in BOOLEAN :
         /\ Looks(found)
         /\ IF Active /\ found THEN Switch(InFailover, -file.edition) ELSE Abandon
    /\ UNCHANGED <<subs, sid, watcher, closed, ctx, link, world, history>>

\* What follows addListener: the initialisation is over, the check goes on.
AfterAdd == IF Running("check") THEN Goto("stat") ELSE EndOp

\* The server's side of a listen request.
ServerListens(md5) ==
    /\ remote' = md5
    /\ pushes' = IF ServerProbes /\ md5 # Txt(server) THEN pushes + 1 ELSE pushes

AddAnswered ==
    /\ ~Sync /\ pc = "adding" /\ up
    /\ ServerListens(ctx)
    /\ AfterAdd
    /\ UNCHANGED <<client, walk, ctx, up, resend, world, history, budget>>

\* Faulty variant: a failed request is not noted on the state object.
AddFailedUnnoted ==
    /\ ~Sync /\ pc = "adding" /\ Fails
    /\ AfterAdd
    /\ UNCHANGED <<client, walk, ctx, link, world, history>>

\* Faulty variant: the md5 to try again with is forgotten.
AddFailedForgets ==
    /\ ~Sync /\ pc = "adding" /\ Fails
    /\ fs' = IF Active THEN [fs EXCEPT !.registered = FALSE, !.md5 = None] ELSE fs
    /\ AfterAdd
    /\ UNCHANGED <<subs, sid, watcher, closed, walk, ctx, link, world, history>>

\* The listen request fails, whether or not the server has seen it; the state
\* object the operation holds is marked for the watcher to try again.
AddFailed ==
    /\ ~Sync /\ pc = "adding" /\ Fails
    /\ UNCHANGED <<remote, pushes>> \/ (up /\ ServerListens(ctx))
    /\ fs' = IF Active THEN [fs EXCEPT !.registered = FALSE] ELSE fs
    /\ AfterAdd
    /\ UNCHANGED <<subs, sid, watcher, closed, walk, ctx, up, resend, world, history>>

\* removeListener: the server forgets the listen, or the request fails, which
\* is swallowed.
RemoveEnds ==
    /\ ~Sync /\ pc = "removing"
    /\ \/ up /\ remote' = None /\ UNCHANGED budget
       \/ Fails /\ UNCHANGED remote
    /\ EndOp
    /\ UNCHANGED <<client, walk, ctx, up, resend, pushes, world, history>>

-----------------------------------------------------------------------------
(* Timer, pushes, connection, operator *)

\* The watcher's interval fires; a round in progress is not overtaken.
Tick ==
    /\ ~Sync
    /\ watcher /\ ~checking /\ subs # <<>>
    /\ checking' = TRUE
    /\ queue' = Append(queue, Op("check", 0, NoListener))
    /\ UNCHANGED <<client, pc, loc, walk, ctx, link, world, history, budget>>

\* A change notification reaches _onGrpcConfigChanged.
PushArrives ==
    /\ ~Sync /\ pushes > 0
    /\ pushes' = pushes - 1
    /\ queue' = Append(queue, Op("push", 0, NoListener))
    /\ UNCHANGED <<client, pc, loc, checking, walk, ctx, up, remote, resend, world, history, budget>>

\* Somebody publishes; the server notifies the connections that listen.
ServerChanges ==
    /\ ~Sync /\ server < MaxVersion
    /\ server' = server + 1
    /\ pushes' = IF remote # None THEN pushes + 1 ELSE pushes
    /\ UNCHANGED <<client, op, walk, ctx, up, remote, resend, snap, file, stale, history, budget>>

\* The operator writes or deletes the failover file.
FailoverEdited ==
    /\ ~Sync
    /\ \/ /\ file.edition < MaxEditions
          /\ file' = [edition |-> file.edition + 1, present |-> TRUE]
       \/ file.present /\ file' = [file EXCEPT !.present = FALSE]
    /\ UNCHANGED <<client, op, walk, ctx, link, server, snap, stale, history, budget>>

\* The connection is lost, with what the server knew of it and what was under
\* way on it.
Drop ==
    /\ ~Sync /\ up /\ Spend("drops")
    /\ up' = FALSE /\ remote' = None /\ resend' = None /\ pushes' = 0
    /\ UNCHANGED <<client, op, walk, ctx, world, history>>

\* A new connection is established: _onReconnect sends the context again.
Reconnect ==
    /\ ~Sync /\ ~up /\ ~closed
    /\ up' = TRUE
    /\ resend' = ctx
    /\ UNCHANGED <<client, op, walk, ctx, remote, pushes, world, history, budget>>

\* That request is answered, or fails, which is only logged.
ResendEnds ==
    /\ ~Sync /\ resend # None
    /\ resend' = None
    /\ \/ ServerListens(resend) /\ UNCHANGED budget
       \/ Spend("faults") /\ UNCHANGED <<remote, pushes>>
    /\ UNCHANGED <<client, op, walk, ctx, up, world, history>>

-----------------------------------------------------------------------------
\* The running operation, up to its next await.
Step ==
    \/ StartInit \/ StartPush \/ StartCheck \/ StartRemove
    \/ ReadFailover \/ FetchServed \/ FetchAnswered \/ FetchFailed
    \/ InitStat \/ InitFile \/ InitRegister \/ CheckStat \/ CheckFile
    \/ AddAnswered \/ AddFailed \/ RemoveEnds \/ FinishOp

Application ==
    \/ \E l \in Listener : Subscribe(l) \/ UnSubscribe(l)
    \/ UnSubscribeAll \/ Close

Next ==
    \/ Application \/ Step \/ NotifyNext
    \/ Tick \/ PushArrives \/ ResendEnds \/ Reconnect
    \/ ServerChanges \/ FailoverEdited \/ Drop

\* Timers fire, requests end, listeners return, notifications sent on a living
\* connection arrive, and a lost connection comes back; nobody has to publish,
\* edit files or call the client.
Fairness ==
    /\ WF_vars(Step) /\ WF_vars(NotifyNext) /\ WF_vars(Tick)
    /\ WF_vars(PushArrives) /\ WF_vars(ResendEnds) /\ WF_vars(Reconnect)

Spec == Init /\ [][Next]_vars /\ Fairness

-----------------------------------------------------------------------------
FailoverState == [on : BOOLEAN, version : Nat, content : Texts \cup {None},
                  registered : BOOLEAN, md5 : Texts]
Operation == [type : {"init", "push", "check", "remove"}, sid : Nat,
              l : Listener \cup {NoListener}]
Place == {"idle", "read", "fetch", "answer", "stat", "file", "register", "adding",
          "removing", "finish"}
Locals == [sid : Nat, asked : 0 .. MaxVersion, res : Contents, mtime : Nat, reg : BOOLEAN]
Loop == [array : Seq(Listener), live : BOOLEAN, i : Nat, c : Contents]

\* Type correctness.
TypeOK ==
    /\ subs \in Seq(Listener) /\ sid \in Nat /\ fs \in FailoverState
    /\ watcher \in BOOLEAN /\ checking \in BOOLEAN /\ closed \in BOOLEAN
    /\ queue \in Seq(Operation) /\ pc \in Place /\ loc \in Locals
    /\ walk \in Loop \cup {None}
    /\ ctx \in Texts \cup {None}
    /\ remote \in Texts \cup {None} /\ resend \in Texts \cup {None}
    /\ up \in BOOLEAN /\ pushes \in Nat
    /\ server \in 0 .. MaxVersion
    /\ snap \in 0 .. MaxVersion \cup {None}
    /\ file \in [edition : 0 .. MaxEditions, present : BOOLEAN] /\ stale \in BOOLEAN
    /\ seen \in [Listener -> Contents \cup {None}]
    /\ newest \in [Listener -> 0 .. MaxVersion]
    /\ budget \in [{"calls", "faults", "drops"} -> Nat]

\* "After close or unsubscribe there must be no callback" (client.ts:657): the
\* listener a loop calls next is subscribed and the client is open, whenever in
\* the course of the operation the application unsubscribed or closed.
NoLateCallback ==
    walk # None => Called \subseteq Range(subs) /\ (Called # {} => ~closed)

\* A late response does not overwrite a newer value (client.ts:614): a listener
\* is not called with a version of the server's content older than one it was
\* called with since it subscribed, reads that fell back to the snapshot
\* included, unless that is the snapshot an answer could not replace.
NeverRegresses ==
    walk # None /\ walk.c >= 0 =>
        \A l \in Called : walk.c >= newest[l] \/ (stale /\ walk.c = snap)

Quiet == queue = <<>> /\ walk = None

\* No remote listen is left behind by unsubscribing or closing (client.ts:244):
\* once the queue is empty, a key without listeners has no listen context, and
\* nothing to listen for again after a reconnect.
NoListenLeftBehind == Quiet /\ subs = <<>> => ctx = None

\* What the client believes it has reported is what the listener was called
\* with last: the watcher and the push handler rely on it when they leave out
\* a call because the content is not new.  True with one listener.
ListenerSawState ==
    Quiet /\ subs # <<>> /\ fs.content # None =>
        \A l \in Range(subs) : seen[l] # None /\ Txt(seen[l]) = fs.content

\* A failover file in use is left for the server's content only (client.ts:794),
\* never for a snapshot: the content that ends failover mode is one the server
\* had between the request and now.
FailoverEndsWithServer ==
    [][fs.on /\ ~fs'.on /\ subs' # <<>> =>
         \E v \in loc.asked .. server : fs'.content = Txt(v)]_vars

\* A key with listeners is listened to at the server, however many requests
\* failed on the way: what the initialisation could not do the watcher does
\* again (client.ts:769).  This is about a key's first subscription; the listen
\* of a later one may be lost: a failover check queued for the old state object
\* registers the new one, and the removal queued before it takes the listen back.
EventuallyListening == (subs # <<>>) ~> (subs = <<>> \/ remote # None \/ sid > 1)

\* Each edition of the failover file is taken up unless it goes first, and the
\* deletion of the file ends failover mode (client.ts:728-731).
FailoverFollowsFile ==
    /\ \A n \in 1 .. MaxEditions :
         (subs # <<>> /\ file = [edition |-> n, present |-> TRUE])
            ~> (subs = <<>> \/ fs.version = n \/ file # [edition |-> n, present |-> TRUE])
    /\ (subs # <<>> /\ ~file.present) ~> (subs = <<>> \/ ~fs.on \/ file.present)
=============================================================================
