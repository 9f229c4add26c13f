---------------------------- MODULE HostReactor ----------------------------
(***************************************************************************)
(* The cache of one service in NacosNamingClient: HostReactor              *)
(* (host_reactor.ts) with the UDP pushes of PushReceiver.                  *)
(*                                                                         *)
(* Two kinds of process work on the cache.  A call is one getServiceInfo   *)
(* or getServiceInfoDirectlyFromServer, cut at its awaits; a loop is the   *)
(* chain of timers that _scheduleUpdateIfAbsent starts and _doUpdate       *)
(* continues.  Between two cuts the application subscribes, unsubscribes   *)
(* or closes, pushes arrive and immediates run.  The processes in          *)
(* "returning", "notified" and "ending" have promise reactions pending: no *)
(* timer, answer, push or immediate runs before these, but code of the     *)
(* application may, since the event that set them off called listeners.    *)
(*                                                                         *)
(* A list of hosts maps addresses (ip and port) to whatever else a host    *)
(* says of itself.  Time counts the changes of the service; an answer or a *)
(* push carries the time at which the server made it (lastRefTime).        *)
(***************************************************************************)
EXTENDS Integers, Sequences

CONSTANTS Call,          \* calls that ask for the service
          Loop,          \* update loops; a close in the middle of a query may
                         \* leave one behind, so that there are two
          Listener,      \* listener functions of the application; there may be
                         \* others, which can only throw
          HostList,      \* the lists the service may have
          NoHosts,       \* the empty one
          None,          \* no entry, no answer
          MaxChanges,    \* bound on changes of the service
          MaxArrivals,   \* bound on pushes that arrive
          MaxFaults,     \* bound on queries that fail and listeners that throw
          MaxSubscribes  \* bound on calls of subscribe

ASSUME HostReactorAssumption ==
    /\ MaxChanges \in Nat /\ MaxArrivals \in Nat
    /\ MaxFaults \in Nat /\ MaxSubscribes \in Nat
    /\ Call \cap Loop = {}
    /\ \A h \in HostList : h = [a \in DOMAIN h |-> h[a]]
    /\ NoHosts \in HostList
    /\ \A h \in HostList : DOMAIN h = {} <=> h = NoHosts

Process  == Call \cup Loop
Infinity == MaxChanges + 1   \* the lastRefTime of a new task
NoTask   == -1

ServiceInfo == [hosts : HostList, lastRefTime : 0 .. MaxChanges]

ASSUME NoneAssumption == None \notin ServiceInfo

VARIABLES
    cache,       \* _serviceInfoMap.get(key), None without an entry
    updating,    \* _updatingSet.has(key)
    task,        \* lastRefTime of _futureMap.get(key), NoTask without a task
    pc,          \* where each call and each loop stands
    answer,      \* answer on its way to a process that asked, None if none is
    subscribed,  \* listeners of the key's _changed event
    immediates,  \* calls of listeners queued with setImmediate
    told,        \* the last hosts a subscriber was given, overtaken calls aside
    missed,      \* history: subscribers whose last event was cut short
    server,      \* the service at the server
    pushed,      \* pushes the server sent; any of them may arrive, again too
    arrivals, faults, subscribes,
    closed

vars == <<cache, updating, task, pc, answer, subscribed, immediates, told, missed,
          server, pushed, arrivals, faults, subscribes, closed>>

cacheVars == <<cache, told, missed, immediates>>
appVars   == <<subscribed, subscribes, closed>>
worldVars == <<server, pushed, arrivals, faults>>

Waiting  == {"waiting", "orphaned"}
Asking   == {"first", "direct", "update"}
Settling == {"returning", "notified", "ending"}
CallPlace == {"idle", "first", "returning", "waiting", "orphaned", "notified",
              "direct", "returned", "failed"}
LoopPlace == {"off", "armed", "update", "refresh", "ending"}

\* Nothing but promise reactions and the application runs before these.
Quiet == \A p \in Process : pc[p] \notin Settling

Init ==
    /\ cache = None /\ updating = FALSE /\ task = NoTask
    /\ pc = [p \in Process |-> IF p \in Call THEN "idle" ELSE "off"]
    /\ answer = [p \in Process |-> None]
    /\ subscribed = {} /\ immediates = <<>>
    /\ told = [l \in Listener |-> NoHosts] /\ missed = {}
    /\ server \in [hosts : HostList, lastRefTime : {0}]
    /\ pushed = {} /\ arrivals = 0 /\ faults = 0 /\ subscribes = 0
    /\ closed = FALSE
-----------------------------------------------------------------------------
(***************************************************************************)
(* processServiceJSON                                                      *)
(***************************************************************************)
Placeholder == [hosts |-> NoHosts, lastRefTime |-> 0]

\* A service without hosts is not valid.
Valid(info) == info.hosts # NoHosts

\* Faulty variant: a host that changed at the same address is overlooked.
DiffersByAddress(old, new) == DOMAIN new # DOMAIN old

Differs(old, new) ==
    \/ DOMAIN new \ DOMAIN old # {}
    \/ DOMAIN old \ DOMAIN new # {}
    \/ \E a \in DOMAIN new \cap DOMAIN old : new[a] # old[a]

Emits(info) ==
    Valid(info) /\ (cache = None \/ Differs(cache.hosts, info.hosts)
                                 \/ cache.hosts = NoHosts)

\* Calls of getServiceInfo that wait for the event.
Pending == {p \in Process : pc[p] = "waiting"}

\* The event calls its listeners in place: those in reached, and, registered
\* once, those of the waiting calls in resolved.
Event(info, reached, resolved, places) ==
    /\ told' = [l \in Listener |-> IF l \in reached THEN info.hosts ELSE told[l]]
    /\ missed' = (missed \cup subscribed) \ reached
    /\ immediates' = [k \in DOMAIN immediates |->
          IF immediates[k].listener \in reached
          THEN [immediates[k] EXCEPT !.overtaken = TRUE]
          ELSE immediates[k]]
    /\ pc' = [p \in Process |-> IF p \in resolved THEN "notified" ELSE places[p]]

\* A listener throws, one of Listener or another that is subscribed (which there
\* is only for a service with an entry, until the client is closed).  That ends
\* the event and goes up to the caller: who registered later is not called.
CutShort(info, thrown) ==
    /\ ~closed /\ cache # None
    /\ faults < MaxFaults /\ faults' = faults + 1
    /\ \E reached \in SUBSET subscribed, resolved \in SUBSET Pending :
          Event(info, reached, resolved, thrown)

\* What is valid is stored before anybody is called.  The processes are at the
\* places returned afterwards, or thrown if a listener threw.
ProcessServiceJSON(info, returned, thrown) ==
    /\ cache' = IF Valid(info) THEN info ELSE cache
    /\ IF Emits(info)
       THEN \/ Event(info, subscribed, Pending, returned) /\ UNCHANGED faults
            \/ CutShort(info, thrown)
       ELSE pc' = returned /\ UNCHANGED <<told, missed, immediates, faults>>
-----------------------------------------------------------------------------
(***************************************************************************)
(* Calls of the application                                                *)
(***************************************************************************)
\* Which of the loops that are off is started makes no difference.
FreeLoop == CHOOSE i \in Loop : pc[i] = "off"

\* Faulty variant: the task of the key is not looked for.
ScheduleAlways(p, next) ==
    /\ task' = Infinity
    /\ \E i \in Loop : pc' = [pc EXCEPT ![p] = next, ![i] = "armed"]

\* _scheduleUpdateIfAbsent, with p going on at the place next.
ScheduleIfAbsent(p, next) ==
    IF task # NoTask
    THEN pc' = [pc EXCEPT ![p] = next] /\ UNCHANGED task
    ELSE /\ task' = Infinity
         /\ \E i \in Loop :
               /\ i = FreeLoop /\ pc[i] = "off"
               /\ pc' = [pc EXCEPT ![p] = next, ![i] = "armed"]

\* getServiceInfo without an entry: the placeholder and the first query.
FirstQuery(c) ==
    /\ cache' = Placeholder
    /\ updating' = TRUE
    /\ pc' = [pc EXCEPT ![c] = "first"]
    /\ UNCHANGED task

GetServiceInfo(c) ==
    /\ ~closed /\ pc[c] = "idle"
    /\ \/ cache = None /\ FirstQuery(c)
       \/ /\ cache # None /\ updating
          /\ pc' = [pc EXCEPT ![c] = "waiting"]
          /\ UNCHANGED <<cache, updating, task>>
       \/ /\ cache # None /\ ~updating
          /\ ScheduleIfAbsent(c, "returned")
          /\ UNCHANGED <<cache, updating>>
    /\ UNCHANGED <<answer, immediates, told, missed, appVars, worldVars>>

GetDirectly(c) ==
    /\ ~closed /\ pc[c] = "idle"
    /\ pc' = [pc EXCEPT ![c] = "direct"]
    /\ UNCHANGED <<updating, task, answer, cacheVars, appVars, worldVars>>

\* A listener is given the entry as it is now, in an immediate.
Subscribe(l) ==
    /\ ~closed /\ l \notin subscribed /\ subscribes < MaxSubscribes
    /\ subscribed' = subscribed \cup {l}
    /\ subscribes' = subscribes + 1
    /\ UNCHANGED <<told, missed>>
    /\ \/ /\ cache # None
          /\ immediates' = Append(immediates,
                [listener |-> l, hosts |-> cache.hosts, overtaken |-> FALSE])
          /\ UNCHANGED <<cache, updating, task, pc>>
       \/ /\ cache = None
          /\ \E c \in Call : pc[c] = "idle" /\ FirstQuery(c)
          /\ UNCHANGED immediates
    /\ UNCHANGED <<answer, closed, worldVars>>

UnSubscribe(l) ==
    /\ l \in subscribed
    /\ subscribed' = subscribed \ {l}
    /\ told' = [told EXCEPT ![l] = NoHosts] /\ missed' = missed \ {l}
    /\ UNCHANGED <<cache, updating, task, pc, answer, immediates, subscribes,
                   closed, worldVars>>

\* removeAllListeners takes the listeners of waiting calls with it.
Orphaned == [p \in Process |-> IF pc[p] = "waiting" THEN "orphaned" ELSE pc[p]]

UnSubscribeAll ==
    /\ ~closed
    /\ subscribed' = {} /\ missed' = {}
    /\ told' = [l \in Listener |-> NoHosts]
    /\ pc' = Orphaned
    /\ UNCHANGED <<cache, updating, task, answer, immediates, subscribes,
                   closed, worldVars>>

Close ==
    /\ ~closed
    /\ closed' = TRUE
    /\ cache' = None /\ updating' = FALSE /\ task' = NoTask
    /\ subscribed' = {} /\ missed' = {}
    /\ pc' = [p \in Process |-> IF pc[p] = "armed" THEN "off" ELSE Orphaned[p]]
    /\ told' = [l \in Listener |-> NoHosts]
    /\ UNCHANGED <<answer, immediates, subscribes, worldVars>>
-----------------------------------------------------------------------------
(***************************************************************************)
(* The continuations of calls                                              *)
(***************************************************************************)
Forget(p) == answer' = [answer EXCEPT ![p] = None]

At(p, place) == [pc EXCEPT ![p] = place]

\* updateServiceNow of the first call ends; it catches what listeners throw.
FirstAnswered(c) ==
    /\ Quiet /\ pc[c] = "first" /\ answer[c] # None
    /\ ProcessServiceJSON(answer[c], At(c, "returning"), At(c, "returning"))
    /\ Forget(c)
    /\ UNCHANGED <<updating, task, appVars, server, pushed, arrivals>>

Fails(p) ==
    /\ Quiet /\ answer[p] = None
    /\ faults < MaxFaults /\ faults' = faults + 1

\* Faulty variant: the error leaves getServiceInfo.
FirstThrows(c) ==
    /\ pc[c] = "first" /\ Fails(c)
    /\ pc' = [pc EXCEPT ![c] = "failed"]
    /\ UNCHANGED <<updating, task, answer, cacheVars, appVars,
                   server, pushed, arrivals>>

FirstFailed(c) ==
    /\ pc[c] = "first" /\ Fails(c)
    /\ pc' = [pc EXCEPT ![c] = "returning"]
    /\ UNCHANGED <<updating, task, answer, cacheVars, appVars,
                   server, pushed, arrivals>>

FirstReturns(c) ==
    /\ pc[c] = "returning"
    /\ updating' = FALSE
    /\ ScheduleIfAbsent(c, "returned")
    /\ UNCHANGED <<answer, cacheVars, appVars, worldVars>>

WaiterReturns(c) ==
    /\ pc[c] = "notified"
    /\ ScheduleIfAbsent(c, "returned")
    /\ UNCHANGED <<updating, answer, cacheVars, appVars, worldVars>>

\* Faulty variant: the timer goes with the listener.
WaiterTimesOutListening(c) ==
    /\ Quiet /\ pc[c] = "waiting"
    /\ pc' = [pc EXCEPT ![c] = "failed"]
    /\ UNCHANGED <<updating, task, answer, cacheVars, appVars, worldVars>>

\* waitForEvent gives up after 30 s, whether or not it still has its listener.
WaiterTimesOut(c) ==
    /\ Quiet /\ pc[c] \in Waiting
    /\ pc' = [pc EXCEPT ![c] = "failed"]
    /\ UNCHANGED <<updating, task, answer, cacheVars, appVars, worldVars>>

DirectAnswered(c) ==
    /\ Quiet /\ pc[c] = "direct" /\ answer[c] # None
    /\ ProcessServiceJSON(answer[c], At(c, "returned"), At(c, "failed"))
    /\ Forget(c)
    /\ UNCHANGED <<updating, task, appVars, server, pushed, arrivals>>

DirectFailed(c) ==
    /\ pc[c] = "direct" /\ Fails(c)
    /\ pc' = [pc EXCEPT ![c] = "failed"]
    /\ UNCHANGED <<updating, task, answer, cacheVars, appVars,
                   server, pushed, arrivals>>
-----------------------------------------------------------------------------

\* _doUpdate: an entry that is newer than what the loop left came by a push.
DoUpdate(i) ==
    /\ Quiet /\ pc[i] = "armed"
    /\ pc' = [pc EXCEPT ![i] =
                IF task = NoTask THEN "off"
                ELSE IF cache = None \/ cache.lastRefTime <= task
                     THEN "update" ELSE "refresh"]
    /\ UNCHANGED <<updating, task, answer, cacheVars, appVars, worldVars>>

UpdateAnswered(i) ==
    /\ Quiet /\ pc[i] = "update" /\ answer[i] # None
    /\ ProcessServiceJSON(answer[i], At(i, "ending"), At(i, "ending"))
    /\ Forget(i)
    /\ UNCHANGED <<updating, task, appVars, server, pushed, arrivals>>

\* refreshOnly throws the answer away, or the error.
RefreshEnds(i) ==
    /\ Quiet /\ pc[i] = "refresh"
    /\ pc' = [pc EXCEPT ![i] = "ending"]
    /\ UNCHANGED <<updating, task, answer, cacheVars, appVars, worldVars>>

UpdateFailed(i) ==
    /\ pc[i] = "update" /\ Fails(i)
    /\ pc' = [pc EXCEPT ![i] = "ending"]
    /\ UNCHANGED <<updating, task, answer, cacheVars, appVars,
                   server, pushed, arrivals>>

\* Faulty variant: the timer is set again whatever happened meanwhile.
RearmAlways(i) ==
    /\ pc[i] = "ending"
    /\ pc' = [pc EXCEPT ![i] = "armed"]
    /\ task' = IF cache = None THEN task ELSE cache.lastRefTime
    /\ UNCHANGED <<updating, answer, cacheVars, appVars, worldVars>>

\* The rest of _doUpdate: the timer is set again while the key has a task.
Rearm(i) ==
    /\ pc[i] = "ending"
    /\ pc' = [pc EXCEPT ![i] = IF task = NoTask THEN "off" ELSE "armed"]
    /\ task' = IF task = NoTask \/ cache = None THEN task
               ELSE cache.lastRefTime
    /\ UNCHANGED <<updating, answer, cacheVars, appVars, worldVars>>
-----------------------------------------------------------------------------
(***************************************************************************)
(* Immediates, pushes, and the server                                      *)
(***************************************************************************)
ImmediateRuns ==
    /\ Quiet /\ immediates # <<>>
    /\ told' = IF \/ Head(immediates).overtaken
                 \/ Head(immediates).listener \notin subscribed THEN told
               ELSE [told EXCEPT ![Head(immediates).listener] =
                                    Head(immediates).hosts]
    /\ immediates' = Tail(immediates)
    /\ UNCHANGED <<cache, missed, updating, task, pc, answer, appVars, worldVars>>

\* _handlePushMessage of a push of type dom; what listeners throw is caught.
PushArrives ==
    /\ Quiet /\ ~closed /\ arrivals < MaxArrivals
    /\ \E info \in pushed : ProcessServiceJSON(info, pc, pc)
    /\ arrivals' = arrivals + 1
    /\ pushed' = IF arrivals' = MaxArrivals THEN {} ELSE pushed
    /\ UNCHANGED <<updating, task, answer, appVars, server>>

ServerAnswers(p) ==
    /\ pc[p] \in Asking /\ answer[p] = None
    /\ answer' = [answer EXCEPT ![p] = server]
    /\ UNCHANGED <<updating, task, pc, cacheVars, appVars, worldVars>>

ServerChanges ==
    /\ ~closed /\ server.lastRefTime < MaxChanges
    /\ \E h \in HostList :
          server' = [hosts |-> h, lastRefTime |-> server.lastRefTime + 1]
    /\ \/ UNCHANGED pushed
       \/ arrivals < MaxArrivals /\ pushed' = pushed \cup {server'}
    /\ UNCHANGED <<updating, task, pc, answer, cacheVars, appVars, arrivals,
                   faults>>
-----------------------------------------------------------------------------
CallStep(c) ==
    \/ FirstAnswered(c) \/ FirstFailed(c) \/ FirstReturns(c)
    \/ WaiterReturns(c) \/ WaiterTimesOut(c)
    \/ DirectAnswered(c) \/ DirectFailed(c)

LoopStep(i) ==
    \/ DoUpdate(i) \/ UpdateAnswered(i) \/ RefreshEnds(i)
    \/ UpdateFailed(i) \/ Rearm(i)

Application ==
    \/ \E c \in Call : GetServiceInfo(c) \/ GetDirectly(c)
    \/ \E l \in Listener : Subscribe(l) \/ UnSubscribe(l)
    \/ UnSubscribeAll
    \/ Close

Next ==
    \/ Application
    \/ \E c \in Call : CallStep(c)
    \/ \E i \in Loop : LoopStep(i)
    \/ \E p \in Process : ServerAnswers(p)
    \/ ImmediateRuns \/ PushArrives \/ ServerChanges

Spec == Init /\ [][Next]_vars

\* Queries are answered, timers fire, promise reactions run; what these hold up,
\* they hold up for a moment only.
Fairness ==
    /\ \A c \in Call : SF_vars(CallStep(c) \/ ServerAnswers(c))
    /\ \A i \in Loop : WF_vars(LoopStep(i) \/ ServerAnswers(i))

FairSpec == Spec /\ Fairness
-----------------------------------------------------------------------------
(***************************************************************************)
(* Properties                                                              *)
(***************************************************************************)
\* Every variable has its type; a process that asked nothing has no answer.
TypeOK ==
    /\ cache \in ServiceInfo \cup {None}
    /\ updating \in BOOLEAN /\ closed \in BOOLEAN
    /\ task \in {NoTask} \cup 0 .. Infinity
    /\ pc \in [Process -> CallPlace \cup LoopPlace]
    /\ \A c \in Call : pc[c] \in CallPlace
    /\ \A i \in Loop : pc[i] \in LoopPlace
    /\ answer \in [Process -> ServiceInfo \cup {None}]
    /\ \A p \in Process : answer[p] # None => pc[p] \in Asking
    /\ subscribed \in SUBSET Listener
    /\ immediates \in Seq([listener : Listener, hosts : HostList,
                           overtaken : BOOLEAN])
    /\ told \in [Listener -> HostList] /\ missed \in SUBSET subscribed
    /\ server \in ServiceInfo /\ pushed \in SUBSET ServiceInfo
    /\ arrivals \in 0 .. MaxArrivals /\ faults \in 0 .. MaxFaults
    /\ subscribes \in 0 .. MaxSubscribes

\* Until close() the key has at most one update loop, and it has a task
\* exactly if that loop lives: a call that returns while the loop's query is
\* under way starts no second one, and no error or push ends the first
\* (_scheduleUpdateIfAbsent, _doUpdate).
OneLoop ==
    ~closed =>
        /\ \A i, j \in Loop : pc[i] # "off" /\ pc[j] # "off" => i = j
        /\ task # NoTask <=> \E i \in Loop : pc[i] # "off"

\* The updating flag belongs to a call that will take it away: were it left
\* behind by a failed query, every later call would wait in vain
\* (getServiceInfo, lines 214 to 219).
UpdatingHasOwner ==
    updating => \E c \in Call : pc[c] \in {"first", "returning"}

\* Subscribers know the cached hosts: whatever order subscriptions,
\* immediates, answers, pushes and comparisons of host lists come in, a
\* subscriber was given the hosts in the cache, or an immediate that no event
\* overtook is about to.  One that an event did not come to, because a listener
\* before it threw, waits for the next one.
SubscribersKnow ==
    \A l \in subscribed \ missed :
        \/ cache.hosts = NoHosts
        \/ told[l] = cache.hosts
        \/ \E k \in DOMAIN immediates :
              /\ immediates[k].listener = l /\ ~immediates[k].overtaken
              /\ immediates[k].hosts = cache.hosts

\* Every call returns or throws, also when its event never comes, when an
\* unSubscribe took its listener away, or when the client is closed.
CallsSettle ==
    \A c \in Call : pc[c] # "idle" ~> pc[c] \in {"idle", "returned", "failed"}

\* A closed client falls silent: the loop whose query is under way when it is
\* closed does not set its timer again.  (A call that is under way does: it
\* schedules updates when it returns.)
ClosedFallsSilent ==
    /\ closed /\ task = NoTask
    /\ \A c \in Call : pc[c] \notin {"first", "returning", "notified"}
    ~> \A i \in Loop : pc[i] = "off"

=============================================================================
