------------------------- MODULE HostReactorProofs -------------------------
(***************************************************************************)
(* Proofs about HostReactor for every number of calls and listeners, every *)
(* set of host lists and every bound.  Types, the single loop and the      *)
(* owner of the flag are inductive; that subscribers know the cached hosts *)
(* needs CacheInv, which says who speaks last to each of them.             *)
(***************************************************************************)
EXTENDS HostReactor, TLAPS

\* An immediate that l has not had yet and that no event has overtaken.
Counts(k, l) == immediates[k].listener = l /\ ~immediates[k].overtaken

\* The last immediate that is still to speak for l says what the cache says.
LastSaysCache(l) ==
    \E k \in DOMAIN immediates :
        /\ Counts(k, l) /\ immediates[k].hosts = cache.hosts
        /\ \A j \in DOMAIN immediates : j > k => ~Counts(j, l)

\* l knows the cached hosts already.
Informed(l) ==
    /\ told[l] = cache.hosts
    /\ \A k \in DOMAIN immediates : ~Counts(k, l)

Knows(l) == cache.hosts = NoHosts \/ Informed(l) \/ LastSaysCache(l)

CacheInv ==
    /\ subscribed # {} => cache # None
    /\ \A l \in subscribed \ missed : Knows(l)

IInv == TypeOK /\ OneLoop /\ UpdatingHasOwner /\ CacheInv
-----------------------------------------------------------------------------
Immediate == [listener : Listener, hosts : HostList, overtaken : BOOLEAN]

\* Two lists in which nothing is new, removed or modified are the same.
LEMMA SameHosts ==
    ASSUME NEW old \in HostList, NEW new \in HostList, ~Differs(old, new)
    PROVE  old = new
<1>1. DOMAIN old = DOMAIN new /\ \A a \in DOMAIN old : old[a] = new[a]
  BY DEF Differs
<1>2. old = [a \in DOMAIN old |-> old[a]] /\ new = [a \in DOMAIN new |-> new[a]]
  BY HostReactorAssumption
<1> QED
  BY <1>1, <1>2

\* The placeholder of a first query is an entry without hosts.
LEMMA PlaceholderType == Placeholder \in ServiceInfo /\ Placeholder.hosts = NoHosts
  BY HostReactorAssumption DEF Placeholder, ServiceInfo

\* The initial states satisfy the inductive invariant.
LEMMA InitEstablishes == Init => IInv
<1> SUFFICES ASSUME Init PROVE IInv
  OBVIOUS
<1>1. TypeOK
  <2>1. /\ pc \in [Process -> CallPlace \cup LoopPlace]
        /\ \A c \in Call : pc[c] \in CallPlace
        /\ \A i \in Loop : pc[i] \in LoopPlace
    BY HostReactorAssumption DEF Init, Process, CallPlace, LoopPlace
  <2>2. answer \in [Process -> ServiceInfo \cup {None}] /\ server \in ServiceInfo
    BY HostReactorAssumption DEF Init, ServiceInfo
  <2>3. \A p \in Process : answer[p] = None
    BY DEF Init
  <2>4. immediates \in Seq([listener : Listener, hosts : HostList,
                            overtaken : BOOLEAN])
    BY DEF Init
  <2>5. /\ told \in [Listener -> HostList]
        /\ arrivals \in 0 .. MaxArrivals /\ faults \in 0 .. MaxFaults
        /\ subscribes \in 0 .. MaxSubscribes
    BY HostReactorAssumption DEF Init
  <2>6. /\ cache = None /\ task = NoTask /\ subscribed = {} /\ missed = {} /\ pushed = {}
        /\ updating = FALSE /\ closed = FALSE
    BY DEF Init
  <2> QED
    BY <2>1, <2>2, <2>3, <2>4, <2>5, <2>6 DEF TypeOK
<1>2. OneLoop /\ UpdatingHasOwner
  BY HostReactorAssumption DEF Init, OneLoop, UpdatingHasOwner, Process
<1> QED
  BY <1>1, <1>2 DEF Init, IInv, CacheInv

\* An event keeps the types of what it writes.
LEMMA EventTypes ==
    ASSUME TypeOK, NEW info \in ServiceInfo, NEW reached \in SUBSET subscribed,
           NEW resolved, NEW places, Event(info, reached, resolved, places)
    PROVE  /\ told' \in [Listener -> HostList]
           /\ missed' \in SUBSET subscribed
           /\ immediates' \in Seq(Immediate)
<1>1. told' \in [Listener -> HostList] /\ missed' \in SUBSET subscribed
  BY DEF TypeOK, Event, ServiceInfo
<1>2. immediates \in Seq(Immediate)
  BY DEF TypeOK, Immediate
<1>3. immediates' = [k \in DOMAIN immediates |->
                  IF immediates[k].listener \in reached
                  THEN [immediates[k] EXCEPT !.overtaken = TRUE]
                  ELSE immediates[k]]
  BY DEF Event
<1>4. DOMAIN immediates' = 1 .. Len(immediates)
  BY <1>2, <1>3
<1>5. ASSUME NEW k \in 1 .. Len(immediates) PROVE immediates'[k] \in Immediate
  <2>1. immediates[k] \in Immediate
    BY <1>2
  <2>2. [immediates[k] EXCEPT !.overtaken = TRUE] \in Immediate
    BY <2>1 DEF Immediate
  <2>3. k \in DOMAIN immediates
    BY <1>2
  <2>4. immediates'[k] = IF immediates[k].listener \in reached
                         THEN [immediates[k] EXCEPT !.overtaken = TRUE]
                         ELSE immediates[k]
    BY <1>3, <2>3, Zenon
  <2> QED
    BY <2>1, <2>2, <2>4, Zenon
<1> QED
  BY <1>1, <1>2, <1>3, <1>4, <1>5

\* Taking in an answer or a push keeps the types of what it writes.
LEMMA ProcessTypes ==
    ASSUME TypeOK, NEW info \in ServiceInfo, NEW returned, NEW thrown,
           ProcessServiceJSON(info, returned, thrown)
    PROVE  /\ cache' \in ServiceInfo \cup {None}
           /\ told' \in [Listener -> HostList]
           /\ missed' \in SUBSET subscribed
           /\ immediates' \in Seq(Immediate)
           /\ faults' \in 0 .. MaxFaults
<1>1. cache' \in ServiceInfo \cup {None}
  BY DEF TypeOK, ProcessServiceJSON
<1>2. CASE Event(info, subscribed, Pending, returned) /\ UNCHANGED faults
  BY <1>1, <1>2, EventTypes DEF TypeOK
<1>3. CASE CutShort(info, thrown)
  <2>1. faults' \in 0 .. MaxFaults
    BY <1>3, HostReactorAssumption DEF CutShort, TypeOK
  <2>2. PICK reached \in SUBSET subscribed, resolved \in SUBSET Pending :
           Event(info, reached, resolved, thrown)
    BY <1>3 DEF CutShort
  <2> QED
    BY <1>1, <2>1, <2>2, EventTypes
<1>4. CASE UNCHANGED <<told, missed, immediates, faults>>
  BY <1>1, <1>4 DEF TypeOK, Immediate
<1> QED
  BY <1>2, <1>3, <1>4 DEF ProcessServiceJSON

\* The processes afterwards: some calls that waited are notified, the others are
\* where the caller is when processServiceJSON returns or throws.
LEMMA PlacesAfter ==
    ASSUME NEW info, NEW returned, NEW thrown,
           returned = [p \in Process |-> returned[p]],
           ProcessServiceJSON(info, returned, thrown)
    PROVE  \E places \in {returned, thrown}, resolved \in SUBSET Pending :
              pc' = [p \in Process |-> IF p \in resolved THEN "notified" ELSE places[p]]
<1>1. CASE Event(info, subscribed, Pending, returned)
  BY <1>1 DEF Event
<1>2. CASE CutShort(info, thrown)
  <2>1. PICK reached \in SUBSET subscribed, resolved \in SUBSET Pending :
           Event(info, reached, resolved, thrown)
    BY <1>2 DEF CutShort
  <2> QED
    BY <2>1 DEF Event
<1>3. CASE pc' = returned
  <2> DEFINE nobody == {}
  <2>1. pc' = [p \in Process |-> IF p \in nobody THEN "notified" ELSE returned[p]]
    BY <1>3
  <2>2. nobody \in SUBSET Pending
    OBVIOUS
  <2> HIDE DEF nobody
  <2> QED
    BY <2>1, <2>2
<1> QED
  BY <1>1, <1>2, <1>3 DEF ProcessServiceJSON

\* What an answer to p does to the places: p goes on, calls that waited may.
LEMMA AnsweredPlaces ==
    ASSUME TypeOK, NEW p \in Process, NEW info, NEW next, NEW other,
           pc[p] \in Asking, ProcessServiceJSON(info, At(p, next), At(p, other))
    PROVE  /\ pc' = [q \in Process |-> pc'[q]]
           /\ pc'[p] \in {next, other}
           /\ \A q \in Process \ {p} :
                 pc'[q] = pc[q] \/ (pc[q] = "waiting" /\ pc'[q] = "notified")
<1>1. /\ At(p, next) = [q \in Process |-> IF q = p THEN next ELSE pc[q]]
      /\ At(p, other) = [q \in Process |-> IF q = p THEN other ELSE pc[q]]
  BY DEF TypeOK, At
<1>2. PICK places \in {At(p, next), At(p, other)}, resolved \in SUBSET Pending :
         pc' = [q \in Process |-> IF q \in resolved THEN "notified" ELSE places[q]]
  BY <1>1, PlacesAfter
<1>3. p \notin resolved /\ \A q \in resolved : q \in Process /\ pc[q] = "waiting"
  BY <1>2 DEF Pending, Asking
<1> QED
  BY <1>1, <1>2, <1>3

\* A push may notify calls that wait, and moves nobody else.
LEMMA PushPlaces ==
    ASSUME TypeOK, NEW info, ProcessServiceJSON(info, pc, pc)
    PROVE  /\ pc' = [q \in Process |-> pc'[q]]
           /\ \A q \in Process :
                 pc'[q] = pc[q] \/ (pc[q] = "waiting" /\ pc'[q] = "notified")
<1>1. pc = [q \in Process |-> pc[q]]
  BY DEF TypeOK
<1>2. PICK resolved \in SUBSET Pending :
         pc' = [q \in Process |-> IF q \in resolved THEN "notified" ELSE pc[q]]
  BY <1>1, PlacesAfter
<1> QED
  BY <1>2 DEF Pending

\* The remaining variables when process p, which had an answer, goes on.
LEMMA ProceedTypes ==
    ASSUME TypeOK, NEW p \in Process, NEW next, NEW other,
           p \in Call => next \in CallPlace /\ other \in CallPlace,
           p \in Loop => next \in LoopPlace /\ other \in LoopPlace,
           answer[p] # None, ProcessServiceJSON(answer[p], At(p, next), At(p, other)),
           Forget(p), UNCHANGED <<updating, task, appVars, server, pushed, arrivals>>
    PROVE  TypeOK'
<1>1. answer[p] \in ServiceInfo /\ pc[p] \in Asking
  BY DEF TypeOK
<1>2. /\ pc' = [q \in Process |-> pc'[q]]
      /\ pc'[p] \in {next, other}
      /\ \A q \in Process \ {p} :
            pc'[q] = pc[q] \/ (pc[q] = "waiting" /\ pc'[q] = "notified")
  BY <1>1, AnsweredPlaces
<1>3. /\ \A c \in Call : pc'[c] \in CallPlace
      /\ \A i \in Loop : pc'[i] \in LoopPlace
  BY <1>2 DEF TypeOK, Process, CallPlace, LoopPlace
<1>4. pc' \in [Process -> CallPlace \cup LoopPlace]
  BY <1>2, <1>3 DEF Process
<1>5. /\ answer' \in [Process -> ServiceInfo \cup {None}]
      /\ \A q \in Process : answer'[q] # None => pc'[q] \in Asking
  BY <1>2 DEF TypeOK, Forget, Process, Asking
<1> QED
  BY <1>1, <1>3, <1>4, <1>5, ProcessTypes DEF TypeOK, Immediate, appVars

\* Starting a loop, if there is none, next to a call that goes on.
LEMMA ScheduleTypes ==
    ASSUME TypeOK, NEW c \in Call, NEW next \in CallPlace, pc[c] \notin Asking,
           ScheduleIfAbsent(c, next), UNCHANGED answer
    PROVE  /\ task' \in {NoTask} \cup 0 .. Infinity
           /\ pc' \in [Process -> CallPlace \cup LoopPlace]
           /\ \A d \in Call : pc'[d] \in CallPlace
           /\ \A i \in Loop : pc'[i] \in LoopPlace
           /\ \A p \in Process : answer'[p] # None => pc'[p] \in Asking
<1>1. Infinity \in 0 .. Infinity
  BY HostReactorAssumption DEF Infinity
<1>2. CASE task # NoTask
  BY <1>2, HostReactorAssumption
     DEF TypeOK, ScheduleIfAbsent, Process, CallPlace, LoopPlace, Asking
<1>3. CASE task = NoTask
  <2>1. PICK i \in Loop : /\ pc[i] = "off"
                          /\ pc' = [pc EXCEPT ![c] = next, ![i] = "armed"]
    BY <1>3 DEF ScheduleIfAbsent
  <2>2. task' = Infinity
    BY <1>3 DEF ScheduleIfAbsent
  <2> QED
    BY <1>1, <2>1, <2>2, HostReactorAssumption
       DEF TypeOK, Process, CallPlace, LoopPlace, Asking
<1> QED
  BY <1>2, <1>3

\* A call or a loop that waits for no answer goes on at another place.
LEMMA MoveTypes ==
    ASSUME TypeOK, NEW p \in Process, NEW next, answer[p] = None,
           p \in Call => next \in CallPlace, p \in Loop => next \in LoopPlace,
           pc' = [pc EXCEPT ![p] = next], UNCHANGED answer
    PROVE  /\ pc' \in [Process -> CallPlace \cup LoopPlace]
           /\ \A c \in Call : pc'[c] \in CallPlace
           /\ \A i \in Loop : pc'[i] \in LoopPlace
           /\ \A q \in Process : answer'[q] # None => pc'[q] \in Asking
  BY DEF TypeOK, Process

\* Calls of the application keep the types.
LEMMA ApplicationTypes == ASSUME TypeOK, Application PROVE TypeOK'
<1>1. ASSUME NEW c \in Call, GetServiceInfo(c) PROVE TypeOK'
  <2>1. /\ pc[c] = "idle" /\ answer[c] = None
        /\ UNCHANGED <<answer, immediates, told, missed, appVars, worldVars>>
    BY <1>1 DEF GetServiceInfo, TypeOK, Process, Asking
  <2>2. CASE FirstQuery(c)
    <3>1. /\ pc' \in [Process -> CallPlace \cup LoopPlace]
          /\ \A d \in Call : pc'[d] \in CallPlace
          /\ \A i \in Loop : pc'[i] \in LoopPlace
          /\ \A q \in Process : answer'[q] # None => pc'[q] \in Asking
      BY <2>1, <2>2, MoveTypes, HostReactorAssumption
         DEF FirstQuery, Process, CallPlace
    <3> QED
      BY <2>1, <2>2, <3>1, PlaceholderType
         DEF FirstQuery, TypeOK, appVars, worldVars
  <2>3. CASE pc' = [pc EXCEPT ![c] = "waiting"] /\ UNCHANGED <<cache, updating, task>>
    <3>1. /\ pc' \in [Process -> CallPlace \cup LoopPlace]
          /\ \A d \in Call : pc'[d] \in CallPlace
          /\ \A i \in Loop : pc'[i] \in LoopPlace
          /\ \A q \in Process : answer'[q] # None => pc'[q] \in Asking
      BY <2>1, <2>3, MoveTypes, HostReactorAssumption DEF Process, CallPlace
    <3> QED
      BY <2>1, <2>3, <3>1 DEF TypeOK, appVars, worldVars
  <2>4. CASE ScheduleIfAbsent(c, "returned") /\ UNCHANGED <<cache, updating>>
    <3>1. "returned" \in CallPlace /\ pc[c] \notin Asking
      BY <2>1 DEF CallPlace, Asking
    <3> QED
      BY <2>1, <2>4, <3>1, ScheduleTypes DEF TypeOK, appVars, worldVars
  <2> QED
    BY <1>1, <2>2, <2>3, <2>4 DEF GetServiceInfo
<1>2. ASSUME NEW c \in Call, GetDirectly(c) PROVE TypeOK'
  <2>1. pc[c] = "idle" /\ answer[c] = None
    BY <1>2 DEF GetDirectly, TypeOK, Process, Asking
  <2> QED
    BY <1>2, <2>1, MoveTypes, HostReactorAssumption
       DEF GetDirectly, TypeOK, Process, CallPlace, cacheVars, appVars, worldVars
<1>3. ASSUME NEW l \in Listener, Subscribe(l) PROVE TypeOK'
  <2>1. /\ subscribes' \in 0 .. MaxSubscribes /\ subscribed' \in SUBSET Listener
        /\ UNCHANGED <<told, answer, closed, worldVars>>
        /\ missed' \in SUBSET subscribed'
    BY <1>3, HostReactorAssumption DEF Subscribe, TypeOK
  <2>2. CASE cache # None
    <3> DEFINE entry == [listener |-> l, hosts |-> cache.hosts, overtaken |-> FALSE]
    <3>1. /\ immediates' = Append(immediates, entry)
          /\ UNCHANGED <<cache, updating, task, pc>>
      BY <1>3, <2>2 DEF Subscribe
    <3>2. entry \in Immediate
      BY <2>2 DEF TypeOK, ServiceInfo, Immediate
    <3>3. immediates' \in Seq(Immediate)
      BY <3>1, <3>2 DEF TypeOK, Immediate
    <3> QED
      BY <2>1, <3>1, <3>3 DEF TypeOK, Immediate, worldVars
  <2>3. CASE cache = None
    <3>1. PICK c \in Call : pc[c] = "idle" /\ FirstQuery(c)
      BY <1>3, <2>3 DEF Subscribe
    <3>2. answer[c] = None /\ UNCHANGED immediates
      BY <1>3, <2>3, <3>1 DEF Subscribe, TypeOK, Process, Asking
    <3>3. /\ pc' \in [Process -> CallPlace \cup LoopPlace]
          /\ \A d \in Call : pc'[d] \in CallPlace
          /\ \A i \in Loop : pc'[i] \in LoopPlace
          /\ \A q \in Process : answer'[q] # None => pc'[q] \in Asking
      BY <2>1, <3>1, <3>2, MoveTypes, HostReactorAssumption
         DEF FirstQuery, Process, CallPlace
    <3> QED
      BY <2>1, <3>1, <3>2, <3>3, PlaceholderType DEF FirstQuery, TypeOK, worldVars
  <2> QED
    BY <2>2, <2>3
<1>4. ASSUME NEW l \in Listener, UnSubscribe(l) PROVE TypeOK'
  <2>1. told' \in [Listener -> HostList]
    BY <1>4, HostReactorAssumption DEF UnSubscribe, TypeOK
  <2> QED
    BY <1>4, <2>1 DEF UnSubscribe, TypeOK, worldVars
<1>5. /\ Orphaned \in [Process -> CallPlace \cup LoopPlace]
      /\ \A c \in Call : Orphaned[c] \in CallPlace
      /\ \A i \in Loop : Orphaned[i] \in LoopPlace
      /\ \A q \in Process : answer[q] # None => Orphaned[q] \in Asking
  BY DEF TypeOK, Orphaned, Process, CallPlace, LoopPlace, Asking
<1>6. [l \in Listener |-> NoHosts] \in [Listener -> HostList]
  BY HostReactorAssumption
<1>7. ASSUME UnSubscribeAll PROVE TypeOK'
  BY <1>5, <1>6, <1>7 DEF UnSubscribeAll, TypeOK, worldVars
<1>8. ASSUME Close PROVE TypeOK'
  <2>1. /\ pc' \in [Process -> CallPlace \cup LoopPlace]
        /\ \A c \in Call : pc'[c] \in CallPlace
        /\ \A i \in Loop : pc'[i] \in LoopPlace
        /\ \A q \in Process : answer'[q] # None => pc'[q] \in Asking
    BY <1>5, <1>8 DEF Close, TypeOK, Process, CallPlace, LoopPlace, Asking
  <2> QED
    BY <1>6, <1>8, <2>1 DEF Close, TypeOK, worldVars
<1> QED
  BY <1>1, <1>2, <1>3, <1>4, <1>7, <1>8 DEF Application

\* A failing query is one of the counted faults.
LEMMA FaultTypes ==
    ASSUME TypeOK, NEW p \in Process, Fails(p)
    PROVE  faults' \in 0 .. MaxFaults /\ answer[p] = None
  BY HostReactorAssumption DEF TypeOK, Fails

\* A step of p that leaves everything but its place and the faults alone.
LEMMA GoOnTypes ==
    ASSUME TypeOK, NEW p \in Process, NEW next, answer[p] = None,
           p \in Call => next \in CallPlace, p \in Loop => next \in LoopPlace,
           pc' = [pc EXCEPT ![p] = next], faults' \in 0 .. MaxFaults,
           task' \in {NoTask} \cup 0 .. Infinity,
           UNCHANGED <<updating, answer, cacheVars, appVars,
                       server, pushed, arrivals>>
    PROVE  TypeOK'
<1>1. /\ pc' \in [Process -> CallPlace \cup LoopPlace]
      /\ \A c \in Call : pc'[c] \in CallPlace
      /\ \A i \in Loop : pc'[i] \in LoopPlace
      /\ \A q \in Process : answer'[q] # None => pc'[q] \in Asking
  BY MoveTypes
<1> QED
  BY <1>1 DEF TypeOK, cacheVars, appVars

\* Steps of a call keep the types.
LEMMA CallStepTypes == ASSUME TypeOK, NEW c \in Call, CallStep(c) PROVE TypeOK'
<1>1. c \in Process /\ c \notin Loop /\ faults \in 0 .. MaxFaults
  BY HostReactorAssumption DEF Process, TypeOK
<1>2. task \in {NoTask} \cup 0 .. Infinity
  BY DEF TypeOK
<1>3. CASE FirstAnswered(c)
  BY <1>1, <1>3, ProceedTypes DEF FirstAnswered, CallPlace
<1>4. CASE FirstFailed(c)
  BY <1>1, <1>2, <1>4, FaultTypes, GoOnTypes DEF FirstFailed, CallPlace
<1>5. CASE FirstReturns(c)
  <2>1. "returned" \in CallPlace /\ pc[c] \notin Asking
    BY <1>5 DEF FirstReturns, CallPlace, Asking
  <2> QED
    BY <1>5, <2>1, ScheduleTypes
       DEF FirstReturns, TypeOK, cacheVars, appVars, worldVars
<1>6. CASE WaiterReturns(c)
  <2>1. "returned" \in CallPlace /\ pc[c] \notin Asking
    BY <1>6 DEF WaiterReturns, CallPlace, Asking
  <2> QED
    BY <1>6, <2>1, ScheduleTypes
       DEF WaiterReturns, TypeOK, cacheVars, appVars, worldVars
<1>7. CASE WaiterTimesOut(c)
  <2>1. answer[c] = None
    BY <1>1, <1>7 DEF WaiterTimesOut, TypeOK, Asking, Waiting
  <2> QED
    BY <1>1, <1>2, <1>7, <2>1, GoOnTypes DEF WaiterTimesOut, CallPlace, worldVars
<1>8. CASE DirectAnswered(c)
  BY <1>1, <1>8, ProceedTypes DEF DirectAnswered, CallPlace
<1>9. CASE DirectFailed(c)
  BY <1>1, <1>2, <1>9, FaultTypes, GoOnTypes DEF DirectFailed, CallPlace
<1> QED
  BY <1>3, <1>4, <1>5, <1>6, <1>7, <1>8, <1>9 DEF CallStep

\* Steps of a loop keep the types.
LEMMA LoopStepTypes == ASSUME TypeOK, NEW i \in Loop, LoopStep(i) PROVE TypeOK'
<1>1. i \in Process /\ i \notin Call /\ faults \in 0 .. MaxFaults
  BY HostReactorAssumption DEF Process, TypeOK
<1>2. task \in {NoTask} \cup 0 .. Infinity
  BY DEF TypeOK
<1>3. CASE DoUpdate(i)
  <2>1. answer[i] = None
    BY <1>1, <1>3 DEF DoUpdate, TypeOK, Asking
  <2>2. \E next \in LoopPlace : pc' = [pc EXCEPT ![i] = next]
    BY <1>3 DEF DoUpdate, LoopPlace
  <2> QED
    BY <1>1, <1>2, <1>3, <2>1, <2>2, GoOnTypes DEF DoUpdate, worldVars
<1>4. CASE UpdateAnswered(i)
  BY <1>1, <1>4, ProceedTypes DEF UpdateAnswered, LoopPlace
<1>5. CASE RefreshEnds(i)
  <2>1. answer[i] = None
    BY <1>1, <1>5 DEF RefreshEnds, TypeOK, Asking
  <2> QED
    BY <1>1, <1>2, <1>5, <2>1, GoOnTypes DEF RefreshEnds, LoopPlace, worldVars
<1>6. CASE UpdateFailed(i)
  BY <1>1, <1>2, <1>6, FaultTypes, GoOnTypes DEF UpdateFailed, LoopPlace
<1>7. CASE Rearm(i)
  <2>1. answer[i] = None
    BY <1>1, <1>7 DEF Rearm, TypeOK, Asking
  <2>2. \E next \in LoopPlace : pc' = [pc EXCEPT ![i] = next]
    BY <1>7 DEF Rearm, LoopPlace
  <2>3. task' \in {NoTask} \cup 0 .. Infinity
    BY <1>2, <1>7, HostReactorAssumption DEF Rearm, TypeOK, ServiceInfo, Infinity
  <2> QED
    BY <1>1, <1>7, <2>1, <2>2, <2>3, GoOnTypes DEF Rearm, worldVars
<1> QED
  BY <1>3, <1>4, <1>5, <1>6, <1>7 DEF LoopStep

\* Immediates, pushes and the server keep the types.
LEMMA EnvironmentTypes ==
    ASSUME TypeOK,
           \/ \E p \in Process : ServerAnswers(p)
           \/ ImmediateRuns \/ PushArrives \/ ServerChanges
    PROVE  TypeOK'
<1>1. CASE \E p \in Process : ServerAnswers(p)
  BY <1>1 DEF ServerAnswers, TypeOK, cacheVars, appVars, worldVars
<1>2. CASE ImmediateRuns
  <2>1. immediates \in Seq(Immediate) /\ immediates # <<>>
    BY <1>2 DEF ImmediateRuns, TypeOK, Immediate
  <2>2. Head(immediates) \in Immediate /\ Tail(immediates) \in Seq(Immediate)
    BY <2>1
  <2>3. told' \in [Listener -> HostList]
    BY <1>2, <2>2 DEF ImmediateRuns, TypeOK, Immediate
  <2> QED
    BY <1>2, <2>2, <2>3 DEF ImmediateRuns, TypeOK, Immediate, appVars, worldVars
<1>3. CASE PushArrives
  <2>1. PICK info \in pushed : ProcessServiceJSON(info, pc, pc)
    BY <1>3 DEF PushArrives
  <2>2. info \in ServiceInfo /\ arrivals' \in 0 .. MaxArrivals
        /\ pushed' \in SUBSET ServiceInfo
    BY <1>3, HostReactorAssumption DEF PushArrives, TypeOK
  <2>3. /\ pc' = [q \in Process |-> pc'[q]]
        /\ \A q \in Process :
              pc'[q] = pc[q] \/ (pc[q] = "waiting" /\ pc'[q] = "notified")
    BY <2>1, PushPlaces
  <2>4. /\ \A c \in Call : pc'[c] \in CallPlace
        /\ \A i \in Loop : pc'[i] \in LoopPlace
        /\ \A q \in Process : answer[q] # None => pc'[q] \in Asking
    BY <2>3 DEF TypeOK, Process, CallPlace, LoopPlace, Asking
  <2>5. pc' \in [Process -> CallPlace \cup LoopPlace]
    BY <2>3, <2>4 DEF Process
  <2> QED
    BY <1>3, <2>1, <2>2, <2>4, <2>5, ProcessTypes DEF PushArrives, TypeOK, Immediate, appVars
<1>4. CASE ServerChanges
  <2>1. server' \in ServiceInfo
    BY <1>4, HostReactorAssumption DEF ServerChanges, TypeOK, ServiceInfo
  <2> QED
    BY <1>4, <2>1 DEF ServerChanges, TypeOK, cacheVars, appVars
<1> QED
  BY <1>1, <1>2, <1>3, <1>4

\* Stuttering keeps the types.
LEMMA StutterTypes == ASSUME TypeOK, UNCHANGED vars PROVE TypeOK'
  BY DEF TypeOK, vars

\* Every step keeps the types.
LEMMA StepTypes == ASSUME TypeOK, [Next]_vars PROVE TypeOK'
  BY ApplicationTypes, CallStepTypes, LoopStepTypes, EnvironmentTypes, StutterTypes
     DEF Next
-----------------------------------------------------------------------------
(***************************************************************************)
(* One loop, and an owner of the updating flag                             *)
(***************************************************************************)
\* A step that leaves the task and the places of the loops, or moves the one
\* loop to another place that is not "off", keeps OneLoop.
LEMMA LoopsKept ==
    ASSUME OneLoop, closed => closed',
           \A i \in Loop : pc'[i] # "off" <=> pc[i] # "off",
           task' # NoTask <=> task # NoTask
    PROVE  OneLoop'
  BY DEF OneLoop

\* _scheduleUpdateIfAbsent starts a loop only when there is none.
LEMMA ScheduleKeepsOne ==
    ASSUME TypeOK, OneLoop, NEW c \in Call, NEW next, closed' = closed,
           ScheduleIfAbsent(c, next)
    PROVE  OneLoop'
<1>1. \A i \in Loop : i # c
  BY HostReactorAssumption
<1>2. CASE task # NoTask
  <2>1. pc' = [pc EXCEPT ![c] = next] /\ task' = task
    BY <1>2 DEF ScheduleIfAbsent
  <2> QED
    BY <1>1, <2>1, LoopsKept DEF TypeOK
<1>3. CASE task = NoTask
  <2>1. PICK i \in Loop : pc' = [pc EXCEPT ![c] = next, ![i] = "armed"]
    BY <1>3 DEF ScheduleIfAbsent
  <2>2. \A j \in Loop : pc'[j] = IF j = i THEN "armed" ELSE pc[j]
    BY <1>1, <2>1 DEF TypeOK, Process
  <2>3. task' # NoTask
    BY <1>3, HostReactorAssumption DEF ScheduleIfAbsent, Infinity, NoTask
  <2> QED
    BY <1>3, <2>2, <2>3 DEF OneLoop
<1> QED
  BY <1>2, <1>3

\* The listeners of waiting calls are no loops.
LEMMA OrphanedKeepsLoops ==
    ASSUME TypeOK PROVE \A i \in Loop : Orphaned[i] = pc[i]
  BY DEF TypeOK, Orphaned, Process, LoopPlace

\* Every step keeps the loop single and the task with it.
LEMMA StepKeepsOneLoop == ASSUME TypeOK, OneLoop, [Next]_vars PROVE OneLoop'
<1>1. \A i \in Loop : i \in Process /\ i \notin Call /\ pc[i] # "waiting"
  BY HostReactorAssumption DEF TypeOK, Process, LoopPlace
<1>2. CASE Application
  <2>1. ASSUME NEW c \in Call, FirstQuery(c), closed' = closed PROVE OneLoop'
    BY <1>1, <2>1, LoopsKept DEF FirstQuery, TypeOK
  <2>2. ASSUME NEW c \in Call, GetServiceInfo(c) PROVE OneLoop'
    <3>1. closed' = closed
      BY <2>2 DEF GetServiceInfo, appVars
    <3>2. CASE pc' = [pc EXCEPT ![c] = "waiting"] /\ UNCHANGED task
      BY <1>1, <3>1, <3>2, LoopsKept DEF TypeOK
    <3> QED
      BY <2>1, <2>2, <3>1, <3>2, ScheduleKeepsOne DEF GetServiceInfo
  <2>3. ASSUME NEW c \in Call, GetDirectly(c) PROVE OneLoop'
    BY <1>1, <2>3, LoopsKept DEF GetDirectly, TypeOK, appVars
  <2>4. ASSUME NEW l \in Listener, Subscribe(l) PROVE OneLoop'
    <3>1. closed' = closed
      BY <2>4 DEF Subscribe
    <3>2. CASE UNCHANGED <<task, pc>>
      BY <3>1, <3>2, LoopsKept
    <3> QED
      BY <2>1, <2>4, <3>1, <3>2 DEF Subscribe
  <2>5. ASSUME NEW l \in Listener, UnSubscribe(l) PROVE OneLoop'
    BY <2>5, LoopsKept DEF UnSubscribe
  <2>6. ASSUME UnSubscribeAll PROVE OneLoop'
    BY <2>6, OrphanedKeepsLoops, LoopsKept DEF UnSubscribeAll
  <2>7. ASSUME Close PROVE OneLoop'
    BY <2>7 DEF Close, OneLoop
  <2> QED
    BY <1>2, <2>2, <2>3, <2>4, <2>5, <2>6, <2>7 DEF Application
<1>3. ASSUME NEW c \in Call, CallStep(c) PROVE OneLoop'
  <2>1. closed' = closed
    BY <1>3 DEF CallStep, FirstAnswered, FirstFailed, FirstReturns, WaiterReturns,
       WaiterTimesOut, DirectAnswered, DirectFailed, appVars
  <2>2. CASE FirstReturns(c) \/ WaiterReturns(c)
    BY <2>1, <2>2, ScheduleKeepsOne DEF FirstReturns, WaiterReturns
  <2>3. CASE FirstAnswered(c) \/ DirectAnswered(c)
    <3>1. /\ c \in Process /\ pc[c] \in Asking /\ task' = task
          /\ \E next, other : ProcessServiceJSON(answer[c], At(c, next), At(c, other))
      BY <2>3 DEF FirstAnswered, DirectAnswered, Asking, Process
    <3>2. \A i \in Loop : i # c /\ pc'[i] = pc[i]
      BY <1>1, <3>1, AnsweredPlaces
    <3> QED
      BY <2>1, <3>1, <3>2, LoopsKept
  <2>4. CASE FirstFailed(c) \/ WaiterTimesOut(c) \/ DirectFailed(c)
    <3>1. (\A i \in Loop : pc'[i] = pc[i]) /\ task' = task
      BY <1>1, <2>4 DEF FirstFailed, WaiterTimesOut, DirectFailed, TypeOK
    <3> QED
      BY <2>1, <3>1, LoopsKept
  <2> QED
    BY <1>3, <2>2, <2>3, <2>4 DEF CallStep
<1>4. ASSUME NEW i \in Loop, LoopStep(i) PROVE OneLoop'
  <2>1. closed' = closed
    BY <1>4 DEF LoopStep, DoUpdate, UpdateAnswered, RefreshEnds, UpdateFailed,
       Rearm, appVars
  <2>2. CASE closed
    BY <2>1, <2>2 DEF OneLoop
  <2>3. CASE ~closed
    <3>1. pc[i] # "off" /\ task # NoTask
      BY <1>4, <2>3 DEF OneLoop, LoopStep, DoUpdate, UpdateAnswered, RefreshEnds,
         UpdateFailed, Rearm
    <3>2. (\A j \in Loop : pc'[j] = IF j = i THEN pc'[i] ELSE pc[j]) /\ pc'[i] # "off"
      <4>1. CASE UpdateAnswered(i)
        <5>1. pc[i] \in Asking
              /\ ProcessServiceJSON(answer[i], At(i, "ending"), At(i, "ending"))
          BY <4>1 DEF UpdateAnswered, Asking
        <5> QED
          BY <1>1, <5>1, AnsweredPlaces
      <4>2. CASE DoUpdate(i) \/ RefreshEnds(i) \/ UpdateFailed(i) \/ Rearm(i)
        BY <1>1, <3>1, <4>2 DEF DoUpdate, RefreshEnds, UpdateFailed, Rearm, TypeOK
      <4> QED
        BY <1>4, <4>1, <4>2 DEF LoopStep
    <3>3. task' # NoTask
      BY <1>4, <3>1, HostReactorAssumption
         DEF LoopStep, DoUpdate, UpdateAnswered, RefreshEnds, UpdateFailed, Rearm,
             TypeOK, ServiceInfo, NoTask
    <3> QED
      BY <2>1, <3>1, <3>2, <3>3, LoopsKept
  <2> QED
    BY <2>2, <2>3
<1>5. CASE \/ \E p \in Process : ServerAnswers(p)
           \/ ImmediateRuns \/ PushArrives \/ ServerChanges
  <2>1. CASE PushArrives
    <3>1. closed' = closed /\ task' = task /\ \E info \in pushed : ProcessServiceJSON(info, pc, pc)
      BY <2>1 DEF PushArrives, appVars
    <3> QED
      BY <1>1, <3>1, PushPlaces, LoopsKept
  <2>2. CASE ~PushArrives
    BY <1>5, <2>2, LoopsKept DEF ServerAnswers, ImmediateRuns, ServerChanges, appVars
  <2> QED
    BY <2>1, <2>2
<1>6. CASE UNCHANGED vars
  BY <1>6, LoopsKept DEF vars
<1> QED
  BY <1>2, <1>3, <1>4, <1>5, <1>6 DEF Next

\* The owner stays the owner in a step that leaves the flag alone.
LEMMA OwnerKept ==
    ASSUME UpdatingHasOwner, updating' = updating,
           \A c \in Call : pc[c] \in {"first", "returning"}
                              => pc'[c] \in {"first", "returning"}
    PROVE  UpdatingHasOwner'
  BY DEF UpdatingHasOwner

\* Every step keeps an owner of the flag.
LEMMA StepKeepsOwner ==
    ASSUME TypeOK, UpdatingHasOwner, [Next]_vars PROVE UpdatingHasOwner'
<1>1. /\ \A c \in Call : c \in Process /\ c \notin Loop
      /\ \A i \in Loop : i \in Process /\ i \notin Call
  BY HostReactorAssumption DEF Process
<1>2. pc \in [Process -> CallPlace \cup LoopPlace]
  BY DEF TypeOK
<1>3. ASSUME NEW c \in Call, NEW next, ScheduleIfAbsent(c, next)
      PROVE  \A d \in Call : d # c => pc'[d] = pc[d]
  <2>1. CASE pc' = [pc EXCEPT ![c] = next]
    BY <1>1, <1>2, <2>1
  <2>2. ASSUME NEW i \in Loop, pc' = [pc EXCEPT ![c] = next, ![i] = "armed"]
        PROVE  \A d \in Call : d # c => pc'[d] = pc[d]
    BY <1>1, <1>2, <2>2
  <2> QED
    BY <1>3, <2>1, <2>2 DEF ScheduleIfAbsent
<1>4. CASE Application
  <2>1. ASSUME NEW c \in Call, FirstQuery(c) PROVE UpdatingHasOwner'
    <3>1. pc'[c] = "first"
      BY <1>1, <1>2, <2>1 DEF FirstQuery
    <3> QED
      BY <3>1 DEF UpdatingHasOwner
  <2>2. ASSUME NEW c \in Call, GetServiceInfo(c) PROVE UpdatingHasOwner'
    <3>1. pc[c] = "idle"
      BY <2>2 DEF GetServiceInfo
    <3>2. CASE pc' = [pc EXCEPT ![c] = "waiting"] /\ UNCHANGED updating
      BY <1>1, <1>2, <3>1, <3>2, OwnerKept
    <3>3. CASE ScheduleIfAbsent(c, "returned") /\ UNCHANGED updating
      BY <1>3, <3>1, <3>3, OwnerKept
    <3> QED
      BY <2>1, <2>2, <3>2, <3>3 DEF GetServiceInfo
  <2>3. ASSUME NEW c \in Call, GetDirectly(c) PROVE UpdatingHasOwner'
    BY <1>1, <1>2, <2>3, OwnerKept DEF GetDirectly
  <2>4. ASSUME NEW l \in Listener, Subscribe(l) PROVE UpdatingHasOwner'
    BY <2>1, <2>4, OwnerKept DEF Subscribe
  <2>5. ASSUME NEW l \in Listener, UnSubscribe(l) PROVE UpdatingHasOwner'
    BY <2>5, OwnerKept DEF UnSubscribe
  <2>6. ASSUME UnSubscribeAll PROVE UpdatingHasOwner'
    BY <1>1, <2>6, OwnerKept DEF UnSubscribeAll, Orphaned
  <2>7. ASSUME Close PROVE UpdatingHasOwner'
    BY <2>7 DEF Close, UpdatingHasOwner
  <2> QED
    BY <1>4, <2>2, <2>3, <2>4, <2>5, <2>6, <2>7 DEF Application
<1>5. ASSUME NEW c \in Call, CallStep(c) PROVE UpdatingHasOwner'
  <2>1. CASE FirstAnswered(c) \/ DirectAnswered(c)
    <3>1. /\ updating' = updating /\ pc[c] \in {"first", "direct"} /\ pc[c] \in Asking
          /\ \E next, other :
                /\ ProcessServiceJSON(answer[c], At(c, next), At(c, other))
                /\ pc[c] = "first" => next = "returning" /\ other = "returning"
      BY <2>1 DEF FirstAnswered, DirectAnswered, Asking
    <3>2. /\ pc[c] = "first" => pc'[c] = "returning"
          /\ \A d \in Call : d # c /\ pc[d] # "waiting" => pc'[d] = pc[d]
      BY <1>1, <3>1, AnsweredPlaces
    <3> QED
      BY <3>1, <3>2, OwnerKept
  <2>2. CASE FirstFailed(c) \/ WaiterTimesOut(c) \/ DirectFailed(c)
    <3>1. /\ updating' = updating
          /\ pc[c] = "first" => pc'[c] = "returning"
          /\ pc[c] # "returning"
          /\ \A d \in Call : d # c => pc'[d] = pc[d]
      BY <1>1, <1>2, <2>2 DEF FirstFailed, WaiterTimesOut, DirectFailed, Waiting
    <3> QED
      BY <3>1, OwnerKept
  <2>3. CASE FirstReturns(c)
    BY <2>3 DEF FirstReturns, UpdatingHasOwner
  <2>4. CASE WaiterReturns(c)
    BY <1>3, <2>4, OwnerKept DEF WaiterReturns
  <2> QED
    BY <1>5, <2>1, <2>2, <2>3, <2>4 DEF CallStep
<1>6. ASSUME NEW i \in Loop, LoopStep(i) PROVE UpdatingHasOwner'
  <2>1. CASE UpdateAnswered(i)
    <3>1. /\ updating' = updating /\ pc[i] \in Asking
          /\ ProcessServiceJSON(answer[i], At(i, "ending"), At(i, "ending"))
      BY <2>1 DEF UpdateAnswered, Asking
    <3> QED
      BY <1>1, <3>1, AnsweredPlaces, OwnerKept
  <2>2. CASE DoUpdate(i) \/ RefreshEnds(i) \/ UpdateFailed(i) \/ Rearm(i)
    <3>1. updating' = updating /\ \A d \in Call : pc'[d] = pc[d]
      BY <1>1, <1>2, <2>2 DEF DoUpdate, RefreshEnds, UpdateFailed, Rearm
    <3> QED
      BY <3>1, OwnerKept
  <2> QED
    BY <1>6, <2>1, <2>2 DEF LoopStep
<1>7. CASE \/ \E p \in Process : ServerAnswers(p)
           \/ ImmediateRuns \/ PushArrives \/ ServerChanges
  <2>1. CASE PushArrives
    <3>1. updating' = updating /\ \E info \in pushed : ProcessServiceJSON(info, pc, pc)
      BY <2>1 DEF PushArrives
    <3> QED
      BY <1>1, <3>1, PushPlaces, OwnerKept
  <2>2. CASE ~PushArrives
    BY <1>7, <2>2, OwnerKept DEF ServerAnswers, ImmediateRuns, ServerChanges
  <2> QED
    BY <2>1, <2>2
<1>8. CASE UNCHANGED vars
  BY <1>8, OwnerKept DEF vars
<1> QED
  BY <1>4, <1>5, <1>6, <1>7, <1>8 DEF Next
-----------------------------------------------------------------------------
(***************************************************************************)
(* What the cache holds and what its subscribers know                      *)
(***************************************************************************)
\* Every step does one of these to the cache and its listeners.
Keeps == UNCHANGED <<cache, immediates, told, missed, subscribed, closed>>

Fills ==
    /\ cache = None /\ cache' = Placeholder
    /\ UNCHANGED <<immediates, told, missed, closed>>

Takes == \E info \in ServiceInfo : \E returned, thrown :
    /\ ProcessServiceJSON(info, returned, thrown)
    /\ UNCHANGED <<subscribed, closed>>

Leaves ==
    /\ subscribed' \subseteq subscribed
    /\ \A l \in subscribed' : told'[l] = told[l] /\ (l \in missed => l \in missed')
    /\ UNCHANGED immediates
    /\ \/ UNCHANGED <<cache, closed>>
       \/ cache' = None /\ subscribed' = {} /\ closed' # closed

Joins == \E l \in Listener :
    /\ cache # None /\ subscribed' = subscribed \cup {l}
    /\ immediates' = Append(immediates,
          [listener |-> l, hosts |-> cache.hosts, overtaken |-> FALSE])
    /\ UNCHANGED <<cache, told, missed, closed>>

Runs ==
    /\ immediates # <<>> /\ immediates' = Tail(immediates)
    /\ told' = IF \/ Head(immediates).overtaken
                  \/ Head(immediates).listener \notin subscribed THEN told
               ELSE [told EXCEPT ![Head(immediates).listener] =
                                    Head(immediates).hosts]
    /\ UNCHANGED <<cache, missed, subscribed, closed>>

\* The case split on which the proof of CacheInv rests.
LEMMA StepIsOneOfThese ==
    ASSUME TypeOK, [Next]_vars
    PROVE  Keeps \/ Fills \/ Takes \/ Leaves \/ Joins \/ Runs
<1>1. CASE Application
  <2>1. ASSUME NEW c \in Call, GetServiceInfo(c) PROVE Keeps \/ Fills
    BY <2>1 DEF GetServiceInfo, FirstQuery, Keeps, Fills, appVars
  <2>2. ASSUME NEW c \in Call, GetDirectly(c) PROVE Keeps
    BY <2>2 DEF GetDirectly, Keeps, cacheVars, appVars
  <2>3. ASSUME NEW l \in Listener, Subscribe(l) PROVE Joins \/ Fills
    BY <2>3 DEF Subscribe, FirstQuery, Joins, Fills
  <2>4. ASSUME NEW l \in Listener, UnSubscribe(l) PROVE Leaves
    BY <2>4 DEF UnSubscribe, Leaves, TypeOK
  <2>5. ASSUME UnSubscribeAll PROVE Leaves
    BY <2>5 DEF UnSubscribeAll, Leaves
  <2>6. ASSUME Close PROVE Leaves
    BY <2>6 DEF Close, Leaves
  <2> QED
    BY <1>1, <2>1, <2>2, <2>3, <2>4, <2>5, <2>6 DEF Application
<1>2. ASSUME NEW c \in Call, CallStep(c) PROVE Keeps \/ Takes
  <2>1. CASE FirstAnswered(c) \/ DirectAnswered(c)
    BY <2>1 DEF FirstAnswered, DirectAnswered, Takes, TypeOK, Process, appVars
  <2> QED
    BY <1>2, <2>1 DEF CallStep, FirstFailed, FirstReturns, WaiterReturns,
       WaiterTimesOut, DirectFailed, Keeps, cacheVars, appVars
<1>3. ASSUME NEW i \in Loop, LoopStep(i) PROVE Keeps \/ Takes
  <2>1. CASE UpdateAnswered(i)
    BY <2>1 DEF UpdateAnswered, Takes, TypeOK, Process, appVars
  <2> QED
    BY <1>3, <2>1 DEF LoopStep, DoUpdate, RefreshEnds, UpdateFailed, Rearm, Keeps,
       cacheVars, appVars
<1>4. CASE PushArrives
  BY <1>4 DEF PushArrives, Takes, TypeOK, appVars
<1>5. CASE ImmediateRuns
  BY <1>5 DEF ImmediateRuns, Runs, appVars
<1>6. CASE (\E p \in Process : ServerAnswers(p)) \/ ServerChanges \/ UNCHANGED vars
  BY <1>6 DEF ServerAnswers, ServerChanges, Keeps, vars, cacheVars, appVars
<1> QED
  BY <1>1, <1>2, <1>3, <1>4, <1>5, <1>6 DEF Next

\* An event tells whom it reaches and leaves none of their immediates in force.
LEMMA EventInforms ==
    ASSUME TypeOK, NEW info, NEW reached \in SUBSET subscribed, NEW resolved,
           NEW places, Event(info, reached, resolved, places), cache' = info,
           NEW l \in reached
    PROVE  Informed(l)'
<1>1. told'[l] = cache'.hosts
  BY DEF Event, TypeOK
<1>2. ASSUME NEW k \in DOMAIN immediates' PROVE ~Counts(k, l)'
  <2>1. immediates' = [j \in DOMAIN immediates |->
                         IF immediates[j].listener \in reached
                         THEN [immediates[j] EXCEPT !.overtaken = TRUE]
                         ELSE immediates[j]]
    BY DEF Event
  <2>2. k \in DOMAIN immediates /\ immediates[k] \in Immediate
    <3>1. DOMAIN immediates' = DOMAIN immediates
      BY <2>1
    <3>2. immediates \in Seq(Immediate) /\ k \in DOMAIN immediates
      BY <1>2, <3>1 DEF TypeOK, Immediate
    <3> QED
      BY <3>2
  <2>3. CASE immediates[k].listener \in reached
    <3>1. immediates'[k] = [immediates[k] EXCEPT !.overtaken = TRUE]
      BY <2>1, <2>2, <2>3, Zenon
    <3>2. immediates'[k].overtaken = TRUE
      BY <2>2, <3>1 DEF Immediate
    <3> QED
      BY <3>2 DEF Counts
  <2>4. CASE immediates[k].listener \notin reached
    <3>1. immediates'[k] = immediates[k]
      BY <2>1, <2>2, <2>4, Zenon
    <3> QED
      BY <2>4, <3>1 DEF Counts
  <2> QED
    BY <2>3, <2>4
<1> QED
  BY <1>1, <1>2 DEF Informed

\* Taking something in: an event informs whom it reaches, and the others have
\* missed it; without an event the hosts stay the same.
LEMMA TakesKeepsCache == ASSUME TypeOK, CacheInv, Takes PROVE CacheInv'
<1>0. PICK info \in ServiceInfo : \E returned, thrown :
         ProcessServiceJSON(info, returned, thrown) /\ UNCHANGED <<subscribed, closed>>
  BY DEF Takes
<1>1. PICK returned, thrown :
         ProcessServiceJSON(info, returned, thrown) /\ UNCHANGED <<subscribed, closed>>
  BY <1>0
<1>2. info.hosts \in HostList /\ (cache # None => cache.hosts \in HostList)
  BY DEF TypeOK, ServiceInfo
<1>3. info # None
  BY NoneAssumption
<1>4. CASE ~Valid(info)
  <2>1. UNCHANGED <<cache, told, missed, immediates>>
    BY <1>1, <1>4 DEF ProcessServiceJSON, Emits
  <2> QED
    BY <1>1, <2>1 DEF CacheInv, Knows, Informed, LastSaysCache, Counts
<1>5. CASE Valid(info) /\ ~Emits(info)
  <2>1. cache' = info /\ UNCHANGED <<told, missed, immediates>>
    BY <1>1, <1>5 DEF ProcessServiceJSON
  <2>2. cache # None /\ ~Differs(cache.hosts, info.hosts)
    BY <1>5 DEF Emits
  <2>3. cache'.hosts = cache.hosts /\ cache' # None
    BY <1>2, <1>3, <2>1, <2>2, SameHosts
  <2>4. ASSUME NEW l \in subscribed \ missed PROVE Knows(l)'
    BY <2>1, <2>3, <2>4 DEF CacheInv, Knows, Informed, LastSaysCache, Counts
  <2> QED
    BY <1>1, <2>1, <2>3, <2>4 DEF CacheInv
<1>6. CASE Emits(info)
  <2>1. cache' = info /\ cache' # None
    BY <1>1, <1>3, <1>6 DEF ProcessServiceJSON, Emits
  <2>2. \E reached \in SUBSET subscribed : \E resolved, places :
           Event(info, reached, resolved, places)
    BY <1>1, <1>6 DEF ProcessServiceJSON, CutShort
  <2>3. PICK reached \in SUBSET subscribed :
           \E resolved, places : Event(info, reached, resolved, places)
    BY <2>2
  <2>4. missed' = (missed \cup subscribed) \ reached
    BY <2>3 DEF Event
  <2>5. ASSUME NEW l \in reached PROVE Knows(l)'
    BY <2>1, <2>3, <2>5, EventInforms DEF Knows
  <2> QED
    BY <1>1, <2>1, <2>4, <2>5 DEF CacheInv
<1> QED
  BY <1>4, <1>5, <1>6 DEF Emits

\* The immediate of a new subscriber is the last in the queue.
LEMMA JoinsKeepsCache == ASSUME TypeOK, CacheInv, Joins PROVE CacheInv'
<1>1. PICK l \in Listener :
        /\ cache # None /\ subscribed' = subscribed \cup {l}
        /\ immediates' = Append(immediates,
              [listener |-> l, hosts |-> cache.hosts, overtaken |-> FALSE])
        /\ UNCHANGED <<cache, told, missed, closed>>
  BY DEF Joins
<1>2. immediates \in Seq(Immediate)
  BY DEF TypeOK, Immediate
<1>n. PICK n \in Nat : n = Len(immediates) + 1
  BY <1>2
<1>3. /\ DOMAIN immediates' = 1 .. n /\ n \in DOMAIN immediates'
      /\ DOMAIN immediates = 1 .. n - 1
      /\ immediates'[n] = [listener |-> l, hosts |-> cache.hosts, overtaken |-> FALSE]
      /\ \A k \in DOMAIN immediates : immediates'[k] = immediates[k]
  BY <1>1, <1>2, <1>n
<1>4. LastSaysCache(l)'
  <2>1. Counts(n, l)' /\ immediates'[n].hosts = cache'.hosts
    BY <1>1, <1>3 DEF Counts
  <2>2. \A j \in DOMAIN immediates' : ~(j > n)
    BY <1>3
  <2> QED
    BY <1>3, <2>1, <2>2 DEF LastSaysCache
<1>5. ASSUME NEW m \in subscribed \ missed, m # l PROVE Knows(m)'
  <2>1. ~Counts(n, m)'
    BY <1>3, <1>5 DEF Counts
  <2>2. \A k \in DOMAIN immediates : Counts(k, m)' <=> Counts(k, m)
    BY <1>3 DEF Counts
  <2>3. CASE cache.hosts = NoHosts
    BY <1>1, <2>3 DEF Knows
  <2>4. CASE Informed(m)
    <3>1. \A k \in DOMAIN immediates' : ~Counts(k, m)'
      BY <1>3, <2>1, <2>2, <2>4 DEF Informed
    <3> QED
      BY <1>1, <2>4, <3>1 DEF Knows, Informed
  <2>5. CASE LastSaysCache(m)
    <3>1. PICK k \in DOMAIN immediates :
            /\ Counts(k, m) /\ immediates[k].hosts = cache.hosts
            /\ \A j \in DOMAIN immediates : j > k => ~Counts(j, m)
      BY <2>5 DEF LastSaysCache
    <3>2. Counts(k, m)' /\ immediates'[k].hosts = cache'.hosts /\ k \in DOMAIN immediates'
      BY <1>1, <1>3, <2>2, <3>1
    <3>3. \A j \in DOMAIN immediates' : j > k => ~Counts(j, m)'
      BY <1>3, <2>1, <2>2, <3>1
    <3> QED
      BY <3>2, <3>3 DEF Knows, LastSaysCache
  <2> QED
    BY <1>5, <2>3, <2>4, <2>5 DEF CacheInv, Knows
<1> QED
  BY <1>1, <1>4, <1>5 DEF CacheInv, Knows

\* An immediate that runs either says what the cache says or has a successor
\* that will.
LEMMA RunsKeepsCache == ASSUME TypeOK, CacheInv, Runs PROVE CacheInv'
<1>1. immediates \in Seq(Immediate) /\ immediates # <<>> /\ immediates' = Tail(immediates)
  BY DEF TypeOK, Immediate, Runs
<1>2. /\ 1 \in DOMAIN immediates /\ Head(immediates) = immediates[1]
      /\ DOMAIN immediates' = 1 .. Len(immediates) - 1
      /\ DOMAIN immediates = 1 .. Len(immediates) /\ Len(immediates) \in Nat
      /\ \A k \in DOMAIN immediates' : immediates'[k] = immediates[k + 1]
  BY <1>1
<1>3. UNCHANGED <<cache, missed, subscribed, closed>>
  BY DEF Runs
<1>4. \A k \in DOMAIN immediates', m \in Listener :
         /\ k + 1 \in DOMAIN immediates
         /\ Counts(k, m)' <=> Counts(k + 1, m)
  BY <1>2 DEF Counts
<1>5. ASSUME NEW m \in subscribed \ missed PROVE Knows(m)'
  <2>1. m \in Listener
    BY DEF TypeOK
  <2>2. told'[m] = IF Counts(1, m) THEN immediates[1].hosts ELSE told[m]
    BY <1>2, <2>1 DEF Runs, Counts, TypeOK
  <2>3. CASE cache.hosts = NoHosts
    BY <1>3, <2>3 DEF Knows
  <2>4. CASE Informed(m)
    BY <1>2, <1>3, <1>4, <2>1, <2>2, <2>4 DEF Knows, Informed
  <2>5. CASE LastSaysCache(m)
    <3>1. PICK k \in DOMAIN immediates :
            /\ Counts(k, m) /\ immediates[k].hosts = cache.hosts
            /\ \A j \in DOMAIN immediates : j > k => ~Counts(j, m)
      BY <2>5 DEF LastSaysCache
    <3>2. CASE k = 1
      <4>1. told'[m] = cache'.hosts
        BY <1>3, <2>2, <3>1, <3>2
      <4>2. \A j \in DOMAIN immediates' : ~Counts(j, m)'
        <5> SUFFICES ASSUME NEW j \in DOMAIN immediates' PROVE ~Counts(j, m)'
          OBVIOUS
        <5>1. j + 1 \in DOMAIN immediates /\ j + 1 > k
          BY <1>2, <3>2
        <5> QED
          BY <1>4, <2>1, <3>1, <5>1
      <4> QED
        BY <4>1, <4>2 DEF Knows, Informed
    <3>3. CASE k # 1
      <4>1. k - 1 \in DOMAIN immediates' /\ k - 1 + 1 = k
        BY <1>2, <3>3
      <4>2. Counts(k - 1, m)' /\ immediates'[k - 1].hosts = cache'.hosts
        BY <1>2, <1>3, <1>4, <2>1, <3>1, <4>1
      <4>3. \A j \in DOMAIN immediates' : j > k - 1 => ~Counts(j, m)'
        <5> SUFFICES ASSUME NEW j \in DOMAIN immediates', j > k - 1
                     PROVE  ~Counts(j, m)'
          OBVIOUS
        <5>1. j + 1 \in DOMAIN immediates /\ j + 1 > k
          BY <1>2
        <5> QED
          BY <1>4, <2>1, <3>1, <5>1
      <4> QED
        BY <4>1, <4>2, <4>3 DEF Knows, LastSaysCache
    <3> QED
      BY <3>2, <3>3
  <2> QED
    BY <2>3, <2>4, <2>5 DEF CacheInv, Knows
<1> QED
  BY <1>3, <1>5 DEF CacheInv

\* Every step keeps what subscribers know.
LEMMA StepKeepsCache == ASSUME TypeOK, CacheInv, [Next]_vars PROVE CacheInv'
<1>1. CASE Keeps
  BY <1>1 DEF Keeps, CacheInv, Knows, Informed, LastSaysCache, Counts
<1>2. CASE Fills
  BY <1>2, PlaceholderType, NoneAssumption DEF Fills, CacheInv, Knows
<1>3. CASE Leaves
  BY <1>3 DEF Leaves, CacheInv, Knows, Informed, LastSaysCache, Counts
<1> QED
  BY <1>1, <1>2, <1>3, StepIsOneOfThese, TakesKeepsCache, JoinsKeepsCache, RunsKeepsCache
-----------------------------------------------------------------------------
\* The inductive invariant holds in every reachable state.
LEMMA Inductive == Spec => []IInv
<1>1. IInv /\ [Next]_vars => IInv'
  BY StepTypes, StepKeepsOneLoop, StepKeepsOwner, StepKeepsCache DEF IInv
<1> QED
  BY InitEstablishes, <1>1, PTL DEF Spec

\* Every state has the declared types.
THEOREM TypeCorrect == Spec => []TypeOK
<1>1. IInv => TypeOK
  BY DEF IInv
<1> QED
  BY Inductive, <1>1, PTL

\* Until the client is closed a service is polled by one chain of timers, and
\* by one exactly if it has a task: however calls, waiting calls and queries
\* overlap (_scheduleUpdateIfAbsent, _doUpdate).
THEOREM SingleLoop == Spec => []OneLoop
<1>1. IInv => OneLoop
  BY DEF IInv
<1> QED
  BY Inductive, <1>1, PTL

\* The updating flag is never left behind: some call is about to take it away,
\* whether its query succeeds or fails (getServiceInfo, lines 214 to 219).
THEOREM FlagIsOwned == Spec => []UpdatingHasOwner
<1>1. IInv => UpdatingHasOwner
  BY DEF IInv
<1> QED
  BY Inductive, <1>1, PTL

\* A subscriber was given the cached hosts, or is about to be, for any number
\* of listeners that come and go, answers, pushes and immediates
\* (processServiceJSON, subscribe).
THEOREM SubscribersInformed == Spec => []SubscribersKnow
<1>1. IInv => SubscribersKnow
  BY DEF IInv, CacheInv, Knows, Informed, LastSaysCache, Counts, SubscribersKnow
<1> QED
  BY Inductive, <1>1, PTL
=============================================================================
