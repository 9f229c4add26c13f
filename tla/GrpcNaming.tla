----------------------------- MODULE GrpcNaming -----------------------------
(***************************************************************************)
(* Registrations and subscriptions of the naming client over gRPC:         *)
(* GrpcNamingProxy (grpc_proxy.ts), which keeps what the application asked *)
(* for and asks again after every reconnect.                               *)
(*                                                                         *)
(* A connection is a session.  The server keeps instances and              *)
(* subscriptions per session and forgets them with it, so each session     *)
(* starts from nothing and has a replay, _onReconnect.  A replay walks the *)
(* two live maps and waits for each of its requests; meanwhile the         *)
(* application registers, deregisters, subscribes and unsubscribes, and    *)
(* the session may be lost, so that replays overlap.                       *)
(*                                                                         *)
(* Every request is a unary call of its own (sendUnary): the server takes  *)
(* those under way in any order, and the answers arrive in any order.      *)
(* Nothing in the proxy keeps two requests for one key apart, so when they *)
(* say different things the server may keep either (`crossed').            *)
(* An answer under way when the stream is lost may arrive all the same:    *)
(* a reconnect does not close the old channel (connection.ts).             *)
(*                                                                         *)
(* The server keeps one instance of a service for a connection, so the     *)
(* keys are those of instances of different services.                      *)
(***************************************************************************)
EXTENDS Integers, Bags, BagsExt

CONSTANTS Key,          \* keys of instances, each of a service of its own
          Info,         \* what else an instance says of itself
          None,         \* no instance
          Topic,        \* keys of subscriptions: service and clusters
          MaxCalls,     \* bound on calls of the application
          MaxFaults,    \* bound on requests that are refused or time out
          MaxSessions   \* bound on sessions after the first

ASSUME GrpcNamingAssumption ==
    /\ MaxCalls \in Nat /\ MaxFaults \in Nat /\ MaxSessions \in Nat
    /\ None \notin Info
    /\ Key \cap Topic = {}

VARIABLES
    registered,  \* _registeredInstances
    active,      \* _activeSubscriptions
    connected,   \* the connection is up
    closed,      \* the client was closed
    session,     \* number of the present or the last session
    replay,      \* the run of _onReconnect of each session after the first
    wire,        \* requests on their way to the server, a bag
    replies,     \* answers and errors on their way to who waits for them, a bag
    instances,   \* instances of this session at the server
    topics,      \* subscriptions of this session at the server
    unmet,       \* history: keys whose last request of this session failed
    late,        \* history: subscriptions remembered for an older session
    crossed,     \* history: what the last request for contradicted one under way
    calls, faults

vars == <<registered, active, connected, closed, session, replay, wire, replies,
          instances, topics, unmet, late, crossed, calls, faults>>

Session == 1 .. MaxSessions
App     == 0    \* who waits for a request: the application, the replay of a
Nobody  == -1   \* session, or nobody any more

Request ==
    [type : {"register"}, on : Key, info : Info, by : {App, Nobody} \cup Session]
      \cup
    [type : {"deregister"}, on : Key, info : {None}, by : {App, Nobody}]
      \cup
    [type : {"subscribe"}, on : Topic, info : {None}, by : {App, Nobody} \cup Session]
      \cup
    [type : {"unsubscribe"}, on : Topic, info : {None}, by : {App, Nobody}]

Reply == [request : Request, ok : BOOLEAN, session : 0 .. MaxSessions]

Walk == [phase : {"none", "instances", "topics", "done"},
         seen : SUBSET (Key \cup Topic), waiting : BOOLEAN]

NoWalk == [phase |-> "none", seen |-> {}, waiting |-> FALSE]

clientVars == <<registered, active, late>>
serverVars == <<instances, topics, unmet>>
linkVars   == <<connected, closed, session>>

Init ==
    /\ registered = [k \in Key |-> None] /\ active = {}
    /\ connected = TRUE /\ closed = FALSE /\ session = 0
    /\ replay = [s \in Session |-> NoWalk]
    /\ wire = EmptyBag /\ replies = EmptyBag
    /\ instances = [k \in Key |-> None] /\ topics = {}
    /\ unmet = {} /\ late = {} /\ crossed = {}
    /\ calls = 0 /\ faults = 0
-----------------------------------------------------------------------------
(***************************************************************************)
(* Requests                                                                *)
(***************************************************************************)
Ask(type, on, info, by) == [type |-> type, on |-> on, info |-> info, by |-> by]

Answer(r, ok) == [request |-> r, ok |-> ok, session |-> session]

\* Nothing changes when register and deregister return to the application.
Awaited(r) == r.by \in Session \/ (r.by = App /\ r.on \in Topic)

\* Faulty variant: the promise of a request that failed does not settle.
RepliedOnSuccess(r, ok) ==
    IF Awaited(r) /\ ok THEN BagAdd(replies, Answer(r, ok)) ELSE replies

Replied(r, ok) == IF Awaited(r) THEN BagAdd(replies, Answer(r, ok)) ELSE replies

\* The requests on the wire that somebody waits for fail with the connection.
AllFail ==
    LET failed == {Answer(r, FALSE) : r \in {q \in BagToSet(wire) : Awaited(q)}} IN
    replies' = replies (+) [a \in failed |-> wire[a.request]]

\* Another request says something else of the same key and is still under way,
\* or the application does not have its answer yet.
Contradicted(r) ==
    LET Against(q) == q.on = r.on /\ <<q.type, q.info>> # <<r.type, r.info>> IN
    \/ \E q \in BagToSet(wire) : Against(q)
    \/ \E a \in BagToSet(replies) :
          Against(a.request) /\ a.request.by = App /\ a.session = session

Sent(r) ==
    /\ wire' = BagAdd(wire, r)
    /\ crossed' = IF Contradicted(r) THEN crossed \cup {r.on} ELSE crossed \ {r.on}

\* GrpcTransportClient.request: without a connection it throws at once.
Send(r) ==
    \/ connected /\ Sent(r) /\ UNCHANGED replies
    \/ ~connected /\ replies' = Replied(r, FALSE) /\ UNCHANGED <<wire, crossed>>

AppCalls ==
    /\ ~closed /\ calls < MaxCalls
    /\ calls' = calls + 1
    /\ UNCHANGED <<linkVars, serverVars, faults>>

\* A replay under way comes to a key that was deleted and set again.
Unvisit(x) ==
    replay' = [s \in Session |-> [replay[s] EXCEPT !.seen = @ \ {x}]]
-----------------------------------------------------------------------------
(***************************************************************************)
(* Calls of the application                                                *)
(***************************************************************************)
Register(k, info) ==
    /\ AppCalls
    /\ registered' = [registered EXCEPT ![k] = info]
    /\ Send(Ask("register", k, info, App))
    /\ UNCHANGED <<active, late, replay>>

Deregister(k) ==
    /\ AppCalls
    /\ registered' = [registered EXCEPT ![k] = None]
    /\ Unvisit(k)
    /\ Send(Ask("deregister", k, None, App))
    /\ UNCHANGED <<active, late>>

Subscribe(t) ==
    /\ AppCalls
    /\ Send(Ask("subscribe", t, None, App))
    /\ UNCHANGED <<clientVars, replay>>

UnSubscribe(t) ==
    /\ AppCalls
    /\ Send(Ask("unsubscribe", t, None, App))
    /\ UNCHANGED <<clientVars, replay>>

\* The session ends at the server, and the requests under way fail.
SessionEnds ==
    /\ wire' = EmptyBag /\ AllFail
    /\ instances' = [k \in Key |-> None] /\ topics' = {}
    /\ unmet' = {} /\ crossed' = {}

\* NacosNamingClient._close: the connection is closed, the maps stay.
Close ==
    /\ ~closed
    /\ closed' = TRUE /\ connected' = FALSE
    /\ SessionEnds
    /\ UNCHANGED <<clientVars, session, replay, calls, faults>>
-----------------------------------------------------------------------------
(***************************************************************************)
(* Replies                                                                 *)
(***************************************************************************)
\* subscribe is remembered when it was answered.
Subscribed(a, ok) ==
    \E t \in Topic :
        /\ a.request = Ask("subscribe", t, None, App)
        /\ active' = IF ok THEN active \cup {t} ELSE active
        /\ late' = IF ~ok THEN late
                   ELSE IF a.session = session THEN late \ {t}
                   ELSE late \cup {t}
        /\ UNCHANGED replay

\* unSubscribe forgets whether the request succeeded or not.
UnSubscribed(a) ==
    \E t \in Topic :
        /\ a.request = Ask("unsubscribe", t, None, App)
        /\ active' = active \ {t} /\ late' = late \ {t}
        /\ Unvisit(t)

\* Faulty variant: a request that fails ends the replay.
ReplayAnsweredOrEnds(a, ok) ==
    LET s == a.request.by IN
    /\ s \in Session
    /\ replay' = [replay EXCEPT ![s].waiting = FALSE,
                     ![s].phase = IF ok THEN @ ELSE "done"]
    /\ UNCHANGED <<active, late>>

\* A replay goes on after an answer as after an error.
ReplayAnswered(a, ok) ==
    /\ a.request.by \in Session
    /\ replay' = [replay EXCEPT ![a.request.by].waiting = FALSE]
    /\ UNCHANGED <<active, late>>

\* What was under way when the connection was lost may have failed with it.
ReplyArrives ==
    \E a \in BagToSet(replies), ok \in BOOLEAN :
        /\ ok => a.ok
        /\ connected /\ a.session = session => ok = a.ok
        /\ Subscribed(a, ok) \/ UnSubscribed(a) \/ ReplayAnswered(a, ok)
        /\ replies' = BagRemove(replies, a)
        /\ UNCHANGED <<registered, linkVars, wire, serverVars, crossed, calls, faults>>
-----------------------------------------------------------------------------
(***************************************************************************)
(* The replay of a session                                                 *)
(***************************************************************************)
\* The entries the walk has still to visit.
Pending(s) ==
    CASE replay[s].phase = "instances" ->
            {k \in Key : registered[k] # None} \ replay[s].seen
      [] replay[s].phase = "topics" -> active \ replay[s].seen
      [] OTHER -> {}

ReplayRequest(s, x) ==
    IF x \in Key THEN Ask("register", x, registered[x], s)
                 ELSE Ask("subscribe", x, None, s)

ReplayVisits(s, x) ==
    /\ replay[s].phase \in {"instances", "topics"} /\ ~replay[s].waiting
    /\ x \in Pending(s)
    /\ replay' = [replay EXCEPT ![s].seen = @ \cup {x}, ![s].waiting = connected]
    /\ \/ connected /\ Sent(ReplayRequest(s, x))
       \/ ~connected /\ UNCHANGED <<wire, crossed>>
    /\ UNCHANGED <<clientVars, linkVars, replies, serverVars, calls, faults>>

ReplayGoesOn(s) ==
    /\ replay[s].phase \in {"instances", "topics"} /\ ~replay[s].waiting
    /\ Pending(s) = {}
    /\ replay' = [replay EXCEPT ![s].phase = IF @ = "instances" THEN "topics" ELSE "done",
                                ![s].seen = {}]
    /\ UNCHANGED <<clientVars, linkVars, wire, replies, serverVars, crossed, calls,
                   faults>>
-----------------------------------------------------------------------------
(***************************************************************************)
(* The connection and the server                                           *)
(***************************************************************************)
\* The server takes one of the requests under way, no matter which.
ServerTakes ==
    \E r \in BagToSet(wire) :
       /\ replies' = Replied(r, TRUE)
       /\ instances' = IF r.on \in Key THEN [instances EXCEPT ![r.on] = r.info]
                       ELSE instances
       /\ topics' = CASE r.type = "subscribe"   -> topics \cup {r.on}
                      [] r.type = "unsubscribe" -> topics \ {r.on}
                      [] OTHER -> topics
       /\ unmet' = unmet \ {r.on}
       /\ wire' = BagRemove(wire, r)
       /\ UNCHANGED <<clientVars, linkVars, replay, crossed, calls, faults>>

\* An ErrorResponse: the server does nothing.
ServerRefuses ==
    \E r \in BagToSet(wire) :
       /\ faults < MaxFaults
       /\ replies' = Replied(r, FALSE)
       /\ unmet' = unmet \cup {r.on}
       /\ wire' = BagRemove(wire, r)
       /\ faults' = faults + 1
       /\ UNCHANGED <<clientVars, linkVars, replay, instances, topics, crossed, calls>>

\* The three seconds are over; the server may take the request all the same.
TimesOut ==
    \E r \in BagToSet(wire) :
       /\ faults < MaxFaults
       /\ Awaited(r)
       /\ replies' = Replied(r, FALSE)
       /\ wire' = BagAdd(BagRemove(wire, r), [r EXCEPT !.by = Nobody])
       /\ faults' = faults + 1
       /\ UNCHANGED <<clientVars, linkVars, replay, serverVars, crossed, calls>>

\* The connection is lost.
Drop ==
    /\ connected /\ session < MaxSessions
    /\ connected' = FALSE
    /\ SessionEnds
    /\ UNCHANGED <<clientVars, closed, session, replay, calls, faults>>

\* Faulty variant: one replay at a time, as a flag would have it.
ReconnectOnce ==
    /\ ~connected /\ ~closed /\ session < MaxSessions
    /\ connected' = TRUE /\ session' = session + 1
    /\ replay' = IF \E s \in Session : replay[s].phase \in {"instances", "topics"}
                 THEN replay
                 ELSE [replay EXCEPT ![session + 1].phase = "instances"]
    /\ late' = {}
    /\ UNCHANGED <<registered, active, closed, wire, replies, serverVars, crossed, calls,
                   faults>>

\* The connection emits 'reconnected'.
Reconnect ==
    /\ ~connected /\ ~closed /\ session < MaxSessions
    /\ connected' = TRUE /\ session' = session + 1
    /\ replay' = [replay EXCEPT ![session + 1].phase = "instances"]
    /\ late' = {}
    /\ UNCHANGED <<registered, active, closed, wire, replies, serverVars, crossed, calls,
                   faults>>
-----------------------------------------------------------------------------
Application ==
    \/ \E k \in Key : Deregister(k) \/ \E info \in Info : Register(k, info)
    \/ \E t \in Topic : Subscribe(t) \/ UnSubscribe(t)
    \/ Close

ReplayStep(s) == ReplayGoesOn(s) \/ \E x \in Key \cup Topic : ReplayVisits(s, x)

Next ==
    \/ Application
    \/ ReplyArrives
    \/ \E s \in Session : ReplayStep(s)
    \/ ServerTakes \/ ServerRefuses \/ TimesOut
    \/ Drop \/ Reconnect

\* Requests are answered, promise reactions run, a lost connection comes back.
Fairness ==
    /\ WF_vars(ReplyArrives) /\ WF_vars(ServerTakes) /\ WF_vars(Reconnect)
    /\ \A s \in Session : WF_vars(ReplayStep(s))

Spec == Init /\ [][Next]_vars

FairSpec == Spec /\ Fairness
-----------------------------------------------------------------------------
(***************************************************************************)
(* Properties                                                              *)
(***************************************************************************)
TypeOK ==
    /\ registered \in [Key -> Info \cup {None}] /\ active \in SUBSET Topic
    /\ connected \in BOOLEAN /\ closed \in BOOLEAN
    /\ session \in 0 .. MaxSessions
    /\ replay \in [Session -> Walk]
    /\ IsABag(wire) /\ BagToSet(wire) \subseteq Request
    /\ IsABag(replies) /\ BagToSet(replies) \subseteq Reply
    /\ instances \in [Key -> Info \cup {None}] /\ topics \in SUBSET Topic
    /\ unmet \in SUBSET (Key \cup Topic) /\ late \in SUBSET Topic
    /\ crossed \in SUBSET (Key \cup Topic)
    /\ calls \in 0 .. MaxCalls /\ faults \in 0 .. MaxFaults

Replaying == \E s \in Session : replay[s].phase \in {"instances", "topics"}

Quiet == connected /\ wire = EmptyBag /\ replies = EmptyBag /\ ~Replaying

Follows == \A k \in Key \ (unmet \cup crossed) : instances[k] = registered[k]

Held == active \ (unmet \cup crossed \cup late) \subseteq topics

\* Once all is quiet the server holds exactly what the application has
\* registered, but for keys whose last request failed or was sent while one
\* that says something else was under way: no replay brings back an instance
\* that was deregistered before it came to it, none goes missing over a
\* reconnect, and overlapping replays of several sessions agree.
ServerHoldsRegistrations == Quiet => Follows

\* Every subscription the proxy remembers is one of the session, over
\* reconnects too, but those whose answer came after their session and those
\* whose last request failed or met one to the contrary on its way.
SubscriptionsHeld == Quiet => Held

\* The server follows the client in the end: replays and requests come to an
\* end, whatever was lost or refused on the way.
ServerFollows == <>[](connected => Follows /\ Held)
=============================================================================
