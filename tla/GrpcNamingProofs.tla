-------------------------- MODULE GrpcNamingProofs --------------------------
(***************************************************************************)
(* Proofs about GrpcNaming for every set of instances and subscriptions,   *)
(* any number of calls, sessions and faults, and a server that takes the   *)
(* requests under way in any order.  A key whose last request contradicted *)
(* none under way is Known: all its requests under way, whoever sent them, *)
(* the application or any of the replays that overlap, say what is         *)
(* registered; without one it is held as it is registered, was refused, or *)
(* waits for the replay of the session.  Subscriptions are remembered when *)
(* the answer comes, so that what the answers on the way will make the     *)
(* client remember or forget counts as well (Followed).                    *)
(***************************************************************************)
EXTENDS GrpcNaming, TLAPS

\* No request for x is under way.
Free(x) == \A q \in BagToSet(wire) : q.on # x

\* The replay of the session has yet to come to k.
Waits(k) ==
    /\ session \in Session /\ registered[k] # None
    /\ replay[session].phase = "instances" /\ k \notin replay[session].seen

Known(k) ==
    k \notin crossed =>
       /\ \A q \in BagToSet(wire) : q.on = k => q.info = registered[k]
       /\ Free(k) => k \in unmet \/ instances[k] = registered[k] \/ Waits(k)

\* The types, but for what concerns the replies.
Types ==
    /\ registered \in [Key -> Info \cup {None}] /\ active \in SUBSET Topic
    /\ connected \in BOOLEAN /\ session \in 0 .. MaxSessions
    /\ replay \in [Session -> Walk]
    /\ IsABag(wire) /\ BagToSet(wire) \subseteq Request
    /\ instances \in [Key -> Info \cup {None}]

\* A session begins with nothing at the server and a replay from the start.
Fresh ==
    /\ ~connected => BagToSet(wire) = {} /\ \A k \in Key : instances[k] = None
    /\ \A s \in Session : s > session => replay[s].phase = "none" /\ replay[s].seen = {}

IInv == Types /\ Fresh /\ (connected => \A k \in Key : Known(k))
-----------------------------------------------------------------------------
\* One more in the bag.
LEMMA BagAdded ==
    ASSUME NEW B, IsABag(B), NEW x
    PROVE  IsABag(BagAdd(B, x)) /\ BagToSet(BagAdd(B, x)) = BagToSet(B) \cup {x}
BY DEF IsABag, BagAdd, BagToSet

\* One less in the bag.
LEMMA BagRemoved ==
    ASSUME NEW B, IsABag(B), NEW x
    PROVE  /\ IsABag(BagRemove(B, x)) /\ BagToSet(BagRemove(B, x)) \subseteq BagToSet(B)
           /\ BagToSet(B) \subseteq BagToSet(BagRemove(B, x)) \cup {x}
BY DEF IsABag, BagRemove, BagToSet

\* The empty bag.
LEMMA BagEmpty == IsABag(EmptyBag) /\ BagToSet(EmptyBag) = {}
BY DEF IsABag, EmptyBag, SetToBag, BagToSet

\* Two bags in one.
LEMMA BagsJoined ==
    ASSUME NEW A, IsABag(A), NEW B, IsABag(B)
    PROVE  IsABag(A (+) B) /\ BagToSet(A (+) B) = BagToSet(A) \cup BagToSet(B)
BY DEF IsABag, (+), BagToSet
-----------------------------------------------------------------------------
\* The initial states satisfy the inductive invariant.
LEMMA InitEstablishes == Init => IInv
<1> SUFFICES ASSUME Init PROVE IInv
  OBVIOUS
<1>1. NoWalk \in Walk /\ NoWalk.phase = "none" /\ NoWalk.seen = {}
  BY DEF NoWalk, Walk
<1>2. Types
  BY <1>1, BagEmpty, GrpcNamingAssumption DEF Init, Types
<1>3. Fresh
  BY <1>1, BagEmpty DEF Init, Fresh
<1>4. \A k \in Key : Known(k)
  BY BagEmpty DEF Init, Known
<1> QED
  BY <1>2, <1>3, <1>4 DEF IInv
-----------------------------------------------------------------------------
\* Where a key has still to be visited, it still has to be.
StillWaits(k) == Waits(k) => Waits(k)'

\* A request for a key that says what is registered from now on keeps Known.
LEMMA SentKeeps ==
    ASSUME NEW r \in Request, Types, Sent(r),
           \A k \in Key : Known(k),
           r.on \in Key => r.info = registered'[r.on],
           \A k \in Key : k # r.on => registered'[k] = registered[k] /\ StillWaits(k),
           instances' = instances, unmet' = unmet
    PROVE  \A k \in Key : Known(k)'
<1>1. BagToSet(wire') = BagToSet(wire) \cup {r}
  BY BagAdded DEF Sent, Types
<1>2. ASSUME NEW k \in Key, k = r.on PROVE Known(k)'
  <2>1. ~Free(k)'
    BY <1>1, <1>2 DEF Free
  <2>2. k \notin crossed' => ~Contradicted(r)
    BY <1>2 DEF Sent
  <2>3. k \notin crossed' => \A q \in BagToSet(wire') : q.on = k => q.info = registered'[k]
    BY <1>1, <1>2, <2>2 DEF Contradicted
  <2> QED
    BY <2>1, <2>3 DEF Known
<1>3. ASSUME NEW k \in Key, k # r.on PROVE Known(k)'
  <2>1. /\ k \in crossed' <=> k \in crossed
        /\ Free(k)' => Free(k)
    BY <1>1, <1>3 DEF Sent, Free
  <2>2. \A q \in BagToSet(wire') : q.on = k => q \in BagToSet(wire)
    BY <1>1, <1>3
  <2> QED
    BY <1>3, <2>1, <2>2 DEF Known, StillWaits
<1> QED
  BY <1>2, <1>3

\* What concerns neither requests nor the server keeps Known.
LEMMA Undisturbed ==
    ASSUME UNCHANGED <<registered, wire, instances, unmet, crossed>>,
           \A k \in Key : Known(k), \A k \in Key : StillWaits(k)
    PROVE  \A k \in Key : Known(k)'
BY DEF Known, Free, StillWaits

\* The types of the wire after a request was sent.
LEMMA SentTyped ==
    ASSUME Types, NEW r \in Request, Sent(r)
    PROVE  IsABag(wire') /\ BagToSet(wire') \subseteq Request
BY BagAdded DEF Sent, Types

\* A call of the application, whatever it asks for.
LEMMA CallKeeps ==
    ASSUME IInv, NEW r \in Request, AppCalls, Send(r),
           registered' \in [Key -> Info \cup {None}], active' \in SUBSET Topic,
           r.on \in Key => r.info = registered'[r.on],
           \A k \in Key : k # r.on => registered'[k] = registered[k],
           replay' \in [Session -> Walk],
           \A s \in Session : /\ replay'[s].phase = replay[s].phase
                              /\ replay'[s].seen \subseteq replay[s].seen
    PROVE  IInv'
<1>0. UNCHANGED <<connected, closed, session, instances, topics, unmet>>
  BY DEF AppCalls, linkVars, serverVars
<1>1. /\ IsABag(wire') /\ BagToSet(wire') \subseteq Request
      /\ ~connected => wire' = wire
  BY SentTyped DEF Send, IInv, Types
<1>2. Types'
  BY <1>0, <1>1 DEF IInv, Types
<1>3. Fresh'
  BY <1>0, <1>1 DEF IInv, Fresh
<1>4. ASSUME connected PROVE \A k \in Key : Known(k)'
  <2>1. \A k \in Key : k # r.on => StillWaits(k)
    BY <1>0 DEF StillWaits, Waits
  <2> QED
    BY <1>0, <1>4, <2>1, SentKeeps DEF IInv, Send
<1> QED
  BY <1>0, <1>2, <1>3, <1>4 DEF IInv

\* A replay may come to x again.
LEMMA Unvisited ==
    ASSUME replay \in [Session -> Walk], NEW x, Unvisit(x)
    PROVE  /\ replay' \in [Session -> Walk]
           /\ \A s \in Session : /\ replay'[s].phase = replay[s].phase
                                 /\ replay'[s].seen \subseteq replay[s].seen
BY DEF Unvisit, Walk

LEMMA CallsKeep == IInv /\ Application => IInv'
<1> SUFFICES ASSUME IInv, Application PROVE IInv'
  OBVIOUS
<1> USE DEF Ask
<1>1. ASSUME NEW k \in Key, Deregister(k) PROVE IInv'
  <2>1. Ask("deregister", k, None, App) \in Request
    BY DEF Request
  <2>2. replay \in [Session -> Walk] /\ registered \in [Key -> Info \cup {None}]
        /\ active \in SUBSET Topic
    BY DEF IInv, Types
  <2> QED
    BY <1>1, <2>1, <2>2, Unvisited, CallKeeps DEF Deregister
<1>2. ASSUME NEW k \in Key, NEW info \in Info, Register(k, info) PROVE IInv'
  <2>1. Ask("register", k, info, App) \in Request
    BY DEF Request
  <2>2. replay \in [Session -> Walk] /\ registered \in [Key -> Info \cup {None}]
        /\ active \in SUBSET Topic
    BY DEF IInv, Types
  <2> QED
    BY <1>2, <2>1, <2>2, CallKeeps DEF Register
<1>3. ASSUME NEW t \in Topic, Subscribe(t) \/ UnSubscribe(t) PROVE IInv'
  <2>1. /\ Ask("subscribe", t, None, App) \in Request
        /\ Ask("unsubscribe", t, None, App) \in Request /\ t \notin Key
    BY GrpcNamingAssumption DEF Request
  <2>2. replay \in [Session -> Walk] /\ registered \in [Key -> Info \cup {None}]
        /\ active \in SUBSET Topic
    BY DEF IInv, Types
  <2> QED
    BY <1>3, <2>1, <2>2, CallKeeps DEF Subscribe, UnSubscribe, clientVars
<1>4. CASE Close
  <2>1. Types'
    BY <1>4, BagEmpty DEF Close, SessionEnds, IInv, Types, clientVars
  <2>2. Fresh'
    BY <1>4, BagEmpty DEF Close, SessionEnds, IInv, Fresh
  <2> QED
    BY <1>4, <2>1, <2>2 DEF Close, IInv
<1> QED
  BY <1>1, <1>2, <1>3, <1>4 DEF Application
-----------------------------------------------------------------------------
\* A reply changes what is subscribed and how far the replays are.
LEMMA RepliesKeep == IInv /\ ReplyArrives => IInv'
<1> SUFFICES ASSUME IInv, ReplyArrives PROVE IInv'
  OBVIOUS
<1>1. PICK a \in BagToSet(replies), ok \in BOOLEAN :
         /\ Subscribed(a, ok) \/ UnSubscribed(a) \/ ReplayAnswered(a, ok)
         /\ UNCHANGED <<registered, linkVars, wire, serverVars, crossed>>
  BY DEF ReplyArrives
<1>2. /\ active' \in SUBSET Topic /\ replay' \in [Session -> Walk]
      /\ \A s \in Session : /\ replay'[s].phase = replay[s].phase
                            /\ replay'[s].seen \subseteq replay[s].seen
  <2>0. replay \in [Session -> Walk] /\ active \in SUBSET Topic
    BY DEF IInv, Types
  <2>1. CASE Subscribed(a, ok)
    BY <2>0, <2>1 DEF Subscribed
  <2>2. CASE UnSubscribed(a)
    BY <2>0, <2>2, Unvisited DEF UnSubscribed
  <2>3. CASE ReplayAnswered(a, ok)
    BY <2>0, <2>3 DEF ReplayAnswered, Walk
  <2> QED
    BY <1>1, <2>1, <2>2, <2>3
<1>3. Types'
  BY <1>1, <1>2 DEF IInv, Types, linkVars, serverVars
<1>4. Fresh'
  BY <1>1, <1>2 DEF IInv, Fresh, linkVars, serverVars
<1>5. ASSUME connected PROVE \A k \in Key : Known(k)'
  <2>1. \A k \in Key : StillWaits(k)
    BY <1>1, <1>2 DEF StillWaits, Waits, linkVars
  <2> QED
    BY <1>1, <1>5, <2>1, Undisturbed DEF IInv, serverVars
<1> QED
  BY <1>1, <1>3, <1>4, <1>5 DEF IInv, linkVars

\* A replay asks for what is registered when it comes to a key.
LEMMA VisitAsks ==
    ASSUME Types, NEW s \in Session, NEW x \in Key \cup Topic, x \in Pending(s),
           replay[s].phase \in {"instances", "topics"}
    PROVE  /\ ReplayRequest(s, x) \in Request
           /\ ReplayRequest(s, x).on = x /\ ReplayRequest(s, x).by = s
           /\ x \in Key => ReplayRequest(s, x).info = registered[x]
           /\ x \in Topic => ReplayRequest(s, x).type = "subscribe"
<1>1. CASE x \in Key
  <2>1. x \notin Topic /\ registered[x] # None
    BY <1>1, GrpcNamingAssumption DEF Pending, Types
  <2>2. registered[x] \in Info
    BY <1>1, <2>1 DEF Types
  <2> QED
    BY <1>1, <2>1, <2>2 DEF ReplayRequest, Ask, Request
<1>2. CASE x \notin Key
  BY <1>2 DEF ReplayRequest, Ask, Request
<1> QED
  BY <1>1, <1>2

LEMMA VisitKeeps ==
    ASSUME IInv, NEW s \in Session, NEW x \in Key \cup Topic, ReplayVisits(s, x)
    PROVE  IInv'
<1> DEFINE r == ReplayRequest(s, x)
<1>1. /\ replay[s].phase \in {"instances", "topics"} /\ x \in Pending(s)
      /\ replay' = [replay EXCEPT ![s].seen = @ \cup {x}, ![s].waiting = connected]
      /\ connected => Sent(r)
      /\ ~connected => wire' = wire
      /\ UNCHANGED <<registered, active, connected, closed, session, instances, unmet>>
  BY DEF ReplayVisits, clientVars, linkVars, serverVars
<1>2. r \in Request /\ r.on = x /\ (x \in Key => r.info = registered[x])
  BY <1>1, VisitAsks DEF IInv
<1> HIDE DEF r
<1>3. /\ replay' \in [Session -> Walk]
      /\ \A t \in Session : /\ replay'[t].phase = replay[t].phase
                            /\ replay'[t].seen \subseteq replay[t].seen \cup {x}
                            /\ t # s => replay'[t] = replay[t]
  BY <1>1 DEF IInv, Types, Walk
<1>4. IsABag(wire') /\ BagToSet(wire') \subseteq Request
  BY <1>1, <1>2, SentTyped DEF IInv, Types
<1>5. Types'
  BY <1>1, <1>3, <1>4 DEF IInv, Types
<1>6. Fresh'
  <2>1. \A t \in Session : t > session => t # s
    BY <1>1 DEF IInv, Fresh
  <2> QED
    BY <1>1, <1>3, <2>1 DEF IInv, Fresh
<1>7. ASSUME connected PROVE \A k \in Key : Known(k)'
  <2>1. \A k \in Key : k # x => StillWaits(k)
    BY <1>1, <1>3 DEF StillWaits, Waits
  <2> QED
    BY <1>1, <1>2, <1>7, <2>1, SentKeeps DEF IInv
<1> QED
  BY <1>1, <1>5, <1>6, <1>7 DEF IInv

\* A walk that has come to its end starts the next one or is over.
LEMMA WalksOn ==
    ASSUME replay \in [Session -> Walk], NEW s \in Session,
           replay' = [replay EXCEPT ![s].phase = IF @ = "instances" THEN "topics" ELSE "done",
                                    ![s].seen = {}]
    PROVE  /\ replay' \in [Session -> Walk]
           /\ \A t \in Session : t # s => replay'[t] = replay[t]
           /\ replay'[s].phase = IF replay[s].phase = "instances" THEN "topics" ELSE "done"
           /\ replay'[s].seen = {}
<1> DEFINE w == [replay[s] EXCEPT !.phase = IF @ = "instances" THEN "topics" ELSE "done",
                                  !.seen = {}]
<1>1. replay[s] \in Walk
  OBVIOUS
<1>2. w \in Walk
  BY <1>1 DEF Walk
<1>3. replay' = [replay EXCEPT ![s] = w]
  OBVIOUS
<1>4. /\ w.phase = IF replay[s].phase = "instances" THEN "topics" ELSE "done"
      /\ w.seen = {}
  BY <1>1 DEF Walk
<1> HIDE DEF w
<1>5. replay' \in [Session -> Walk] /\ replay'[s] = w
  BY <1>2, <1>3
<1>6. \A t \in Session : t # s => replay'[t] = replay[t]
  BY <1>3
<1> QED
  BY <1>4, <1>5, <1>6

\* A replay leaves the instances when there is none it has not visited.
LEMMA GoingOnKeeps ==
    ASSUME IInv, NEW s \in Session, ReplayGoesOn(s)
    PROVE  IInv'
<1>1. /\ replay[s].phase \in {"instances", "topics"} /\ Pending(s) = {}
      /\ replay' = [replay EXCEPT ![s].phase =
                       IF @ = "instances" THEN "topics" ELSE "done", ![s].seen = {}]
      /\ UNCHANGED <<registered, active, connected, closed, session, wire,
                     instances, unmet, crossed>>
  BY DEF ReplayGoesOn, clientVars, linkVars, serverVars
<1>2. /\ replay' \in [Session -> Walk]
      /\ \A t \in Session : t # s => replay'[t] = replay[t]
  BY <1>1, WalksOn DEF IInv, Types
<1>3. Types'
  BY <1>1, <1>2 DEF IInv, Types
<1>4. Fresh'
  <2>1. \A t \in Session : t > session => t # s
    BY <1>1 DEF IInv, Fresh
  <2> QED
    BY <1>1, <1>2, <2>1 DEF IInv, Fresh
<1>5. ASSUME connected PROVE \A k \in Key : Known(k)'
  <2>1. \A k \in Key : ~(Waits(k) /\ session = s)
    BY <1>1 DEF Waits, Pending
  <2>2. \A k \in Key : StillWaits(k)
    BY <1>1, <1>2, <2>1 DEF StillWaits, Waits
  <2> QED
    BY <1>1, <1>5, <2>2, Undisturbed DEF IInv
<1> QED
  BY <1>1, <1>3, <1>4, <1>5 DEF IInv
-----------------------------------------------------------------------------
\* A request is taken off the wire.
LEMMA TakenOff ==
    ASSUME Types, NEW r \in BagToSet(wire), wire' = BagRemove(wire, r)
    PROVE  /\ IsABag(wire') /\ BagToSet(wire') \subseteq BagToSet(wire) /\ r \in Request
           /\ \A x : x # r.on => (Free(x)' <=> Free(x))
<1>1. /\ IsABag(wire') /\ BagToSet(wire') \subseteq BagToSet(wire)
      /\ BagToSet(wire) \subseteq BagToSet(wire') \cup {r}
  BY BagRemoved DEF Types
<1> QED
  BY <1>1 DEF Types, Free

\* A request is given up, and is still for the same key.
LEMMA GivenUp ==
    ASSUME Types, NEW r \in BagToSet(wire), Awaited(r),
           wire' = BagAdd(BagRemove(wire, r), [r EXCEPT !.by = Nobody])
    PROVE  /\ IsABag(wire') /\ BagToSet(wire') \subseteq Request
           /\ \A q \in BagToSet(wire') :
                 \/ q \in BagToSet(wire)
                 \/ q = Ask(r.type, r.on, r.info, Nobody)
           /\ \A q \in BagToSet(wire) : q = r \/ q \in BagToSet(wire')
           /\ \A x : Free(x)' <=> Free(x)
<1> DEFINE g == [r EXCEPT !.by = Nobody]
<1>1. /\ r \in Request /\ g \in Request /\ g = Ask(r.type, r.on, r.info, Nobody)
      /\ g.on = r.on
  <2>1. r \in Request
    BY DEF Types
  <2> QED
    BY <2>1 DEF Request, Ask
<1>2. /\ IsABag(wire') /\ BagToSet(wire') = BagToSet(BagRemove(wire, r)) \cup {g}
      /\ BagToSet(BagRemove(wire, r)) \subseteq BagToSet(wire)
      /\ BagToSet(wire) \subseteq BagToSet(BagRemove(wire, r)) \cup {r}
  BY BagAdded, BagRemoved DEF Types
<1> HIDE DEF g
<1>3. \A x : Free(x)' <=> Free(x)
  BY <1>1, <1>2 DEF Free
<1> QED
  BY <1>1, <1>2, <1>3 DEF Types

\* What happens to a request at the server.
LEMMA TakenKeeps == IInv /\ ServerTakes => IInv'
<1> SUFFICES ASSUME IInv, ServerTakes PROVE IInv'
  OBVIOUS
<1>1. PICK r \in BagToSet(wire) :
         /\ wire' = BagRemove(wire, r) /\ unmet' = unmet \ {r.on}
         /\ instances' = IF r.on \in Key THEN [instances EXCEPT ![r.on] = r.info]
                         ELSE instances
         /\ UNCHANGED <<registered, active, connected, closed, session, replay, crossed>>
  BY DEF ServerTakes, clientVars, linkVars
<1>2. /\ IsABag(wire') /\ BagToSet(wire') \subseteq BagToSet(wire) /\ r \in Request
      /\ \A x : x # r.on => (Free(x)' <=> Free(x))
  BY <1>1, TakenOff DEF IInv
<1>3. r.on \in Key => r.info \in Info \cup {None}
  BY <1>2, GrpcNamingAssumption DEF Request
<1>4. Types'
  BY <1>1, <1>2, <1>3 DEF IInv, Types
<1>5. connected
  BY <1>1 DEF IInv, Fresh
<1>6. Fresh'
  BY <1>1, <1>5 DEF IInv, Fresh
<1>7. ASSUME NEW k \in Key, k \notin crossed' PROVE Known(k)'
  <2>0. Known(k) /\ k \notin crossed /\ instances \in [Key -> Info \cup {None}]
    BY <1>1, <1>5, <1>7 DEF IInv, Types
  <2>1. \A q \in BagToSet(wire') : q.on = k => q.info = registered'[k]
    BY <1>1, <1>2, <2>0 DEF Known
  <2>2. CASE r.on = k
    BY <1>1, <2>0, <2>1, <2>2 DEF Known
  <2>3. CASE r.on # k
    <3>1. Free(k)' => Free(k)
      BY <1>2, <2>3
    <3>2. Waits(k)' <=> Waits(k)
      BY <1>1 DEF Waits
    <3> QED
      BY <1>1, <2>0, <2>1, <2>3, <3>1, <3>2 DEF Known
  <2> QED
    BY <2>2, <2>3
<1>8. \A k \in Key : Known(k)'
  BY <1>7 DEF Known
<1> QED
  BY <1>4, <1>6, <1>8 DEF IInv

LEMMA RefusedKeeps == IInv /\ ServerRefuses => IInv'
<1> SUFFICES ASSUME IInv, ServerRefuses PROVE IInv'
  OBVIOUS
<1>1. PICK r \in BagToSet(wire) :
         /\ wire' = BagRemove(wire, r) /\ unmet' = unmet \cup {r.on}
         /\ UNCHANGED <<registered, active, connected, closed, session, replay, instances,
                        crossed>>
  BY DEF ServerRefuses, clientVars, linkVars
<1>2. /\ IsABag(wire') /\ BagToSet(wire') \subseteq BagToSet(wire)
      /\ \A x : x # r.on => (Free(x)' <=> Free(x))
  BY <1>1, TakenOff DEF IInv
<1>3. Types'
  BY <1>1, <1>2 DEF IInv, Types
<1>4. connected
  BY <1>1 DEF IInv, Fresh
<1>5. Fresh'
  BY <1>1, <1>4 DEF IInv, Fresh
<1>6. ASSUME NEW k \in Key PROVE Known(k)'
  <2>1. Known(k) /\ (Waits(k)' <=> Waits(k))
    BY <1>1, <1>4 DEF IInv, Waits
  <2> QED
    BY <1>1, <1>2, <2>1 DEF Known
<1> QED
  BY <1>3, <1>5, <1>6 DEF IInv

LEMMA TimesOutKeeps == IInv /\ TimesOut => IInv'
<1> SUFFICES ASSUME IInv, TimesOut PROVE IInv'
  OBVIOUS
<1>1. PICK r \in BagToSet(wire) :
         /\ Awaited(r)
         /\ wire' = BagAdd(BagRemove(wire, r), [r EXCEPT !.by = Nobody])
         /\ UNCHANGED <<registered, active, connected, closed, session, replay,
                        instances, unmet, crossed>>
  BY DEF TimesOut, clientVars, linkVars, serverVars
<1>2. /\ IsABag(wire') /\ BagToSet(wire') \subseteq Request
      /\ \A q \in BagToSet(wire') :
            q \in BagToSet(wire) \/ q = Ask(r.type, r.on, r.info, Nobody)
      /\ \A x : Free(x)' <=> Free(x)
  BY <1>1, GivenUp DEF IInv
<1>3. Types'
  BY <1>1, <1>2 DEF IInv, Types
<1>4. connected
  BY <1>1 DEF IInv, Fresh
<1>5. Fresh'
  BY <1>1, <1>4 DEF IInv, Fresh
<1>6. ASSUME NEW k \in Key PROVE Known(k)'
  <2>1. Known(k) /\ (Waits(k)' <=> Waits(k))
    BY <1>1, <1>4 DEF IInv, Waits
  <2> QED
    BY <1>1, <1>2, <2>1 DEF Known, Ask
<1> QED
  BY <1>3, <1>5, <1>6 DEF IInv
-----------------------------------------------------------------------------
\* A session ends, and the next one begins with its replay.
LEMMA SessionsKeep == IInv /\ (Drop \/ Reconnect) => IInv'
<1>1. ASSUME IInv, Drop PROVE IInv'
  <2>1. Types'
    BY <1>1, BagEmpty DEF Drop, SessionEnds, IInv, Types, clientVars
  <2>2. Fresh'
    BY <1>1, BagEmpty DEF Drop, SessionEnds, IInv, Fresh
  <2> QED
    BY <1>1, <2>1, <2>2 DEF Drop, IInv
<1>2. ASSUME IInv, Reconnect PROVE IInv'
  <2>1. /\ session + 1 \in Session /\ session \in Nat /\ session' = session + 1
        /\ replay[session + 1].phase = "none" /\ replay[session + 1].seen = {}
        /\ BagToSet(wire) = {} /\ \A k \in Key : instances[k] = None
        /\ UNCHANGED <<registered, wire, instances>>
    BY <1>2, GrpcNamingAssumption DEF Reconnect, IInv, Types, Fresh, Session, serverVars
  <2>2. /\ replay' \in [Session -> Walk]
        /\ replay'[session + 1].phase = "instances" /\ replay'[session + 1].seen = {}
        /\ \A s \in Session : s # session + 1 => replay'[s] = replay[s]
    BY <1>2, <2>1 DEF Reconnect, IInv, Types, Walk
  <2>3. Types'
    BY <1>2, <2>1, <2>2 DEF Reconnect, IInv, Types, Session
  <2>4. Fresh'
    <3>1. \A s \in Session : s > session' => s > session /\ s # session + 1
      BY <2>1 DEF Session
    <3> QED
      BY <1>2, <2>1, <2>2, <3>1 DEF Reconnect, IInv, Fresh
  <2>5. ASSUME NEW k \in Key PROVE Known(k)'
    <3>1. instances'[k] = registered'[k] \/ Waits(k)'
      BY <2>1, <2>2 DEF Waits
    <3> QED
      BY <2>1, <3>1 DEF Known
  <2> QED
    BY <2>3, <2>4, <2>5 DEF IInv
<1> QED
  BY <1>1, <1>2

\* Every step of the client, the connection and the server keeps it.
LEMMA StepKeeps == IInv /\ [Next]_vars => IInv'
<1> SUFFICES ASSUME IInv, [Next]_vars PROVE IInv'
  OBVIOUS
<1>1. CASE Application
  BY <1>1, CallsKeep
<1>2. CASE ReplyArrives
  BY <1>2, RepliesKeep
<1>3. ASSUME NEW s \in Session, ReplayStep(s) PROVE IInv'
  BY <1>3, GoingOnKeeps, VisitKeeps DEF ReplayStep
<1>4. CASE ServerTakes \/ ServerRefuses \/ TimesOut
  BY <1>4, TakenKeeps, RefusedKeeps, TimesOutKeeps
<1>5. CASE Drop \/ Reconnect
  BY <1>5, SessionsKeep
<1>6. CASE UNCHANGED vars
  BY <1>6 DEF vars, IInv, Types, Fresh, Known, Free, Waits
<1> QED
  BY <1>1, <1>2, <1>3, <1>4, <1>5, <1>6 DEF Next

\* In every reachable state all that is under way for an instance says what is
\* registered, or the server holds it, refused it or will be asked, but for
\* keys whose last request met one to the contrary.
THEOREM Invariance == Spec => []IInv
<1>1. Init => IInv
  BY InitEstablishes
<1>2. IInv /\ [Next]_vars => IInv'
  BY StepKeeps
<1> QED
  BY <1>1, <1>2, PTL DEF Spec

\* Once all is quiet the server holds what the application registered, one
\* instance of each of any number of services, but for the keys whose last
\* request failed or was sent while one that says something else was under way
\* (_onReconnect, registerService and deregisterService of grpc_proxy.ts, in
\* any interleaving, and the requests taken in any order).
THEOREM RegistrationsHeld == Spec => []ServerHoldsRegistrations
<1>1. IInv => ServerHoldsRegistrations
  <2> SUFFICES ASSUME IInv, Quiet, NEW k \in Key, k \notin unmet, k \notin crossed
               PROVE  instances[k] = registered[k]
    BY DEF ServerHoldsRegistrations, Follows
  <2>1. Free(k)
    BY BagEmpty DEF Quiet, Free
  <2>2. ~Waits(k)
    BY DEF Quiet, Replaying, Waits
  <2> QED
    BY <2>1, <2>2 DEF IInv, Quiet, Known
<1> QED
  BY <1>1, Invariance, PTL
-----------------------------------------------------------------------------
(***************************************************************************)
(* The subscriptions.  The client remembers one when the answer arrives,   *)
(* and forgets it when the answer to unSubscribe does, so what the client  *)
(* has is told apart from what is on its way to it.                        *)
(***************************************************************************)

\* The answers that were given: none is of a session to come.
Given == [request : Request, ok : BOOLEAN, session : 0 .. session]

OtherTypes ==
    /\ closed \in BOOLEAN
    /\ IsABag(replies) /\ BagToSet(replies) \subseteq Given
    /\ topics \in SUBSET Topic /\ unmet \in SUBSET (Key \cup Topic) /\ late \in SUBSET Topic
    /\ crossed \in SUBSET (Key \cup Topic)
    /\ calls \in 0 .. MaxCalls /\ faults \in 0 .. MaxFaults

\* The answer makes the client remember t, or forget it.
Confirms(a, t) ==
    a.session = session /\ a.ok /\ a.request = Ask("subscribe", t, None, App)

Forgets(a, t) ==
    a.session = session /\ a.request = Ask("unsubscribe", t, None, App)

\* t is remembered for this session, is about to be, or will be forgotten.
Remembered(t) == t \in active \ late
Coming(t) == \E a \in BagToSet(replies) : Confirms(a, t)
Going(t)  == \E a \in BagToSet(replies) : Forgets(a, t)

\* A request on the wire is for t, or against it.
AskedFor(t)     == \E q \in BagToSet(wire) : q.on = t /\ q.type = "subscribe"
AskedAgainst(t) == \E q \in BagToSet(wire) : q.on = t /\ q.type = "unsubscribe"

\* The replay of the session has yet to come to t.
ToVisit(t) ==
    /\ session \in Session /\ replay[session].phase \in {"instances", "topics"}
    /\ t \notin replay[session].seen

\* All that is under way agrees.
Agreed(t) == ~((AskedFor(t) \/ Coming(t)) /\ (AskedAgainst(t) \/ Going(t)))

Followed(t) ==
    t \notin crossed =>
       /\ Agreed(t)
       /\ AskedAgainst(t) /\ Remembered(t) =>
             Going(t) \/ Ask("unsubscribe", t, None, App) \in BagToSet(wire)
       /\ Free(t) /\ t \notin unmet =>
             /\ Remembered(t) => t \in topics \/ ToVisit(t) \/ Going(t)
             /\ Coming(t) => t \in topics

Subscriptions == OtherTypes /\ (connected => \A t \in Topic : Followed(t))
-----------------------------------------------------------------------------
\* The fields of a request.
LEMMA Fields ==
    \A r \in Request :
       /\ r.on \in Key \cup Topic /\ r = Ask(r.type, r.on, r.info, r.by)
       /\ r.type \in {"subscribe", "unsubscribe"} => r.on \in Topic
       /\ r.on \in Topic => r.info = None /\ r.type \in {"subscribe", "unsubscribe"}
       /\ r.type = "unsubscribe" => r.by \in {App, Nobody}
BY GrpcNamingAssumption DEF Request, Ask

\* An answer is given now.
LEMMA AnswerGiven ==
    ASSUME session \in 0 .. MaxSessions, NEW r \in Request, NEW ok \in BOOLEAN
    PROVE  Answer(r, ok) \in Given
BY DEF Answer, Given

LEMMA GivenTyped ==
    session \in 0 .. MaxSessions /\ BagToSet(replies) \subseteq Given => BagToSet(replies) \subseteq Reply
BY GrpcNamingAssumption DEF Given, Reply

\* What fails with the connection gets answers as well.
LEMMA FailedGiven ==
    ASSUME Types, OtherTypes, AllFail
    PROVE  IsABag(replies') /\ BagToSet(replies') \subseteq Given
<1> DEFINE failed == {Answer(r, FALSE) : r \in {q \in BagToSet(wire) : Awaited(q)}}
           more == [a \in failed |-> wire[a.request]]
<1>1. /\ replies' = replies (+) more
      /\ IsABag(replies) /\ BagToSet(replies) \subseteq Given
  BY DEF AllFail, OtherTypes
<1>2. ASSUME NEW a \in failed
      PROVE  a \in Given /\ a.request \in BagToSet(wire)
  <2>1. PICK r \in BagToSet(wire) : a = Answer(r, FALSE)
    OBVIOUS
  <2>2. r \in Request /\ session \in 0 .. MaxSessions
    BY DEF Types
  <2>3. a \in Given
    BY <2>1, <2>2, AnswerGiven
  <2> QED
    BY <2>1, <2>3 DEF Answer
<1>3. IsABag(more) /\ BagToSet(more) = failed
  <2>1. \A r \in BagToSet(wire) : wire[r] \in {n \in Nat : n > 0}
    BY DEF Types, IsABag, BagToSet
  <2>2. \A a \in failed : wire[a.request] \in {n \in Nat : n > 0}
    BY <1>2, <2>1
  <2> HIDE DEF failed
  <2> QED
    BY <2>2 DEF IsABag, BagToSet
<1>4. failed \subseteq Given
  BY <1>2
<1> HIDE DEF failed, more
<1> QED
  BY <1>1, <1>3, <1>4, BagsJoined

LEMMA SubscriptionsInit == Init => Subscriptions
<1> SUFFICES ASSUME Init PROVE Subscriptions
  OBVIOUS
<1>1. OtherTypes
  <2>1. calls \in 0 .. MaxCalls /\ faults \in 0 .. MaxFaults
    BY GrpcNamingAssumption DEF Init
  <2>2. IsABag(replies) /\ BagToSet(replies) \subseteq Given
    BY BagEmpty DEF Init
  <2> QED
    BY <2>1, <2>2, Zenon DEF Init, OtherTypes
<1>2. \A t \in Topic : Followed(t)
  BY BagEmpty DEF Init, Followed, Agreed, AskedFor, AskedAgainst, Coming, Remembered
<1> QED
  BY <1>1, <1>2 DEF Subscriptions
-----------------------------------------------------------------------------
(* What a request and an answer change. *)

\* A request is sent; who waits for it waits.
LEMMA Requested ==
    ASSUME Types, NEW r \in Request, r.by # Nobody, Sent(r),
           UNCHANGED <<replies, session, active, late, unmet, topics>>,
           \A t \in Topic : t # r.on => (ToVisit(t) => ToVisit(t)'),
           \A t \in Topic : Followed(t)
    PROVE  \A t \in Topic : Followed(t)'
<1>1. BagToSet(wire') = BagToSet(wire) \cup {r}
  BY BagAdded DEF Sent, Types
<1>2. \A t : /\ Coming(t)' <=> Coming(t)
             /\ Going(t)' <=> Going(t)
             /\ Remembered(t)' <=> Remembered(t)
  BY DEF Coming, Confirms, Going, Forgets, Remembered
<1>3. ASSUME NEW t \in Topic, t # r.on PROVE Followed(t)'
  <2>1. /\ AskedFor(t)' <=> AskedFor(t)
        /\ AskedAgainst(t)' <=> AskedAgainst(t)
        /\ Free(t)' <=> Free(t)
        /\ t \in crossed' <=> t \in crossed
        /\ Ask("unsubscribe", t, None, App) \in BagToSet(wire) =>
              Ask("unsubscribe", t, None, App) \in BagToSet(wire')
    BY <1>1, <1>3 DEF AskedFor, AskedAgainst, Free, Sent
  <2>2. Followed(t) /\ (ToVisit(t) => ToVisit(t)')
    BY <1>3
  <2> QED
    BY <1>2, <2>1, <2>2 DEF Followed, Agreed
<1>4. ASSUME NEW t \in Topic, t = r.on, t \notin crossed' PROVE Followed(t)'
  <2>1. r.type \in {"subscribe", "unsubscribe"} /\ ~Free(t)' /\ ~Contradicted(r)
    BY <1>1, <1>4, Fields DEF Sent, Free
  <2>2. \A q \in BagToSet(wire') : q.on = t => q.type = r.type
    BY <1>1, <1>4, <2>1 DEF Contradicted
  <2>3. r.type = "subscribe" => ~AskedAgainst(t)' /\ ~Going(t)'
    BY <1>2, <1>4, <2>1, <2>2 DEF AskedAgainst, Going, Forgets, Contradicted, Ask
  <2>4. r.type = "unsubscribe" => ~AskedFor(t)' /\ ~Coming(t)'
    BY <1>2, <1>4, <2>1, <2>2 DEF AskedFor, Coming, Confirms, Contradicted, Ask
  <2>5. r.type = "unsubscribe" => Ask("unsubscribe", t, None, App) \in BagToSet(wire')
    BY <1>1, <1>4, Fields
  <2> QED
    BY <2>1, <2>3, <2>4, <2>5 DEF Followed, Agreed
<1> QED
  BY <1>3, <1>4 DEF Followed

\* An answer is given to request r.
LEMMA Replying ==
    ASSUME OtherTypes, session \in 0 .. MaxSessions, NEW r \in Request, NEW ok \in BOOLEAN,
           replies' = Replied(r, ok), session' = session
    PROVE  /\ IsABag(replies') /\ BagToSet(replies') \subseteq Given
           /\ \A t \in Topic :
                 /\ Coming(t)' => Coming(t) \/ (ok /\ r = Ask("subscribe", t, None, App))
                 /\ Going(t) => Going(t)'
                 /\ Going(t)' => Going(t) \/ r = Ask("unsubscribe", t, None, App)
                 /\ r = Ask("unsubscribe", t, None, App) => Going(t)'
<1>1. CASE ~Awaited(r)
  <2>1. replies' = replies
    BY <1>1 DEF Replied
  <2>2. \A t \in Topic : r # Ask("unsubscribe", t, None, App)
    BY <1>1 DEF Awaited, Ask
  <2> QED
    BY <2>1, <2>2 DEF OtherTypes, Coming, Confirms, Going, Forgets
<1>2. CASE Awaited(r)
  <2>1. /\ IsABag(replies') /\ BagToSet(replies') = BagToSet(replies) \cup {Answer(r, ok)}
        /\ Answer(r, ok) \in Given
    BY <1>2, AnswerGiven, BagAdded DEF Replied, OtherTypes
  <2>2. /\ Answer(r, ok).request = r /\ Answer(r, ok).ok = ok
        /\ Answer(r, ok).session = session
    BY DEF Answer
  <2> QED
    BY <2>1, <2>2 DEF OtherTypes, Coming, Confirms, Going, Forgets
<1> QED
  BY <1>1, <1>2
-----------------------------------------------------------------------------
(* Every action keeps the subscriptions. *)

LEMMA SameTypes ==
    ASSUME OtherTypes, UNCHANGED session, closed' \in BOOLEAN,
           IsABag(replies'), BagToSet(replies') \subseteq Given,
           topics' \in SUBSET Topic, unmet' \in SUBSET (Key \cup Topic),
           late' \in SUBSET Topic, crossed' \in SUBSET (Key \cup Topic),
           calls' \in 0 .. MaxCalls, faults' \in 0 .. MaxFaults
    PROVE  OtherTypes'
<1>1. Given' = Given
  BY DEF Given
<1> QED
  BY <1>1 DEF OtherTypes

LEMMA CallFollows ==
    ASSUME IInv, Subscriptions, NEW r \in Request, r.by # Nobody, AppCalls, Send(r),
           UNCHANGED <<active, late>>,
           \A s \in Session : /\ replay'[s].phase = replay[s].phase
                              /\ replay'[s].seen \subseteq replay[s].seen
    PROVE  Subscriptions'
<1>1. /\ OtherTypes /\ Types /\ session \in 0 .. MaxSessions
      /\ connected => \A t \in Topic : Followed(t)
      /\ UNCHANGED <<connected, closed, session, instances, topics, unmet, faults>>
      /\ calls' \in 0 .. MaxCalls /\ r.on \in Key \cup Topic
  BY GrpcNamingAssumption, Fields
     DEF IInv, Types, Subscriptions, OtherTypes, AppCalls, linkVars, serverVars
<1>2. /\ IsABag(replies') /\ BagToSet(replies') \subseteq Given
      /\ crossed' \in SUBSET (Key \cup Topic)
  <2>1. CASE connected /\ Sent(r) /\ UNCHANGED replies
    BY <1>1, <2>1 DEF Sent, OtherTypes
  <2>2. CASE ~connected /\ replies' = Replied(r, FALSE) /\ UNCHANGED <<wire, crossed>>
    BY <1>1, <2>2, Replying DEF OtherTypes
  <2> QED
    BY <2>1, <2>2 DEF Send
<1>3. OtherTypes'
  BY <1>1, <1>2, SameTypes DEF OtherTypes
<1>4. ASSUME connected PROVE \A t \in Topic : Followed(t)'
  <2>1. Sent(r) /\ UNCHANGED replies
    BY <1>4 DEF Send
  <2>2. \A t \in Topic : ToVisit(t) => ToVisit(t)'
    BY <1>1 DEF ToVisit
  <2> QED
    BY <1>1, <1>4, <2>1, <2>2, Requested
<1> QED
  BY <1>1, <1>3, <1>4 DEF Subscriptions

\* The connection is gone, and what was under way on it.
LEMMA GoneFollows ==
    ASSUME IInv, Subscriptions, SessionEnds, ~connected',
           closed' \in BOOLEAN, UNCHANGED <<session, late, calls, faults>>
    PROVE  Subscriptions'
<1>1. OtherTypes /\ Types
  BY DEF IInv, Subscriptions
<1>2. IsABag(replies') /\ BagToSet(replies') \subseteq Given
  BY <1>1, FailedGiven DEF SessionEnds
<1>3. OtherTypes'
  BY <1>1, <1>2, SameTypes DEF OtherTypes, SessionEnds
<1> QED
  BY <1>3 DEF Subscriptions

LEMMA ApplicationFollows == IInv /\ Subscriptions /\ Application => Subscriptions'
<1> SUFFICES ASSUME IInv, Subscriptions, Application PROVE Subscriptions'
  OBVIOUS
<1>0. replay \in [Session -> Walk] /\ App # Nobody
  BY DEF IInv, Types, App, Nobody
<1>1. ASSUME NEW k \in Key, Deregister(k) PROVE Subscriptions'
  <2>1. Ask("deregister", k, None, App) \in Request
        /\ Ask("deregister", k, None, App).by = App
    BY DEF Request, Ask
  <2> QED
    BY <1>0, <1>1, <2>1, Unvisited, CallFollows DEF Deregister
<1>2. ASSUME NEW k \in Key, NEW info \in Info, Register(k, info) PROVE Subscriptions'
  <2>1. Ask("register", k, info, App) \in Request /\ Ask("register", k, info, App).by = App
    BY DEF Request, Ask
  <2> QED
    BY <1>0, <1>2, <2>1, CallFollows DEF Register
<1>3. ASSUME NEW t \in Topic, Subscribe(t) \/ UnSubscribe(t) PROVE Subscriptions'
  <2>1. /\ Ask("subscribe", t, None, App) \in Request
        /\ Ask("unsubscribe", t, None, App) \in Request
        /\ Ask("subscribe", t, None, App).by = App
        /\ Ask("unsubscribe", t, None, App).by = App
    BY DEF Request, Ask
  <2> QED
    BY <1>0, <1>3, <2>1, CallFollows DEF Subscribe, UnSubscribe, clientVars
<1>4. CASE Close
  BY <1>0, <1>4, GoneFollows DEF Close, clientVars
<1> QED
  BY <1>1, <1>2, <1>3, <1>4 DEF Application

LEMMA ReplyFollows == IInv /\ Subscriptions /\ ReplyArrives => Subscriptions'
<1> SUFFICES ASSUME IInv, Subscriptions, ReplyArrives PROVE Subscriptions'
  OBVIOUS
<1>1. PICK a \in BagToSet(replies), ok \in BOOLEAN :
         /\ ok => a.ok
         /\ connected /\ a.session = session => ok = a.ok
         /\ Subscribed(a, ok) \/ UnSubscribed(a) \/ ReplayAnswered(a, ok)
         /\ replies' = BagRemove(replies, a)
         /\ UNCHANGED <<connected, closed, session, wire, instances, topics, unmet,
                        crossed, calls, faults>>
  BY DEF ReplyArrives, linkVars, serverVars
<1>2. /\ OtherTypes /\ replay \in [Session -> Walk]
      /\ connected => \A t \in Topic : Followed(t)
  BY DEF IInv, Types, Subscriptions
<1>3. /\ IsABag(replies') /\ BagToSet(replies') \subseteq BagToSet(replies)
      /\ BagToSet(replies) \subseteq BagToSet(replies') \cup {a}
  BY <1>1, <1>2, BagRemoved DEF OtherTypes
<1>4. late' \in SUBSET Topic
  BY <1>1, <1>2 DEF Subscribed, UnSubscribed, ReplayAnswered, OtherTypes
<1>5. OtherTypes'
  BY <1>1, <1>2, <1>3, <1>4, SameTypes DEF OtherTypes
<1>6. \A s \in Session : /\ replay'[s].phase = replay[s].phase
                         /\ replay'[s].seen \subseteq replay[s].seen
  <2>1. CASE Subscribed(a, ok)
    BY <2>1 DEF Subscribed
  <2>2. CASE UnSubscribed(a)
    BY <1>2, <2>2, Unvisited DEF UnSubscribed
  <2>3. CASE ReplayAnswered(a, ok)
    BY <1>2, <2>3 DEF ReplayAnswered, Walk
  <2> QED
    BY <1>1, <2>1, <2>2, <2>3
<1>7. ASSUME connected, NEW t \in Topic, t \notin crossed' PROVE Followed(t)'
  <2>1. Followed(t) /\ t \notin crossed
    BY <1>1, <1>2, <1>7
  <2>2. /\ AskedFor(t)' <=> AskedFor(t)
        /\ AskedAgainst(t)' <=> AskedAgainst(t)
        /\ Free(t)' <=> Free(t)
        /\ ToVisit(t) => ToVisit(t)'
        /\ BagToSet(wire') = BagToSet(wire)
    BY <1>1, <1>6 DEF AskedFor, AskedAgainst, Free, ToVisit
  <2>3. (Coming(t)' => Coming(t)) /\ (Going(t)' => Going(t))
    BY <1>1, <1>3 DEF Coming, Confirms, Going, Forgets
  <2>4. Agreed(t)'
    BY <2>1, <2>2, <2>3 DEF Followed, Agreed
  <2>5. Remembered(t)' => (Going(t) => Going(t)')
    <3>1. SUFFICES ASSUME Remembered(t)', NEW b \in BagToSet(replies), Forgets(b, t)
                   PROVE  Going(t)'
      BY DEF Going
    <3>2. b # a
      <4>1. SUFFICES ASSUME a.request = Ask("unsubscribe", t, None, App) PROVE FALSE
        BY <3>1 DEF Forgets
      <4>2. a.request.type = "unsubscribe" /\ a.request.on = t /\ a.request.by = App
        BY <4>1 DEF Ask
      <4>3. ~Subscribed(a, ok) /\ ~ReplayAnswered(a, ok)
        <5>1. \A u : Ask("subscribe", u, None, App).type = "subscribe"
          BY DEF Ask
        <5>2. App \notin Session
          BY GrpcNamingAssumption DEF App, Session
        <5> QED
          BY <4>2, <5>1, <5>2 DEF Subscribed, ReplayAnswered
      <4>4. t \notin active'
        <5>1. PICK u \in Topic :
                 a.request = Ask("unsubscribe", u, None, App) /\ active' = active \ {u}
          BY <1>1, <4>3 DEF UnSubscribed
        <5>2. u = t
          BY <4>2, <5>1 DEF Ask
        <5> QED
          BY <5>1, <5>2
      <4> QED
        BY <3>1, <4>4 DEF Remembered
    <3> QED
      BY <1>1, <1>3, <3>1, <3>2 DEF Going, Forgets
  <2>6. Remembered(t)' => Remembered(t) \/ Confirms(a, t)
    <3>1. CASE Subscribed(a, ok)
      <4>1. PICK u \in Topic :
               /\ a.request = Ask("subscribe", u, None, App)
               /\ active' = IF ok THEN active \cup {u} ELSE active
               /\ late' = IF ~ok THEN late
                          ELSE IF a.session = session THEN late \ {u}
                          ELSE late \cup {u}
        BY <3>1 DEF Subscribed
      <4>2. CASE u = t /\ ok /\ a.session = session
        BY <1>1, <4>1, <4>2 DEF Confirms
      <4>3. CASE ~(u = t /\ ok /\ a.session = session)
        BY <4>1, <4>3 DEF Remembered
      <4> QED
        BY <4>2, <4>3
    <3>2. CASE UnSubscribed(a) \/ ReplayAnswered(a, ok)
      BY <3>2 DEF UnSubscribed, ReplayAnswered, Remembered
    <3> QED
      BY <1>1, <3>1, <3>2
  <2>7. Confirms(a, t) => Coming(t)
    BY DEF Coming
  <2> QED
    BY <1>1, <2>1, <2>2, <2>3, <2>4, <2>5, <2>6, <2>7 DEF Followed, Agreed
<1>8. connected => \A t \in Topic : Followed(t)'
  BY <1>7 DEF Followed
<1> QED
  BY <1>1, <1>5, <1>8 DEF Subscriptions

LEMMA VisitFollows ==
    ASSUME IInv, Subscriptions, NEW s \in Session, NEW x \in Key \cup Topic, ReplayVisits(s, x)
    PROVE  Subscriptions'
<1> DEFINE r == ReplayRequest(s, x)
<1>1. /\ replay[s].phase \in {"instances", "topics"} /\ x \in Pending(s)
      /\ replay' = [replay EXCEPT ![s].seen = @ \cup {x}, ![s].waiting = connected]
      /\ connected => Sent(r)
      /\ ~connected => crossed' = crossed
      /\ UNCHANGED <<registered, active, late, connected, closed, session, replies, topics,
                     unmet, calls, faults>>
  BY DEF ReplayVisits, clientVars, linkVars, serverVars
<1>2. r \in Request /\ r.on = x /\ r.by # Nobody
  <2>1. s # Nobody
    BY GrpcNamingAssumption DEF Session, Nobody
  <2> QED
    BY <1>1, <2>1, VisitAsks DEF IInv
<1> HIDE DEF r
<1>3. /\ OtherTypes /\ Types /\ replay \in [Session -> Walk]
      /\ connected => \A t \in Topic : Followed(t)
  BY DEF IInv, Types, Subscriptions
<1>4. crossed' \in SUBSET (Key \cup Topic)
  BY <1>1, <1>2, <1>3 DEF Sent, OtherTypes
<1>5. OtherTypes'
  BY <1>1, <1>3, <1>4, SameTypes DEF OtherTypes
<1>6. ASSUME connected PROVE \A t \in Topic : Followed(t)'
  <2>1. \A t \in Topic : x # t => (ToVisit(t) => ToVisit(t)')
    BY <1>1, <1>3 DEF ToVisit, Walk
  <2> QED
    BY <1>1, <1>2, <1>3, <1>6, <2>1, Requested
<1> QED
  BY <1>1, <1>5, <1>6 DEF Subscriptions

LEMMA GoingOnFollows ==
    ASSUME IInv, Subscriptions, NEW s \in Session, ReplayGoesOn(s)
    PROVE  Subscriptions'
<1>1. /\ replay[s].phase \in {"instances", "topics"} /\ Pending(s) = {}
      /\ replay' = [replay EXCEPT ![s].phase =
                       IF @ = "instances" THEN "topics" ELSE "done", ![s].seen = {}]
      /\ UNCHANGED <<active, late, connected, closed, session, wire, replies, topics,
                     unmet, crossed, calls, faults>>
  BY DEF ReplayGoesOn, clientVars, linkVars, serverVars
<1>2. OtherTypes /\ replay \in [Session -> Walk] /\ (connected => \A t \in Topic : Followed(t))
  BY DEF IInv, Types, Subscriptions
<1>3. OtherTypes'
  BY <1>1, <1>2, SameTypes DEF OtherTypes
<1>4. /\ \A t \in Session : t # s => replay'[t] = replay[t]
      /\ replay'[s].phase = IF replay[s].phase = "instances" THEN "topics" ELSE "done"
      /\ replay'[s].seen = {}
  BY <1>1, <1>2, WalksOn
<1>5. ASSUME connected, NEW t \in Topic PROVE Followed(t)'
  <2>1. /\ Coming(t)' <=> Coming(t)
        /\ Going(t)' <=> Going(t)
        /\ Remembered(t)' <=> Remembered(t)
        /\ AskedFor(t)' <=> AskedFor(t)
        /\ AskedAgainst(t)' <=> AskedAgainst(t)
        /\ Free(t)' <=> Free(t)
    BY <1>1
       DEF Coming, Confirms, Going, Forgets, Remembered, AskedFor, AskedAgainst, Free
  <2>2. Remembered(t) /\ ToVisit(t) => ToVisit(t)'
    <3>1. SUFFICES ASSUME Remembered(t), ToVisit(t) PROVE ToVisit(t)'
      OBVIOUS
    <3>2. CASE session # s
      BY <1>1, <1>4, <3>1, <3>2 DEF ToVisit
    <3>3. CASE session = s /\ replay[s].phase = "instances"
      BY <1>1, <1>4, <3>1, <3>3 DEF ToVisit
    <3>4. ~(session = s /\ replay[s].phase = "topics")
      BY <1>1, <3>1 DEF ToVisit, Pending, Remembered
    <3> QED
      BY <1>1, <3>2, <3>3, <3>4
  <2>3. Followed(t)
    BY <1>2, <1>5
  <2> QED
    BY <1>1, <2>1, <2>2, <2>3 DEF Followed, Agreed
<1> QED
  BY <1>1, <1>3, <1>5 DEF Subscriptions

\* The server takes a request or refuses it.
LEMMA ServerFollowed == IInv /\ Subscriptions /\ (ServerTakes \/ ServerRefuses) => Subscriptions'
<1> SUFFICES ASSUME IInv, Subscriptions, ServerTakes \/ ServerRefuses PROVE Subscriptions'
  OBVIOUS
<1>1. /\ OtherTypes /\ Types /\ session \in 0 .. MaxSessions
      /\ connected => \A t \in Topic : Followed(t)
  BY DEF IInv, Types, Subscriptions
<1>2. PICK r \in BagToSet(wire), ok \in BOOLEAN :
         /\ wire' = BagRemove(wire, r)
         /\ replies' = Replied(r, ok)
         /\ UNCHANGED <<active, late, connected, closed, session, replay, crossed, calls>>
         /\ ok => /\ unmet' = unmet \ {r.on} /\ faults' = faults
                  /\ topics' = CASE r.type = "subscribe"   -> topics \cup {r.on}
                                 [] r.type = "unsubscribe" -> topics \ {r.on}
                                 [] OTHER -> topics
         /\ ~ok => /\ unmet' = unmet \cup {r.on} /\ topics' = topics
                   /\ faults' \in 0 .. MaxFaults
  <2>1. faults < MaxFaults => faults + 1 \in 0 .. MaxFaults
    BY <1>1, GrpcNamingAssumption DEF OtherTypes
  <2>2. CASE ServerTakes
    BY <2>2, Zenon DEF ServerTakes, clientVars, linkVars
  <2>3. CASE ServerRefuses
    BY <2>1, <2>3, Zenon DEF ServerRefuses, clientVars, linkVars
  <2> QED
    BY <2>2, <2>3
<1>3. /\ IsABag(wire') /\ BagToSet(wire') \subseteq BagToSet(wire) /\ r \in Request
      /\ BagToSet(wire) \subseteq BagToSet(wire') \cup {r}
      /\ \A x : x # r.on => (Free(x)' <=> Free(x))
  BY <1>1, <1>2, TakenOff, BagRemoved DEF Types
<1>4. connected
  BY <1>2 DEF IInv, Fresh
<1>5. /\ r.on \in Key \cup Topic /\ r = Ask(r.type, r.on, r.info, r.by)
      /\ r.type \in {"subscribe", "unsubscribe"} => r.on \in Topic
      /\ r.on \in Topic => r.info = None /\ r.type \in {"subscribe", "unsubscribe"}
      /\ r.type = "unsubscribe" => r.by \in {App, Nobody}
  BY <1>3, Fields
<1>6. /\ IsABag(replies') /\ BagToSet(replies') \subseteq Given
      /\ \A t \in Topic :
            /\ Coming(t)' => Coming(t) \/ (ok /\ r = Ask("subscribe", t, None, App))
            /\ Going(t) => Going(t)'
            /\ Going(t)' => Going(t) \/ r = Ask("unsubscribe", t, None, App)
            /\ r = Ask("unsubscribe", t, None, App) => Going(t)'
  BY <1>1, <1>2, <1>3, Replying
<1>7. OtherTypes'
  <2>1. topics' \in SUBSET Topic /\ unmet' \in SUBSET (Key \cup Topic) /\ faults' \in 0 .. MaxFaults
    BY <1>1, <1>2, <1>5 DEF OtherTypes
  <2> QED
    BY <1>1, <1>2, <1>6, <2>1, SameTypes DEF OtherTypes
<1>8. ASSUME NEW t \in Topic, t \notin crossed' PROVE Followed(t)'
  <2>0. /\ Followed(t) /\ t \notin crossed
        /\ Remembered(t)' <=> Remembered(t)
        /\ ToVisit(t)' <=> ToVisit(t)
    BY <1>1, <1>2, <1>4, <1>8 DEF Remembered, ToVisit
  <2>1. /\ AskedFor(t)' => AskedFor(t)
        /\ AskedAgainst(t)' => AskedAgainst(t)
        /\ r.on = t /\ r.type = "subscribe" => AskedFor(t)
        /\ r.on = t /\ r.type = "unsubscribe" => AskedAgainst(t)
    BY <1>3 DEF AskedFor, AskedAgainst
  <2>2. /\ r = Ask("subscribe", t, None, App) => r.on = t /\ r.type = "subscribe"
        /\ r = Ask("unsubscribe", t, None, App) => r.on = t /\ r.type = "unsubscribe"
    BY DEF Ask
  <2>3. Agreed(t)'
    BY <1>6, <2>0, <2>1, <2>2 DEF Followed, Agreed
  <2>4. AskedAgainst(t)' /\ Remembered(t)' =>
           Going(t)' \/ Ask("unsubscribe", t, None, App) \in BagToSet(wire')
    BY <1>3, <1>6, <2>0, <2>1 DEF Followed
  <2>5. CASE r.on # t
    <3>1. (t \in topics' <=> t \in topics) /\ (t \in unmet' <=> t \in unmet)
      BY <1>2, <2>5
    <3>2. r # Ask("subscribe", t, None, App)
      BY <2>2, <2>5
    <3> QED
      BY <1>3, <1>6, <2>0, <2>3, <2>4, <2>5, <3>1, <3>2 DEF Followed
  <2>6. CASE r.on = t /\ ~ok
    BY <1>2, <2>3, <2>4, <2>6 DEF Followed
  <2>7. CASE r.on = t /\ ok /\ r.type = "subscribe"
    BY <1>2, <2>3, <2>4, <2>7 DEF Followed
  <2>8. CASE r.on = t /\ r.type = "unsubscribe"
    <3>1. ~Coming(t)'
      BY <1>6, <2>0, <2>1, <2>2, <2>8 DEF Followed, Agreed
    <3>2. Remembered(t) => Going(t) \/ Ask("unsubscribe", t, None, App) \in BagToSet(wire)
      BY <2>0, <2>1, <2>8 DEF Followed
    <3>3. Free(t)' /\ Remembered(t) => Going(t)'
      <4>1. SUFFICES ASSUME Free(t)', Ask("unsubscribe", t, None, App) \in BagToSet(wire)
                     PROVE  Going(t)'
        BY <1>6, <3>2
      <4>2. Ask("unsubscribe", t, None, App) \notin BagToSet(wire')
        BY <4>1 DEF Free, Ask
      <4> QED
        BY <1>3, <1>6, <4>1, <4>2
    <3> QED
      BY <2>0, <2>3, <2>4, <3>1, <3>3 DEF Followed
  <2> QED
    BY <1>5, <2>5, <2>6, <2>7, <2>8
<1>9. \A t \in Topic : Followed(t)'
  BY <1>8 DEF Followed
<1> QED
  BY <1>7, <1>9 DEF Subscriptions

\* A request is given up, which the client is told as a failure.
LEMMA GivingUpFollows == IInv /\ Subscriptions /\ TimesOut => Subscriptions'
<1> SUFFICES ASSUME IInv, Subscriptions, TimesOut PROVE Subscriptions'
  OBVIOUS
<1>1. /\ OtherTypes /\ Types /\ session \in 0 .. MaxSessions
      /\ connected => \A t \in Topic : Followed(t)
  BY DEF IInv, Types, Subscriptions
<1>2. PICK r \in BagToSet(wire) :
         /\ Awaited(r) /\ replies' = Replied(r, FALSE)
         /\ wire' = BagAdd(BagRemove(wire, r), [r EXCEPT !.by = Nobody])
         /\ faults' \in 0 .. MaxFaults
         /\ UNCHANGED <<active, late, connected, closed, session, replay, topics, unmet,
                        crossed, calls>>
  <2>1. faults < MaxFaults => faults + 1 \in 0 .. MaxFaults
    BY <1>1, GrpcNamingAssumption DEF OtherTypes
  <2> QED
    BY <2>1, Zenon DEF TimesOut, clientVars, linkVars, serverVars
<1>3. /\ r \in Request
      /\ \A q \in BagToSet(wire') :
            q \in BagToSet(wire) \/ q = Ask(r.type, r.on, r.info, Nobody)
      /\ \A q \in BagToSet(wire) : q = r \/ q \in BagToSet(wire')
      /\ \A x : Free(x)' <=> Free(x)
  BY <1>1, <1>2, GivenUp DEF Types
<1>4. /\ IsABag(replies') /\ BagToSet(replies') \subseteq Given
      /\ \A t \in Topic : /\ Coming(t)' => Coming(t)
                          /\ Going(t) => Going(t)'
                          /\ Going(t)' => Going(t) \/ r = Ask("unsubscribe", t, None, App)
                          /\ r = Ask("unsubscribe", t, None, App) => Going(t)'
  BY <1>1, <1>2, <1>3, Replying
<1>5. OtherTypes'
  BY <1>1, <1>2, <1>4, SameTypes DEF OtherTypes
<1>6. ASSUME connected, NEW t \in Topic, t \notin crossed' PROVE Followed(t)'
  <2>1. /\ Followed(t) /\ t \notin crossed
        /\ Remembered(t)' <=> Remembered(t)
        /\ ToVisit(t)' <=> ToVisit(t)
    BY <1>1, <1>2, <1>6 DEF Remembered, ToVisit
  <2>2. /\ AskedFor(t)' => AskedFor(t)
        /\ AskedAgainst(t)' => AskedAgainst(t)
        /\ r = Ask("unsubscribe", t, None, App) => AskedAgainst(t)
    BY <1>2, <1>3 DEF AskedFor, AskedAgainst, Ask
  <2>3. Agreed(t)'
    BY <1>4, <2>1, <2>2 DEF Followed, Agreed
  <2>4. AskedAgainst(t)' /\ Remembered(t)' =>
           Going(t)' \/ Ask("unsubscribe", t, None, App) \in BagToSet(wire')
    BY <1>3, <1>4, <2>1, <2>2 DEF Followed
  <2> QED
    BY <1>2, <1>3, <1>4, <2>1, <2>3, <2>4 DEF Followed
<1>7. connected => \A t \in Topic : Followed(t)'
  BY <1>6 DEF Followed
<1> QED
  BY <1>2, <1>5, <1>7 DEF Subscriptions

LEMMA SessionFollows == IInv /\ Subscriptions /\ (Drop \/ Reconnect) => Subscriptions'
<1> SUFFICES ASSUME IInv, Subscriptions, Drop \/ Reconnect PROVE Subscriptions'
  OBVIOUS
<1>1. CASE Drop
  BY <1>1, GoneFollows DEF Drop, clientVars, Subscriptions, OtherTypes
<1>2. CASE Reconnect
  <2>1. /\ session + 1 \in Session /\ session \in Nat /\ session' = session + 1
        /\ replay' = [replay EXCEPT ![session + 1].phase = "instances"]
        /\ replay[session + 1].seen = {} /\ replay \in [Session -> Walk]
        /\ BagToSet(wire) = {} /\ late' = {}
        /\ UNCHANGED <<active, closed, wire, replies, topics, unmet, crossed, calls, faults>>
    BY <1>2, GrpcNamingAssumption DEF Reconnect, IInv, Types, Fresh, Session, serverVars
  <2>2. /\ OtherTypes /\ Given \subseteq Given'
        /\ \A a \in BagToSet(replies) : a.session # session'
    <3>1. OtherTypes /\ BagToSet(replies) \subseteq Given
      BY DEF Subscriptions, OtherTypes
    <3>2. Given \subseteq Given'
      BY <2>1 DEF Given
    <3>3. ASSUME NEW a \in BagToSet(replies) PROVE a.session # session'
      <4>1. a.session \in 0 .. session
        BY <3>1 DEF Given
      <4> QED
        BY <2>1, <4>1
    <3> QED
      BY <3>1, <3>2, <3>3
  <2>3. OtherTypes'
    BY <2>1, <2>2 DEF OtherTypes
  <2>4. ASSUME NEW t \in Topic PROVE Followed(t)'
    <3>1. ~Coming(t)' /\ ~AskedFor(t)' /\ ~AskedAgainst(t)'
      BY <2>1, <2>2 DEF Coming, Confirms, AskedFor, AskedAgainst
    <3>2. ToVisit(t)'
      BY <2>1 DEF ToVisit, Walk
    <3> QED
      BY <3>1, <3>2 DEF Followed, Agreed
  <2> QED
    BY <2>3, <2>4 DEF Subscriptions
<1> QED
  BY <1>1, <1>2

LEMMA SubscriptionsStep == IInv /\ Subscriptions /\ [Next]_vars => Subscriptions'
<1> SUFFICES ASSUME IInv, Subscriptions, [Next]_vars PROVE Subscriptions'
  OBVIOUS
<1>1. CASE UNCHANGED vars
  <2>1. OtherTypes'
    BY <1>1, SameTypes DEF vars, Subscriptions, OtherTypes
  <2>2. \A t \in Topic : Followed(t)' <=> Followed(t)
    BY <1>1 DEF vars, Followed, Agreed, AskedFor, AskedAgainst, Coming, Confirms, Going,
       Forgets, Free, Remembered, ToVisit
  <2> QED
    BY <1>1, <2>1, <2>2 DEF vars, Subscriptions
<1>2. ASSUME NEW s \in Session, ReplayStep(s) PROVE Subscriptions'
  BY <1>2, VisitFollows, GoingOnFollows DEF ReplayStep
<1> QED
  BY <1>1, <1>2, ApplicationFollows, ReplyFollows, ServerFollowed, GivingUpFollows,
     SessionFollows DEF Next

\* In every reachable state a subscription that is remembered, or about to be,
\* is one of the session, is refused, will be asked for, or will be forgotten,
\* if its last request met none to the contrary.
THEOREM SubscriptionsInvariance == Spec => []Subscriptions
<1>1. Init => Subscriptions
  BY SubscriptionsInit
<1>2. IInv /\ Subscriptions /\ [Next]_vars => Subscriptions'
  BY SubscriptionsStep
<1> QED
  BY <1>1, <1>2, Invariance, PTL DEF Spec

\* Every state of the proxy, the connection and the server has its types.
THEOREM TypeCorrect == Spec => []TypeOK
<1>1. IInv /\ Subscriptions => TypeOK
  BY GivenTyped DEF IInv, Types, Subscriptions, OtherTypes, TypeOK
<1> QED
  BY <1>1, Invariance, SubscriptionsInvariance, PTL

\* Once all is quiet every subscription the client remembers is one of the
\* session, but for those whose last request failed or met one to the contrary
\* and those whose answer came after their session (subscribe, unSubscribe and
\* _onReconnect of grpc_proxy.ts).
THEOREM SubscriptionsKept == Spec => []SubscriptionsHeld
<1>1. IInv /\ Subscriptions => SubscriptionsHeld
  <2> SUFFICES ASSUME IInv, Subscriptions, Quiet,
                      NEW t \in active \ (unmet \cup crossed \cup late)
               PROVE  t \in topics
    BY DEF SubscriptionsHeld, Held
  <2>1. t \in Topic /\ t \notin unmet /\ t \notin crossed /\ Remembered(t)
    BY DEF IInv, Types, Remembered
  <2>2. Free(t) /\ ~Going(t) /\ ~ToVisit(t)
    BY BagEmpty DEF Quiet, Replaying, Free, Going, ToVisit
  <2> QED
    BY <2>1, <2>2 DEF Subscriptions, Quiet, Followed
<1> QED
  BY <1>1, Invariance, SubscriptionsInvariance, PTL
=============================================================================
