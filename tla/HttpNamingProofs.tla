-------------------------- MODULE HttpNamingProofs --------------------------
(***************************************************************************)
(* Proofs about HttpNaming for every set of instances, every set of lists  *)
(* without duplicates and every bound.  That a request asks each server of *)
(* its list at most once needs to know which ones it has asked: those that *)
(* lie, on the circle of the list, in the last tries places up to index.   *)
(***************************************************************************)
EXTENDS HttpNaming, FiniteSetTheorems, TLAPS

\* The t places of a circle of n that end at i.
Visited(n, i, t) == {j \in 1 .. n : IF j <= i THEN i - j < t ELSE (i - j) + n < t}

Asking(q) ==
    /\ q.servers # <<>>
    /\ q.index \in 1 .. Len(q.servers) /\ q.tries \in 1 .. Len(q.servers)
    /\ q.asked = {q.servers[j] : j \in Visited(Len(q.servers), q.index, q.tries)}
    /\ IsFiniteSet(q.asked) /\ Cardinality(q.asked) = q.tries
    /\ q.key \in Key

RequestOK(q) ==
    /\ q \in Request
    /\ q.type \notin {"none", "failed"} => Asking(q)
    /\ q.type = "failed" => q.unasked = {}

IInv == TypeOK /\ \A p \in Process : RequestOK(request[p])
-----------------------------------------------------------------------------
\* The lists in use name no server twice.
LEMMA ListFacts ==
    ASSUME NEW l \in ServerList
    PROVE  /\ l \in Seq(Server \cup {Blank})
           /\ \A a, b \in DOMAIN l : l[a] = l[b] => a = b
<1>1. CASE l \in Lists
  <2>1. l \in Seq(Server) /\ IsInjective(l)
    BY <1>1, HttpNamingAssumption
  <2>2. l \in Seq(Server \cup {Blank})
    BY <2>1
  <2> QED
    BY <2>1, <2>2 DEF IsInjective
<1>2. CASE l = <<>>
  BY <1>2
<1>3. CASE l = <<Blank>>
  <2>1. l \in Seq(Server \cup {Blank}) /\ Len(l) = 1 /\ DOMAIN l = 1 .. 1
    BY <1>3
  <2> QED
    BY <2>1
<1> QED
  BY <1>1, <1>2, <1>3 DEF ServerList

\* The next place on a circle.
LEMMA NextPlace ==
    ASSUME NEW n \in Nat, NEW i \in 1 .. n
    PROVE  (i % n) + 1 = IF i = n THEN 1 ELSE i + 1
<1>1. CASE i = n
  BY <1>1
<1>2. CASE i < n
  BY <1>2
<1> QED
  BY <1>1, <1>2

\* One place more is visited, a new one until all are.
LEMMA VisitedGrows ==
    ASSUME NEW n \in Nat, NEW i \in 1 .. n, NEW t \in 1 .. n, t # n,
           NEW k \in 1 .. n, k = IF i = n THEN 1 ELSE i + 1
    PROVE  /\ Visited(n, k, t + 1) = Visited(n, i, t) \cup {k}
           /\ k \notin Visited(n, i, t)
<1>1. CASE i = n
  BY <1>1 DEF Visited
<1>2. CASE i < n
  BY <1>2 DEF Visited
<1> QED
  BY <1>1, <1>2

LEMMA IdleOK == RequestOK(Idle)
  BY DEF RequestOK, Request, Idle, ServerList

\* A request that has left no server of its list out may give up.
LEMMA FailedOK ==
    ASSUME NEW q, ToSet(q.servers) \subseteq q.asked
    PROVE  RequestOK(Failed(q))
<1>1. Failed(q) = [type |-> "failed", key |-> 0, servers |-> <<>>, index |-> 0,
                   tries |-> 0, asked |-> {}, unasked |-> {}]
  <2> DEFINE left == ToSet(q.servers) \ q.asked
  <2>1. left = {}
    OBVIOUS
  <2>2. Failed(q) = [Idle EXCEPT !.type = "failed", !.unasked = left]
    BY DEF Failed
  <2> HIDE DEF left
  <2> QED
    BY <2>1, <2>2 DEF Idle
<1>2. <<>> \in ServerList
  BY DEF ServerList
<1> HIDE DEF Failed
<1> QED
  BY <1>1, <1>2 DEF RequestOK, Request

\* A request begins with one server of the list there is.
LEMMA BeginOK ==
    ASSUME servers \in ServerList, NEW type \in {"register", "deregister", "beat"},
           NEW k \in Key, NEW i \in DOMAIN servers \cup {1}
    PROVE  RequestOK(Begin(type, k, i))
<1>1. CASE servers = <<>>
  <2>1. ToSet(Idle.servers) \subseteq Idle.asked
    BY DEF Idle, ToSet
  <2> QED
    BY <1>1, <2>1, FailedOK DEF Begin
<1>2. CASE servers # <<>>
  <2> DEFINE q == Begin(type, k, i)
  <2>1. servers \in Seq(Server \cup {Blank})
    BY ListFacts
  <2>2. i \in 1 .. Len(servers) /\ Len(servers) \in Nat
    BY <1>2, <2>1
  <2>3. q = [type |-> type, key |-> k, servers |-> servers, index |-> i, tries |-> 1,
             asked |-> {servers[i]}, unasked |-> {}]
    BY <1>2 DEF Begin
  <2>4. servers[i] \in Server \cup {Blank}
    BY <2>1, <2>2
  <2>5. q \in Request
    BY <2>2, <2>3, <2>4 DEF Request
  <2>6. Visited(Len(servers), i, 1) = {i}
    BY <2>2 DEF Visited
  <2>7. IsFiniteSet({servers[i]}) /\ Cardinality({servers[i]}) = 1
    BY FS_Singleton
  <2>8. Asking(q)
    BY <1>2, <2>2, <2>3, <2>6, <2>7 DEF Asking
  <2>9. q.type # "failed"
    BY <2>3
  <2> QED
    BY <2>5, <2>8, <2>9 DEF RequestOK
<1> QED
  BY <1>1, <1>2

\* After a failure a request asks a server it has not asked yet, or gives up
\* because there is none.
LEMMA NextServerOK ==
    ASSUME NEW q, RequestOK(q), q.type \notin {"none", "failed"}
    PROVE  RequestOK(NextServer(q))
<1>1. CASE q.tries = Len(q.servers)
  <2> DEFINE n == Len(q.servers)
  <2>1. q \in Request /\ Asking(q)
    BY DEF RequestOK
  <2>2. q.servers \in Seq(Server \cup {Blank})
    BY <2>1, ListFacts DEF Request
  <2>3. n \in Nat /\ q.index \in 1 .. n /\ DOMAIN q.servers = 1 .. n
    BY <2>1, <2>2 DEF Asking
  <2>4. Visited(n, q.index, n) = 1 .. n
    BY <2>3 DEF Visited
  <2>5. q.asked = {q.servers[j] : j \in 1 .. n}
    BY <1>1, <2>1, <2>4 DEF Asking
  <2>6. ToSet(q.servers) \subseteq q.asked
    BY <2>3, <2>5 DEF ToSet
  <2> QED
    BY <1>1, <2>6, FailedOK DEF NextServer
<1>2. CASE q.tries # Len(q.servers)
  <2> DEFINE n == Len(q.servers)
             k == (q.index % n) + 1
             r == NextServer(q)
  <2>1. q \in Request /\ Asking(q)
    BY DEF RequestOK
  <2>2. /\ q.servers \in Seq(Server \cup {Blank})
        /\ \A a, b \in DOMAIN q.servers : q.servers[a] = q.servers[b] => a = b
    BY <2>1, ListFacts DEF Request
  <2>3. n \in Nat /\ q.index \in 1 .. n /\ q.tries \in 1 .. n
    BY <2>1, <2>2 DEF Asking
  <2>4. k = IF q.index = n THEN 1 ELSE q.index + 1
    BY <2>3, NextPlace
  <2>5. k \in 1 .. n
    BY <2>3, <2>4
  <2>6. /\ Visited(n, k, q.tries + 1) = Visited(n, q.index, q.tries) \cup {k}
        /\ k \notin Visited(n, q.index, q.tries)
    BY <1>2, <2>3, <2>4, <2>5, VisitedGrows
  <2>7. r = [q EXCEPT !.index = k, !.tries = @ + 1, !.asked = @ \cup {q.servers[k]}]
    BY <1>2 DEF NextServer
  <2> HIDE DEF k
  <2>8. q.servers[k] \in Server \cup {Blank}
    BY <2>2, <2>5
  <2>9. /\ r \in Request /\ r.servers = q.servers /\ r.index = k
        /\ r.tries = q.tries + 1 /\ r.asked = q.asked \cup {q.servers[k]}
        /\ r.key = q.key /\ r.type # "failed"
    <3>1. /\ r.servers = q.servers /\ r.index = k /\ r.tries = q.tries + 1
          /\ r.asked = q.asked \cup {q.servers[k]} /\ r.key = q.key
      BY <2>1, <2>7 DEF Request
    <3>2. q.asked \cup {q.servers[k]} \in SUBSET (Server \cup {Blank})
      BY <2>1, <2>8 DEF Request
    <3>3. q.type \in {"none", "failed", "register", "deregister", "beat"}
          /\ q.unasked \in SUBSET (Server \cup {Blank}) /\ q.type # "failed"
          /\ q.key \in Key \cup {0} /\ q.servers \in ServerList
      BY <2>1 DEF Request
    <3>4. r = [type |-> q.type, key |-> q.key, servers |-> q.servers, index |-> k,
               tries |-> q.tries + 1, asked |-> q.asked \cup {q.servers[k]},
               unasked |-> q.unasked]
      BY <2>1, <2>7 DEF Request
    <3>5. k \in Nat /\ q.tries + 1 \in Nat
      BY <2>3, <2>5
    <3> HIDE DEF r
    <3>6. r \in Request
      BY <3>2, <3>3, <3>4, <3>5 DEF Request
    <3>7. r.type # "failed"
      BY <3>3, <3>4
    <3> QED
      BY <3>1, <3>6, <3>7
  <2>10. q.asked = {q.servers[j] : j \in Visited(n, q.index, q.tries)}
    BY <2>1 DEF Asking
  <2>11. q.servers[k] \notin q.asked
    <3>1. \A j \in Visited(n, q.index, q.tries) : j \in DOMAIN q.servers /\ j # k
      BY <2>2, <2>3, <2>6 DEF Visited
    <3>2. \A j \in Visited(n, q.index, q.tries) : q.servers[j] # q.servers[k]
      BY <2>2, <2>5, <3>1
    <3> QED
      BY <2>10, <3>2
  <2>12. r.asked = {r.servers[j] : j \in Visited(Len(r.servers), r.index, r.tries)}
    <3>1. r.asked = {q.servers[j] : j \in Visited(n, k, q.tries + 1)}
      BY <2>6, <2>9, <2>10
    <3> QED
      BY <2>9, <3>1
  <2>13. IsFiniteSet(r.asked) /\ Cardinality(r.asked) = r.tries
    <3>1. IsFiniteSet(q.asked) /\ Cardinality(q.asked) = q.tries
      BY <2>1 DEF Asking
    <3>2. /\ IsFiniteSet(q.asked \cup {q.servers[k]})
          /\ Cardinality(q.asked \cup {q.servers[k]}) = Cardinality(q.asked) + 1
      BY <2>11, <3>1, FS_AddElement
    <3> HIDE DEF r
    <3> QED
      BY <2>9, <3>1, <3>2
  <2>14. r.servers # <<>> /\ r.key \in Key /\ r.index \in 1 .. Len(r.servers)
         /\ r.tries \in 1 .. Len(r.servers)
    BY <1>2, <2>1, <2>3, <2>5, <2>9 DEF Asking
  <2>15. Asking(r)
    BY <2>12, <2>13, <2>14 DEF Asking
  <2> QED
    BY <2>9, <2>15 DEF RequestOK
<1> QED
  BY <1>1, <1>2
-----------------------------------------------------------------------------
\* The initial states satisfy the inductive invariant.
LEMMA InitEstablishes == Init => IInv
<1> SUFFICES ASSUME Init PROVE IInv
  OBVIOUS
<1>1. request = [p \in Process |-> Idle] /\ RequestOK(Idle)
  BY IdleOK DEF Init
<1>2. \A p \in Process : RequestOK(request[p])
  BY <1>1
<1>3. request \in [Process -> Request]
  BY <1>1 DEF RequestOK
<1>4. servers \in ServerList
  BY DEF Init, ServerList
<1>5. offered \in Lists /\ given \in BOOLEAN /\ closed \in BOOLEAN
  BY DEF Init
<1>6. calls \in 0 .. MaxCalls /\ faults \in 0 .. MaxFaults /\ changes \in 0 .. MaxChanges
  BY HttpNamingAssumption DEF Init
<1>7. beats \in SUBSET Key /\ unfit \in SUBSET Key /\ instances \in SUBSET Key
      /\ wanted \in SUBSET Key /\ poisoned \in BOOLEAN
      /\ round \in {"round", "sleep", "off"}
  BY DEF Init
<1>8. TypeOK
  BY <1>3, <1>4, <1>5, <1>6, <1>7 DEF TypeOK
<1> QED
  BY <1>2, <1>8 DEF IInv

\* A step that puts a sound request in the place of another.
LEMMA RequestReplaced ==
    ASSUME IInv, NEW p \in Process, NEW q, RequestOK(q),
           request' = [request EXCEPT ![p] = q]
    PROVE  request' \in [Process -> Request] /\ \A r \in Process : RequestOK(request'[r])
<1>1. q \in Request
  BY DEF RequestOK
<1>2. request \in [Process -> Request] /\ \A r \in Process : RequestOK(request[r])
  BY DEF IInv, TypeOK
<1>3. \A r \in Process : request'[r] = IF r = p THEN q ELSE request[r]
  BY <1>2
<1> QED
  BY <1>1, <1>2, <1>3

\* A call of the application starts a request of its own.
LEMMA CallKeeps ==
    ASSUME IInv, NEW k \in Key, NEW type \in {"register", "deregister"}, AppCalls(type, k),
           beats' \in SUBSET Key, unfit' \in SUBSET Key, wanted' \in SUBSET Key
    PROVE  IInv'
<1>1. calls' \in Call /\ calls' \in 0 .. MaxCalls
  BY HttpNamingAssumption DEF AppCalls, Call, IInv, TypeOK
<1>2. servers \in ServerList
  BY DEF IInv, TypeOK
<1>3. PICK i \in DOMAIN servers \cup {1} :
         request' = [request EXCEPT ![calls'] = Begin(type, k, i)]
  BY DEF AppCalls
<1>4. RequestOK(Begin(type, k, i))
  BY <1>2, BeginOK
<1>5. request' \in [Process -> Request] /\ \A r \in Process : RequestOK(request'[r])
  BY <1>1, <1>3, <1>4, RequestReplaced DEF Process
<1>6. TypeOK'
  BY <1>1, <1>5 DEF AppCalls, listVars, IInv, TypeOK
<1> QED
  BY <1>5, <1>6 DEF IInv

\* The steps of a request under way.
LEMMA AttemptKeeps ==
    ASSUME IInv, NEW p \in Process, Served(p) \/ Fails(p) \/ AnswerLost(p)
    PROVE  IInv'
<1>1. RequestOK(request[p]) /\ request[p].type \notin {"none", "failed"}
  BY DEF IInv, Served, Fails, AnswerLost, Busy
<1>2. request[p].key \in Key
  BY <1>1 DEF RequestOK, Asking
<1>3. RequestOK(NextServer(request[p]))
  BY <1>1, NextServerOK
<1>4. PICK q : RequestOK(q) /\ request' = [request EXCEPT ![p] = q]
  BY <1>3, IdleOK DEF Served, Fails, AnswerLost
<1>5. request' \in [Process -> Request] /\ \A r \in Process : RequestOK(request'[r])
  BY <1>4, RequestReplaced
<1>6. instances' \in SUBSET Key
  BY <1>2 DEF Served, Fails, AnswerLost, Effect, IInv, TypeOK
<1>7. faults' \in 0 .. MaxFaults
  BY HttpNamingAssumption DEF Served, Fails, AnswerLost, IInv, TypeOK
<1>8. TypeOK'
  BY <1>5, <1>6, <1>7 DEF Served, Fails, AnswerLost, listVars, clientVars, IInv, TypeOK
<1> QED
  BY <1>5, <1>8 DEF IInv

\* A round starts the beats of all instances.
LEMMA RoundKeeps == ASSUME IInv, RoundBegins PROVE IInv'
<1>1. PICK i \in [Key -> DOMAIN servers \cup {1}] :
         request' = [p \in Process |->
                       IF p \in beats \ unfit THEN Begin("beat", p, i[p]) ELSE request[p]]
  BY DEF RoundBegins
<1>2. servers \in ServerList /\ beats \in SUBSET Key
  BY DEF IInv, TypeOK
<1>3. \A p \in Process : RequestOK(request'[p])
  <2>1. SUFFICES ASSUME NEW p \in Process PROVE RequestOK(request'[p])
    OBVIOUS
  <2>2. CASE p \in beats \ unfit
    <3>1. p \in Key /\ i[p] \in DOMAIN servers \cup {1}
      BY <1>1, <1>2, <2>2
    <3>2. RequestOK(Begin("beat", p, i[p]))
      BY <1>2, <3>1, BeginOK
    <3> QED
      BY <1>1, <2>2, <3>2
  <2>3. CASE p \notin beats \ unfit
    BY <1>1, <2>3 DEF IInv
  <2> QED
    BY <2>2, <2>3
<1>4. request' \in [Process -> Request]
  BY <1>1, <1>3 DEF RequestOK
<1>5. TypeOK'
  BY <1>4 DEF RoundBegins, listVars, clientVars, IInv, TypeOK
<1> QED
  BY <1>3, <1>5 DEF IInv

\* Every step keeps the inductive invariant.
LEMMA StepKeeps == ASSUME IInv, [Next]_vars PROVE IInv'
<1>1. ASSUME UNCHANGED request, TypeOK' PROVE IInv'
  BY <1>1 DEF IInv
<1>2. CASE \E k \in Key : Register(k)
  <2>1. PICK k \in Key : Register(k)
    BY <1>2
  <2>2. beats' \in SUBSET Key /\ unfit' \in SUBSET Key /\ wanted' \in SUBSET Key
    BY <2>1 DEF Register, IInv, TypeOK
  <2> QED
    BY <2>1, <2>2, CallKeeps DEF Register
<1>15. CASE \E k \in Key : RegisterUnfit(k)
  <2>1. PICK k \in Key : RegisterUnfit(k)
    BY <1>15
  <2>2. beats' \in SUBSET Key /\ unfit' \in SUBSET Key /\ calls' \in 0 .. MaxCalls
    BY <2>1, HttpNamingAssumption DEF RegisterUnfit, IInv, TypeOK
  <2> QED
    BY <1>1, <2>1, <2>2 DEF RegisterUnfit, listVars, IInv, TypeOK
<1>3. CASE \E k \in Key : Deregister(k)
  <2>1. PICK k \in Key : Deregister(k)
    BY <1>3
  <2>2. beats' \in SUBSET Key /\ unfit' \in SUBSET Key /\ wanted' \in SUBSET Key
    BY <2>1 DEF Deregister, IInv, TypeOK
  <2> QED
    BY <2>1, <2>2, CallKeeps DEF Deregister
<1>4. CASE Close
  BY <1>1, <1>4 DEF Close, listVars, IInv, TypeOK
<1>5. CASE \E p \in Process : Attempt(p) \/ AnswerLost(p)
  BY <1>5, AttemptKeeps DEF Attempt
<1>6. CASE RoundBegins
  BY <1>6, RoundKeeps
<1>7. CASE RoundEnds
  BY <1>1, <1>7 DEF RoundEnds, listVars, clientVars, IInv, TypeOK
<1>8. CASE LoopEnds
  BY <1>1, <1>8 DEF LoopEnds, listVars, clientVars, IInv, TypeOK
<1>9. CASE Refresh
  <2>1. offered \in ServerList
    BY DEF IInv, TypeOK, ServerList
  <2> QED
    BY <1>1, <1>9, <2>1 DEF Refresh, clientVars, IInv, TypeOK
<1>10. CASE RefreshBlank
  <2>1. <<Blank>> \in ServerList
    BY DEF ServerList
  <2>2. faults' \in 0 .. MaxFaults
    BY <1>10, HttpNamingAssumption DEF RefreshBlank, IInv, TypeOK
  <2> QED
    BY <1>1, <1>10, <2>1, <2>2 DEF RefreshBlank, clientVars, IInv, TypeOK
<1>11. CASE OfferedChanges
  <2>1. changes' \in 0 .. MaxChanges /\ offered' \in Lists
    BY <1>11, HttpNamingAssumption DEF OfferedChanges, IInv, TypeOK
  <2> QED
    BY <1>1, <1>11, <2>1 DEF OfferedChanges, clientVars, IInv, TypeOK
<1>12. CASE Expires
  BY <1>1, <1>12 DEF Expires, listVars, clientVars, IInv, TypeOK
<1>13. CASE ExpiresEarly
  <2>1. faults' \in 0 .. MaxFaults
    BY <1>13, HttpNamingAssumption DEF ExpiresEarly, IInv, TypeOK
  <2> QED
    BY <1>1, <1>13, <2>1 DEF ExpiresEarly, listVars, clientVars, IInv, TypeOK
<1>14. CASE UNCHANGED vars
  BY <1>1, <1>14 DEF vars, IInv, TypeOK
<1> QED
  BY <1>2, <1>3, <1>4, <1>5, <1>6, <1>7, <1>8, <1>9, <1>10, <1>11, <1>12, <1>13,
     <1>14, <1>15 DEF Next, BeatLoop

LEMMA Invariance == Spec => []IInv
<1>1. Init => IInv
  BY InitEstablishes
<1>2. IInv /\ [Next]_vars => IInv'
  BY StepKeeps
<1> QED
  BY <1>1, <1>2, PTL DEF Spec
-----------------------------------------------------------------------------
\* The state of the client and of its requests stays well typed, for every set
\* of instances, lists and servers (beat_reactor.ts, proxy.ts).
THEOREM TypeCorrect == Spec => []TypeOK
<1>1. IInv => TypeOK
  BY DEF IInv
<1> QED
  BY <1>1, Invariance, PTL

\* A request that throws has asked every server of its list, and asks none twice,
\* for lists of every length, wherever it began and whatever happens to the list
\* meanwhile (_reqAPI, proxy.ts:216-227).
THEOREM EveryServerAsked == Spec => []AsksEveryServer
<1>1. ASSUME IInv, NEW p \in Process
      PROVE  /\ request[p].type = "failed" => request[p].unasked = {}
             /\ Busy(p) => Cardinality(request[p].asked) = request[p].tries
  BY <1>1 DEF IInv, RequestOK, Busy, Asking
<1>2. IInv => AsksEveryServer
  BY <1>1 DEF AsksEveryServer
<1> QED
  BY <1>2, Invariance, PTL
=============================================================================
