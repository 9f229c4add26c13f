----------------------------- MODULE HttpNaming -----------------------------
(***************************************************************************)
(* Registrations of the naming client over HTTP: registerInstance and      *)
(* deregisterInstance (client.ts), the BeatReactor (beat_reactor.ts) that  *)
(* keeps ephemeral instances alive, and the NamingProxy (proxy.ts) that    *)
(* sends their requests to one server after another, from a list that is   *)
(* given or asked of an endpoint again and again.                          *)
(*                                                                         *)
(* Nothing is registered again after a failure: a beat of an instance the  *)
(* server does not know creates it, and an instance that is not beaten any *)
(* more expires.  The map of beats is all that counts in the end.          *)
(***************************************************************************)
EXTENDS Integers, FiniteSets, SequencesExt

CONSTANTS Key,         \* ephemeral instances: service, ip and port
          Server, Dead,
          Lists,       \* lists of servers, without duplicates
          Blank,       \* the server "" that an empty answer is split into
          MaxCalls,    \* bound on calls of the application
          MaxFaults,   \* bound on lost answers, blank lists, early expiries
          MaxChanges   \* bound on changes of the list the endpoint offers

ASSUME HttpNamingAssumption ==
    /\ MaxCalls \in Nat /\ MaxFaults \in Nat /\ MaxChanges \in Nat
    /\ Dead \subseteq Server /\ Blank \notin Server
    /\ Lists \subseteq Seq(Server)
    /\ \A l \in Lists : IsInjective(l) /\ \E i \in DOMAIN l : l[i] \in Server \ Dead
    /\ Key \cap Nat = {}

VARIABLES
    given,      \* the list was given, no endpoint is asked
    servers,    \* serverList or serversFromEndpoint
    offered,    \* the list of the endpoint
    beats,      \* keys of _dom2Beat
    unfit,      \* those of them with metadata that JSON.stringify refuses
    round,      \* where the loop of _startBeat is
    request,    \* _reqAPI: of the beat of a key, and of each call
    instances,  \* instances the servers know
    wanted,     \* history: instances the application has registered
    poisoned,   \* history: the loop of the beats met an unfit one
    closed,     \* _isClosed
    calls, faults, changes

vars == <<given, servers, offered, beats, unfit, round, request, instances,
          wanted, poisoned, closed, calls, faults, changes>>

Call    == 1 .. MaxCalls
Process == Key \cup Call

listVars   == <<given, servers, offered>>
clientVars == <<beats, unfit, wanted, poisoned, closed>>

Idle == [type |-> "none", key |-> 0, servers |-> <<>>, index |-> 0, tries |-> 0,
         asked |-> {}, unasked |-> {}]

Init ==
    /\ given \in BOOLEAN /\ offered \in Lists
    /\ servers = IF given THEN offered ELSE <<>>
    /\ beats = {} /\ unfit = {} /\ round = "round"
    /\ request = [p \in Process |-> Idle]
    /\ instances = {} /\ wanted = {} /\ poisoned = FALSE
    /\ closed = FALSE
    /\ calls = 0 /\ faults = 0 /\ changes = 0
-----------------------------------------------------------------------------
(***************************************************************************)
(* _reqAPI                                                                 *)
(***************************************************************************)
Busy(p) == request[p].type \notin {"none", "failed"}

\* A request that has thrown, with the servers it has left out (history).
Failed(q) ==
    [Idle EXCEPT !.type = "failed", !.unasked = ToSet(q.servers) \ q.asked]

\* The list is the one there is now, the first server one of them at random.
\* Without a list the request fails at once.
Begin(type, k, i) ==
    IF servers = <<>> THEN Failed(Idle)
    ELSE [type |-> type, key |-> k, servers |-> servers, index |-> i, tries |-> 1,
          asked |-> {servers[i]}, unasked |-> {}]

Target(q) == q.servers[q.index]

\* Faulty variant: the list is looked up for every attempt.
NextServerLive(q) ==
    IF q.tries >= Len(servers) THEN Failed(q)
    ELSE LET i == (q.index % Len(servers)) + 1 IN
         [q EXCEPT !.servers = servers, !.index = i, !.tries = @ + 1,
                   !.asked = @ \cup {servers[i]}]

NextServer(q) ==
    IF q.tries = Len(q.servers) THEN Failed(q)
    ELSE LET i == (q.index % Len(q.servers)) + 1 IN
         [q EXCEPT !.index = i, !.tries = @ + 1, !.asked = @ \cup {q.servers[i]}]

\* A beat of an unknown instance creates it.
Effect(q) ==
    instances' = IF q.type = "deregister" THEN instances \ {q.key}
                 ELSE instances \cup {q.key}

Served(p) ==
    /\ Busy(p) /\ Target(request[p]) \in Server \ Dead
    /\ Effect(request[p])
    /\ request' = [request EXCEPT ![p] = Idle]
    /\ UNCHANGED <<listVars, clientVars, round, calls, faults, changes>>

\* Faulty variant: a beat that failed at every server throws, which ends the
\* loop of the beats.
FailsAndThrows(p) ==
    /\ Busy(p) /\ Target(request[p]) \in Dead \cup {Blank}
    /\ request' = [request EXCEPT ![p] = NextServer(@)]
    /\ round' = IF p \in Key /\ request'[p].type = "failed" THEN "off" ELSE round
    /\ UNCHANGED <<listVars, clientVars, instances, calls, faults, changes>>

\* Refused, timed out or answered with an error.
Fails(p) ==
    /\ Busy(p) /\ Target(request[p]) \in Dead \cup {Blank}
    /\ request' = [request EXCEPT ![p] = NextServer(@)]
    /\ UNCHANGED <<listVars, clientVars, round, instances, calls, faults, changes>>

\* The server has taken the request, its answer does not arrive.
AnswerLost(p) ==
    /\ Busy(p) /\ Target(request[p]) \in Server \ Dead /\ faults < MaxFaults
    /\ faults' = faults + 1
    /\ Effect(request[p])
    /\ request' = [request EXCEPT ![p] = NextServer(@)]
    /\ UNCHANGED <<listVars, clientVars, round, calls, changes>>
-----------------------------------------------------------------------------
(***************************************************************************)
(* Calls of the application                                                *)
(***************************************************************************)
AppCalls(type, k) ==
    /\ ~closed /\ calls < MaxCalls
    /\ calls' = calls + 1
    /\ \E i \in DOMAIN servers \cup {1} :
          request' = [request EXCEPT ![calls'] = Begin(type, k, i)]
    /\ UNCHANGED <<listVars, round, instances, poisoned, closed, faults, changes>>

\* The beat is noted first, and kept should the registration fail.
Register(k) ==
    /\ AppCalls("register", k)
    /\ beats' = beats \cup {k} /\ unfit' = unfit \ {k}
    /\ wanted' = wanted \cup {k}

\* With metadata that JSON.stringify refuses (a BigInt, a cycle) the call throws
\* before it has a request; its beat is noted all the same.
RegisterUnfit(k) ==
    /\ ~closed /\ calls < MaxCalls
    /\ calls' = calls + 1
    /\ beats' = beats \cup {k} /\ unfit' = unfit \cup {k}
    /\ UNCHANGED <<listVars, round, request, instances, wanted, poisoned, closed,
                   faults, changes>>

\* Faulty variant: the key is built from other parts than when it was added.
DeregisterMisses(k) ==
    /\ AppCalls("deregister", k)
    /\ wanted' = wanted \ {k}
    /\ UNCHANGED <<beats, unfit>>

Deregister(k) ==
    /\ AppCalls("deregister", k)
    /\ beats' = beats \ {k} /\ unfit' = unfit \ {k}
    /\ wanted' = wanted \ {k}

Close ==
    /\ ~closed /\ closed' = TRUE
    /\ beats' = {} /\ unfit' = {} /\ wanted' = {}
    /\ UNCHANGED <<listVars, poisoned, round, request, instances, calls, faults, changes>>
-----------------------------------------------------------------------------
(***************************************************************************)
(* BeatReactor                                                             *)
(***************************************************************************)
\* All instances are beaten at once.  With an unfit one among them sendBeat
\* throws, in its catch once more, and the round with it: the loop is over, for
\* good, though the beats that could be sent are on their way.
RoundBegins ==
    /\ round = "sleep" /\ ~closed
    /\ round' = IF unfit = {} THEN "round" ELSE "off"
    /\ poisoned' = (unfit # {})
    /\ \E i \in [Key -> DOMAIN servers \cup {1}] :
          request' = [p \in Process |-> IF p \in beats \ unfit
                                        THEN Begin("beat", p, i[p]) ELSE request[p]]
    /\ UNCHANGED <<listVars, beats, unfit, wanted, closed, instances, calls, faults,
                   changes>>

\* The round waits for every beat; what goes wrong at a server sendBeat catches.
RoundEnds ==
    /\ round = "round"
    /\ \A k \in Key : ~Busy(k)
    /\ round' = "sleep"
    /\ UNCHANGED <<listVars, clientVars, request, instances, calls, faults, changes>>

LoopEnds ==
    /\ round = "sleep" /\ closed
    /\ round' = "off"
    /\ UNCHANGED <<listVars, clientVars, request, instances, calls, faults, changes>>
-----------------------------------------------------------------------------
(***************************************************************************)
(* The list of servers                                                     *)
(***************************************************************************)
\* The client's close does not close the proxy: the loop goes on.
Refresh ==
    /\ ~given /\ servers # offered
    /\ servers' = offered
    /\ UNCHANGED <<given, offered, clientVars, round, request, instances, calls,
                   faults, changes>>

\* ''.split gives [''], which is not empty and passes for a list.
RefreshBlank ==
    /\ ~given /\ faults < MaxFaults
    /\ faults' = faults + 1
    /\ servers' = <<Blank>>
    /\ UNCHANGED <<given, offered, clientVars, round, request, instances, calls,
                   changes>>
-----------------------------------------------------------------------------
(***************************************************************************)
(* The environment                                                         *)
(***************************************************************************)
OfferedChanges ==
    /\ ~given /\ changes < MaxChanges /\ changes' = changes + 1
    /\ offered' \in Lists \ {offered}
    /\ UNCHANGED <<given, servers, clientVars, round, request, instances, calls,
                   faults>>

\* An instance that nobody beats any more.
Expires ==
    /\ \E k \in instances :
          /\ k \notin beats \/ round = "off"
          /\ \A p \in Process : Busy(p) => request[p].key # k
          /\ instances' = instances \ {k}
    /\ UNCHANGED <<listVars, clientVars, round, request, calls, faults, changes>>

\* One whose beats were late, or a server that starts afresh.
ExpiresEarly ==
    /\ faults < MaxFaults /\ faults' = faults + 1
    /\ \E k \in instances : instances' = instances \ {k}
    /\ UNCHANGED <<listVars, clientVars, round, request, calls, changes>>
-----------------------------------------------------------------------------
Attempt(p) == Served(p) \/ Fails(p)

BeatLoop == RoundBegins \/ RoundEnds \/ LoopEnds

Next ==
    \/ \E k \in Key : Register(k) \/ RegisterUnfit(k) \/ Deregister(k)
    \/ Close
    \/ \E p \in Process : Attempt(p) \/ AnswerLost(p)
    \/ BeatLoop
    \/ Refresh \/ RefreshBlank
    \/ OfferedChanges \/ Expires \/ ExpiresEarly

\* Attempts end, timers fire, the server expires what is not beaten.
Fairness ==
    /\ WF_vars(BeatLoop) /\ WF_vars(Refresh) /\ WF_vars(Expires)
    /\ \A p \in Process : WF_vars(Attempt(p))

Spec == Init /\ [][Next]_vars

FairSpec == Spec /\ Fairness
-----------------------------------------------------------------------------
(***************************************************************************)
(* Properties                                                              *)
(***************************************************************************)
ServerList == Lists \cup {<<>>, <<Blank>>}

Request ==
    [type : {"none", "failed", "register", "deregister", "beat"}, key : Key \cup {0},
     servers : ServerList, index : Nat, tries : Nat,
     asked : SUBSET (Server \cup {Blank}), unasked : SUBSET (Server \cup {Blank})]

TypeOK ==
    /\ given \in BOOLEAN /\ servers \in ServerList /\ offered \in Lists
    /\ beats \in SUBSET Key /\ unfit \in SUBSET Key /\ round \in {"round", "sleep", "off"}
    /\ request \in [Process -> Request]
    /\ instances \in SUBSET Key /\ wanted \in SUBSET Key
    /\ poisoned \in BOOLEAN /\ closed \in BOOLEAN
    /\ calls \in 0 .. MaxCalls /\ faults \in 0 .. MaxFaults
    /\ changes \in 0 .. MaxChanges

\* A request that throws has asked every server of the list it began with, and
\* each of its attempts was at another one, also when the list is replaced
\* meanwhile.
AsksEveryServer ==
    \A p \in Process :
       /\ request[p].type = "failed" => request[p].unasked = {}
       /\ Busy(p) => Cardinality(request[p].asked) = request[p].tries

\* A registered instance is beaten again and again, whatever becomes of a beat
\* and whatever list the endpoint has given meanwhile.  Only an unfit beat ends
\* this.
BeatsGoOn == \A k \in Key : []<>(k \notin beats \/ Busy(k) \/ poisoned)

\* In the end the servers know exactly the instances the application has
\* registered and not deregistered, and none after close(): neither a failed
\* or repeated request, nor a beat that was under way, nor an early expiry
\* makes a lasting difference.  A loop that an unfit beat has ended keeps no
\* instance alive; after close() there is none even then.
InstancesFollow == <>[](instances = wanted \/ (poisoned /\ ~closed))
=============================================================================
