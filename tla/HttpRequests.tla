---------------------------- MODULE HttpRequests ----------------------------
(***************************************************************************)
(* Requests of the configuration client over HTTP: HttpAgent.request       *)
(* (http_agent.ts), which sends a request to one server after another, the *)
(* ServerListManager (server_list_mgr.ts) that says to which, and the      *)
(* publishing of a configuration by compare-and-swap (client_worker.ts) on *)
(* top of them.                                                            *)
(*                                                                         *)
(* The list is given (direct mode) or asked of a name server, by the first *)
(* request and then by a loop; a snapshot on disk helps out.  After a      *)
(* failure the requests share one rotation.  An attempt fails quickly or   *)
(* takes all the time a request has, since both have the same timeout.     *)
(* The servers keep one content, as a cluster does.                        *)
(***************************************************************************)
EXTENDS Integers, SequencesExt

CONSTANTS Server,
          Lists,       \* lists of servers the name server may offer
          Absent,      \* the unit is not in serverListCache
          NoServer,    \* currentServerAddrMap has no entry: "undefined"
          Broken,      \* a snapshot that cannot be parsed
          Requests,    \* number of publishConfigCas calls
          MaxTries,    \* bound on attempts in the time of one request
          MaxFaults,   \* bound on failures of name server, disk and requests
          MaxChanges   \* bound on deaths of servers and changes of list and content

ASSUME HttpRequestsAssumption ==
    /\ Requests \in Nat /\ MaxTries \in Nat \ {0}
    /\ MaxFaults \in Nat /\ MaxChanges \in Nat
    /\ Lists \subseteq Seq(Server) \ {<<>>}
    /\ NoServer \notin Server /\ Absent \notin [hosts : Seq(Server), index : Nat]

VARIABLES
    direct,     \* isDirectMode
    cache,      \* serverListCache.get(unit), no hosts for null
    current,    \* currentServerAddrMap.get(unit)
    stored,     \* the list in the snapshot, none: <<>>
    offered,    \* the list of the name server
    fetch,      \* fetchServerList of the loop (0) and of the requests
    got,        \* what the name server answered them
    closed,     \* isClosed
    dead,       \* servers that are down or answer with an error
    content,    \* content of the configuration: 0 or that of a request
    request,    \* the calls of publishConfigCas
    faults, changes

vars == <<direct, cache, current, stored, offered, fetch, got, closed, dead,
          content, request, faults, changes>>

Request == 1 .. Requests
Loop    == 0
Process == {Loop} \cup Request

listVars   == <<direct, stored, offered, closed>>
fetchVars  == <<fetch, got>>

\* alone, tried, applied, lost and missing are history: whether the list was
\* rotated or replaced by somebody else, the servers asked, the times the
\* publication was applied, whether an answer to it was lost, and whether the
\* answer was 404.
Idle == [phase |-> "idle", target |-> NoServer, casMd5 |-> 0, tries |-> 0,
         result |-> "none", alone |-> TRUE, tried |-> {}, applied |-> 0,
         lost |-> FALSE, missing |-> FALSE]

Hosts(c) == IF c = Absent THEN <<>> ELSE c.hosts

Init ==
    /\ direct \in BOOLEAN
    /\ offered \in Lists
    /\ stored \in {<<>>, <<Broken>>}
    /\ cache = IF direct THEN [hosts |-> offered, index |-> 0] ELSE Absent
    /\ current = NoServer
    /\ fetch = [p \in Process |-> "none"] /\ got = [p \in Process |-> <<>>]
    /\ closed = FALSE /\ dead = {} /\ content = 0
    /\ request = [r \in Request |-> Idle]
    /\ faults = 0 /\ changes = 0
-----------------------------------------------------------------------------
(***************************************************************************)
(* updateCurrentServer and getCurrentServerAddr                            *)
(***************************************************************************)
\* Faulty variant: the next index is not written back.
RotatedInPlace(c) ==
    IF Hosts(c) = <<>> THEN [cache |-> c, current |-> current]
    ELSE [cache |-> c, current |-> c.hosts[c.index + 1]]

\* What a rotation makes of the list c and of the current server.
Rotated(c) ==
    IF Hosts(c) = <<>> THEN [cache |-> c, current |-> current]
    ELSE [cache |-> [c EXCEPT !.index = (@ + 1) % Len(c.hosts)],
          current |-> c.hosts[c.index + 1]]

\* Who else has a request under way sees the list change.
Disturb(requests, except) ==
    [r \in Request |->
        [requests[r] EXCEPT !.alone = @ /\ (r = except \/ requests[r].phase # "sent")]]

SentTo(q, server) ==
    [q EXCEPT !.phase = "sent", !.target = server, !.tries = @ + 1,
              !.tried = @ \cup {server}]

\* publishConfigCas with the md5 of the content there is.
Call(r) ==
    LET q == [Idle EXCEPT !.casMd5 = content] IN
    /\ request[r].phase = "idle"
    /\ IF current # NoServer
       THEN /\ request' = [request EXCEPT ![r] = SentTo(q, current)]
            /\ UNCHANGED <<cache, current, fetch>>
       ELSE IF cache = Absent
       THEN /\ request' = [request EXCEPT ![r] = [q EXCEPT !.phase = "address"]]
            /\ fetch' = [fetch EXCEPT ![r] = "asking"]
            /\ UNCHANGED <<cache, current>>
       ELSE /\ cache' = Rotated(cache).cache /\ current' = Rotated(cache).current
            /\ request' = Disturb([request EXCEPT ![r] = SentTo(q, current')], r)
            /\ UNCHANGED fetch
    /\ UNCHANGED <<listVars, got, dead, content, faults, changes>>
-----------------------------------------------------------------------------
(***************************************************************************)
(* fetchServerList and syncServers                                         *)
(***************************************************************************)
\* The list is known; a request that waited for it rotates and is sent.
Listed(p, hosts) ==
    \E i \in 0 .. IF hosts = <<>> THEN 0 ELSE Len(hosts) - 1 :
       LET list == [hosts |-> hosts, index |-> i] IN
       /\ fetch' = [fetch EXCEPT ![p] = "none"]
       /\ got' = [got EXCEPT ![p] = <<>>]
       /\ IF p = Loop
          THEN /\ cache' = list /\ request' = Disturb(request, Loop)
               /\ UNCHANGED current
          ELSE /\ cache' = Rotated(list).cache /\ current' = Rotated(list).current
               /\ request' = Disturb([request EXCEPT ![p] =
                                         SentTo(request[p], current')], p)

NameAnswers(p) ==
    /\ fetch[p] = "asking"
    /\ fetch' = [fetch EXCEPT ![p] = "saving"]
    /\ got' = [got EXCEPT ![p] = offered]
    /\ UNCHANGED <<listVars, cache, current, dead, content, request, faults,
                   changes>>

\* An error, a status other than 200 or an empty list.
NameFails(p) ==
    /\ fetch[p] = "asking" /\ faults < MaxFaults
    /\ fetch' = [fetch EXCEPT ![p] = "reading"]
    /\ faults' = faults + 1
    /\ UNCHANGED <<listVars, got, cache, current, dead, content, request, changes>>

Saves(p) ==
    /\ fetch[p] = "saving"
    /\ stored' = got[p]
    /\ Listed(p, got[p])
    /\ UNCHANGED <<direct, offered, closed, dead, content, faults, changes>>

\* Snapshot.save emits its error and returns.
SaveFails(p) ==
    /\ fetch[p] = "saving" /\ faults < MaxFaults
    /\ faults' = faults + 1
    /\ Listed(p, got[p])
    /\ UNCHANGED <<listVars, dead, content, changes>>

\* Faulty variant: without a list there is no entry for the loop to refresh.
ReadsSnapshotForgetting(p) ==
    /\ fetch[p] = "reading"
    /\ stored' = IF stored = <<Broken>> THEN <<>> ELSE stored
    /\ IF stored \in {<<>>, <<Broken>>}
       THEN /\ fetch' = [fetch EXCEPT ![p] = "none"] /\ cache' = Absent
            /\ request' = IF p = Loop THEN request
                          ELSE [request EXCEPT ![p] = SentTo(@, current)]
            /\ UNCHANGED <<got, current>>
       ELSE Listed(p, stored)
    /\ UNCHANGED <<direct, offered, closed, dead, content, faults, changes>>

ReadsSnapshot(p) ==
    /\ fetch[p] = "reading"
    /\ stored' = IF stored = <<Broken>> THEN <<>> ELSE stored
    /\ Listed(p, stored')
    /\ UNCHANGED <<direct, offered, closed, dead, content, faults, changes>>

\* A round of the loop, which asks for the units there are entries of.
Sync ==
    /\ ~direct /\ ~closed /\ fetch[Loop] = "none" /\ cache # Absent
    /\ fetch' = [fetch EXCEPT ![Loop] = "asking"]
    /\ UNCHANGED <<listVars, got, cache, current, dead, content, request, faults,
                   changes>>

Close ==
    /\ ~closed /\ closed' = TRUE
    /\ UNCHANGED <<direct, stored, offered, cache, current, fetchVars, dead,
                   content, request, faults, changes>>
-----------------------------------------------------------------------------
(***************************************************************************)
(* Attempts                                                                *)
(***************************************************************************)
\* publishConfigCas tells a conflict from the other errors.
Verdict(error) == IF error = "conflict" THEN "false" ELSE "error"

Ended(q, result) ==
    [Idle EXCEPT !.phase = "done", !.result = result, !.applied = q.applied,
                 !.lost = q.lost, !.missing = q.missing]

Sent(r) == request[r].phase = "sent"

\* An attempt has failed: the rotation moves on, then the request ends or,
\* while there is time, goes to the server that is current now.
Retry(r, q, error, slow) ==
    /\ cache' = Rotated(cache).cache /\ current' = Rotated(cache).current
    /\ \E over \in BOOLEAN :
          /\ slow \/ q.tries = MaxTries => over
          /\ request' =
                Disturb([request EXCEPT ![r] =
                            IF over THEN Ended(q, Verdict(error))
                                    ELSE SentTo(q, current')], r)
    /\ UNCHANGED <<listVars, fetchVars, changes>>

Matches(r) == content = request[r].casMd5

Apply(r) == content' = IF Matches(r) THEN r ELSE content

Applied(r) == [request[r] EXCEPT !.applied = IF Matches(r) THEN @ + 1 ELSE @]

\* Faulty variant: the status of an answer is not looked at.
AnsweredAny(r) ==
    /\ Sent(r) /\ request[r].target \in Server \ dead
    /\ Apply(r)
    /\ request' = [request EXCEPT ![r] = Ended(Applied(r), "true")]
    /\ UNCHANGED <<cache, current, listVars, fetchVars, dead, faults, changes>>

Answered(r) ==
    /\ Sent(r) /\ request[r].target \in Server \ dead
    /\ Matches(r) /\ Apply(r)
    /\ request' = [request EXCEPT ![r] = Ended(Applied(r), "true")]
    /\ UNCHANGED <<cache, current, listVars, fetchVars, dead, faults, changes>>

\* 404 is null to request, and null is success to publishSingle.
NotFound(r) ==
    /\ Sent(r) /\ request[r].target \in Server /\ faults < MaxFaults
    /\ faults' = faults + 1
    /\ request' = [request EXCEPT ![r] =
                      Ended([@ EXCEPT !.missing = TRUE], "true")]
    /\ UNCHANGED <<cache, current, listVars, fetchVars, dead, content, changes>>

\* 409, or 500 with "Cas publish fail": tried again like any other error.
Conflicts(r) ==
    /\ Sent(r) /\ request[r].target \in Server \ dead
    /\ ~Matches(r)
    /\ Retry(r, request[r], "conflict", FALSE)
    /\ UNCHANGED <<dead, content, faults>>

\* The server has taken the request, its answer does not arrive.
AnswerLost(r) ==
    /\ Sent(r) /\ request[r].target \in Server \ dead /\ faults < MaxFaults
    /\ faults' = faults + 1
    /\ Apply(r)
    /\ \E slow \in BOOLEAN :
          Retry(r, [Applied(r) EXCEPT !.lost = TRUE], "other", slow)
    /\ UNCHANGED dead

\* Refused, reset, timed out or answered with an error.
Fails(r) ==
    /\ Sent(r) /\ request[r].target \in dead
    /\ \E slow \in BOOLEAN : Retry(r, request[r], "other", slow)
    /\ UNCHANGED <<dead, content, faults>>

\* A name that cannot be resolved ends the request, without a rotation;
\* "undefined" is such a name.
Unresolved(r) ==
    /\ Sent(r) /\ request[r].target \in dead \cup {NoServer}
    /\ request' = [request EXCEPT ![r] = Ended(@, "error")]
    /\ UNCHANGED <<cache, current, listVars, fetchVars, dead, content, faults,
                   changes>>
-----------------------------------------------------------------------------
(***************************************************************************)
(* The environment                                                         *)
(***************************************************************************)
ListChanges ==
    /\ ~direct /\ changes < MaxChanges /\ changes' = changes + 1
    /\ offered' \in Lists \ {offered}
    /\ UNCHANGED <<direct, stored, closed, cache, current, fetchVars, dead,
                   content, request, faults>>

\* Somebody else publishes, here the content there was at first.
OtherPublishes ==
    /\ changes < MaxChanges /\ changes' = changes + 1
    /\ content # 0 /\ content' = 0
    /\ UNCHANGED <<listVars, cache, current, fetchVars, dead, request, faults>>

ServerDies ==
    /\ changes < MaxChanges /\ changes' = changes + 1
    /\ \E s \in Server \ dead : dead' = dead \cup {s}
    /\ UNCHANGED <<listVars, cache, current, fetchVars, content, request, faults>>
-----------------------------------------------------------------------------
Fetching(p) == NameAnswers(p) \/ Saves(p) \/ ReadsSnapshot(p)

Attempt(r) ==
    \/ Answered(r) \/ NotFound(r) \/ Conflicts(r)
    \/ AnswerLost(r) \/ Fails(r) \/ Unresolved(r)

Next ==
    \/ \E r \in Request : Call(r) \/ Attempt(r)
    \/ \E p \in Process : Fetching(p) \/ NameFails(p) \/ SaveFails(p)
    \/ Sync \/ Close
    \/ ListChanges \/ OtherPublishes \/ ServerDies

\* Timers fire; the name server and the disk answer.
Fairness == WF_vars(Sync) /\ \A p \in Process : WF_vars(Fetching(p))

Spec == Init /\ [][Next]_vars

FairSpec == Spec /\ Fairness
-----------------------------------------------------------------------------
(***************************************************************************)
(* Properties                                                              *)
(***************************************************************************)
List == [hosts : Lists \cup {<<>>}, index : Nat]

Publication ==
    [phase : {"idle", "address", "sent", "done"}, target : Server \cup {NoServer},
     casMd5 : {0} \cup Request, tries : 0 .. MaxTries,
     result : {"none", "true", "false", "error"}, alone : BOOLEAN,
     tried : SUBSET (Server \cup {NoServer}), applied : Nat, lost : BOOLEAN,
     missing : BOOLEAN]

TypeOK ==
    /\ direct \in BOOLEAN /\ closed \in BOOLEAN
    /\ cache \in List \cup {Absent} /\ current \in Server \cup {NoServer}
    /\ stored \in Lists \cup {<<>>, <<Broken>>} /\ offered \in Lists
    /\ fetch \in [Process -> {"none", "asking", "saving", "reading"}]
    /\ got \in [Process -> Lists \cup {<<>>}]
    /\ dead \in SUBSET Server /\ content \in {0} \cup Request
    /\ request \in [Request -> Publication]
    /\ faults \in 0 .. MaxFaults /\ changes \in 0 .. MaxChanges

\* A request that has the rotation to itself has asked every server of the
\* list once it has made one attempt more than there are servers: the first
\* goes to the current server, wherever the rotation then begins.
TriesEveryServer ==
    \A r \in Request :
       /\ request[r].phase = "sent" /\ request[r].alone
       /\ request[r].tries > Len(Hosts(cache))
       => ToSet(Hosts(cache)) \subseteq request[r].tried

\* publishConfigCas says true only if the content was published in place of
\* the expected one, or a server answered 404; it says false only if it was
\* not, or an answer that said so was lost and the retry met its own content;
\* and only after a lost answer is it published twice.
CasHonest ==
    \A r \in Request :
       /\ request[r].result = "true" =>
             request[r].applied >= 1 \/ request[r].missing
       /\ request[r].result = "false" => request[r].applied = 0 \/ request[r].lost
       /\ request[r].applied > 1 => request[r].lost

Asked == \E r \in Request : request[r].phase \in {"sent", "done"}

\* Once a request has asked for it, the list in the end is that of the name
\* server: a failure, a broken snapshot or a race of two first requests is
\* made good by the loop.
ListFollows == <>[](~direct /\ ~closed /\ Asked => Hosts(cache) = offered)
=============================================================================
