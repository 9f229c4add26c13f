------------------------ MODULE GrpcConnectionProofs ------------------------
(***************************************************************************)
(* Proofs about GrpcConnection for every number of servers, chains, faults,*)
(* losses and resets.  The flag connected promises a stream only because   *)
(* the handshakes that settle open their streams in the order in which     *)
(* they settle: the last stream is open while any of them does (Opens).    *)
(***************************************************************************)
EXTENDS GrpcConnection, FiniteSetTheorems, TLAPS

\* Chain 0 is the first to work, and the only one until it has a stream.
First ==
    /\ at[0] # "backoff" /\ \A c \in Chain : c > chains => at[c] = "none"
    /\ at[0] \in {"login", "check", "failed"} =>
          chains = 0 /\ ~connected /\ alive = {} /\ broken = {}

\* One chain and one stream at a time, until a reset; until close() a stream is
\* the present one, and that of a connection that is up or settles.
Alone ==
    /\ \A c, d \in Active : c = d
    /\ connected => Active = {}
    /\ \A s, t \in alive : s = t
    /\ \A c \in Chain : at[c] \in {"login", "check"} => alive = {} /\ (broken = {} \/ closed)
    /\ ~closed =>
         /\ \A s \in alive : s.id = stream
         /\ alive # {} => connected \/ \E c \in Chain : at[c] = "settle"
         /\ broken # {} => alive = {}

\* After a close() that met no handshake in its login or its half second, none
\* gets anywhere.
Silent ==
    closed /\ ~late =>
       /\ \A c \in Chain : at[c] \notin {"login", "settle"}
       /\ client = None /\ ~connected /\ ~heartbeat
       /\ (NoResetYet => alive = {})

\* While a handshake settles, that of the last stream does, which is open.
Opens ==
    ~closed =>
       /\ connected => \E s \in alive : s.id = stream
       /\ \A c \in Chain : at[c] = "settle" =>
             /\ peer[c] <= opened /\ stream = opened
             /\ \E d \in Chain : at[d] = "settle" /\ peer[d] = opened
             /\ \E s \in alive : s.id = opened

Bounded == budget["resets"] <= MaxResets

IInv ==
    /\ TypeOK /\ First /\ Retrying /\ Bounded
    /\ NoResetYet => Alone
    /\ Silent /\ HeartbeatFollows
    /\ ~LosesEarly => Opens
-----------------------------------------------------------------------------
\* The initial states satisfy the inductive invariant.
LEMMA InitEstablishes == Init => IInv
<1> SUFFICES ASSUME Init PROVE IInv
  OBVIOUS
<1>1. /\ 0 \in Chain /\ 0 \in Server /\ None \notin Server
      /\ at \in [Chain -> {"login", "none"}]
      /\ \A c \in Chain : at[c] = "login" <=> c = 0
  BY GrpcConnectionAssumption DEF Init, Chain, Server, None
<1>2. TypeOK
  <2>1. budget \in [{"faults", "losses", "resets", "deaths"} -> Nat]
    BY GrpcConnectionAssumption DEF Init
  <2>2. peer \in [Chain -> Nat]
    BY DEF Init
  <2> QED
    <3>1. at \in [Chain -> Busy \cup {"none", "done", "failed"}]
      BY <1>1 DEF Busy
    <3>2. opened \in Nat /\ stream \in 0 .. opened /\ chains \in Chain
      BY <1>1 DEF Init
    <3> QED
      BY <1>1, <2>1, <2>2, <3>1, <3>2 DEF Init, TypeOK
<1>3. First
  BY <1>1, GrpcConnectionAssumption DEF Init, First, Chain
<1>4. Retrying
  BY <1>1 DEF Init, Retrying
<1>5. Alone
  BY <1>1 DEF Init, Alone, Active, Busy
<1>6. Silent /\ HeartbeatFollows /\ Opens
  BY <1>1 DEF Init, Silent, HeartbeatFollows, Opens
<1>7. Bounded
  BY GrpcConnectionAssumption DEF Init, Bounded
<1> QED
  BY <1>2, <1>3, <1>4, <1>5, <1>6, <1>7 DEF IInv

\* What the actions need to know of the constants.
LEMMA Constants ==
    /\ 0 \in Chain /\ Chain \subseteq Nat /\ Server \subseteq Nat /\ None \notin Server
    /\ \A i \in Server : (i + 1) % NumServers \in Server
  <1>1. \A i \in Server : (i + 1) % NumServers \in 0 .. NumServers - 1
    BY GrpcConnectionAssumption DEF Server
  <1> QED
    BY <1>1, GrpcConnectionAssumption DEF Chain, Server, None
-----------------------------------------------------------------------------
\* Every step keeps the types.
LEMMA TypeKept == ASSUME TypeOK, [Next]_vars PROVE TypeOK'
<1>1. ASSUME NEW c \in Chain, CreateClients(c) PROVE TypeOK'
  BY <1>1, Constants DEF CreateClients, Goto, TypeOK, Busy, wire
<1>2. ASSUME NEW c \in Chain, Failed(c),
             UNCHANGED <<connected, closed, index, client, stream, wire, chains, down, late>>,
             budget' \in [{"faults", "losses", "resets", "deaths"} -> Nat]
      PROVE  TypeOK'
  BY <1>2 DEF Failed, Backoff, Goto, TypeOK, Busy, wire
<1>3. ASSUME NEW c \in Chain, CheckPassed(c) PROVE TypeOK'
  <2>1. CASE client = None
    BY <1>2, <1>3, <2>1 DEF CheckPassed, wire, TypeOK
  <2>2. CASE client # None
    <3>1. opened' \in Nat /\ stream' \in 0 .. opened' /\ peer' \in [Chain -> Nat]
      BY <1>3, <2>2 DEF CheckPassed, TypeOK
    <3>2. alive' \subseteq [id : 1 .. opened', server : Server]
      BY <1>3, <2>2 DEF CheckPassed, TypeOK
    <3>3. broken' \subseteq [id : 1 .. opened', server : Server]
      BY <1>3, <2>2 DEF CheckPassed, TypeOK
    <3>4. at' \in [Chain -> Busy \cup {"none", "done", "failed"}]
      BY <1>3, <2>2 DEF CheckPassed, Goto, TypeOK, Busy
    <3> QED
      BY <1>3, <2>2, <3>1, <3>2, <3>3, <3>4 DEF CheckPassed, TypeOK
  <2> QED
    BY <2>1, <2>2
<1>4. ASSUME NEW what \in {"faults", "losses", "resets", "deaths"}, Spend(what)
      PROVE  budget' \in [{"faults", "losses", "resets", "deaths"} -> Nat]
  BY <1>4 DEF Spend, TypeOK
<1>5. ASSUME NEW c \in Chain, CheckFailed(c) PROVE TypeOK'
  <2>1. budget' \in [{"faults", "losses", "resets", "deaths"} -> Nat]
    BY <1>4, <1>5 DEF CheckFailed, TypeOK
  <2> QED
    BY <1>2, <1>5, <2>1 DEF CheckFailed
<1>6. ASSUME NEW c \in Chain, Settled(c) \/ BackoffOver(c) PROVE TypeOK'
  BY <1>6 DEF Settled, BackoffOver, Goto, TypeOK, Busy, wire, own
<1>7. ASSUME Reconnect
      PROVE  /\ chains' \in Chain /\ heartbeat' \in BOOLEAN /\ peer' \in [Chain -> Nat]
             /\ at' \in [Chain -> Busy \cup {"none", "done", "failed"}]
  <2>1. CASE closed
    BY <1>7, <2>1 DEF Reconnect, TypeOK
  <2>2. CASE ~closed
    <3>1. chains' = chains + 1 /\ chains' \in Chain
      BY <1>7, <2>2, GrpcConnectionAssumption DEF Reconnect, TypeOK, Chain
    <3>2. opened \in Nat /\ peer \in [Chain -> Nat]
      BY DEF TypeOK
    <3>3. peer' \in [Chain -> Nat] /\ heartbeat' \in BOOLEAN
      BY <1>7, <2>2, <3>1, <3>2 DEF Reconnect, Backoff
    <3>4. at' \in [Chain -> Busy \cup {"none", "done", "failed"}]
      BY <1>7, <2>2, <3>1 DEF Reconnect, Backoff, Goto, TypeOK, Busy
    <3> QED
      BY <3>1, <3>3, <3>4
  <2> QED
    BY <2>1, <2>2
<1>8. ASSUME Lost
      PROVE  /\ chains' \in Chain /\ heartbeat' \in BOOLEAN /\ peer' \in [Chain -> Nat]
             /\ at' \in [Chain -> Busy \cup {"none", "done", "failed"}]
             /\ connected' \in BOOLEAN
  BY <1>7, <1>8 DEF Lost, flow, TypeOK
<1>9. ASSUME NEW s, StreamLost(s) PROVE TypeOK'
  <2>1. budget' \in [{"faults", "losses", "resets", "deaths"} -> Nat]
    BY <1>4, <1>9 DEF StreamLost, TypeOK
  <2>2. broken' \subseteq [id : 1 .. opened, server : Server]
    BY <1>9 DEF StreamLost, TypeOK
  <2>3. alive' \subseteq [id : 1 .. opened, server : Server]
    BY <1>9 DEF StreamLost, TypeOK
  <2> QED
    BY <1>8, <1>9, <2>1, <2>2, <2>3 DEF StreamLost, TypeOK
<1>10. ASSUME NEW s, StreamEnds(s) PROVE TypeOK'
  BY <1>8, <1>10 DEF StreamEnds, TypeOK
<1>11. ASSUME NEW s, ResetArrives(s) PROVE TypeOK'
  <2>1. budget' \in [{"faults", "losses", "resets", "deaths"} -> Nat]
    BY <1>4, <1>11 DEF ResetArrives
  <2>2. index' \in Server
    BY <1>11, Constants DEF ResetArrives, TypeOK
  <2> QED
    BY <1>7, <1>11, <2>1, <2>2 DEF ResetArrives, TypeOK, wire
<1>12. CASE Close
  <2>1. /\ alive' \subseteq [id : 1 .. opened, server : Server] /\ stream' \in 0 .. opened
        /\ broken' \subseteq [id : 1 .. opened, server : Server] /\ late' \in BOOLEAN
    BY <1>12 DEF Close, Closes, TypeOK
  <2> QED
    BY <1>12, <2>1 DEF Close, Closes, TypeOK, flow
<1>13. ASSUME NEW n \in Server, ServerDies(n) PROVE TypeOK'
  <2>1. budget' \in [{"faults", "losses", "resets", "deaths"} -> Nat]
    BY <1>4, <1>13 DEF ServerDies
  <2> QED
    BY <1>13, <2>1 DEF ServerDies, TypeOK, own, wire, flow
<1>14. CASE UNCHANGED vars
  BY <1>14 DEF vars, own, wire, flow, TypeOK
<1> QED
  BY <1>1, <1>3, <1>5, <1>6, <1>9, <1>10, <1>11, <1>12, <1>13, <1>14 DEF Next, Handshake

\* What the loss of a stream or a reset makes of the chains.
LEMMA Restarts ==
    ASSUME TypeOK, First, Reconnect
    PROVE  \/ closed /\ UNCHANGED <<chains, at, peer, heartbeat>>
           \/ /\ ~closed /\ ~heartbeat' /\ chains' = chains + 1
              /\ chains' \in Chain /\ chains' # 0 /\ at[chains'] = "none"
              /\ at' = [at EXCEPT ![chains'] = "backoff"]
              /\ peer' = [peer EXCEPT ![chains'] = opened]
  <1>1. CASE closed
    BY <1>1 DEF Reconnect
  <1>2. CASE ~closed
    <2>1. chains \in Nat /\ chains' = chains + 1 /\ chains' \in Chain
      BY <1>2, GrpcConnectionAssumption DEF Reconnect, TypeOK, Chain
    <2>2. at[chains'] = "none" /\ chains' # 0
      BY <2>1 DEF First
    <2> QED
      BY <1>2, <2>1, <2>2 DEF Reconnect, Backoff, Goto
  <1> QED
    BY <1>1, <1>2

\* A handshake that fails.
LEMMA Fails ==
    ASSUME TypeOK, NEW c \in Chain, Failed(c)
    PROVE  \/ /\ c = 0 \/ closed
              /\ at' = [at EXCEPT ![c] = "failed"] /\ UNCHANGED <<heartbeat, peer>>
           \/ /\ c # 0 /\ ~closed /\ ~heartbeat'
              /\ at' = [at EXCEPT ![c] = "backoff"]
              /\ peer' = [peer EXCEPT ![c] = opened]
  BY DEF Failed, Backoff, Goto

\* The kinds of steps.
LEMMA Steps ==
    ASSUME [Next]_vars
    PROVE  \/ \E c \in Chain : CreateClients(c) \/ CheckPassed(c) \/ CheckFailed(c)
                                 \/ Settled(c) \/ BackoffOver(c)
           \/ \E s \in alive : StreamLost(s)
           \/ \E s \in broken : StreamEnds(s)
           \/ \E s \in alive : ResetArrives(s)
           \/ Close \/ (\E n \in Server : ServerDies(n)) \/ UNCHANGED vars
  BY DEF Next, Handshake, StreamLost, StreamEnds, ResetArrives
-----------------------------------------------------------------------------
\* The first chain is alone until it has a stream.
LEMMA FirstKept == ASSUME TypeOK, First, [Next]_vars PROVE First'
<1>1. 0 \in Chain /\ Chain \subseteq Nat /\ chains \in Chain
      /\ at \in [Chain -> Busy \cup {"none", "done", "failed"}]
  BY Constants DEF TypeOK
<1>2. ASSUME NEW c \in Chain, CreateClients(c) PROVE First'
  BY <1>1, <1>2 DEF CreateClients, Goto, First, wire
<1>3. ASSUME NEW c \in Chain, CheckPassed(c) PROVE First'
  <2>1. CASE client = None
    BY <1>1, <1>3, <2>1, Fails DEF CheckPassed, First
  <2>2. CASE client # None
    BY <1>1, <1>3, <2>2 DEF CheckPassed, Goto, First
  <2> QED
    BY <2>1, <2>2
<1>4. ASSUME NEW c \in Chain, CheckFailed(c) PROVE First'
  BY <1>1, <1>4, Fails DEF CheckFailed, First, wire
<1>5. ASSUME NEW c \in Chain, Settled(c) PROVE First'
  BY <1>1, <1>5 DEF Settled, Goto, First, wire
<1>6. ASSUME NEW c \in Chain, BackoffOver(c) PROVE First'
  BY <1>1, <1>6 DEF BackoffOver, Goto, First, wire, own
<1>7. ASSUME Lost \/ Reconnect, at[0] \notin {"login", "check", "failed"} PROVE First'
  BY <1>1, <1>7, Restarts DEF Lost, First, flow
<1>8. ASSUME NEW s \in alive, StreamLost(s) \/ ResetArrives(s) PROVE First'
  BY <1>7, <1>8 DEF StreamLost, ResetArrives, First
<1>9. ASSUME NEW s \in broken, StreamEnds(s) PROVE First'
  BY <1>7, <1>9 DEF StreamEnds, First
<1>10. CASE Close
  <2>1. alive' \subseteq alive /\ broken' \subseteq broken \cup alive /\ ~connected'
    BY <1>10 DEF Close, Closes
  <2> QED
    BY <1>10, <2>1 DEF Close, Closes, flow, First
<1>11. CASE (\E n \in Server : ServerDies(n)) \/ UNCHANGED vars
  BY <1>11 DEF ServerDies, vars, own, wire, flow, First
<1> QED
  BY <1>2, <1>3, <1>4, <1>5, <1>6, <1>8, <1>9, <1>10, <1>11, Steps

\* A connection that was up is up, closed, or has a chain at work on it.
LEMMA RetryingKept == ASSUME TypeOK, First, Retrying, [Next]_vars PROVE Retrying'
<1>1. 0 \in Chain /\ at \in [Chain -> Busy \cup {"none", "done", "failed"}]
  BY Constants DEF TypeOK
<1>2. ASSUME NEW c \in Chain, NEW step \in Busy, at' = [at EXCEPT ![c] = step] PROVE Retrying'
  <2>1. at'[c] \in Busy
    BY <1>1, <1>2
  <2> QED
    BY <2>1 DEF Retrying, Active
<1>3. ASSUME NEW c \in Chain, CreateClients(c) PROVE Retrying'
  BY <1>2, <1>3 DEF CreateClients, Goto, Busy
<1>4. ASSUME NEW c \in Chain, at[c] = "check", Failed(c), closed' = closed,
             connected' = connected
      PROVE Retrying'
  <2>1. CASE at' = [at EXCEPT ![c] = "backoff"]
    BY <1>2, <2>1 DEF Busy
  <2>2. CASE (c = 0 \/ closed) /\ at' = [at EXCEPT ![c] = "failed"]
    BY <1>1, <1>4, <2>2 DEF Retrying
  <2> QED
    BY <1>4, <2>1, <2>2, Fails
<1>5. ASSUME NEW c \in Chain, CheckPassed(c) PROVE Retrying'
  <2>1. CASE client = None
    BY <1>4, <1>5, <2>1 DEF CheckPassed
  <2>2. CASE client # None
    BY <1>2, <1>5, <2>2 DEF CheckPassed, Goto, Busy
  <2> QED
    BY <2>1, <2>2
<1>6. ASSUME NEW c \in Chain, CheckFailed(c) PROVE Retrying'
  BY <1>4, <1>6 DEF CheckFailed
<1>7. ASSUME NEW c \in Chain, Settled(c) PROVE Retrying'
  BY <1>7 DEF Settled, Retrying
<1>8. ASSUME NEW c \in Chain, BackoffOver(c) PROVE Retrying'
  <2>1. CASE closed
    BY <1>8, <2>1 DEF BackoffOver, own, Retrying
  <2>2. CASE ~closed
    BY <1>2, <1>8, <2>2 DEF BackoffOver, Goto, Busy
  <2> QED
    BY <2>1, <2>2
<1>9. ASSUME Reconnect, closed' = closed PROVE Retrying'
  <2>1. CASE closed
    BY <1>9, <2>1 DEF Retrying
  <2>2. CASE ~closed
    BY <1>2, <1>9, <2>2, Restarts DEF Busy
  <2> QED
    BY <2>1, <2>2
<1>10. ASSUME Lost, closed' = closed PROVE Retrying'
  <2>1. CASE connected
    BY <1>9, <1>10, <2>1 DEF Lost
  <2>2. CASE ~connected
    BY <1>10, <2>2 DEF Lost, flow, Retrying, Active
  <2> QED
    BY <2>1, <2>2
<1>11. ASSUME NEW s, StreamLost(s) \/ StreamEnds(s) \/ ResetArrives(s) PROVE Retrying'
  BY <1>9, <1>10, <1>11 DEF StreamLost, StreamEnds, ResetArrives
<1>12. CASE Close \/ (\E n \in Server : ServerDies(n)) \/ UNCHANGED vars
  BY <1>12 DEF Close, Closes, ServerDies, vars, own, flow, Retrying, Active
<1> QED
  BY <1>3, <1>5, <1>6, <1>7, <1>8, <1>11, <1>12, Steps
-----------------------------------------------------------------------------
\* Only a reset makes two chains or two streams.
LEMMA AloneKept ==
    ASSUME TypeOK, First, NoResetYet, Alone, [Next]_vars, NoResetYet'
    PROVE  Alone'
<1>1. /\ at \in [Chain -> Busy \cup {"none", "done", "failed"}]
      /\ alive \subseteq [id : 1 .. opened, server : Server] /\ opened \in Nat
      /\ peer \in [Chain -> Nat]
  BY DEF TypeOK
<1>2. ASSUME NEW c \in Chain, at[c] \in {"login", "check"}
      PROVE  ~connected /\ alive = {} /\ (broken = {} \/ closed) /\ Active = {c}
  BY <1>2 DEF Alone, Active, Busy
<1>3. ASSUME NEW c \in Chain, CreateClients(c) PROVE Alone'
  BY <1>1, <1>2, <1>3 DEF CreateClients, Goto, Alone, Active, Busy, wire
<1>4. ASSUME NEW c \in Chain, at[c] = "check", Failed(c),
             UNCHANGED <<alive, broken, stream, connected, closed>>
      PROVE  Alone'
  <2>1. \E step \in {"failed", "backoff"} : at' = [at EXCEPT ![c] = step]
    BY <1>4, Fails
  <2> QED
    BY <1>1, <1>2, <1>4, <2>1 DEF Alone, Active, Busy
<1>5. ASSUME NEW c \in Chain, CheckPassed(c) PROVE Alone'
  <2>1. CASE client = None
    BY <1>4, <1>5, <2>1 DEF CheckPassed
  <2>2. CASE client # None
    BY <1>1, <1>2, <1>5, <2>2 DEF CheckPassed, Goto, Alone, Active, Busy
  <2> QED
    BY <2>1, <2>2
<1>6. ASSUME NEW c \in Chain, CheckFailed(c) PROVE Alone'
  BY <1>4, <1>6 DEF CheckFailed, wire
<1>7. ASSUME NEW c \in Chain, Settled(c) PROVE Alone'
  BY <1>1, <1>7 DEF Settled, Goto, Alone, Active, Busy, wire
<1>8. ASSUME NEW c \in Chain, BackoffOver(c) PROVE Alone'
  BY <1>1, <1>8 DEF BackoffOver, Goto, Alone, Active, Busy, wire, own
<1>9. ASSUME Lost, UNCHANGED <<stream, closed>>, alive' \in SUBSET alive,
             closed \/ alive' = {},
             \A c \in Chain : at[c] \in {"login", "check"} => broken' = {} \/ closed
      PROVE  Alone'
  <2>1. CASE ~connected
    BY <1>9, <2>1 DEF Lost, flow, Alone, Active
  <2>2. CASE connected
    <3>1. Active = {} /\ connected' = FALSE
      BY <1>9, <2>2 DEF Lost, Alone
    <3>2. CASE UNCHANGED at
      BY <1>9, <3>1, <3>2 DEF Alone, Active, Busy
    <3>3. CASE ~closed /\ at' = [at EXCEPT ![chains'] = "backoff"] /\ chains' \in Chain
      BY <1>1, <1>9, <3>1, <3>3 DEF Alone, Active, Busy
    <3> QED
      BY <1>9, <2>2, <3>2, <3>3, Restarts DEF Lost
  <2> QED
    BY <2>1, <2>2
<1>10. ASSUME NEW s \in alive, StreamLost(s) PROVE Alone'
  <2>1. alive' = {} /\ \A c \in Chain : at[c] \notin {"login", "check"}
    BY <1>2, <1>10 DEF StreamLost, Alone
  <2> QED
    BY <1>9, <1>10, <2>1 DEF StreamLost
<1>11. ASSUME NEW s \in broken, StreamEnds(s) PROVE Alone'
  <2>1. closed \/ (alive' = {} /\ \A c \in Chain : at[c] \notin {"login", "check"})
    BY <1>2, <1>11 DEF StreamEnds, Alone
  <2> QED
    BY <1>9, <1>11, <2>1 DEF StreamEnds
<1>12. ASSUME NEW s \in alive, ResetArrives(s) PROVE FALSE
  BY <1>12, GrpcConnectionAssumption DEF ResetArrives, Spend, NoResetYet, TypeOK
<1>13. CASE Close
  <2>1. alive' = {}
    BY <1>13 DEF Close, Closes, Alone
  <2> QED
    BY <1>13, <2>1 DEF Close, Closes, flow, Alone, Active, Busy
<1>14. CASE (\E n \in Server : ServerDies(n)) \/ UNCHANGED vars
  BY <1>14 DEF ServerDies, vars, own, wire, flow, Alone, Active
<1> QED
  BY <1>3, <1>5, <1>6, <1>7, <1>8, <1>10, <1>11, <1>12, <1>13, <1>14, Steps

\* A closed connection stays silent, if close() came outside a login and the
\* half second of a stream; close() itself notes whether it did.
LEMMA SilentKept ==
    ASSUME TypeOK, First, Bounded, Silent, NoResetYet => Alone, [Next]_vars
    PROVE  Silent'
<1>1. /\ at \in [Chain -> Busy \cup {"none", "done", "failed"}]
      /\ budget \in [{"faults", "losses", "resets", "deaths"} -> Nat]
  BY DEF TypeOK
<1>3. ASSUME NEW c \in Chain, CreateClients(c) PROVE Silent'
  BY <1>3 DEF CreateClients, Silent
<1>4. ASSUME NEW c \in Chain, Failed(c), closed' = closed, closed, UNCHANGED <<client, connected, alive, late, budget>>
      PROVE  Silent'
  BY <1>1, <1>4, Fails DEF Silent, NoResetYet
<1>5. ASSUME NEW c \in Chain, CheckPassed(c) PROVE Silent'
  <2>1. CASE closed
    BY <1>4, <1>5, <2>1 DEF CheckPassed, Silent
  <2>2. CASE ~closed
    BY <1>5, <2>2 DEF CheckPassed, Silent
  <2> QED
    BY <2>1, <2>2
<1>6. ASSUME NEW c \in Chain, CheckFailed(c) PROVE Silent'
  BY <1>4, <1>6 DEF CheckFailed, Silent, wire
<1>7. ASSUME NEW c \in Chain, Settled(c) PROVE Silent'
  BY <1>7 DEF Settled, Silent
<1>8. ASSUME NEW c \in Chain, BackoffOver(c) PROVE Silent'
  BY <1>1, <1>8 DEF BackoffOver, Goto, Silent, own, wire, NoResetYet
<1>9. ASSUME closed, NEW s \in alive \cup broken,
             StreamLost(s) \/ StreamEnds(s) \/ ResetArrives(s)
      PROVE  Silent'
  <2>1. CASE ResetArrives(s)
    <3>1. ~NoResetYet'
      BY <1>1, <2>1, GrpcConnectionAssumption DEF ResetArrives, Spend, Bounded, NoResetYet
    <3> QED
      BY <1>9, <2>1, <3>1 DEF ResetArrives, Reconnect, Silent, wire
  <2>2. CASE StreamLost(s)
    <3>1. budget'["resets"] = budget["resets"]
      BY <1>1, <2>2 DEF StreamLost, Spend
    <3> QED
      BY <1>9, <2>2, <3>1 DEF StreamLost, Lost, Silent, NoResetYet, flow
  <2>3. CASE StreamEnds(s)
    BY <1>9, <2>3 DEF StreamEnds, Lost, Silent, NoResetYet, flow
  <2> QED
    BY <1>9, <2>1, <2>2, <2>3
<1>10. ASSUME ~closed, NEW s, StreamLost(s) \/ StreamEnds(s) \/ ResetArrives(s)
       PROVE  Silent'
  BY <1>10 DEF StreamLost, StreamEnds, ResetArrives, Silent
<1>11. CASE Close
  <2>1. NoResetYet => alive' = {}
    BY <1>11 DEF Close, Closes, Alone
  <2> QED
    BY <1>11, <2>1 DEF Close, Closes, flow, Silent, NoResetYet
<1>12. ASSUME NEW n \in Server, ServerDies(n) PROVE Silent'
  BY <1>1, <1>12 DEF ServerDies, Spend, own, wire, flow, Silent, NoResetYet
<1>13. CASE UNCHANGED vars
  BY <1>13 DEF vars, own, wire, flow, Silent, NoResetYet
<1> QED
  BY <1>3, <1>5, <1>6, <1>7, <1>8, <1>9, <1>10, <1>11, <1>12, <1>13, Steps

\* The timer of the heartbeat is that of the connection.
LEMMA HeartbeatKept ==
    ASSUME TypeOK, First, Silent, NoResetYet, Alone, HeartbeatFollows, [Next]_vars
    PROVE  HeartbeatFollows'
<1> SUFFICES ASSUME NoResetYet', ~late' PROVE heartbeat' <=> connected'
  BY DEF HeartbeatFollows
<1>1. CASE Close
  BY <1>1 DEF Close, Closes
<1> SUFFICES ASSUME ~Close PROVE heartbeat' <=> connected'
  BY <1>1
<1>2. ~late
  BY Steps DEF CreateClients, CheckPassed, CheckFailed, Settled, BackoffOver,
     StreamLost, StreamEnds, ResetArrives, ServerDies, vars
<1>3. heartbeat <=> connected
  BY <1>2 DEF HeartbeatFollows
<1>4. ASSUME NEW c \in Chain, at[c] = "check", Failed(c), connected' = connected
      PROVE  heartbeat' <=> connected'
  BY <1>3, <1>4, Fails DEF Alone, Active, Busy
<1>5. ASSUME NEW c \in Chain,
             CreateClients(c) \/ CheckPassed(c) \/ CheckFailed(c) \/ Settled(c)
               \/ BackoffOver(c)
      PROVE  heartbeat' <=> connected'
  BY <1>3, <1>4, <1>5 DEF CreateClients, CheckPassed, CheckFailed, Settled, BackoffOver, own
<1>6. ASSUME Lost PROVE heartbeat' <=> connected'
  BY <1>2, <1>3, <1>6, Restarts DEF Lost, Silent
<1>7. ASSUME NEW s \in alive, ResetArrives(s) PROVE FALSE
  BY <1>7, GrpcConnectionAssumption DEF ResetArrives, Spend, NoResetYet, TypeOK
<1>8. ASSUME NEW s, StreamLost(s) \/ StreamEnds(s) PROVE heartbeat' <=> connected'
  BY <1>6, <1>8 DEF StreamLost, StreamEnds
<1>9. CASE (\E n \in Server : ServerDies(n)) \/ UNCHANGED vars
  BY <1>3, <1>9 DEF ServerDies, vars, own
<1> QED
  BY <1>5, <1>7, <1>8, <1>9, Steps
-----------------------------------------------------------------------------
\* A stream is there while the connection says so, unless one is lost in its
\* half second.
LEMMA OpensKept ==
    ASSUME TypeOK, First, Opens, ~LosesEarly, [Next]_vars
    PROVE  Opens'
<1> SUFFICES ASSUME ~closed' PROVE Opens'
  BY DEF Opens
<1>0. ~closed
  BY Steps DEF CreateClients, CheckPassed, CheckFailed, Settled, BackoffOver, own,
     StreamLost, StreamEnds, ResetArrives, Close, Closes, ServerDies, vars
<1>1. /\ at \in [Chain -> Busy \cup {"none", "done", "failed"}]
      /\ peer \in [Chain -> Nat] /\ opened \in Nat
      /\ alive \subseteq [id : 1 .. opened, server : Server]
  BY DEF TypeOK
<1>2. ASSUME NEW c \in Chain, CreateClients(c) PROVE Opens'
  BY <1>0, <1>1, <1>2 DEF CreateClients, Goto, Opens, wire
<1>3. ASSUME NEW c \in Chain, at[c] = "check", Failed(c),
             UNCHANGED <<connected, stream, opened, alive>>
      PROVE  Opens'
  BY <1>0, <1>1, <1>3, Fails DEF Opens
<1>4. ASSUME NEW c \in Chain, CheckPassed(c) PROVE Opens'
  <2>1. CASE client = None
    BY <1>3, <1>4, <2>1 DEF CheckPassed
  <2>2. CASE client # None
    <3>1. /\ opened' = opened + 1 /\ stream' = opened'
          /\ at' = [at EXCEPT ![c] = "settle"] /\ peer' = [peer EXCEPT ![c] = opened']
          /\ [id |-> opened', server |-> client] \in alive'
      BY <1>4, <2>2 DEF CheckPassed, Goto
    <3>2. \A d \in Chain : at'[d] = "settle" => peer'[d] <= opened'
      BY <1>0, <1>1, <3>1 DEF Opens
    <3>3. at'[c] = "settle" /\ peer'[c] = opened'
      BY <1>1, <3>1
    <3>4. \E s \in alive' : s.id = opened'
      BY <3>1
    <3> QED
      BY <3>1, <3>2, <3>3, <3>4 DEF Opens
  <2> QED
    BY <2>1, <2>2
<1>5. ASSUME NEW c \in Chain, CheckFailed(c) PROVE Opens'
  BY <1>3, <1>5 DEF CheckFailed, wire
<1>6. ASSUME NEW c \in Chain, Settled(c) PROVE Opens'
  <2>1. at[c] = "settle" /\ at' = [at EXCEPT ![c] = "done"]
        /\ UNCHANGED <<stream, peer, opened, alive>>
        /\ \A d \in Chain : at[d] = "settle" => peer[c] <= peer[d]
    BY <1>6 DEF Settled, Goto, wire
  <2>2. /\ stream = opened /\ \E s \in alive : s.id = opened
        /\ \A d \in Chain : at[d] = "settle" => peer[d] <= opened
    BY <1>0, <2>1 DEF Opens
  <2>3. ASSUME NEW e \in Chain, at'[e] = "settle"
        PROVE  \E d \in Chain : at'[d] = "settle" /\ peer[d] = opened
    <3>1. PICK d \in Chain : at[d] = "settle" /\ peer[d] = opened
      BY <1>0, <2>1 DEF Opens
    <3>2. CASE d = c
      <4>1. e # c /\ at[e] = "settle" /\ peer[c] <= peer[e] /\ peer[e] <= opened
        BY <1>1, <2>1, <2>2, <2>3
      <4>2. peer[e] = opened
        BY <1>1, <3>1, <3>2, <4>1
      <4> QED
        BY <2>3, <4>2
    <3>3. CASE d # c
      BY <1>1, <2>1, <3>1, <3>3
    <3> QED
      BY <3>2, <3>3
  <2>4. \A d \in Chain : at'[d] = "settle" => at[d] = "settle"
    BY <1>1, <2>1
  <2> QED
    BY <2>1, <2>2, <2>3, <2>4 DEF Opens
<1>7. ASSUME NEW c \in Chain, BackoffOver(c) PROVE Opens'
  BY <1>0, <1>1, <1>7 DEF BackoffOver, Goto, Opens, own, wire
<1>8. ASSUME Lost \/ (Reconnect /\ ~connected')
      PROVE  /\ ~connected'
             /\ \A d \in Chain :
                   /\ at'[d] = "settle" <=> at[d] = "settle"
                   /\ at[d] = "settle" => peer'[d] = peer[d]
  BY <1>1, <1>8, Restarts DEF Lost, flow
<1>9. ASSUME Lost \/ (Reconnect /\ ~connected'), UNCHANGED <<stream, opened>>,
             (\E c \in Chain : at[c] = "settle") =>
                \A s \in alive : s.id = opened => s \in alive'
      PROVE  Opens'
  BY <1>0, <1>8, <1>9 DEF Opens
<1>10. ASSUME NEW s \in alive, StreamLost(s) PROVE Opens'
  <2>1. ASSUME NEW c \in Chain, at[c] = "settle" PROVE s.id # opened
    BY <1>0, <1>10, <2>1 DEF StreamLost, Settling, Opens
  <2> QED
    BY <1>9, <1>10, <2>1 DEF StreamLost
<1>11. ASSUME NEW s, StreamEnds(s) \/ ResetArrives(s) PROVE Opens'
  BY <1>9, <1>11 DEF StreamEnds, ResetArrives, wire
<1>12. CASE Close
  BY <1>12 DEF Close, Closes
<1>13. CASE (\E n \in Server : ServerDies(n)) \/ UNCHANGED vars
  BY <1>0, <1>13 DEF ServerDies, vars, own, wire, flow, Opens
<1> QED
  BY <1>2, <1>4, <1>5, <1>6, <1>7, <1>10, <1>11, <1>12, <1>13, Steps
-----------------------------------------------------------------------------
\* The resets that are left only get fewer.
LEMMA BoundedKept ==
    ASSUME TypeOK, Bounded, [Next]_vars
    PROVE  Bounded' /\ (NoResetYet' => NoResetYet)
<1>1. budget \in [{"faults", "losses", "resets", "deaths"} -> Nat] /\ MaxResets \in Nat
  BY GrpcConnectionAssumption DEF TypeOK
<1>2. ASSUME budget' = budget PROVE Bounded' /\ (NoResetYet' => NoResetYet)
  BY <1>2 DEF Bounded, NoResetYet
<1>3. ASSUME NEW what \in {"faults", "losses", "resets", "deaths"}, Spend(what)
      PROVE  Bounded' /\ (NoResetYet' => NoResetYet)
  BY <1>1, <1>3 DEF Spend, Bounded, NoResetYet
<1>4. budget' = budget \/ \E what \in {"faults", "losses", "resets", "deaths"} : Spend(what)
  <2>1. ASSUME NEW c \in Chain,
               CreateClients(c) \/ CheckPassed(c) \/ CheckFailed(c) \/ Settled(c)
                 \/ BackoffOver(c)
        PROVE  budget' = budget \/ Spend("faults")
    BY <2>1 DEF CreateClients, CheckPassed, CheckFailed, Settled, BackoffOver
  <2>2. ASSUME NEW s, StreamLost(s) \/ StreamEnds(s) \/ ResetArrives(s)
        PROVE  budget' = budget \/ Spend("losses") \/ Spend("resets")
    BY <2>2 DEF StreamLost, StreamEnds, ResetArrives
  <2>3. CASE Close \/ (\E n \in Server : ServerDies(n)) \/ UNCHANGED vars
    BY <2>3 DEF Close, Closes, ServerDies, vars
  <2> QED
    BY <2>1, <2>2, <2>3, Steps
<1> QED
  BY <1>2, <1>3, <1>4

\* Every step keeps the inductive invariant.
LEMMA StepKeeps == IInv /\ [Next]_vars => IInv'
<1> SUFFICES ASSUME IInv, [Next]_vars PROVE IInv'
  OBVIOUS
<1>1. TypeOK /\ First /\ Retrying /\ Bounded
  BY DEF IInv
<1>2. TypeOK' /\ First' /\ Retrying' /\ Bounded' /\ (NoResetYet' => NoResetYet)
  BY <1>1, TypeKept, FirstKept, RetryingKept, BoundedKept
<1>3. NoResetYet' => Alone'
  BY <1>1, <1>2, AloneKept DEF IInv
<1>4. Silent'
  BY <1>1, SilentKept DEF IInv
<1>5. HeartbeatFollows'
  <2>1. CASE NoResetYet
    BY <1>1, <2>1, HeartbeatKept DEF IInv
  <2>2. CASE ~NoResetYet
    BY <1>2, <2>2 DEF HeartbeatFollows
  <2> QED
    BY <2>1, <2>2
<1>6. ASSUME ~LosesEarly PROVE Opens'
  BY <1>1, <1>6, OpensKept DEF IInv
<1> QED
  BY <1>2, <1>3, <1>4, <1>5, <1>6 DEF IInv

\* The inductive invariant holds throughout.
THEOREM Invariance == Spec => []IInv
<1> QED
  BY InitEstablishes, StepKeeps, PTL DEF Spec

\* Every variable stays in its type, for any number of servers and chains.
THEOREM TypeCorrect == Spec => []TypeOK
<1>1. IInv => TypeOK
  BY DEF IInv
<1> QED
  BY <1>1, Invariance, PTL

\* Whatever is lost, reset or fails, and whenever close() comes: a connection
\* that was up is up again, closed, or has a chain at work on it.
THEOREM NeverLeftAlone == Spec => []Retrying
<1>1. IInv => Retrying
  BY DEF IInv
<1> QED
  BY <1>1, Invariance, PTL

\* The flag connected keeps the chains and the streams apart until a reset: at
\* most one of each, and no chain while connected.
THEOREM OneAtATime == Spec => []OneChain
<1>1. ASSUME IInv, NoResetYet
      PROVE  /\ Cardinality(Active) <= 1 /\ Cardinality(alive) <= 1
             /\ connected => Active = {}
  <2>1. ASSUME NEW S, \A a, b \in S : a = b PROVE Cardinality(S) <= 1
    <3>1. CASE S = {}
      BY <3>1, FS_EmptySet
    <3>2. CASE S # {}
      <4>1. PICK a : S = {a}
        BY <2>1, <3>2
      <4> QED
        BY <4>1, FS_Singleton
    <3> QED
      BY <3>1, <3>2
  <2>2. \A s, t \in alive : s = t
    BY <1>1 DEF IInv, Alone
  <2>3. \A c, d \in Active : c = d
    BY <1>1 DEF IInv, Alone
  <2>4. connected => Active = {}
    BY <1>1 DEF IInv, Alone
  <2> QED
    BY <2>1, <2>2, <2>3, <2>4
<1>2. IInv => OneChain
  BY <1>1 DEF OneChain
<1> QED
  BY <1>2, Invariance, PTL

\* The heartbeat timer runs exactly while the connection is up, until a reset,
\* unless close() came in a login or in the half second of a stream.
THEOREM HeartbeatIsConnected == Spec => []HeartbeatFollows
<1>1. IInv => HeartbeatFollows
  BY DEF IInv
<1> QED
  BY <1>1, Invariance, PTL

\* Whenever close() comes, no chain is started any more; a closed connection is
\* silent for good, unless close() came in a login or in the half second of a
\* stream.
THEOREM CloseIsFinal == Spec => []ClosedStaysClosed /\ NoNewChain
<1>1. IInv => ClosedStaysClosed
  BY DEF IInv, Silent, ClosedStaysClosed
<1>2. ASSUME closed, [Next]_vars PROVE closed' /\ chains' = chains
  BY <1>2, Steps DEF CreateClients, CheckPassed, CheckFailed, Settled, BackoffOver, own,
     StreamLost, StreamEnds, ResetArrives, Close, Closes, ServerDies, vars, flow, Lost, Reconnect
<1> QED
  BY <1>1, <1>2, Invariance, PTL DEF Spec, NoNewChain

\* If no stream is lost in its half second, a connection that says it is
\* connected has an open stream until it is closed, however chains and resets
\* overlap.
THEOREM ConnectedHasStream == ASSUME ~LosesEarly PROVE Spec => []NoZombie
<1>1. IInv => NoZombie
  BY DEF IInv, Opens, NoZombie
<1> QED
  BY <1>1, Invariance, PTL

\* Every step of the connection is a step of the link or leaves it alone; that
\* the link comes back is a matter of fairness.
THEOREM LinkSafely == Spec => Link!Init /\ [][Link!Next]_(Link!vars)
<1> DEFINE up == connected /\ ~closed /\ down = {} /\ \E s \in alive : s.id = stream
           gone == closed \/ at[0] = "failed" \/ down # {}
<1>1. Init => Link!Init
  BY Constants DEF Init, Link!Init
<1>2. ASSUME IInv PROVE gone => ~up
  BY <1>2 DEF IInv, First, Silent
<1>3. ASSUME IInv, [Next]_vars PROVE gone => gone'
  <2>1. closed => closed'
    BY <1>3, Steps DEF CreateClients, CheckPassed, CheckFailed, Settled, BackoffOver, own,
       StreamLost, StreamEnds, ResetArrives, Close, Closes, ServerDies, vars
  <2>2. down # {} => down' # {}
    BY <1>3, Steps DEF CreateClients, CheckPassed, CheckFailed, Settled, BackoffOver,
       StreamLost, StreamEnds, ResetArrives, Close, Closes, ServerDies, vars
  <2>3. at[0] = "failed" => at'[0] = "failed"
    <3>1. TypeOK /\ First /\ 0 \in Chain
      BY <1>3, Constants DEF IInv
    <3>2. ASSUME at[0] = "failed" PROVE at'[0] = "failed"
      <4>1. alive = {} /\ broken = {} /\ at \in [Chain -> Busy \cup {"none", "done", "failed"}]
        BY <3>1, <3>2 DEF First, TypeOK
      <4>2. ASSUME NEW c \in Chain, c # 0, \E step : at' = [at EXCEPT ![c] = step]
            PROVE  at'[0] = "failed"
        BY <3>1, <3>2, <4>1, <4>2
      <4>3. ASSUME NEW c \in Chain,
                   CreateClients(c) \/ CheckPassed(c) \/ CheckFailed(c) \/ Settled(c)
                     \/ BackoffOver(c)
            PROVE  c # 0 /\ \E step : at' = [at EXCEPT ![c] = step]
        BY <3>1, <3>2, <4>3, Fails DEF CreateClients, CheckPassed, CheckFailed, Settled,
           BackoffOver, Goto
      <4>4. CASE Close \/ (\E n \in Server : ServerDies(n)) \/ UNCHANGED vars
        BY <3>2, <4>4 DEF Close, Closes, ServerDies, vars, flow
      <4> QED
        BY <1>3, <4>1, <4>2, <4>3, <4>4, Steps
    <3> QED
      BY <3>2
  <2> QED
    BY <2>1, <2>2, <2>3
<1>4. IInv /\ IInv' /\ [Next]_vars => [Link!Next]_(Link!vars)
  <2> SUFFICES ASSUME IInv, IInv', [Next]_vars
               PROVE  [Link!Next]_(Link!vars)
    OBVIOUS
  <2>1. (gone => ~up) /\ (gone => gone') /\ (gone' => ~up')
    BY <1>2, <1>3 DEF IInv, First, Silent
  <2> QED
    BY <2>1 DEF Link!Next, Link!Establish, Link!Lose, Link!Close, Link!vars
<1> QED
  BY <1>1, <1>4, Invariance, PTL DEF Spec
=============================================================================
