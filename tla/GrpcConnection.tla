---------------------------- MODULE GrpcConnection ----------------------------
(***************************************************************************)
(* GrpcConnection of nacos-common/src/grpc/connection.ts: the handshake    *)
(* (login, server check, bidirectional stream, half a second for the       *)
(* server to take note), the loss of a stream, the server's request to     *)
(* reset, the reconnect chain with its back-off, the heartbeat timer, and  *)
(* close(), which may come at any of these moments.                        *)
(*                                                                         *)
(* A chain is one run of connect() or of scheduleReconnect(), which calls  *)
(* itself after a failed handshake.  Nothing in the code makes chains      *)
(* exclude each other, and the listeners of a stream stay when another     *)
(* stream takes its place; both are kept here as they are.                 *)
(***************************************************************************)
EXTENDS Naturals, FiniteSets

CONSTANTS NumServers,   \* length of serverList
          MaxFaults,    \* bound on the failures of server checks
          MaxLosses,    \* bound on the streams lost while their server lives
          MaxResets,    \* bound on the server's requests to reset
          MaxDeaths,    \* bound on the servers that go down for good
          MaxChains,    \* bound on the reconnect chains
          LosesEarly    \* whether a stream may be lost within its half second

ASSUME GrpcConnectionAssumption ==
    /\ NumServers \in Nat \ {0}
    /\ MaxFaults \in Nat /\ MaxLosses \in Nat /\ MaxResets \in Nat
    /\ MaxDeaths \in 0 .. NumServers - 1 /\ MaxChains \in Nat
    /\ LosesEarly \in BOOLEAN

Server == 0 .. NumServers - 1
Chain  == 0 .. MaxChains
None   == NumServers   \* no clients

VARIABLES
    connected,  \* the flag
    closed,     \* the flag
    index,      \* currentServerIndex, modulo the length of the list
    client,     \* server of requestClient and biStreamClient, None when null
    stream,     \* biStream: the number of a stream, 0 when null
    opened,     \* number of streams opened so far
    alive,      \* the open streams, with their servers
    broken,     \* streams that have had their 'error' and not yet their 'end'
    heartbeat,  \* the heartbeat timer runs
    chains,     \* number of reconnect chains started so far
    at,         \* at[c]: where chain c stands
    peer,       \* peer[c]: the server chain c checks, the stream it opened, or
                \* the last stream opened when its back-off began
    down,       \* servers that are gone
    late,       \* history: close() came in a login or a stream's half second
    budget      \* what is left of the bounds on faults, losses and resets

own  == <<connected, closed, index, client, stream, heartbeat>>
wire == <<opened, alive, broken>>
flow == <<chains, at, peer>>
vars == <<own, wire, flow, down, late, budget>>

Busy == {"backoff", "login", "check", "settle"}
Active == {c \in Chain : at[c] \in Busy}

Spend(what) ==
    /\ budget[what] > 0
    /\ budget' = [budget EXCEPT ![what] = @ - 1]

-----------------------------------------------------------------------------
Init ==
    /\ connected = FALSE /\ closed = FALSE /\ index = 0
    /\ client = None /\ stream = 0 /\ opened = 0 /\ alive = {} /\ broken = {}
    /\ heartbeat = FALSE
    /\ chains = 0
    /\ at = [c \in Chain |-> IF c = 0 THEN "login" ELSE "none"]
    /\ peer = [c \in Chain |-> 0]
    /\ down = {} /\ late = FALSE
    /\ budget = [faults |-> MaxFaults, losses |-> MaxLosses, resets |-> MaxResets,
                 deaths |-> MaxDeaths]

Goto(c, step) == at' = [at EXCEPT ![c] = step]

\* The login is over, successful or not; the clients are made, whatever has
\* happened to the connection meanwhile, and the server check is sent.
CreateClients(c) ==
    /\ at[c] = "login"
    /\ Goto(c, "check")
    /\ client' = index
    /\ peer' = [peer EXCEPT ![c] = index]
    /\ UNCHANGED <<connected, closed, index, stream, heartbeat, wire, chains, down, late, budget>>

\* A chain begins its back-off.
Backoff(c) ==
    /\ Goto(c, "backoff")
    /\ peer' = [peer EXCEPT ![c] = opened]
    /\ heartbeat' = FALSE

\* Faulty variant: a failed reconnect is not tried again.
FailedGivesUp(c) == Goto(c, "failed") /\ UNCHANGED <<heartbeat, peer>>

\* The handshake throws: connect() rejects, a reconnect is scheduled again.
Failed(c) ==
    IF c = 0 \/ closed
      THEN Goto(c, "failed") /\ UNCHANGED <<heartbeat, peer>>
      ELSE Backoff(c)

\* The server check passes and the stream is opened on the clients there are
\* now, which close() may have taken away.
CheckPassed(c) ==
    /\ at[c] = "check" /\ peer[c] \notin down
    /\ IF client = None
         THEN Failed(c) /\ UNCHANGED <<stream, opened, alive>>
         ELSE /\ opened' = opened + 1
              /\ stream' = opened'
              /\ alive' = alive \cup {[id |-> opened', server |-> client]}
              /\ peer' = [peer EXCEPT ![c] = opened']
              /\ Goto(c, "settle")
              /\ UNCHANGED heartbeat
    /\ UNCHANGED <<connected, closed, index, client, broken, chains, down, late, budget>>

\* The check fails or takes more than its three seconds.
CheckFailed(c) ==
    /\ at[c] = "check"
    /\ IF closed \/ peer[c] \in down THEN UNCHANGED budget ELSE Spend("faults")
    /\ Failed(c)
    /\ UNCHANGED <<connected, closed, index, client, stream, wire, chains, down, late>>

\* Faulty variant: the heartbeat timer of the new connection is not started.
SettledSilently(c) ==
    /\ at[c] = "settle"
    /\ connected' = TRUE
    /\ Goto(c, "done")
    /\ UNCHANGED <<closed, index, client, stream, heartbeat, wire, chains, peer, down, late, budget>>

\* The half second is over: neither the stream nor close() is asked about.
\* Timers of equal length fire in the order they were set.
Settled(c) ==
    /\ at[c] = "settle"
    /\ \A d \in Chain : at[d] = "settle" => peer[c] <= peer[d]
    /\ connected' = TRUE
    /\ heartbeat' = TRUE
    /\ Goto(c, "done")
    /\ UNCHANGED <<closed, index, client, stream, wire, chains, peer, down, late, budget>>

\* The back-off is at least a second: the events under way and the half seconds
\* that were running when it began are over.
BackoffOver(c) ==
    /\ at[c] = "backoff" /\ broken = {}
    /\ \A d \in Chain : at[d] = "settle" => peer[d] > peer[c]
    /\ Goto(c, IF closed THEN "failed" ELSE "login")
    /\ UNCHANGED <<own, wire, chains, peer, down, late, budget>>

\* scheduleReconnect(), unless the connection is closed.
Reconnect ==
    IF closed
      THEN UNCHANGED <<chains, at, peer, heartbeat>>
      ELSE /\ chains < MaxChains
           /\ chains' = chains + 1
           /\ Backoff(chains')

\* Faulty variant: the listener only logs.
LostLogged == UNCHANGED <<connected, flow, heartbeat>>

\* The 'error' and 'end' listeners of every stream, present or old.
Lost ==
    IF connected
      THEN connected' = FALSE /\ Reconnect
      ELSE UNCHANGED <<connected, flow, heartbeat>>

Settling(s) == \E c \in Chain : at[c] = "settle" /\ peer[c] = s.id

\* A stream breaks: with an 'error', which an 'end' follows, or just an 'end'.
StreamLost(s) ==
    /\ s \in alive
    /\ IF s.server \in down THEN UNCHANGED budget ELSE Spend("losses")
    /\ LosesEarly \/ ~Settling(s)
    /\ alive' = alive \ {s}
    /\ broken' \in {broken, broken \cup {s}}
    /\ Lost
    /\ UNCHANGED <<closed, index, client, stream, opened, down, late>>

StreamEnds(s) ==
    /\ s \in broken
    /\ broken' = broken \ {s}
    /\ Lost
    /\ UNCHANGED <<closed, index, client, stream, opened, alive, down, late, budget>>

\* ConnectResetRequest on a stream: the flag is not asked about, the old stream
\* is left to the server, and a hint moves on to the next server of the list.
ResetArrives(s) ==
    /\ s \in alive
    /\ Spend("resets")
    /\ connected' = FALSE
    /\ Reconnect
    /\ \/ UNCHANGED index
       \/ ~closed /\ index' = (index + 1) % NumServers
    /\ UNCHANGED <<closed, client, stream, wire, down, late>>

\* close() ends the present stream, whose 'end' the server may answer, and drops
\* the clients; it asks no chain to stop.
Closes ==
    /\ ~closed
    /\ closed' = TRUE /\ connected' = FALSE
    /\ client' = None /\ stream' = 0
    /\ alive' = {s \in alive : s.id # stream}
    /\ broken' \in {broken, broken \cup (alive \ alive')}
    /\ late' = \E c \in Chain : at[c] \in {"login", "settle"}
    /\ UNCHANGED <<index, opened, flow, down, budget>>

\* Faulty variant: closing leaves the timer running.
CloseKeepsHeartbeat == Closes /\ UNCHANGED heartbeat

Close == Closes /\ heartbeat' = FALSE

\* A server goes down for good, with its streams.
ServerDies(n) ==
    /\ n \notin down /\ Spend("deaths")
    /\ down' = down \cup {n}
    /\ UNCHANGED <<own, wire, flow, late>>

Handshake(c) ==
    \/ CreateClients(c) \/ CheckPassed(c) \/ CheckFailed(c)
    \/ Settled(c) \/ BackoffOver(c)

Next ==
    \/ \E c \in Chain : Handshake(c)
    \/ \E s \in alive \cup broken : StreamLost(s) \/ StreamEnds(s) \/ ResetArrives(s)
    \/ Close
    \/ \E n \in Server : ServerDies(n)

\* Timers fire, a check is answered or times out, an 'error' is followed by its
\* 'end', and a dead server's streams break; resets, other losses, faults and close() need not happen.
Fairness ==
    /\ \A c \in Chain : WF_vars(Handshake(c))
    /\ WF_vars(\E s \in broken : StreamEnds(s))
    /\ WF_vars(\E s \in alive : s.server \in down /\ StreamLost(s))

Spec == Init /\ [][Next]_vars /\ Fairness

-----------------------------------------------------------------------------
\* Type correctness.
TypeOK ==
    /\ connected \in BOOLEAN /\ closed \in BOOLEAN /\ heartbeat \in BOOLEAN
    /\ index \in Server /\ client \in Server \cup {None}
    /\ opened \in Nat /\ stream \in 0 .. opened
    /\ alive \subseteq [id : 1 .. opened, server : Server]
    /\ broken \subseteq [id : 1 .. opened, server : Server]
    /\ chains \in Chain
    /\ at \in [Chain -> Busy \cup {"none", "done", "failed"}]
    /\ peer \in [Chain -> Nat]
    /\ down \subseteq Server /\ late \in BOOLEAN
    /\ budget \in [{"faults", "losses", "resets", "deaths"} -> Nat]

\* A connection that says it is connected has an open stream: what the server
\* pushes arrives.  True until it is closed, unless the stream is lost within
\* its half second.
NoZombie == connected /\ ~closed => \E s \in alive : s.id = stream

\* Once connected, a connection that is not closed is connected or has a chain
\* at work on it: no loss, reset or failure leaves it alone.
Retrying ==
    at[0] = "done" /\ ~closed /\ ~connected => Active # {}

\* No server has asked for a reset yet.
NoResetYet == budget["resets"] = MaxResets

\* Until a reset the flag keeps chains apart: one connection is lost once, so
\* there is one chain, and one stream, at a time, and none while connected.
OneChain ==
    NoResetYet =>
       /\ Cardinality(Active) <= 1 /\ Cardinality(alive) <= 1
       /\ connected => Active = {}

\* The heartbeat timer runs exactly while the connection is up.  A chain that
\* fails stops the timer whoever started it, so this needs OneChain.
HeartbeatFollows == NoResetYet /\ ~late => (heartbeat <=> connected)

\* Shutdown (feature-matrix-spec.md:59): a closed connection is disconnected,
\* has no timer and, once no chain is at work on it, no stream but those a reset
\* has left to the server.  Only a handshake that close() met in its login or in
\* its half second brings a closed connection back.
ClosedStaysClosed ==
    closed =>
       /\ connected \/ heartbeat => late
       /\ Active = {} /\ ~late /\ NoResetYet => alive = {}

\* Nobody starts a chain on a closed connection, however it was closed.
NoNewChain == [][closed => closed' /\ chains' = chains]_vars

\* The connection gives its users a link that comes back, if the first
\* connect() succeeds and the servers stay: the link of a connection that never
\* was up, or whose servers go, is closed.
Link == INSTANCE ServerLink WITH
    up     <- connected /\ ~closed /\ down = {} /\ \E s \in alive : s.id = stream,
    closed <- closed \/ at[0] = "failed" \/ down # {}

ImplementsLink == Link!Spec
=============================================================================
