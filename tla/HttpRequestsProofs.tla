------------------------- MODULE HttpRequestsProofs -------------------------
(***************************************************************************)
(* Proofs about HttpRequests for every set of lists and servers and every  *)
(* bound.  The verdict of a publication is kept honest by what is known of *)
(* it while it is under way (Honest).  That a lone request asks every      *)
(* server needs more than a count: the servers it has asked are those that *)
(* lie, on the circle of the list, just before the index (Follows).        *)
(***************************************************************************)
EXTENDS HttpRequests, TLAPS

\* How far place j of a circle of n lies before the place in front of index.
Before(n, index, j) == IF j <= index THEN index - j ELSE (index - j) + n

\* The first attempt goes to the current server, the others along the list.
Follows(q, c) ==
    q.phase = "sent" /\ q.alone =>
        \A j \in 1 .. Len(Hosts(c)) :
           Before(Len(Hosts(c)), c.index, j) < q.tries - 1 => Hosts(c)[j] \in q.tried

\* Until a publication is over it was applied at most if an answer was lost.
Honest(q) ==
    /\ q.phase = "address" => q.tries = 0
    /\ q.phase = "sent" => q.tries > 0
    /\ q.phase # "done" => q.result = "none" /\ (q.applied >= 1 => q.lost)
    /\ q.result = "true" => q.applied >= 1 \/ q.missing
    /\ q.result = "false" => q.applied = 0 \/ q.lost
    /\ q.applied > 1 => q.lost

Sound(q) == q \in Publication /\ Honest(q)

\* The index of a list is one of its places.
CacheOK(c) ==
    \/ c = Absent
    \/ c \in List /\ (c.hosts = <<>> \/ c.index < Len(c.hosts))

IInv ==
    /\ TypeOK /\ CacheOK(cache)
    /\ \A r \in Request : fetch[r] # "none" => request[r].phase = "address"
    /\ \A r \in Request : Sound(request[r]) /\ Follows(request[r], cache)
-----------------------------------------------------------------------------
\* A publication with one field replaced is one.
LEMMA FieldReplaced ==
    ASSUME NEW q \in Publication
    PROVE  /\ \A v \in {"idle", "address", "sent", "done"} :
                 [q EXCEPT !.phase = v] \in Publication
           /\ \A v \in Server \cup {NoServer} : [q EXCEPT !.target = v] \in Publication
           /\ \A v \in {0} \cup Request : [q EXCEPT !.casMd5 = v] \in Publication
           /\ \A v \in 0 .. MaxTries : [q EXCEPT !.tries = v] \in Publication
           /\ \A v \in {"none", "true", "false", "error"} :
                 [q EXCEPT !.result = v] \in Publication
           /\ \A v \in SUBSET (Server \cup {NoServer}) : [q EXCEPT !.tried = v] \in Publication
           /\ \A v \in Nat : [q EXCEPT !.applied = v] \in Publication
           /\ \A v \in BOOLEAN :
                 /\ [q EXCEPT !.alone = v] \in Publication
                 /\ [q EXCEPT !.lost = v] \in Publication
                 /\ [q EXCEPT !.missing = v] \in Publication
  BY DEF Publication

\* A publication that is sent once more.
LEMMA SentToSound ==
    ASSUME NEW q, Sound(q), q.phase # "done", q.tries < MaxTries,
           NEW s \in Server \cup {NoServer}
    PROVE  /\ Sound(SentTo(q, s)) /\ SentTo(q, s).phase = "sent"
           /\ SentTo(q, s).tries = q.tries + 1 /\ SentTo(q, s).alone = q.alone
           /\ SentTo(q, s).tried = q.tried \cup {s}
<1> DEFINE r  == SentTo(q, s)
           q1 == [q EXCEPT !.phase = "sent"]
           q2 == [q1 EXCEPT !.target = s]
           q3 == [q2 EXCEPT !.tries = q.tries + 1]
<1>1. q \in Publication /\ Honest(q)
  BY DEF Sound
<1>2. q.tries + 1 \in 1 .. MaxTries /\ q.tried \cup {s} \in SUBSET (Server \cup {NoServer})
  BY <1>1, HttpRequestsAssumption DEF Publication
<1>3. r \in Publication
  <2>1. q1 \in Publication
    BY <1>1, FieldReplaced
  <2>2. q2 \in Publication
    BY <2>1, FieldReplaced
  <2>3. q.tries + 1 \in 0 .. MaxTries
    BY <1>2
  <2>4. q3 \in Publication
    BY <2>2, <2>3, FieldReplaced
  <2>5. [q3 EXCEPT !.tried = q.tried \cup {s}] \in Publication
    BY <1>2, <2>4, FieldReplaced
  <2> QED
    BY <2>5 DEF SentTo
<1>4. /\ r.phase = "sent" /\ r.tries = q.tries + 1 /\ r.alone = q.alone
      /\ r.tried = q.tried \cup {s} /\ r.result = q.result /\ r.applied = q.applied
      /\ r.lost = q.lost /\ r.missing = q.missing
  BY <1>1 DEF SentTo, Publication
<1> HIDE DEF r
<1>5. Honest(r)
  BY <1>1, <1>2, <1>4 DEF Honest
<1> QED
  BY <1>3, <1>4, <1>5 DEF Sound, r

\* Idle is a publication.
LEMMA IdleTyped == Idle \in Publication
  BY HttpRequestsAssumption DEF Idle, Publication

\* A publication that is over, with a verdict that is true to what happened.
LEMMA EndedSound ==
    ASSUME NEW q \in Publication, NEW result \in {"true", "false", "error"},
           result = "true" => q.applied >= 1 \/ q.missing,
           result = "false" => q.applied = 0 \/ q.lost,
           q.applied > 1 => q.lost
    PROVE  Sound(Ended(q, result)) /\ Ended(q, result).phase = "done"
<1> DEFINE r  == Ended(q, result)
           q1 == [Idle EXCEPT !.phase = "done"]
           q2 == [q1 EXCEPT !.result = result]
           q3 == [q2 EXCEPT !.applied = q.applied]
           q4 == [q3 EXCEPT !.lost = q.lost]
<1>1. r \in Publication
  <2>1. q1 \in Publication
    BY IdleTyped, FieldReplaced
  <2>2. q2 \in Publication
    BY <2>1, FieldReplaced
  <2>3. q.applied \in Nat /\ q.lost \in BOOLEAN /\ q.missing \in BOOLEAN
    BY DEF Publication
  <2>4. q3 \in Publication
    BY <2>2, <2>3, FieldReplaced
  <2>5. q4 \in Publication
    BY <2>3, <2>4, FieldReplaced
  <2>6. [q4 EXCEPT !.missing = q.missing] \in Publication
    BY <2>3, <2>5, FieldReplaced
  <2> QED
    BY <2>6 DEF Ended
<1>2. /\ r.phase = "done" /\ r.result = result /\ r.applied = q.applied
      /\ r.lost = q.lost /\ r.missing = q.missing
  BY IdleTyped DEF Ended, Publication
<1> HIDE DEF r
<1>3. Honest(r)
  BY <1>2 DEF Honest
<1> QED
  BY <1>1, <1>2, <1>3 DEF Sound, r

\* A publication that begins.
LEMMA BeginSound ==
    ASSUME NEW c \in {0} \cup Request
    PROVE  LET q == [Idle EXCEPT !.casMd5 = c]
               a == [q EXCEPT !.phase = "address"]
           IN  /\ Sound(q) /\ q.phase = "idle" /\ q.tries = 0
               /\ Sound(a) /\ a.phase = "address"
<1> DEFINE q == [Idle EXCEPT !.casMd5 = c]
           a == [q EXCEPT !.phase = "address"]
<1>1. q \in Publication /\ a \in Publication
  BY IdleTyped, FieldReplaced
<1>2. /\ q.phase = "idle" /\ q.tries = 0 /\ q.result = "none" /\ q.applied = 0
      /\ a.phase = "address" /\ a.tries = 0 /\ a.result = "none" /\ a.applied = 0
  BY DEF Idle
<1> HIDE DEF q, a
<1>3. Honest(q) /\ Honest(a)
  BY <1>2 DEF Honest
<1> QED
  BY <1>1, <1>2, <1>3 DEF Sound, q, a

\* What the other requests become when the list was changed under them.
LEMMA Disturbed ==
    ASSUME NEW rs, NEW e \in Process, \A r \in Request : Sound(rs[r])
    PROVE  /\ Disturb(rs, e) \in [Request -> Publication]
           /\ \A r \in Request :
                 /\ Sound(Disturb(rs, e)[r]) /\ Disturb(rs, e)[r].phase = rs[r].phase
                 /\ Disturb(rs, e)[r].tries = rs[r].tries
                 /\ Disturb(rs, e)[r].tried = rs[r].tried
                 /\ r # e /\ rs[r].phase = "sent" => ~Disturb(rs, e)[r].alone
                 /\ r = e => Disturb(rs, e)[r].alone = rs[r].alone
<1>1. ASSUME NEW r \in Request
      PROVE  /\ Sound(Disturb(rs, e)[r]) /\ Disturb(rs, e)[r].phase = rs[r].phase
             /\ Disturb(rs, e)[r].tries = rs[r].tries
             /\ Disturb(rs, e)[r].tried = rs[r].tried
             /\ r # e /\ rs[r].phase = "sent" => ~Disturb(rs, e)[r].alone
             /\ r = e => Disturb(rs, e)[r].alone = rs[r].alone
  <2> DEFINE q == rs[r]
             a == q.alone /\ (r = e \/ q.phase # "sent")
             d == Disturb(rs, e)[r]
  <2>1. q \in Publication /\ Honest(q)
    BY <1>1 DEF Sound
  <2>2. d = [q EXCEPT !.alone = a] /\ a \in BOOLEAN
    BY <1>1 DEF Disturb
  <2> HIDE DEF a, d
  <2>3. d \in Publication
    BY <2>1, <2>2, FieldReplaced
  <2>4. /\ d.phase = q.phase /\ d.tries = q.tries /\ d.tried = q.tried /\ d.alone = a
        /\ d.result = q.result /\ d.applied = q.applied /\ d.lost = q.lost
        /\ d.missing = q.missing
    BY <2>1, <2>2 DEF Publication
  <2>5. Honest(d)
    BY <2>1, <2>4 DEF Honest
  <2>6. q.alone \in BOOLEAN
    BY <2>1 DEF Publication
  <2> QED
    BY <2>3, <2>4, <2>5, <2>6 DEF Sound, a, d
<1>2. Disturb(rs, e) = [r \in Request |-> Disturb(rs, e)[r]]
  BY DEF Disturb
<1>3. Disturb(rs, e) \in [Request -> Publication]
  BY <1>1, <1>2 DEF Sound
<1> QED
  BY <1>1, <1>3
-----------------------------------------------------------------------------
\* At its first attempt a publication has followed the list nowhere yet.
LEMMA FirstTry ==
    ASSUME NEW q, NEW c, CacheOK(c), q.tries = 1
    PROVE  Follows(q, c)
<1>1. CASE Hosts(c) = <<>>
  BY <1>1 DEF Follows
<1>2. CASE Hosts(c) # <<>>
  <2>1. c \in List /\ c.index < Len(c.hosts) /\ Hosts(c) = c.hosts
    BY <1>2 DEF CacheOK, Hosts
  <2>2. c.index \in Nat /\ c.hosts \in Seq(Server)
    BY <2>1, HttpRequestsAssumption DEF List
  <2>3. \A j \in 1 .. Len(Hosts(c)) : ~(Before(Len(Hosts(c)), c.index, j) < q.tries - 1)
    BY <2>1, <2>2 DEF Before
  <2> QED
    BY <2>3 DEF Follows
<1> QED
  BY <1>1, <1>2

\* A rotation goes on to the next place of the list and makes its server the
\* current one.
LEMMA Rotates ==
    ASSUME NEW c, CacheOK(c), Hosts(c) # <<>>
    PROVE  LET n == Len(c.hosts)
               i == IF c.index + 1 = n THEN 0 ELSE c.index + 1
           IN  /\ c.index \in 0 .. n - 1 /\ n \in Nat /\ c.hosts \in Seq(Server)
               /\ Hosts(c) = c.hosts
               /\ Rotated(c).cache \in List /\ CacheOK(Rotated(c).cache)
               /\ Hosts(Rotated(c).cache) = c.hosts
               /\ Rotated(c).cache.index = i
               /\ Rotated(c).current = c.hosts[c.index + 1]
               /\ Rotated(c).current \in Server
<1> DEFINE n == Len(c.hosts)
           i == IF c.index + 1 = n THEN 0 ELSE c.index + 1
           d == Rotated(c).cache
<1>1. c \in List /\ c.index < n /\ Hosts(c) = c.hosts
  BY DEF CacheOK, Hosts
<1>2. c.index \in Nat /\ c.hosts \in Lists \cup {<<>>} /\ c.hosts \in Seq(Server)
  BY <1>1, HttpRequestsAssumption DEF List
<1>3. n \in Nat /\ c.index \in 0 .. n - 1
  BY <1>1, <1>2
<1>4. (c.index + 1) % n = i
  <2>1. CASE c.index + 1 = n
    BY <1>3, <2>1
  <2>2. CASE c.index + 1 < n
    BY <1>3, <2>2
  <2> QED
    BY <1>3, <2>1, <2>2
<1>5. d = [c EXCEPT !.index = (c.index + 1) % n]
  BY <1>1 DEF Rotated
<1>6. d = [hosts |-> c.hosts, index |-> i]
  BY <1>1, <1>4, <1>5 DEF List
<1>7. i \in Nat /\ i < n
  BY <1>3
<1>8. d \in List
  BY <1>2, <1>6, <1>7 DEF List
<1>9. d # Absent
  BY <1>2, <1>6, <1>7, HttpRequestsAssumption
<1>10. Hosts(d) = c.hosts
  BY <1>6, <1>9 DEF Hosts
<1>11. CacheOK(d)
  BY <1>6, <1>7, <1>8 DEF CacheOK
<1>12. Rotated(c).current = c.hosts[c.index + 1]
  BY <1>1 DEF Rotated
<1>13. c.hosts[c.index + 1] \in Server
  BY <1>2, <1>3
<1> QED
  BY <1>1, <1>2, <1>3, <1>6, <1>8, <1>10, <1>11, <1>12, <1>13

\* What a rotation leaves of the list and of the current server is sound.
LEMMA RotatedSound ==
    ASSUME NEW c, CacheOK(c), current \in Server \cup {NoServer}
    PROVE  /\ CacheOK(Rotated(c).cache) /\ Rotated(c).cache \in List \cup {Absent}
           /\ Rotated(c).current \in Server \cup {NoServer}
<1>1. CASE Hosts(c) = <<>>
  BY <1>1 DEF Rotated, CacheOK
<1>2. CASE Hosts(c) # <<>>
  BY <1>2, Rotates
<1> QED
  BY <1>1, <1>2

\* A publication that has the rotation to itself follows the list.
LEMMA FollowsOn ==
    ASSUME NEW q, NEW r, NEW c, CacheOK(c), Follows(q, c), q.phase = "sent",
           q.tries \in Nat,
           r.tries = q.tries + 1, r.alone = q.alone,
           r.tried = q.tried \cup {Rotated(c).current}
    PROVE  Follows(r, Rotated(c).cache)
<1> SUFFICES ASSUME r.alone PROVE Follows(r, Rotated(c).cache)
  BY DEF Follows
<1>1. CASE Hosts(c) = <<>>
  BY <1>1 DEF Rotated, Follows
<1>2. CASE Hosts(c) # <<>>
  <2> DEFINE n == Len(c.hosts)
             i == IF c.index + 1 = n THEN 0 ELSE c.index + 1
  <2>1. /\ c.index \in 0 .. n - 1 /\ n \in Nat /\ Hosts(c) = c.hosts
        /\ Hosts(Rotated(c).cache) = c.hosts /\ Rotated(c).cache.index = i
        /\ Rotated(c).current = c.hosts[c.index + 1]
    BY <1>2, Rotates
  <2>2. \A j \in 1 .. n : Before(n, c.index, j) < q.tries - 1 => c.hosts[j] \in q.tried
    BY <2>1 DEF Follows
  <2>3. ASSUME NEW j \in 1 .. n, Before(n, i, j) < (q.tries + 1) - 1
        PROVE  c.hosts[j] \in r.tried
    <3>1. CASE j = c.index + 1
      BY <2>1, <3>1
    <3>2. CASE j # c.index + 1
      <4>1. Before(n, i, j) = Before(n, c.index, j) + 1
        <5>1. ASSUME NEW m \in Nat, NEW k \in 0 .. m - 1, NEW h \in 1 .. m, h # k + 1
              PROVE  Before(m, IF k + 1 = m THEN 0 ELSE k + 1, h) = Before(m, k, h) + 1
          BY <5>1 DEF Before
        <5> QED
          BY <2>1, <3>2, <5>1
      <4>2. Before(n, c.index, j) \in Int
        BY <2>1 DEF Before
      <4>3. Before(n, c.index, j) < q.tries - 1
        BY <2>3, <4>1, <4>2
      <4> QED
        BY <2>2, <4>3
    <3> QED
      BY <3>1, <3>2
  <2> QED
    BY <2>1, <2>3 DEF Follows
<1> QED
  BY <1>1, <1>2

\* A step of one publication, with or without a change of the list.
LEMMA Replaced ==
    ASSUME IInv, NEW r \in Request, NEW q, Sound(q), Follows(q, cache'),
           \/ request' = [request EXCEPT ![r] = q] /\ UNCHANGED cache
           \/ request' = Disturb([request EXCEPT ![r] = q], r)
    PROVE  /\ request' \in [Request -> Publication]
           /\ \A s \in Request : Sound(request'[s]) /\ Follows(request'[s], cache')
           /\ \A s \in Request : s # r => request'[s].phase = request[s].phase
           /\ request'[r].phase = q.phase
<1> DEFINE rs == [request EXCEPT ![r] = q]
<1>1. request \in [Request -> Publication] /\ q \in Publication
  BY DEF IInv, TypeOK, Sound
<1>2. /\ rs \in [Request -> Publication] /\ rs[r] = q
      /\ \A s \in Request : s # r => rs[s] = request[s]
  BY <1>1
<1>3. \A s \in Request : Sound(rs[s])
  BY <1>2 DEF IInv
<1>4. CASE request' = rs /\ UNCHANGED cache
  BY <1>2, <1>3, <1>4 DEF IInv
<1>5. CASE request' = Disturb(rs, r)
  <2> HIDE DEF rs
  <2>1. r \in Process
    BY DEF Process
  <2>2. /\ request' \in [Request -> Publication]
        /\ \A s \in Request :
              /\ Sound(request'[s]) /\ request'[s].phase = rs[s].phase
              /\ request'[s].tries = rs[s].tries /\ request'[s].tried = rs[s].tried
              /\ s # r /\ rs[s].phase = "sent" => ~request'[s].alone
              /\ s = r => request'[s].alone = rs[s].alone
    BY <1>3, <1>5, <2>1, Disturbed
  <2>3. \A s \in Request : Follows(request'[s], cache')
    <3>1. Follows(request'[r], cache')
      BY <1>2, <2>2 DEF Follows
    <3>2. \A s \in Request : s # r => Follows(request'[s], cache')
      BY <1>2, <2>2 DEF Follows
    <3> QED
      BY <3>1, <3>2
  <2> QED
    BY <1>2, <2>2, <2>3
<1> QED
  BY <1>4, <1>5
-----------------------------------------------------------------------------
\* The initial states satisfy the inductive invariant.
LEMMA InitEstablishes == Init => IInv
<1> SUFFICES ASSUME Init PROVE IInv
  OBVIOUS
<1>1. Sound(Idle) /\ Idle.phase = "idle"
  <2>1. Honest(Idle)
    BY DEF Honest, Idle
  <2> QED
    BY <2>1, IdleTyped DEF Sound, Idle
<1>2. /\ request \in [Request -> Publication]
      /\ \A r \in Request : Sound(request[r]) /\ Follows(request[r], cache)
  BY <1>1 DEF Init, Sound, Follows
<1>3. \A r \in Request : fetch[r] = "none"
  BY DEF Init, Process
<1>4. CacheOK(cache) /\ cache \in List \cup {Absent}
  <2>1. CASE direct
    <3>1. cache = [hosts |-> offered, index |-> 0] /\ offered \in Lists
      BY <2>1 DEF Init
    <3>2. offered \in Seq(Server) /\ offered # <<>>
      BY <3>1, HttpRequestsAssumption
    <3>3. 0 < Len(offered)
      BY <3>2
    <3>4. cache \in List /\ cache.index = 0 /\ cache.hosts = offered
      BY <3>1 DEF List
    <3> QED
      BY <3>3, <3>4 DEF CacheOK
  <2>2. CASE ~direct
    BY <2>2 DEF Init, CacheOK
  <2> QED
    BY <2>1, <2>2
<1>5. /\ direct \in BOOLEAN /\ closed \in BOOLEAN /\ current \in Server \cup {NoServer}
      /\ stored \in Lists \cup {<<>>, <<Broken>>} /\ offered \in Lists
      /\ dead \in SUBSET Server /\ content \in {0} \cup Request
  BY DEF Init
<1>6. fetch \in [Process -> {"none", "asking", "saving", "reading"}]
  BY DEF Init
<1>7. got \in [Process -> Lists \cup {<<>>}]
  BY DEF Init
<1>8. faults \in 0 .. MaxFaults /\ changes \in 0 .. MaxChanges
  BY HttpRequestsAssumption DEF Init
<1>9. TypeOK
  BY <1>2, <1>4, <1>5, <1>6, <1>7, <1>8 DEF TypeOK
<1> QED
  BY <1>2, <1>3, <1>4, <1>9 DEF IInv

\* The variables a step may change by itself.
Rest ==
    /\ direct \in BOOLEAN /\ closed \in BOOLEAN
    /\ stored \in Lists \cup {<<>>, <<Broken>>} /\ offered \in Lists
    /\ fetch \in [Process -> {"none", "asking", "saving", "reading"}]
    /\ got \in [Process -> Lists \cup {<<>>}]
    /\ dead \in SUBSET Server /\ content \in {0} \cup Request
    /\ faults \in 0 .. MaxFaults /\ changes \in 0 .. MaxChanges

LEMMA RestTyped == TypeOK <=> Rest /\ cache \in List \cup {Absent}
                              /\ current \in Server \cup {NoServer}
                              /\ request \in [Request -> Publication]
  BY DEF TypeOK, Rest

\* A step that concerns neither the list nor a publication.
LEMMA OutsideKeeps ==
    ASSUME IInv, Rest', UNCHANGED <<cache, current, request>>,
           \A r \in Request : fetch'[r] # "none" => fetch[r] # "none"
    PROVE  IInv'
<1>1. TypeOK'
  BY RestTyped DEF IInv, TypeOK, Rest
<1> QED
  BY <1>1 DEF IInv

\* An attempt has failed.
LEMMA RetryKeeps ==
    ASSUME IInv, NEW r \in Request, NEW q, Sound(q), q.phase = "sent", Follows(q, cache),
           request[r].phase = "sent", NEW error \in {"conflict", "other"},
           NEW slow \in BOOLEAN, Retry(r, q, error, slow),
           dead' \in SUBSET Server, content' \in {0} \cup Request, faults' \in 0 .. MaxFaults
    PROVE  IInv'
<1>1. PICK over \in BOOLEAN :
         /\ slow \/ q.tries = MaxTries => over
         /\ request' = Disturb([request EXCEPT ![r] =
                           IF over THEN Ended(q, Verdict(error)) ELSE SentTo(q, current')], r)
  BY DEF Retry
<1>2. /\ cache' = Rotated(cache).cache /\ current' = Rotated(cache).current
      /\ UNCHANGED <<listVars, fetchVars, changes>>
  BY DEF Retry
<1>3. CacheOK(cache) /\ current \in Server \cup {NoServer}
  BY DEF IInv, TypeOK
<1>4. /\ CacheOK(cache') /\ cache' \in List \cup {Absent}
      /\ current' \in Server \cup {NoServer}
  BY <1>2, <1>3, RotatedSound
<1>5. q \in Publication /\ Honest(q)
  BY DEF Sound
<1> DEFINE p == IF over THEN Ended(q, Verdict(error)) ELSE SentTo(q, current')
<1>6. Sound(p) /\ Follows(p, cache')
  <2>1. CASE over
    <3>1. Verdict(error) \in {"false", "error"}
      BY DEF Verdict
    <3>2. q.applied = 0 \/ q.lost
      BY <1>5 DEF Honest, Publication
    <3>3. q.applied > 1 => q.lost
      BY <1>5 DEF Honest
    <3>4. Sound(p) /\ p.phase = "done"
      BY <1>5, <2>1, <3>1, <3>2, <3>3, EndedSound
    <3> QED
      BY <3>4 DEF Follows
  <2>2. CASE ~over
    <3>1. q.tries < MaxTries
      BY <1>1, <1>5, <2>2, HttpRequestsAssumption DEF Publication
    <3>2. /\ Sound(p) /\ p.phase = "sent" /\ p.tries = q.tries + 1
          /\ p.alone = q.alone /\ p.tried = q.tried \cup {current'}
      BY <1>4, <2>2, <3>1, SentToSound
    <3>3. q.tries \in Nat
      BY <1>5 DEF Publication
    <3> HIDE DEF p
    <3>4. Follows(p, cache')
      BY <1>2, <1>3, <3>2, <3>3, FollowsOn
    <3> QED
      BY <3>2, <3>4
  <2> QED
    BY <2>1, <2>2
<1>7. /\ request' \in [Request -> Publication]
      /\ \A s \in Request : Sound(request'[s]) /\ Follows(request'[s], cache')
      /\ \A s \in Request : s # r => request'[s].phase = request[s].phase
  <2> HIDE DEF p
  <2>1. request' = Disturb([request EXCEPT ![r] = p], r)
    BY <1>1 DEF p
  <2> QED
    BY <1>6, <2>1, Replaced
<1>8. \A s \in Request : fetch'[s] # "none" => request'[s].phase = "address"
  BY <1>2, <1>7 DEF IInv, fetchVars
<1>9. Rest'
  BY <1>2 DEF Rest, listVars, fetchVars, IInv, TypeOK
<1>10. TypeOK'
  BY <1>4, <1>7, <1>9, RestTyped DEF TypeOK, Rest
<1> QED
  BY <1>4, <1>7, <1>8, <1>10 DEF IInv

\* A publication is over without a rotation.
LEMMA EndKeeps ==
    ASSUME IInv, NEW r \in Request, request[r].phase = "sent", NEW q, Sound(q),
           q.phase = "done", request' = [request EXCEPT ![r] = q],
           UNCHANGED <<cache, current, listVars, fetchVars, dead, changes>>,
           content' \in {0} \cup Request, faults' \in 0 .. MaxFaults
    PROVE  IInv'
<1>1. Follows(q, cache')
  BY DEF Follows
<1>2. /\ request' \in [Request -> Publication]
      /\ \A s \in Request : Sound(request'[s]) /\ Follows(request'[s], cache')
      /\ \A s \in Request : s # r => request'[s].phase = request[s].phase
  BY <1>1, Replaced
<1>3. \A s \in Request : fetch'[s] # "none" => request'[s].phase = "address"
  BY <1>2 DEF IInv, fetchVars
<1>4. Rest'
  BY DEF Rest, listVars, fetchVars, IInv, TypeOK
<1>5. TypeOK'
  BY <1>2, <1>4, RestTyped DEF TypeOK, Rest, IInv
<1> QED
  BY <1>2, <1>3, <1>5 DEF IInv

\* The answers to an attempt.
LEMMA AttemptKeeps == ASSUME IInv, NEW r \in Request, Attempt(r) PROVE IInv'
<1> DEFINE q == request[r]
<1>1. /\ Sound(q) /\ q \in Publication /\ Honest(q) /\ Follows(q, cache)
      /\ request \in [Request -> Publication]
  BY DEF IInv, Sound, TypeOK
<1>2. q.phase = "sent"
  BY DEF Attempt, Answered, NotFound, Conflicts, AnswerLost, Fails, Unresolved, Sent
<1>3. q.applied \in Nat /\ q.missing \in BOOLEAN /\ q.lost \in BOOLEAN
  BY <1>1 DEF Publication
<1>4. /\ q.applied >= 1 => q.lost
      /\ q.applied > 1 => q.lost
  BY <1>1, <1>2 DEF Honest
<1>5. dead \in SUBSET Server /\ content \in {0} \cup Request /\ faults \in 0 .. MaxFaults
  BY DEF IInv, TypeOK
<1>6. content' \in {0} \cup Request /\ faults' \in 0 .. MaxFaults /\ dead' \in SUBSET Server
  <2>1. CASE Answered(r)
    BY <1>5, <2>1 DEF Answered, Apply
  <2>2. CASE NotFound(r)
    BY <1>5, <2>2, HttpRequestsAssumption DEF NotFound
  <2>3. CASE Conflicts(r)
    BY <1>5, <2>3 DEF Conflicts
  <2>4. CASE AnswerLost(r)
    <3>1. faults' = faults + 1 /\ faults < MaxFaults /\ dead' = dead
      BY <2>4 DEF AnswerLost
    <3>2. content' \in {0} \cup Request
      BY <1>5, <2>4 DEF AnswerLost, Apply
    <3> QED
      BY <1>5, <3>1, <3>2, HttpRequestsAssumption
  <2>5. CASE Fails(r)
    BY <1>5, <2>5 DEF Fails
  <2>6. CASE Unresolved(r)
    BY <1>5, <2>6 DEF Unresolved
  <2> QED
    BY <2>1, <2>2, <2>3, <2>4, <2>5, <2>6 DEF Attempt
<1>7. CASE Answered(r)
  <2> DEFINE p == Applied(r)
  <2>1. p = [q EXCEPT !.applied = q.applied + 1]
    BY <1>7 DEF Answered, Applied
  <2>2. q.applied + 1 \in Nat /\ q.applied + 1 >= 1
    BY <1>3
  <2> HIDE DEF p
  <2>3. p \in Publication
    BY <1>1, <2>1, <2>2, FieldReplaced
  <2>4. p.applied = q.applied + 1 /\ p.lost = q.lost
    BY <1>1, <2>1 DEF Publication
  <2>5. Sound(Ended(p, "true")) /\ Ended(p, "true").phase = "done"
    BY <1>3, <1>4, <2>2, <2>3, <2>4, EndedSound
  <2> QED
    BY <1>2, <1>6, <1>7, <2>5, EndKeeps DEF Answered, p
<1>8. CASE NotFound(r)
  <2> DEFINE p == [q EXCEPT !.missing = TRUE]
  <2>1. p \in Publication
    BY <1>1, FieldReplaced
  <2>2. p.missing = TRUE /\ p.applied = q.applied /\ p.lost = q.lost
    BY <1>1 DEF Publication
  <2> HIDE DEF p
  <2>3. Sound(Ended(p, "true")) /\ Ended(p, "true").phase = "done"
    BY <1>4, <2>1, <2>2, EndedSound
  <2> QED
    BY <1>2, <1>6, <1>8, <2>3, EndKeeps DEF NotFound, p
<1>9. CASE Unresolved(r)
  <2>1. Sound(Ended(q, "error")) /\ Ended(q, "error").phase = "done"
    BY <1>1, <1>4, EndedSound
  <2> QED
    BY <1>2, <1>6, <1>9, <2>1, EndKeeps DEF Unresolved
<1>10. CASE Conflicts(r)
  BY <1>1, <1>2, <1>6, <1>10, RetryKeeps DEF Conflicts
<1>11. CASE AnswerLost(r)
  <2> DEFINE a == Applied(r)
             p == [a EXCEPT !.lost = TRUE]
  <2>1. PICK slow \in BOOLEAN : Retry(r, p, "other", slow)
    BY <1>11 DEF AnswerLost
  <2>2. PICK n \in Nat : a = [q EXCEPT !.applied = n]
    BY <1>3 DEF Applied
  <2>3. a \in Publication
    BY <1>1, <2>2, FieldReplaced
  <2>4. /\ a.phase = q.phase /\ a.tries = q.tries /\ a.alone = q.alone
        /\ a.tried = q.tried /\ a.result = q.result
    BY <1>1, <2>2 DEF Publication
  <2> HIDE DEF a
  <2>5. p \in Publication
    BY <2>3, FieldReplaced
  <2>6. /\ p.phase = q.phase /\ p.tries = q.tries /\ p.alone = q.alone
        /\ p.tried = q.tried /\ p.result = q.result /\ p.lost = TRUE
    BY <2>3, <2>4 DEF Publication
  <2> HIDE DEF p
  <2>7. Honest(p)
    BY <1>1, <1>2, <2>6 DEF Honest
  <2>8. Follows(p, cache)
    BY <1>1, <2>6 DEF Follows
  <2> QED
    BY <1>2, <1>6, <2>1, <2>5, <2>6, <2>7, <2>8, RetryKeeps DEF Sound
<1>12. CASE Fails(r)
  BY <1>1, <1>2, <1>6, <1>12, RetryKeeps DEF Fails
<1> QED
  BY <1>7, <1>8, <1>9, <1>10, <1>11, <1>12 DEF Attempt

\* A call begins.
LEMMA CallKeeps == ASSUME IInv, NEW r \in Request, Call(r) PROVE IInv'
<1> DEFINE q == [Idle EXCEPT !.casMd5 = content]
           a == [q EXCEPT !.phase = "address"]
<1>1. /\ CacheOK(cache) /\ cache \in List \cup {Absent}
      /\ current \in Server \cup {NoServer} /\ content \in {0} \cup Request
  BY DEF IInv, TypeOK
<1>2. /\ Sound(q) /\ q.phase = "idle" /\ q.tries = 0
      /\ Sound(a) /\ a.phase = "address"
  BY <1>1, BeginSound
<1>3. request[r].phase = "idle" /\ UNCHANGED <<listVars, got, dead, content, faults, changes>>
  BY DEF Call
<1>4. fetch[r] = "none"
  BY <1>3 DEF IInv
<1>5. ASSUME NEW s \in Server \cup {NoServer}
      PROVE  Sound(SentTo(q, s)) /\ SentTo(q, s).phase = "sent" /\ SentTo(q, s).tries = 1
  <2> HIDE DEF q
  <2>1. q.tries < MaxTries
    BY <1>2, HttpRequestsAssumption
  <2>2. Sound(SentTo(q, s)) /\ SentTo(q, s).phase = "sent" /\ SentTo(q, s).tries = q.tries + 1
    BY <1>2, <2>1, SentToSound
  <2> QED
    BY <1>2, <2>2
<1>6. CASE current # NoServer
  <2> DEFINE p == SentTo(q, current)
  <2>1. request' = [request EXCEPT ![r] = p] /\ UNCHANGED <<cache, current, fetch>>
    BY <1>6 DEF Call
  <2>2. Sound(p) /\ p.tries = 1
    BY <1>1, <1>5
  <2> HIDE DEF p
  <2>3. Follows(p, cache')
    BY <1>1, <2>1, <2>2, FirstTry
  <2>4. /\ request' \in [Request -> Publication]
        /\ \A s \in Request : Sound(request'[s]) /\ Follows(request'[s], cache')
        /\ \A s \in Request : s # r => request'[s].phase = request[s].phase
    BY <2>1, <2>2, <2>3, Replaced
  <2>5. \A s \in Request : fetch'[s] # "none" => request'[s].phase = "address"
    BY <1>4, <2>1, <2>4 DEF IInv
  <2>6. Rest'
    BY <1>3, <2>1 DEF Rest, listVars, IInv, TypeOK
  <2>7. TypeOK'
    BY <1>1, <2>1, <2>4, <2>6, RestTyped DEF TypeOK, Rest
  <2> QED
    BY <1>1, <2>1, <2>4, <2>5, <2>7 DEF IInv
<1>7. CASE current = NoServer /\ cache = Absent
  <2>1. /\ request' = [request EXCEPT ![r] = a] /\ UNCHANGED <<cache, current>>
        /\ fetch' = [fetch EXCEPT ![r] = "asking"]
    BY <1>7 DEF Call
  <2> HIDE DEF a
  <2>2. Follows(a, cache')
    BY <1>2 DEF Follows
  <2>3. /\ request' \in [Request -> Publication]
        /\ \A s \in Request : Sound(request'[s]) /\ Follows(request'[s], cache')
        /\ \A s \in Request : s # r => request'[s].phase = request[s].phase
        /\ request'[r].phase = "address"
    BY <1>2, <2>1, <2>2, Replaced
  <2>4. fetch \in [Process -> {"none", "asking", "saving", "reading"}] /\ r \in Process
    BY DEF IInv, TypeOK, Process
  <2>5. \A s \in Request : fetch'[s] # "none" => request'[s].phase = "address"
    BY <2>1, <2>3, <2>4 DEF IInv, Process
  <2>6. fetch' \in [Process -> {"none", "asking", "saving", "reading"}]
    BY <2>1, <2>4
  <2>7. Rest'
    BY <1>3, <2>6 DEF Rest, listVars, IInv, TypeOK
  <2>8. TypeOK'
    BY <1>1, <2>1, <2>3, <2>7, RestTyped DEF TypeOK, Rest
  <2> QED
    BY <1>1, <2>1, <2>3, <2>5, <2>8 DEF IInv
<1>8. CASE current = NoServer /\ cache # Absent
  <2> DEFINE p == SentTo(q, current')
  <2>1. /\ cache' = Rotated(cache).cache /\ current' = Rotated(cache).current
        /\ request' = Disturb([request EXCEPT ![r] = p], r) /\ UNCHANGED fetch
    BY <1>8 DEF Call
  <2>2. /\ CacheOK(cache') /\ cache' \in List \cup {Absent}
        /\ current' \in Server \cup {NoServer}
    BY <1>1, <2>1, RotatedSound
  <2>3. Sound(p) /\ p.tries = 1
    BY <1>5, <2>2
  <2> HIDE DEF p
  <2>4. Follows(p, cache')
    BY <2>2, <2>3, FirstTry
  <2>5. /\ request' \in [Request -> Publication]
        /\ \A s \in Request : Sound(request'[s]) /\ Follows(request'[s], cache')
        /\ \A s \in Request : s # r => request'[s].phase = request[s].phase
    BY <2>1, <2>3, <2>4, Replaced
  <2>6. \A s \in Request : fetch'[s] # "none" => request'[s].phase = "address"
    BY <1>4, <2>1, <2>5 DEF IInv
  <2>7. Rest'
    BY <1>3, <2>1 DEF Rest, listVars, IInv, TypeOK
  <2>8. TypeOK'
    BY <2>2, <2>5, <2>7, RestTyped DEF TypeOK, Rest
  <2> QED
    BY <2>2, <2>5, <2>6, <2>8 DEF IInv
<1> QED
  BY <1>6, <1>7, <1>8

\* A list has arrived, from the name server or from the snapshot.
LEMMA ListedKeeps ==
    ASSUME IInv, NEW p \in Process, NEW hosts \in Lists \cup {<<>>},
           fetch[p] # "none", Listed(p, hosts),
           stored' \in Lists \cup {<<>>, <<Broken>>}, faults' \in 0 .. MaxFaults,
           UNCHANGED <<direct, offered, closed, dead, content, changes>>
    PROVE  IInv'
<1>1. PICK i \in 0 .. IF hosts = <<>> THEN 0 ELSE Len(hosts) - 1 :
         LET list == [hosts |-> hosts, index |-> i] IN
         /\ fetch' = [fetch EXCEPT ![p] = "none"]
         /\ got' = [got EXCEPT ![p] = <<>>]
         /\ IF p = Loop
            THEN /\ cache' = list /\ request' = Disturb(request, Loop)
                 /\ UNCHANGED current
            ELSE /\ cache' = Rotated(list).cache /\ current' = Rotated(list).current
                 /\ request' = Disturb([request EXCEPT ![p] =
                                           SentTo(request[p], current')], p)
  BY DEF Listed
<1> DEFINE list == [hosts |-> hosts, index |-> i]
<1>2. /\ fetch \in [Process -> {"none", "asking", "saving", "reading"}]
      /\ got \in [Process -> Lists \cup {<<>>}] /\ current \in Server \cup {NoServer}
      /\ request \in [Request -> Publication]
      /\ \A r \in Request : Sound(request[r]) /\ Follows(request[r], cache)
  BY DEF IInv, TypeOK
<1>3. CacheOK(list) /\ list \in List
  <2>1. hosts \in Lists \cup {<<>>}
    OBVIOUS
  <2>2. hosts \in Seq(Server)
    <3>1. CASE hosts = <<>>
      BY <3>1
    <3>2. CASE hosts \in Lists
      BY <3>2, HttpRequestsAssumption
    <3> QED
      BY <3>1, <3>2
  <2>3. i \in Nat /\ (hosts # <<>> => i < Len(hosts))
    BY <2>2
  <2>4. list \in List
    BY <2>1, <2>3 DEF List
  <2> QED
    BY <2>3, <2>4 DEF CacheOK
<1>4. /\ fetch' \in [Process -> {"none", "asking", "saving", "reading"}]
      /\ got' \in [Process -> Lists \cup {<<>>}]
      /\ \A s \in Request : fetch'[s] # "none" => fetch[s] # "none" /\ s # p
  BY <1>1, <1>2 DEF Process
<1>5. Rest'
  BY <1>4 DEF Rest, IInv, TypeOK
<1>6. CASE p = Loop
  <2>1. cache' = list /\ request' = Disturb(request, Loop) /\ UNCHANGED current
    BY <1>1, <1>6
  <2> HIDE DEF list
  <2>2. /\ request' \in [Request -> Publication]
        /\ \A s \in Request :
              /\ Sound(request'[s]) /\ request'[s].phase = request[s].phase
              /\ s # Loop /\ request[s].phase = "sent" => ~request'[s].alone
    BY <1>2, <1>6, <2>1, Disturbed
  <2>3. \A s \in Request : s # Loop
    BY HttpRequestsAssumption DEF Request, Loop
  <2>4. \A s \in Request : Follows(request'[s], cache')
    BY <2>2, <2>3 DEF Follows
  <2>5. TypeOK'
    BY <1>2, <1>3, <1>5, <2>1, <2>2, RestTyped DEF TypeOK, Rest
  <2>6. \A s \in Request : fetch'[s] # "none" => request'[s].phase = "address"
    BY <1>4, <2>2 DEF IInv
  <2> QED
    BY <1>3, <2>1, <2>2, <2>4, <2>5, <2>6 DEF IInv
<1>7. CASE p # Loop
  <2> DEFINE q == SentTo(request[p], current')
  <2>1. /\ cache' = Rotated(list).cache /\ current' = Rotated(list).current
        /\ request' = Disturb([request EXCEPT ![p] = q], p)
    BY <1>1, <1>7
  <2>2. p \in Request
    BY <1>7 DEF Process
  <2>3. request[p].phase = "address" /\ Sound(request[p]) /\ request[p].tries = 0
    BY <1>2, <2>2 DEF IInv, Sound, Honest
  <2>4. /\ CacheOK(cache') /\ cache' \in List \cup {Absent}
        /\ current' \in Server \cup {NoServer}
    BY <1>2, <1>3, <2>1, RotatedSound
  <2>5. Sound(q) /\ q.tries = request[p].tries + 1
    BY <2>3, <2>4, SentToSound, HttpRequestsAssumption
  <2>6. q.tries = 1
    BY <2>3, <2>5
  <2> HIDE DEF q
  <2>7. Follows(q, cache')
    BY <2>4, <2>6, FirstTry
  <2>8. /\ request' \in [Request -> Publication]
        /\ \A s \in Request : Sound(request'[s]) /\ Follows(request'[s], cache')
        /\ \A s \in Request : s # p => request'[s].phase = request[s].phase
    BY <2>1, <2>2, <2>5, <2>7, Replaced
  <2>9. \A s \in Request : fetch'[s] # "none" => request'[s].phase = "address"
    BY <1>4, <2>8 DEF IInv
  <2>10. TypeOK'
    BY <1>5, <2>4, <2>8, RestTyped DEF TypeOK, Rest
  <2> QED
    BY <2>4, <2>8, <2>9, <2>10 DEF IInv
<1> QED
  BY <1>6, <1>7

\* The steps of fetchServerList.
LEMMA FetchKeeps ==
    ASSUME IInv, NEW p \in Process, Fetching(p) \/ NameFails(p) \/ SaveFails(p)
    PROVE  IInv'
<1>1. /\ fetch \in [Process -> {"none", "asking", "saving", "reading"}]
      /\ got \in [Process -> Lists \cup {<<>>}] /\ offered \in Lists
      /\ stored \in Lists \cup {<<>>, <<Broken>>} /\ faults \in 0 .. MaxFaults
  BY DEF IInv, TypeOK
<1>2. CASE NameAnswers(p)
  <2>1. /\ fetch' \in [Process -> {"none", "asking", "saving", "reading"}]
        /\ got' \in [Process -> Lists \cup {<<>>}]
        /\ \A r \in Request : fetch'[r] # "none" => fetch[r] # "none"
    BY <1>1, <1>2 DEF NameAnswers, Process
  <2>2. Rest'
    BY <1>2, <2>1 DEF NameAnswers, listVars, Rest, IInv, TypeOK
  <2> QED
    BY <1>2, <2>1, <2>2, OutsideKeeps DEF NameAnswers
<1>3. CASE NameFails(p)
  <2>1. /\ fetch' \in [Process -> {"none", "asking", "saving", "reading"}]
        /\ \A r \in Request : fetch'[r] # "none" => fetch[r] # "none"
    BY <1>1, <1>3 DEF NameFails, Process
  <2>2. faults' \in 0 .. MaxFaults
    BY <1>1, <1>3, HttpRequestsAssumption DEF NameFails
  <2>3. Rest'
    BY <1>3, <2>1, <2>2 DEF NameFails, listVars, Rest, IInv, TypeOK
  <2> QED
    BY <1>3, <2>1, <2>3, OutsideKeeps DEF NameFails
<1>4. CASE Saves(p)
  <2>1. got[p] \in Lists \cup {<<>>} /\ fetch[p] # "none"
    BY <1>1, <1>4 DEF Saves
  <2> QED
    BY <1>1, <1>4, <2>1, ListedKeeps DEF Saves
<1>5. CASE SaveFails(p)
  <2>1. got[p] \in Lists \cup {<<>>} /\ fetch[p] # "none"
    BY <1>1, <1>5 DEF SaveFails
  <2>2. faults' \in 0 .. MaxFaults
    BY <1>1, <1>5, HttpRequestsAssumption DEF SaveFails
  <2> QED
    BY <1>1, <1>5, <2>1, <2>2, ListedKeeps DEF SaveFails, listVars
<1>6. CASE ReadsSnapshot(p)
  <2>1. stored' \in Lists \cup {<<>>} /\ fetch[p] # "none"
    BY <1>1, <1>6 DEF ReadsSnapshot
  <2> QED
    BY <1>1, <1>6, <2>1, ListedKeeps DEF ReadsSnapshot
<1> QED
  BY <1>2, <1>3, <1>4, <1>5, <1>6 DEF Fetching

\* The loop, close and what happens around the client.
LEMMA AroundKeeps ==
    ASSUME IInv, Sync \/ Close \/ ListChanges \/ OtherPublishes \/ ServerDies
    PROVE  IInv'
<1>1. TypeOK
  BY DEF IInv
<1>2. CASE Sync
  <2>1. /\ fetch' \in [Process -> {"none", "asking", "saving", "reading"}]
        /\ \A r \in Request : fetch'[r] # "none" => fetch[r] # "none"
    BY <1>1, <1>2, HttpRequestsAssumption DEF Sync, TypeOK, Process, Request, Loop
  <2>2. Rest'
    BY <1>1, <1>2, <2>1 DEF Sync, listVars, Rest, TypeOK
  <2> QED
    BY <1>2, <2>1, <2>2, OutsideKeeps DEF Sync
<1>3. CASE Close
  <2>1. Rest'
    BY <1>1, <1>3 DEF Close, fetchVars, Rest, TypeOK
  <2> QED
    BY <1>3, <2>1, OutsideKeeps DEF Close, fetchVars
<1>4. CASE ListChanges
  <2>1. changes' \in 0 .. MaxChanges
    BY <1>1, <1>4, HttpRequestsAssumption DEF ListChanges, TypeOK
  <2>2. Rest'
    BY <1>1, <1>4, <2>1 DEF ListChanges, fetchVars, Rest, TypeOK
  <2> QED
    BY <1>4, <2>2, OutsideKeeps DEF ListChanges, fetchVars
<1>5. CASE OtherPublishes
  <2>1. changes' \in 0 .. MaxChanges
    BY <1>1, <1>5, HttpRequestsAssumption DEF OtherPublishes, TypeOK
  <2>2. Rest'
    BY <1>1, <1>5, <2>1 DEF OtherPublishes, listVars, fetchVars, Rest, TypeOK
  <2> QED
    BY <1>5, <2>2, OutsideKeeps DEF OtherPublishes, fetchVars
<1>6. CASE ServerDies
  <2>1. changes' \in 0 .. MaxChanges
    BY <1>1, <1>6, HttpRequestsAssumption DEF ServerDies, TypeOK
  <2>2. dead' \in SUBSET Server
    BY <1>1, <1>6 DEF ServerDies, TypeOK
  <2>3. Rest'
    BY <1>1, <1>6, <2>1, <2>2 DEF ServerDies, listVars, fetchVars, Rest, TypeOK
  <2> QED
    BY <1>6, <2>3, OutsideKeeps DEF ServerDies, fetchVars
<1> QED
  BY <1>2, <1>3, <1>4, <1>5, <1>6

\* Every step keeps the inductive invariant.
LEMMA StepKeeps == IInv /\ [Next]_vars => IInv'
<1> SUFFICES ASSUME IInv, [Next]_vars PROVE IInv'
  OBVIOUS
<1>1. CASE UNCHANGED vars
  <2>1. Rest'
    BY <1>1 DEF vars, Rest, IInv, TypeOK
  <2> QED
    BY <1>1, <2>1, OutsideKeeps DEF vars
<1>2. CASE Next
  BY <1>2, CallKeeps, AttemptKeeps, FetchKeeps, AroundKeeps DEF Next
<1> QED
  BY <1>1, <1>2

\* The inductive invariant holds throughout.
THEOREM Invariance == Spec => []IInv
<1> QED
  BY InitEstablishes, StepKeeps, PTL DEF Spec

\* Every variable stays in its type: no list is ever indexed outside of it,
\* and no request makes more attempts than its time allows.
THEOREM TypeCorrect == Spec => []TypeOK
<1>1. IInv => TypeOK
  BY DEF IInv
<1> QED
  BY <1>1, Invariance, PTL

\* The verdict of publishConfigCas, for any number of calls and failures: it
\* is true or false to what the servers did, as far as an answer arrived.
THEOREM VerdictIsHonest == Spec => []CasHonest
<1>1. IInv => CasHonest
  BY DEF IInv, Sound, Honest, CasHonest
<1> QED
  BY <1>1, Invariance, PTL

\* A request of HttpAgent that nobody disturbs asks every server of its list,
\* however long the list is and wherever the rotation begins.
THEOREM EveryServerTried == Spec => []TriesEveryServer
<1>1. ASSUME IInv, NEW r \in Request, request[r].phase = "sent", request[r].alone,
             request[r].tries > Len(Hosts(cache))
      PROVE  ToSet(Hosts(cache)) \subseteq request[r].tried
  <2> DEFINE n == Len(Hosts(cache))
  <2>1. /\ \A j \in 1 .. n : Before(n, cache.index, j) < request[r].tries - 1
                                => Hosts(cache)[j] \in request[r].tried
        /\ request[r].tries \in Nat /\ CacheOK(cache)
    BY <1>1 DEF IInv, Follows, TypeOK, Publication
  <2>2. CASE Hosts(cache) = <<>>
    BY <2>2 DEF ToSet
  <2>3. CASE Hosts(cache) # <<>>
    <3>1. n \in Nat /\ cache.index \in 0 .. n - 1
      BY <2>1, <2>3, Rotates
    <3>2. \A j \in 1 .. n : Before(n, cache.index, j) < n
      BY <3>1 DEF Before
    <3>3. \A j \in 1 .. n : Before(n, cache.index, j) \in Int
      BY <3>1 DEF Before
    <3>4. \A j \in 1 .. n : Hosts(cache)[j] \in request[r].tried
      BY <1>1, <2>1, <3>1, <3>2, <3>3
    <3>5. Hosts(cache) \in Seq(Server)
      BY <2>1, <2>3, Rotates
    <3> QED
      BY <3>4, <3>5 DEF ToSet
  <2> QED
    BY <2>2, <2>3
<1>2. IInv => TriesEveryServer
  BY <1>1 DEF TriesEveryServer
<1> QED
  BY <1>2, Invariance, PTL
=============================================================================
