----------------------- MODULE ConfigSubscriptionProofs -----------------------
(***************************************************************************)
(* Proofs about ConfigSubscription for any number of listeners, versions,  *)
(* editions, calls, faults and losses.  The last section has the proofs    *)
(* about the queue of KeyedQueue, which runs the operations of a key.      *)
(***************************************************************************)
EXTENDS ConfigSubscription, KeyedQueue, SequenceTheorems, TLAPS

\* An operation runs while the queue has one; only some places have a loop.
Placed ==
    /\ queue = <<>> => pc = "idle"
    /\ walk # None => pc \in {"stat", "register", "finish"}

\* A failover file that is there has been written.
Edited == file.present => file.edition > 0

\* An answer is a version the server had since the request.
Answering ==
    /\ pc \in {"fetch", "answer"} => loc.asked <= server
    /\ pc = "answer" => loc.asked <= loc.res /\ loc.res <= server

\* No listener was called with a version after v.
NoneAfter(v) == \A l \in Listener : newest[l] <= v

\* What a loop may report, once the snapshot is s: a snapshot that an answer
\* could not replace, or what is at least as new as what was reported.
Reportable(c, s, unsaved) ==
    /\ c <= server
    /\ c >= 0 => \/ unsaved /\ c = s
                 \/ NoneAfter(c) /\ (s # None /\ ~unsaved => c <= s)

\* What may still be reported is at least as new as what was.
Ordered ==
    /\ NoneAfter(server)
    /\ pc = "answer" => NoneAfter(loc.res)
    /\ snap # None => snap <= server /\ (stale \/ NoneAfter(snap))
    /\ walk # None => Reportable(walk.c, snap, stale)

FreshWhenGone == subs = <<>> => fs = FreshState

\* A removal of the listen is queued and has not begun.
Removal(i) == queue[i].type = "remove" /\ (i > 1 \/ pc = "idle")

\* Without listeners a listen that is left, or about to be made, will go.
ListenGoes ==
    ~closed /\ subs = <<>> /\ (ctx # None \/ pc = "register") =>
       \E i \in 1 .. Len(queue) : Removal(i)

Match == \A l \in Listener : seen[l] # None /\ Txt(seen[l]) = fs.content

\* A listener was called with the content, or the loop is about to call it.
Said ==
    (subs # <<>> /\ fs.content # None) =>
       IF walk = None THEN Match
       ELSE Txt(walk.c) = fs.content /\ (IF walk.i = 0 THEN Called # {} ELSE Match)

\* While the client is in a callback the application does nothing.
Undisturbed ==
    /\ walk # None \/ pc = "register" => ~closed /\ subs # <<>>
    /\ walk # None /\ ~walk.live => \A i \in 1 .. Len(walk.array) : walk.array[i] \in Range(subs)
    /\ closed => ctx = None

OneListener == \A l, m \in Listener : l = m

IInv ==
    /\ TypeOK /\ Placed /\ Edited /\ Answering /\ Ordered /\ FreshWhenGone /\ ListenGoes
    /\ OneListener => Said
    /\ ~Reentrant => Undisturbed
-----------------------------------------------------------------------------
\* Contents and their texts.
LEMMA TextTypes ==
    /\ \A c \in Contents : c \in Int /\ Txt(c) \in Texts
    /\ 0 .. MaxVersion \subseteq Contents /\ 0 \in Texts
    /\ \A n \in 1 .. MaxEditions : -n \in Contents /\ Txt(-n) = -n
    /\ None \notin Contents /\ None \notin Texts /\ None \notin Loop
<1>1. \A c \in Contents : c \in Int /\ Txt(c) \in Texts
  BY ConfigSubscriptionAssumption DEF Contents, Texts
<1>2. 0 .. MaxVersion \subseteq Contents /\ 0 \in Texts
  BY ConfigSubscriptionAssumption DEF Contents, Texts
<1>3. \A n \in 1 .. MaxEditions : -n \in Contents /\ Txt(-n) = -n
  BY ConfigSubscriptionAssumption DEF Contents, Txt
<1>4. None \notin Contents /\ None \notin Texts /\ None \notin Loop
  <2>1. \A c \in Contents : Txt(c) \in Int
    BY ConfigSubscriptionAssumption DEF Contents, Txt
  <2>2. \A w \in Loop : w \in [array : Seq(Listener), live : BOOLEAN, i : Nat, c : Int]
    BY ConfigSubscriptionAssumption DEF Loop, Contents
  <2> QED
    BY <2>1, <2>2, ConfigSubscriptionAssumption DEF Contents, Texts
<1> QED
  BY <1>1, <1>2, <1>3, <1>4

\* An entry is taken out of an array.
LEMMA Shorter ==
    ASSUME NEW S, NEW q \in Seq(S), NEW i \in 1 .. Len(q)
    PROVE  RemoveAt(q, i) \in Seq(S)
BY SubSeqProperties, ConcatProperties DEF RemoveAt

\* The initial states satisfy the inductive invariant.
LEMMA InitEstablishes == Init => IInv
<1> SUFFICES ASSUME Init PROVE IInv
  OBVIOUS
<1>0. fs = FreshState /\ FreshState \in FailoverState /\ fs.content = None
  BY TextTypes DEF Init, FreshState, FailoverState
<1>1. NoLocals \in Locals
  BY TextTypes, ConfigSubscriptionAssumption DEF NoLocals, Locals
<1>2. TypeOK
  <2>1. snap \in 0 .. MaxVersion \cup {None} /\ 1 \in 0 .. MaxVersion
    BY ConfigSubscriptionAssumption DEF Init
  <2>2. /\ seen \in [Listener -> Contents \cup {None}] /\ newest \in [Listener -> 0 .. MaxVersion]
        /\ budget \in [{"calls", "faults", "drops"} -> Nat]
        /\ file \in [edition : 0 .. MaxEditions, present : BOOLEAN]
    BY ConfigSubscriptionAssumption DEF Init
  <2>3. subs \in Seq(Listener) /\ queue \in Seq(Operation)
    BY EmptySeq DEF Init
  <2> QED
    BY <1>0, <1>1, <2>1, <2>2, <2>3 DEF Init, TypeOK, Place
<1>3. Placed /\ Edited /\ Answering /\ FreshWhenGone /\ ListenGoes /\ Said /\ Undisturbed
  BY <1>0 DEF Init, Placed, Edited, Answering, FreshWhenGone, ListenGoes, Said, Undisturbed
<1>4. Ordered
  BY ConfigSubscriptionAssumption DEF Init, Ordered, NoneAfter
<1> QED
  BY <1>2, <1>3, <1>4 DEF IInv
-----------------------------------------------------------------------------
(* What a step of the running operation can do to the state object, the      *)
(* queue and the loop.                                                       *)

\* The state object keeps its content.
Kept ==
    /\ fs' \in FailoverState
    /\ fs' = fs \/ (~closed /\ subs # <<>> /\ fs'.content = fs.content)

\* The operation ends,
Quits == EndOp /\ UNCHANGED walk /\ Kept

\* ... goes on at another place,
Goes ==
    /\ UNCHANGED <<queue, checking, walk>> /\ Kept
    /\ pc' \in Place \ {"idle"} /\ loc' \in Locals
    /\ pc' = "register" => ~closed /\ subs # <<>>

\* ... or stores a content and starts a loop that reports it.
Tells(c) ==
    /\ UNCHANGED <<queue, checking>>
    /\ ~closed /\ subs # <<>>
    /\ fs' \in FailoverState /\ fs'.content = Txt(c)
    /\ walk' \in Loop /\ walk'.c = c /\ walk'.i = 0
    /\ ~walk'.live => \E l \in Range(subs) : walk'.array = <<l>>
    /\ pc' \in {"stat", "register", "finish"} /\ loc' \in Locals

Shape ==
    /\ walk = None /\ queue # <<>>
    /\ UNCHANGED <<subs, sid, watcher, closed, up, resend, server, file, history>>
    /\ Quits \/ Goes \/ \E c \in Contents : Tells(c)

\* A loop that starts.
LEMMA LoopStarts ==
    ASSUME NEW array \in Seq(Listener), NEW live \in BOOLEAN, NEW c \in Contents, NEW step,
           Notify(array, live, c, step)
    PROVE  /\ walk' \in Loop /\ walk'.c = c /\ walk'.i = 0 /\ pc' = step
           /\ ~walk'.live => walk'.array = array
<1>1. <<>> \in Seq(Listener)
  OBVIOUS
<1> QED
  BY <1>1 DEF Notify, Loop

\* What the waiting operation does with a content that was read.
LEMMA GotShape ==
    ASSUME TypeOK, Placed, walk = None, pc # "idle", NEW c \in Contents, NEW source,
           Got(c, source)
    PROVE  /\ UNCHANGED <<subs, sid, watcher, closed>>
           /\ Quits \/ (Goes /\ pc' = "stat") \/ Tells(c)
<1> USE DEF TypeOK
<1>0. /\ UNCHANGED <<subs, sid, watcher, closed>>
      /\ InitGot(c) \/ PushGot(c) \/ CheckGot(c, source)
      /\ queue # <<>> /\ Txt(c) \in Texts
  BY TextTypes DEF Got, Placed
<1>1. Abandon => Quits
  BY DEF Abandon, Quits, Kept
<1>2. CASE InitGot(c) /\ Wanted
  <2>1. Head(queue).l \in Range(subs) /\ ~closed /\ subs # <<>> /\ InitCommit(c)
    BY <1>2 DEF InitGot, Wanted, Active
  <2>2. Head(queue).l \in Listener
    BY <2>1 DEF Range
  <2>3. loc' \in Locals
    BY <2>1 DEF InitCommit, Locals
  <2>4. CASE Txt(c) # 0
    <3>1. fs' = [fs EXCEPT !.content = Txt(c)] /\ Notify(<<Head(queue).l>>, FALSE, c, "stat")
          /\ UNCHANGED <<queue, checking>>
      BY <2>1, <2>4 DEF InitCommit
    <3>2. fs' \in FailoverState /\ fs'.content = Txt(c)
      BY <1>0, <3>1 DEF FailoverState
    <3>3. <<Head(queue).l>> \in Seq(Listener)
      BY <2>2
    <3>4. /\ walk' \in Loop /\ walk'.c = c /\ walk'.i = 0 /\ pc' = "stat"
          /\ ~walk'.live => walk'.array = <<Head(queue).l>>
      BY <3>1, <3>3, LoopStarts
    <3> QED
      BY <1>0, <2>1, <2>3, <3>1, <3>2, <3>4 DEF Tells
  <2>5. CASE Txt(c) = 0
    BY <1>0, <2>1, <2>3, <2>5 DEF InitCommit, Goes, Kept, Place
  <2> QED
    BY <2>4, <2>5
<1>3. CASE PushGot(c) /\ Active /\ ~fs.on
  <2>1. /\ ~closed /\ subs # <<>> /\ fs' = [fs EXCEPT !.content = Txt(c)]
        /\ Notify(<<>>, TRUE, c, "finish") /\ UNCHANGED <<queue, loc, checking>>
    BY <1>3 DEF PushGot, Active
  <2>2. fs' \in FailoverState /\ fs'.content = Txt(c)
    BY <1>0, <2>1 DEF FailoverState
  <2>3. walk' \in Loop /\ walk'.c = c /\ walk'.i = 0 /\ pc' = "finish" /\ walk'.live
    BY <2>1 DEF Notify, Loop
  <2> QED
    BY <1>0, <2>1, <2>2, <2>3 DEF Tells
<1>4. CASE CheckGot(c, source) /\ Active /\ source = "server"
  <2>1. ~closed /\ subs # <<>> /\ Switch(LeftFailover(c), c)
    BY <1>4 DEF CheckGot, Active
  <2>2. LeftFailover(c) \in FailoverState /\ LeftFailover(c).content = Txt(c)
    BY <1>0 DEF LeftFailover, FailoverState
  <2>3. CASE Txt(c) # fs.content
    <3>1. fs' = LeftFailover(c) /\ Notify(<<>>, TRUE, c, "finish")
          /\ UNCHANGED <<queue, loc, checking>>
      BY <2>1, <2>3 DEF Switch
    <3>2. walk' \in Loop /\ walk'.c = c /\ walk'.i = 0 /\ pc' = "finish" /\ walk'.live
      BY <3>1 DEF Notify, Loop
    <3> QED
      BY <1>0, <2>1, <2>2, <3>1, <3>2 DEF Tells
  <2>4. CASE Txt(c) = fs.content
    BY <1>0, <2>1, <2>2, <2>4 DEF Switch, Quits, Kept
  <2> QED
    BY <2>3, <2>4
<1> QED
  BY <1>0, <1>1, <1>2, <1>3, <1>4 DEF InitGot, PushGot, CheckGot

\* The local variables of an operation as it begins.
LEMMA LocalTypes == NoLocals \in Locals /\ \A s \in Nat : [NoLocals EXCEPT !.sid = s] \in Locals
<1>1. NoLocals \in Locals
  BY TextTypes, ConfigSubscriptionAssumption DEF NoLocals, Locals
<1>2. ASSUME NEW r \in Locals, NEW s \in Nat PROVE [r EXCEPT !.sid = s] \in Locals
  BY <1>2 DEF Locals
<1> QED
  BY <1>1, <1>2

\* An operation begins,
LEMMA StartShape ==
    ASSUME TypeOK, Placed, StartInit \/ StartPush \/ StartCheck \/ StartRemove
    PROVE  Shape
<1> USE DEF TypeOK
<1>1. /\ walk = None /\ queue # <<>>
      /\ UNCHANGED <<subs, sid, watcher, closed, walk, up, resend, server, file, history>>
  BY DEF StartInit, StartPush, StartCheck, StartRemove, Sync, Running, client, link, world
<1>2. \A s \in Nat : [NoLocals EXCEPT !.sid = s] \in Locals
  BY LocalTypes
<1>3. CASE StartInit
  <2>0. Head(queue) \in Operation
    BY <1>1
  <2>1. Head(queue).sid \in Nat
    BY <2>0 DEF Operation
  <2>2. EndOp \/ (pc' = "read" /\ loc' \in Locals /\ UNCHANGED <<queue, checking>>)
    BY <1>2, <1>3, <2>1 DEF StartInit
  <2> QED
    BY <1>1, <1>3, <2>2 DEF StartInit, Shape, Quits, Goes, Kept, client, Place
<1>4. CASE StartPush
  <2>1. EndOp \/ (pc' = "read" /\ loc' \in Locals /\ UNCHANGED <<queue, checking>>)
    BY <1>2, <1>4 DEF StartPush
  <2> QED
    BY <1>1, <1>4, <2>1 DEF StartPush, Shape, Quits, Goes, Kept, client, Place
<1>5. CASE StartCheck
  <2>1. CASE closed \/ subs = <<>>
    BY <1>1, <1>5, <2>1 DEF StartCheck, Shape, Quits, Kept
  <2>2. CASE ~(closed \/ subs = <<>>)
    <3>1. /\ loc' \in Locals /\ pc' \in {"stat", "adding"} /\ UNCHANGED <<queue, checking>>
          /\ fs' = fs \/ fs' = [fs EXCEPT !.registered = TRUE]
      BY <1>2, <1>5, <2>2 DEF StartCheck
    <3>2. fs' \in FailoverState /\ fs'.content = fs.content
      BY <3>1 DEF FailoverState
    <3> QED
      BY <1>1, <2>2, <3>1, <3>2 DEF Shape, Goes, Kept, Place
  <2> QED
    BY <2>1, <2>2
<1>6. CASE StartRemove
  BY <1>1, <1>6 DEF StartRemove, Goto, Shape, Quits, Goes, Kept, client, Place
<1> QED
  BY <1>3, <1>4, <1>5, <1>6

\* ... reads a configuration,
LEMMA ReadShape ==
    ASSUME TypeOK, Placed, Edited, Answering,
           ReadFailover \/ FetchServed \/ FetchAnswered \/ FetchFailed
    PROVE  Shape
<1> USE DEF TypeOK
<1>1. /\ walk = None /\ pc # "idle" /\ queue # <<>>
      /\ UNCHANGED <<up, resend, server, file, history>>
  BY DEF ReadFailover, FetchServed, FetchAnswered, FetchFailed, Sync, Placed, link, world
<1>2. ASSUME NEW c \in Contents, NEW source, Got(c, source) PROVE Shape
  BY <1>1, <1>2, GotShape DEF Shape
<1>3. CASE ReadFailover
  <2>1. CASE file.present /\ Got(-file.edition, "failover")
    <3>1. file.edition \in 1 .. MaxEditions
      BY <2>1 DEF Edited
    <3> QED
      BY <1>2, <2>1, <3>1, TextTypes
  <2>2. CASE /\ pc' = "fetch" /\ loc' = [loc EXCEPT !.asked = server]
             /\ UNCHANGED <<queue, checking, client, walk>>
    <3>1. loc' \in Locals
      BY <2>2 DEF Locals
    <3> QED
      BY <1>1, <2>2, <3>1 DEF Shape, Goes, Kept, client, Place
  <2> QED
    BY <1>3, <2>1, <2>2 DEF ReadFailover, Looks
<1>4. CASE FetchServed
  <2>1. loc' \in Locals
    BY <1>4, TextTypes DEF FetchServed, Locals
  <2> QED
    BY <1>1, <1>4, <2>1 DEF FetchServed, Shape, Goes, Kept, client, Place
<1>5. CASE FetchAnswered
  <2>1. loc.res \in Contents
    BY DEF Locals
  <2> QED
    BY <1>2, <1>5, <2>1 DEF FetchAnswered
<1>6. CASE FetchFailed
  <2>1. CASE snap # None /\ Got(snap, "snapshot")
    BY <1>2, <2>1, TextTypes
  <2>2. CASE EndOp /\ UNCHANGED <<client, walk>>
    BY <1>1, <2>2 DEF Shape, Quits, Kept, client
  <2> QED
    BY <1>6, <2>1, <2>2 DEF FetchFailed
<1> QED
  BY <1>3, <1>4, <1>5, <1>6

\* ... registers the listen,
LEMMA RegisterShape ==
    ASSUME TypeOK, queue # <<>>, NEW registered, Register(registered), UNCHANGED walk
    PROVE  Quits \/ (Goes /\ pc' = "adding")
<1> USE DEF TypeOK
<1>1. CASE registered
  BY <1>1 DEF Register, Quits, Kept
<1>2. CASE ~registered
  <2>1. Txt(loc.res) \in Texts
    BY TextTypes DEF Locals
  <2>2. Kept
    BY <1>2, <2>1 DEF Register, Kept, FailoverState, Active
  <2> QED
    BY <1>2, <2>2 DEF Register, Goto, Goes, Place
<1> QED
  BY <1>1, <1>2

\* ... looks for the failover file,
LEMMA FileShape ==
    ASSUME TypeOK, Placed, Edited, InitStat \/ InitFile \/ InitRegister \/ CheckStat \/ CheckFile
    PROVE  Shape
<1> USE DEF TypeOK
<1>1. /\ walk = None /\ pc # "idle" /\ queue # <<>>
      /\ UNCHANGED <<subs, sid, watcher, closed, up, resend, server, file, history>>
  BY DEF InitStat, InitFile, InitRegister, CheckStat, CheckFile, Sync, Placed, client, link, world
<1>2. file.edition \in Nat /\ [loc EXCEPT !.mtime = file.edition] \in Locals
  <2>1. file.edition \in Nat
    BY ConfigSubscriptionAssumption
  <2> QED
    BY <2>1 DEF Locals
<1>3. CASE InitStat
  <2>1. CASE EndOp /\ UNCHANGED <<fs, ctx>>
    BY <1>1, <1>3, <2>1 DEF InitStat, Shape, Quits, Kept
  <2>2. CASE /\ loc' = [loc EXCEPT !.mtime = file.edition] /\ pc' = "file"
             /\ UNCHANGED <<queue, checking, fs, ctx>>
    BY <1>1, <1>2, <1>3, <2>2 DEF InitStat, Shape, Goes, Kept, Place
  <2>3. CASE Register(fs.registered)
    BY <1>1, <1>3, <2>3, RegisterShape DEF InitStat, Shape
  <2> QED
    BY <1>3, <2>1, <2>2, <2>3 DEF InitStat
<1>4. file.present =>
         InFailover \in FailoverState /\ Txt(-file.edition) = -file.edition
            /\ -file.edition \in Contents /\ InFailover.content = -file.edition
  <2>1. SUFFICES ASSUME file.present
                 PROVE  InFailover \in FailoverState /\ Txt(-file.edition) = -file.edition
                           /\ -file.edition \in Contents /\ InFailover.content = -file.edition
    OBVIOUS
  <2>2. file.edition \in 1 .. MaxEditions
    BY <2>1 DEF Edited
  <2>3. /\ Txt(-file.edition) = -file.edition /\ -file.edition \in Contents
        /\ -file.edition \in Texts
    BY <2>2, TextTypes
  <2>4. loc.mtime \in Nat
    BY DEF Locals
  <2> QED
    BY <2>3, <2>4 DEF InFailover, FailoverState
<1>5. CASE InitFile
  <2> DEFINE Enters ==
               /\ fs' = InFailover /\ loc' = [loc EXCEPT !.reg = fs.registered]
               /\ UNCHANGED <<queue, checking>>
               /\ IF fs.content # -file.edition
                    THEN Notify(<<Head(queue).l>>, FALSE, -file.edition, "register")
                    ELSE pc' = "register" /\ UNCHANGED walk
  <2>1. CASE Abandon
    BY <1>1, <2>1 DEF Abandon, Shape, Quits, Kept
  <2>2. CASE Register(fs.registered) /\ UNCHANGED walk
    BY <1>1, <2>2, RegisterShape DEF Shape
  <2>3. CASE Wanted /\ file.present /\ Enters
    <3>1. Enters
      BY <2>3
    <3>2. ~closed /\ subs # <<>> /\ Head(queue).l \in Range(subs)
      BY <2>3 DEF Wanted, Active
    <3>3. <<Head(queue).l>> \in Seq(Listener)
      BY <3>2 DEF Range
    <3>4. loc' \in Locals
      BY <3>1 DEF Locals, FailoverState
    <3>5. CASE fs.content # -file.edition
      <4>1. /\ walk' \in Loop /\ walk'.c = -file.edition /\ walk'.i = 0 /\ pc' = "register"
            /\ ~walk'.live => walk'.array = <<Head(queue).l>>
        BY <1>4, <2>3, <3>1, <3>3, <3>5, LoopStarts
      <4> QED
        BY <1>1, <1>4, <2>3, <3>1, <3>2, <3>4, <4>1 DEF Shape, Tells
    <3>6. CASE fs.content = -file.edition
      BY <1>1, <1>4, <2>3, <3>1, <3>2, <3>4, <3>6 DEF Shape, Goes, Kept, Place
    <3> QED
      BY <3>5, <3>6
  <2>4. Abandon \/ (Register(fs.registered) /\ UNCHANGED walk)
        \/ (Wanted /\ file.present /\ Enters)
    BY <1>5 DEF InitFile, Looks
  <2> QED
    BY <2>1, <2>2, <2>3, <2>4
<1>6. CASE InitRegister
  BY <1>1, <1>6, RegisterShape DEF InitRegister, Shape
<1>7. CASE CheckStat
  BY <1>1, <1>2, <1>7 DEF CheckStat, Goto, Shape, Quits, Goes, Kept, client, Place
<1>8. CASE CheckFile
  <2>1. CASE Active /\ file.present /\ Switch(InFailover, -file.edition)
    <3>1. Switch(InFailover, -file.edition) /\ ~closed /\ subs # <<>>
      BY <2>1 DEF Active
    <3>2. CASE Txt(-file.edition) # fs.content
      <4>1. fs' = InFailover /\ Notify(<<>>, TRUE, -file.edition, "finish")
            /\ UNCHANGED <<queue, loc, checking>>
        BY <3>1, <3>2 DEF Switch
      <4>2. walk' \in Loop /\ walk'.c = -file.edition /\ walk'.i = 0 /\ pc' = "finish"
            /\ walk'.live
        BY <1>4, <2>1, <4>1 DEF Notify, Loop
      <4> QED
        BY <1>1, <1>4, <2>1, <3>1, <4>1, <4>2 DEF Shape, Tells
    <3>3. CASE Txt(-file.edition) = fs.content
      BY <1>1, <1>4, <2>1, <3>1, <3>3 DEF Switch, Shape, Quits, Kept
    <3> QED
      BY <3>2, <3>3
  <2>2. CASE Abandon
    BY <1>1, <2>2 DEF Abandon, Shape, Quits, Kept
  <2> QED
    BY <1>8, <2>1, <2>2 DEF CheckFile, Looks
<1> QED
  BY <1>3, <1>5, <1>6, <1>7, <1>8

\* ... waits for a request about the listen, or ends after its loop.
LEMMA RequestShape ==
    ASSUME TypeOK, Placed, AddAnswered \/ AddFailed \/ RemoveEnds \/ FinishOp
    PROVE  Shape
<1> USE DEF TypeOK
<1>1. /\ walk = None /\ pc # "idle" /\ queue # <<>>
      /\ UNCHANGED <<subs, sid, watcher, closed, walk, up, resend, server, file, history>>
  BY DEF AddAnswered, AddFailed, RemoveEnds, FinishOp, Sync, Placed, client, link, world
<1>2. AfterAdd => EndOp \/ (pc' = "stat" /\ UNCHANGED <<queue, checking, loc>>)
  BY DEF AfterAdd, Goto
<1>3. CASE AddAnswered
  BY <1>1, <1>2, <1>3 DEF AddAnswered, Shape, Quits, Goes, Kept, client, Place
<1>4. CASE AddFailed
  <2>1. Kept
    BY <1>4 DEF AddFailed, Kept, FailoverState, Active
  <2> QED
    BY <1>1, <1>2, <1>4, <2>1 DEF AddFailed, Shape, Quits, Goes, Place
<1>5. CASE RemoveEnds \/ FinishOp
  BY <1>1, <1>5 DEF RemoveEnds, FinishOp, Shape, Quits, Kept, client
<1> QED
  BY <1>3, <1>4, <1>5

LEMMA StepShape == TypeOK /\ Placed /\ Edited /\ Answering /\ Step => Shape
BY StartShape, ReadShape, FileShape, RequestShape DEF Step
-----------------------------------------------------------------------------
(* A step of the running operation keeps the invariant, part by part.        *)

\* What a step does to the listen, the snapshot and the bounds.
LEMMA StepRest ==
    ASSUME TypeOK, Answering, Step
    PROVE  /\ ctx' \in Texts \cup {None} /\ remote' \in Texts \cup {None} /\ pushes' \in Nat
           /\ snap' \in 0 .. MaxVersion \cup {None} /\ stale' \in BOOLEAN
           /\ budget' \in [{"calls", "faults", "drops"} -> Nat]
<1> USE DEF TypeOK
<1>1. Txt(loc.res) \in Texts /\ fs.md5 \in Texts
  BY TextTypes DEF Locals, FailoverState
<1>2. /\ Fails => budget' \in [{"calls", "faults", "drops"} -> Nat]
      /\ Spend("faults") => budget' \in [{"calls", "faults", "drops"} -> Nat]
      /\ \A found \in BOOLEAN :
           Looks(found) => budget' \in [{"calls", "faults", "drops"} -> Nat]
  BY DEF Fails, Looks, Spend
<1>3. ServerListens(ctx) => remote' \in Texts \cup {None} /\ pushes' \in Nat
  BY DEF ServerListens
<1>4. CASE StartInit \/ StartPush \/ StartRemove \/ ReadFailover \/ FetchServed
           \/ CheckStat \/ CheckFile \/ FinishOp
  BY <1>2, <1>4 DEF StartInit, StartPush, StartRemove, ReadFailover, FetchServed, CheckStat,
                    CheckFile, FinishOp, link, world
<1>5. CASE StartCheck
  BY <1>1, <1>5 DEF StartCheck, link, world
<1>6. CASE InitStat \/ InitFile \/ InitRegister
  <2>1. ctx' = ctx \/ ctx' = Txt(loc.res)
    BY <1>6 DEF InitStat, InitFile, InitRegister, Register
  <2> QED
    BY <1>1, <1>2, <1>6, <2>1 DEF InitStat, InitFile, InitRegister, link, world
<1>7. CASE FetchAnswered
  <2>1. loc.res \in 0 .. MaxVersion
    BY <1>7, ConfigSubscriptionAssumption DEF FetchAnswered, Answering, Locals, Contents
  <2> QED
    BY <1>2, <1>7, <2>1 DEF FetchAnswered, Saved, link
<1>8. CASE FetchFailed
  BY <1>2, <1>8 DEF FetchFailed, link, world
<1>9. CASE AddAnswered \/ AddFailed \/ RemoveEnds
  BY <1>2, <1>3, <1>9 DEF AddAnswered, AddFailed, RemoveEnds, world
<1> QED
  BY <1>4, <1>5, <1>6, <1>7, <1>8, <1>9 DEF Step

LEMMA StepTypes ==
    ASSUME TypeOK, Answering, FreshWhenGone, Edited, Shape, Step
    PROVE  TypeOK' /\ Placed' /\ Edited' /\ FreshWhenGone'
<1>1. queue' \in Seq(Operation) /\ (queue' = <<>> => pc' = "idle")
  <2>1. CASE Quits
    BY <2>1 DEF TypeOK, Shape, Quits, EndOp
  <2>2. CASE ~Quits
    BY <2>2 DEF TypeOK, Shape, Goes, Tells
  <2> QED
    BY <2>1, <2>2
<1>2. /\ pc' \in Place /\ loc' \in Locals /\ checking' \in BOOLEAN /\ fs' \in FailoverState
      /\ fs' = fs \/ subs # <<>>
  <2>1. CASE Quits
    BY <2>1, LocalTypes DEF TypeOK, Quits, EndOp, Place, Kept
  <2>2. CASE Goes
    BY <2>2 DEF TypeOK, Goes, Kept
  <2>3. ASSUME NEW c \in Contents, Tells(c)
        PROVE  /\ pc' \in Place /\ loc' \in Locals /\ checking' \in BOOLEAN
               /\ fs' \in FailoverState /\ subs # <<>>
    BY <2>3 DEF TypeOK, Tells, Place
  <2> QED
    BY <2>1, <2>2, <2>3 DEF Shape
<1>3. /\ walk' \in Loop \cup {None}
      /\ walk' # None => pc' \in {"stat", "register", "finish"}
  BY DEF TypeOK, Shape, Quits, Goes, Tells
<1>4. TypeOK'
  BY <1>1, <1>2, <1>3, StepRest DEF TypeOK, Shape, history
<1>5. Placed' /\ Edited'
  BY <1>1, <1>3 DEF Placed, Edited, Shape
<1>6. FreshWhenGone => FreshWhenGone'
  BY <1>2 DEF FreshWhenGone, Shape
<1> QED
  BY <1>4, <1>5, <1>6

LEMMA OrderKept ==
    ASSUME TypeOK, Ordered, UNCHANGED <<newest, server>>, pc' # "answer",
           \/ UNCHANGED <<snap, stale>>
           \/ snap' # None => snap' <= server /\ (stale' \/ NoneAfter(snap')),
           walk' = None \/ Reportable(walk'.c, snap', stale')
    PROVE  Ordered'
BY DEF Ordered, NoneAfter, Reportable

\* A content that was read is reported, or nothing is.
LEMMA GotReports ==
    ASSUME TypeOK, Placed, walk = None, pc # "idle", NEW c \in Contents, NEW source,
           Got(c, source)
    PROVE  (walk' = None \/ walk'.c = c) /\ pc' \notin {"fetch", "answer"}
<1>1. Quits \/ (Goes /\ pc' = "stat") \/ Tells(c)
  BY GotShape
<1> QED
  BY <1>1 DEF Quits, EndOp, Goes, Tells

LEMMA StepOrder ==
    ASSUME TypeOK, Placed, Edited, Answering, Ordered, Shape, Step
    PROVE  Answering' /\ Ordered'
<1> USE DEF TypeOK
<1>0. /\ walk = None /\ UNCHANGED <<newest, server>> /\ server \in Int /\ server >= 0
      /\ loc.res \in Contents /\ file.edition \in Int
      /\ \A c \in Contents : c \in Int
  BY TextTypes DEF Shape, history, Locals, Contents
<1>1. CASE ReadFailover
  <2>1. CASE file.present /\ Got(-file.edition, "failover")
    <3>1. -file.edition \in Contents /\ -file.edition < 0 /\ pc # "idle"
      BY <1>0, <1>1, <2>1, TextTypes DEF Edited, ReadFailover
    <3>2. (walk' = None \/ walk'.c = -file.edition) /\ pc' \notin {"fetch", "answer"}
      BY <1>0, <2>1, <3>1, GotReports
    <3>3. walk' = None \/ Reportable(walk'.c, snap', stale')
      BY <1>0, <3>1, <3>2 DEF Reportable
    <3> QED
      BY <1>0, <1>1, <3>2, <3>3, OrderKept DEF ReadFailover, world, Answering
  <2>2. CASE /\ pc' = "fetch" /\ loc' = [loc EXCEPT !.asked = server]
             /\ UNCHANGED <<queue, checking, client, walk>>
    <3>1. walk' = None /\ UNCHANGED <<snap, stale>>
      BY <1>0, <1>1, <2>2 DEF ReadFailover, world
    <3> QED
      BY <1>0, <2>2, <3>1, OrderKept DEF Answering, Locals
  <2> QED
    BY <1>1, <2>1, <2>2 DEF ReadFailover, Looks
<1>2. CASE FetchServed
  <2>1. pc = "fetch" /\ pc' = "answer" /\ walk' = None /\ UNCHANGED <<snap, stale>>
        /\ loc' = [loc EXCEPT !.res = server]
    BY <1>0, <1>2 DEF FetchServed, world
  <2>2. loc'.res = server /\ loc'.asked = loc.asked
    BY <2>1 DEF Locals
  <2> QED
    BY <1>0, <2>1, <2>2 DEF Answering, Ordered, NoneAfter
<1>3. CASE FetchAnswered
  <2>1. /\ pc = "answer" /\ loc.res <= server /\ NoneAfter(loc.res)
        /\ snap' \in {None, loc.res} \/ (snap' = snap /\ stale')
        /\ stale' \/ snap' \in {None, loc.res}
    BY <1>3 DEF FetchAnswered, Saved, Answering, Ordered
  <2>2. (walk' = None \/ walk'.c = loc.res) /\ pc' \notin {"fetch", "answer"}
    BY <1>0, <1>3, <2>1, GotReports DEF FetchAnswered
  <2>3. walk' = None \/ Reportable(walk'.c, snap', stale')
    BY <1>0, <2>1, <2>2 DEF Reportable
  <2>4. snap' # None => snap' <= server /\ (stale' \/ NoneAfter(snap'))
    BY <2>1 DEF Ordered
  <2> QED
    BY <1>0, <2>1, <2>2, <2>3, <2>4, OrderKept DEF Answering
<1>4. CASE FetchFailed
  <2>0. UNCHANGED <<snap, stale>>
    BY <1>4 DEF FetchFailed, world
  <2>1. CASE snap # None /\ Got(snap, "snapshot")
    <3>1. /\ snap \in Contents /\ snap <= server /\ pc # "idle"
          /\ stale \in BOOLEAN /\ (stale \/ NoneAfter(snap))
      BY <1>4, <2>1, TextTypes DEF FetchFailed, Ordered
    <3>2. (walk' = None \/ walk'.c = snap) /\ pc' \notin {"fetch", "answer"}
      BY <1>0, <2>1, <3>1, GotReports
    <3>3. walk' = None \/ Reportable(walk'.c, snap', stale')
      BY <1>0, <2>0, <3>1, <3>2 DEF Reportable
    <3> QED
      BY <1>0, <2>0, <3>2, <3>3, OrderKept DEF Answering
  <2>2. CASE EndOp /\ UNCHANGED <<client, walk>>
    BY <1>0, <2>0, <2>2, OrderKept DEF EndOp, Answering
  <2> QED
    BY <1>4, <2>1, <2>2 DEF FetchFailed
<1>5. CASE InitFile \/ CheckFile
  <2>1. UNCHANGED <<snap, stale>>
    BY <1>5 DEF InitFile, CheckFile, world
  <2>2. /\ pc' \notin {"fetch", "answer"}
        /\ walk' = None \/ (file.present /\ walk'.c = -file.edition)
    BY <1>0, <1>5 DEF InitFile, CheckFile, Looks, Abandon, Register, Goto, EndOp, Notify, Switch
  <2>3. walk' = None \/ Reportable(walk'.c, snap', stale')
    BY <1>0, <2>2 DEF Reportable, Edited
  <2> QED
    BY <1>0, <2>1, <2>2, <2>3, OrderKept DEF Answering
<1>6. CASE StartInit \/ StartPush \/ StartCheck \/ StartRemove \/ FinishOp
  <2>1. walk' = None /\ UNCHANGED <<snap, stale>> /\ pc' \notin {"fetch", "answer"}
    BY <1>0, <1>6 DEF StartInit, StartPush, StartCheck, StartRemove, FinishOp, EndOp, Goto, world
  <2> QED
    BY <1>0, <2>1, OrderKept DEF Answering
<1>7. CASE InitStat \/ InitRegister \/ CheckStat
  <2>1. walk' = None /\ UNCHANGED <<snap, stale>> /\ pc' \notin {"fetch", "answer"}
    BY <1>0, <1>7 DEF InitStat, InitRegister, CheckStat, Register, EndOp, Goto, world
  <2> QED
    BY <1>0, <2>1, OrderKept DEF Answering
<1>8. CASE AddAnswered \/ AddFailed \/ RemoveEnds
  <2>1. walk' = None /\ UNCHANGED <<snap, stale>> /\ pc' \notin {"fetch", "answer"}
    BY <1>0, <1>8 DEF AddAnswered, AddFailed, RemoveEnds, AfterAdd, EndOp, Goto, world
  <2> QED
    BY <1>0, <2>1, OrderKept DEF Answering
<1> QED
  BY <1>1, <1>2, <1>3, <1>4, <1>5, <1>6, <1>7, <1>8 DEF Step

\* A listen context is made for a key with listeners, or where the
\* initialisation goes on after its callback.
LEMMA StepContext ==
    Step => ctx' = ctx \/ ctx' = None \/ (~closed /\ subs # <<>>) \/ pc = "register"
<1> SUFFICES ASSUME Step
             PROVE  ctx' = ctx \/ ctx' = None \/ (~closed /\ subs # <<>>) \/ pc = "register"
  OBVIOUS
<1>1. CASE StartInit \/ StartPush \/ StartCheck \/ StartRemove
  BY <1>1 DEF StartInit, StartPush, StartCheck, StartRemove
<1>2. CASE ReadFailover \/ FetchServed \/ FetchAnswered \/ FetchFailed
  BY <1>2 DEF ReadFailover, FetchServed, FetchAnswered, FetchFailed
<1>3. CASE InitStat \/ InitFile \/ InitRegister \/ CheckStat \/ CheckFile
  BY <1>3 DEF InitStat, InitFile, InitRegister, CheckStat, CheckFile, Wanted, Active
<1>4. CASE AddAnswered \/ AddFailed \/ RemoveEnds \/ FinishOp
  BY <1>4 DEF AddAnswered, AddFailed, RemoveEnds, FinishOp
<1> QED
  BY <1>1, <1>2, <1>3, <1>4 DEF Step

\* The removal that starts is the one at the head; no other step is.
LEMMA RemovalStarts ==
    Step /\ pc = "idle" /\ Head(queue).type = "remove" => ctx' = None
BY DEF Step, StartInit, StartPush, StartCheck, StartRemove, ReadFailover, FetchServed,
       FetchAnswered, FetchFailed, InitStat, InitFile, InitRegister, CheckStat, CheckFile,
       AddAnswered, AddFailed, RemoveEnds, FinishOp, Running

LEMMA StepListen ==
    ASSUME TypeOK, ListenGoes, Shape, Step
    PROVE  ListenGoes'
<1> SUFFICES ASSUME ~closed', subs' = <<>>, ctx' # None \/ pc' = "register"
             PROVE  \E i \in 1 .. Len(queue') : Removal(i)'
  BY DEF ListenGoes
<1>1. ~closed /\ subs = <<>> /\ (Quits \/ Goes) /\ pc' # "register" /\ ctx' # None
  BY DEF Shape, Tells, Goes, Quits, EndOp
<1>2. PICK i \in 1 .. Len(queue) : Removal(i)
  BY <1>1, StepContext DEF ListenGoes
<1>3. queue # <<>> /\ queue \in Seq(Operation) /\ Len(queue) \in Nat
  BY DEF Shape, TypeOK
<1>4. i > 1
  <2>1. i = 1 => pc = "idle" /\ Head(queue).type = "remove"
    BY <1>2, <1>3 DEF Removal
  <2> QED
    BY <1>1, <1>2, <2>1, RemovalStarts
<1>5. CASE Quits
  <2>1. queue' = Tail(queue) /\ pc' = "idle"
    BY <1>5 DEF Quits, EndOp
  <2>2. i - 1 \in 1 .. Len(queue') /\ queue'[i - 1] = queue[i]
    BY <1>2, <1>3, <1>4, <2>1
  <2> QED
    BY <1>2, <2>1, <2>2 DEF Removal
<1>6. CASE Goes
  BY <1>2, <1>4, <1>6 DEF Goes, Removal
<1> QED
  BY <1>1, <1>5, <1>6

LEMMA StepSaid ==
    ASSUME TypeOK, Said, Shape
    PROVE  Said'
<1>1. CASE Quits \/ Goes
  BY <1>1 DEF Said, Match, Shape, Quits, Goes, EndOp, Kept, history
<1>2. ASSUME NEW c \in Contents, Tells(c) PROVE Said'
  <2>1. walk' # None /\ walk'.c = c /\ walk'.i = 0 /\ fs'.content = Txt(c)
    BY <1>2, TextTypes DEF Tells
  <2>2. Len(Array') > 0
    <3>1. CASE walk'.live
      BY <1>2, <3>1 DEF Array, Tells, Shape, TypeOK
    <3>2. CASE ~walk'.live
      BY <1>2, <3>2 DEF Array, Tells
    <3> QED
      BY <3>1, <3>2
  <2>3. Called' # {}
    BY <2>1, <2>2 DEF Called
  <2>4. Txt(walk.c)' = Txt(c)
    BY <2>1 DEF Txt
  <2> QED
    BY <2>1, <2>3, <2>4 DEF Said
<1> QED
  BY <1>1, <1>2 DEF Shape

LEMMA StepUndisturbed ==
    ASSUME TypeOK, Undisturbed, Shape, Step
    PROVE  Undisturbed'
<1>1. walk' # None \/ pc' = "register" => ~closed' /\ subs' # <<>>
  BY DEF Shape, Quits, Goes, Tells, EndOp
<1>2. walk' # None /\ ~walk'.live => \A i \in 1 .. Len(walk'.array) : walk'.array[i] \in Range(subs')
  <2>1. SUFFICES ASSUME walk' # None, ~walk'.live
                 PROVE  \A i \in 1 .. Len(walk'.array) : walk'.array[i] \in Range(subs')
    OBVIOUS
  <2>2. PICK c \in Contents : Tells(c)
    BY <2>1 DEF Shape, Quits, Goes
  <2>3. PICK l \in Range(subs) : walk'.array = <<l>>
    BY <2>1, <2>2 DEF Tells
  <2> QED
    BY <2>3 DEF Shape
<1>3. closed' => ctx' = None
  BY StepContext DEF Undisturbed, Shape
<1> QED
  BY <1>1, <1>2, <1>3 DEF Undisturbed
-----------------------------------------------------------------------------
LEMMA StepKept == IInv /\ Step => IInv'
BY StepShape, StepTypes, StepOrder, StepListen, StepSaid, StepUndisturbed DEF IInv, OneListener

(* The other actions. *)

\* An operation is queued, or nothing of the client changes at all, while the
\* server only gets new versions.
LEMMA Elsewhere ==
    ASSUME IInv, UNCHANGED <<client, pc, loc, walk, ctx, snap, stale, history>>,
           server' \in Nat, server' >= server, TypeOK', Edited',
           queue' = queue \/ \E o \in Operation : queue' = Append(queue, o)
    PROVE  IInv'
<1> USE DEF IInv, client, history
<1>0. server \in Int /\ loc.res \in Int /\ loc.asked \in Int /\ snap \in Int \cup {None}
      /\ \A l \in Listener : newest[l] \in Int
  <2>1. loc.res \in Int /\ loc.asked \in Int
    BY TextTypes DEF TypeOK, Locals
  <2> QED
    BY <2>1 DEF TypeOK
<1>1. Placed' /\ FreshWhenGone'
  BY DEF Placed, FreshWhenGone, TypeOK
<1>2. Answering'
  BY <1>0 DEF Answering
<1>3. Ordered'
  <2>1. walk # None => walk.c \in Int
    BY TextTypes DEF TypeOK, Loop
  <2> QED
    BY <1>0, <2>1 DEF Ordered, Reportable, NoneAfter
<1>4. ListenGoes'
  <2>1. ASSUME NEW i \in 1 .. Len(queue)
        PROVE  i \in 1 .. Len(queue') /\ queue'[i] = queue[i]
    <3>1. queue \in Seq(Operation)
      BY DEF TypeOK
    <3>2. CASE queue' = queue
      BY <3>2
    <3>3. ASSUME NEW o \in Operation, queue' = Append(queue, o)
          PROVE  i \in 1 .. Len(queue') /\ queue'[i] = queue[i]
      BY <3>1, <3>3, AppendProperties
    <3> QED
      BY <3>2, <3>3
  <2> QED
    BY <2>1 DEF ListenGoes, Removal
<1>5. OneListener' => Said'
  BY DEF OneListener, Said, Match, Called, Array, Txt
<1>6. ~Reentrant => Undisturbed'
  BY DEF Undisturbed
<1> QED
  BY <1>1, <1>2, <1>3, <1>4, <1>5, <1>6

LEMMA WorldKeeps ==
    ASSUME IInv,
           Tick \/ PushArrives \/ ResendEnds \/ Reconnect \/ ServerChanges \/ FailoverEdited
             \/ Drop \/ UNCHANGED vars
    PROVE  IInv'
<1> USE DEF IInv, TypeOK, client, op, link, world, history
<1>0. server \in Nat /\ MaxVersion \in Nat /\ MaxEditions \in Nat
  BY ConfigSubscriptionAssumption
<1>1. CASE Tick
  <2>1. Op("check", 0, NoListener) \in Operation
    BY DEF Op, Operation
  <2>2. queue' = Append(queue, Op("check", 0, NoListener)) /\ checking' = TRUE
        /\ UNCHANGED <<client, pc, loc, walk, ctx, link, world, history, budget>>
    BY <1>1 DEF Tick
  <2>3. TypeOK' /\ Edited'
    BY <2>1, <2>2 DEF Edited
  <2> QED
    BY <1>0, <2>1, <2>2, <2>3, Elsewhere
<1>2. CASE PushArrives
  <2>1. Op("push", 0, NoListener) \in Operation
    BY DEF Op, Operation
  <2>2. queue' = Append(queue, Op("push", 0, NoListener)) /\ pushes' \in Nat
        /\ UNCHANGED <<client, pc, loc, checking, walk, ctx, up, remote, resend, world,
                       history, budget>>
    BY <1>2 DEF PushArrives
  <2>3. TypeOK' /\ Edited'
    BY <2>1, <2>2 DEF Edited
  <2> QED
    BY <1>0, <2>1, <2>2, <2>3, Elsewhere
<1>3. CASE ResendEnds
  <2>1. remote' \in Texts \cup {None} /\ pushes' \in Nat /\ resend' = None
        /\ budget' \in [{"calls", "faults", "drops"} -> Nat]
    BY <1>3 DEF ResendEnds, ServerListens, Spend
  <2>2. UNCHANGED <<client, op, walk, ctx, up, world, history>>
    BY <1>3 DEF ResendEnds
  <2>3. TypeOK' /\ Edited'
    BY <2>1, <2>2 DEF Edited
  <2> QED
    BY <1>0, <2>2, <2>3, Elsewhere
<1>4. CASE Reconnect
  <2>1. TypeOK' /\ Edited'
    BY <1>4 DEF Reconnect, Edited
  <2> QED
    BY <1>0, <1>4, <2>1, Elsewhere DEF Reconnect
<1>5. CASE ServerChanges
  <2>1. server' = server + 1 /\ server' \in 0 .. MaxVersion /\ pushes' \in Nat
    BY <1>0, <1>5 DEF ServerChanges
  <2>2. TypeOK' /\ Edited'
    BY <1>5, <2>1 DEF ServerChanges, Edited
  <2> QED
    BY <1>0, <1>5, <2>1, <2>2, Elsewhere DEF ServerChanges
<1>6. CASE FailoverEdited
  <2>1. file' \in [edition : 0 .. MaxEditions, present : BOOLEAN] /\ Edited'
    <3>1. CASE file' = [edition |-> file.edition + 1, present |-> TRUE]
                 /\ file.edition < MaxEditions
      BY <1>0, <3>1 DEF Edited
    <3>2. CASE file' = [file EXCEPT !.present = FALSE]
      BY <3>2 DEF Edited
    <3> QED
      BY <1>6, <3>1, <3>2 DEF FailoverEdited
  <2>2. UNCHANGED <<client, op, walk, ctx, link, server, snap, stale, history, budget>>
    BY <1>6 DEF FailoverEdited
  <2>3. TypeOK'
    BY <2>1, <2>2
  <2> QED
    BY <1>0, <2>1, <2>2, <2>3, Elsewhere
<1>7. CASE Drop
  <2>1. budget' \in [{"calls", "faults", "drops"} -> Nat]
    BY <1>7 DEF Drop, Spend
  <2>2. TypeOK' /\ Edited'
    BY <1>7, <2>1 DEF Drop, Edited
  <2> QED
    BY <1>0, <1>7, <2>2, Elsewhere DEF Drop
<1>8. CASE UNCHANGED vars
  <2>1. TypeOK' /\ Edited'
    BY <1>8 DEF vars, Edited
  <2> QED
    BY <1>0, <1>8, <2>1, Elsewhere DEF vars
<1> QED
  BY <1>1, <1>2, <1>3, <1>4, <1>5, <1>6, <1>7, <1>8

\* The loop goes on over the array it holds.
LEMMA LoopDetached ==
    ASSUME TypeOK, NEW array \in Seq(Listener)
    PROVE  /\ Detached(array) \in Loop \cup {None}
           /\ walk = None => Detached(array) = None
           /\ walk # None => Detached(array) # None /\ Detached(array).c = walk.c
<1>1. CASE walk # None /\ walk.live
  <2>1. walk \in Loop /\ Detached(array) = [walk EXCEPT !.live = FALSE, !.array = array]
    BY <1>1 DEF Detached, TypeOK
  <2>2. Detached(array) \in Loop /\ Detached(array).c = walk.c
    BY <2>1 DEF Loop
  <2> QED
    BY <1>1, <2>2, TextTypes
<1>2. CASE ~(walk # None /\ walk.live)
  BY <1>2 DEF Detached, TypeOK
<1> QED
  BY <1>1, <1>2

LEMMA FreshTypes == FreshState \in FailoverState /\ FreshState.content = None
BY TextTypes DEF FreshState, FailoverState

LEMMA SubscribeKeeps ==
    ASSUME IInv, NEW l \in Listener, Subscribe(l)
    PROVE  IInv'
<1> USE DEF IInv, link, world, history
<1>1. /\ AppTurn /\ ~closed /\ subs' = Append(subs, l)
      /\ IF subs = <<>> THEN sid' = sid + 1 /\ fs' = FreshState ELSE UNCHANGED <<sid, fs>>
      /\ watcher' = TRUE /\ queue' = Append(queue, Op("init", sid', l))
      /\ IF l \in Range(subs)
           THEN UNCHANGED history
           ELSE seen' = [seen EXCEPT ![l] = None] /\ newest' = [newest EXCEPT ![l] = 0]
      /\ UNCHANGED <<checking, closed, pc, loc, walk, ctx, link, world>>
      /\ budget' \in [{"calls", "faults", "drops"} -> Nat]
  <2>1. Spend("calls") /\ budget \in [{"calls", "faults", "drops"} -> Nat]
    BY DEF Subscribe, TypeOK
  <2>2. budget' \in [{"calls", "faults", "drops"} -> Nat]
    BY <2>1 DEF Spend
  <2> QED
    BY <2>2, Zenon DEF Subscribe
<1>2. subs' \in Seq(Listener) /\ subs' # <<>> /\ subs \in Seq(Listener) /\ queue \in Seq(Operation)
  BY <1>1 DEF TypeOK
<1>3. TypeOK'
  <2>1. sid' \in Nat /\ fs' \in FailoverState
    <3>1. CASE subs = <<>>
      BY <1>1, <3>1, FreshTypes DEF TypeOK
    <3>2. CASE subs # <<>>
      BY <1>1, <3>2 DEF TypeOK
    <3> QED
      BY <3>1, <3>2
  <2>2. Op("init", sid', l) \in Operation
    BY <2>1 DEF Op, Operation
  <2>3. queue' \in Seq(Operation)
    BY <1>1, <1>2, <2>2
  <2>4. seen' \in [Listener -> Contents \cup {None}] /\ newest' \in [Listener -> 0 .. MaxVersion]
    <3>1. CASE l \in Range(subs)
      BY <1>1, <3>1 DEF TypeOK
    <3>2. CASE l \notin Range(subs)
      <4>1. seen' = [seen EXCEPT ![l] = None] /\ newest' = [newest EXCEPT ![l] = 0]
        BY <1>1, <3>2
      <4>2. 0 \in 0 .. MaxVersion
        BY ConfigSubscriptionAssumption
      <4> QED
        BY <4>1, <4>2 DEF TypeOK
    <3> QED
      BY <3>1, <3>2
  <2> QED
    BY <1>1, <1>2, <2>1, <2>3, <2>4 DEF TypeOK
<1>4. Placed' /\ Edited' /\ Answering' /\ FreshWhenGone' /\ ListenGoes'
  <2>1. queue' # <<>>
    BY <1>1, <1>2
  <2> QED
    BY <1>1, <1>2, <2>1 DEF Placed, Edited, Answering, FreshWhenGone, ListenGoes
<1>5. Ordered'
  <2>1. \A m \in Listener : newest[m] \in Nat /\ newest'[m] \in Nat /\ newest'[m] <= newest[m]
    <3>1. \A m \in Listener : newest[m] \in Nat /\ newest[m] <= newest[m]
      BY ConfigSubscriptionAssumption DEF TypeOK
    <3>2. newest' = newest \/ newest' = [newest EXCEPT ![l] = 0]
      BY <1>1
    <3>3. newest \in [Listener -> 0 .. MaxVersion]
      BY DEF TypeOK
    <3> QED
      BY <3>1, <3>2, <3>3
  <2>2. ASSUME NEW v \in Int, NoneAfter(v) PROVE NoneAfter(v)'
    BY <2>1, <2>2 DEF NoneAfter
  <2>3. server \in Int /\ loc.res \in Int /\ snap \in Int \cup {None}
        /\ (walk # None => walk.c \in Int)
    BY TextTypes DEF TypeOK, Locals, Loop
  <2>4. UNCHANGED <<pc, loc, walk, server, snap, stale>>
    BY <1>1
  <2> QED
    BY <2>2, <2>3, <2>4 DEF Ordered, Reportable
<1>6. OneListener' => Said'
  <2>1. CASE subs = <<>>
    BY <1>1, <2>1 DEF Said, FreshState
  <2>2. ASSUME OneListener, subs # <<>> PROVE Said'
    <3>1. l \in Range(subs)
      <4>1. subs[1] \in Listener /\ 1 \in DOMAIN subs
        BY <1>2, <2>2
      <4> QED
        BY <2>2, <4>1 DEF OneListener, Range
    <3>2. UNCHANGED <<fs, seen, newest, walk>>
      BY <1>1, <2>2, <3>1
    <3>3. walk # None /\ walk.i = 0 /\ Called # {} => Called' # {}
      <4>1. Len(subs') > 0
        BY <1>2
      <4> QED
        BY <3>2, <4>1 DEF Called, Array
    <3> QED
      BY <2>2, <3>2, <3>3 DEF Said, Match, Txt
  <2> QED
    BY <2>1, <2>2 DEF OneListener
<1>7. ~Reentrant => Undisturbed'
  BY <1>1 DEF Undisturbed, AppTurn, Sync
<1> QED
  BY <1>3, <1>4, <1>5, <1>6, <1>7

\* What unsubscribing does to the key, and closing.
LEMMA GoingKeeps ==
    ASSUME IInv, AppTurn, NEW array \in Seq(Listener), subs' \in Seq(Listener),
           UNCHANGED <<sid, checking, pc, loc, server, snap, stale, file, seen, newest>>,
           watcher' \in BOOLEAN, remote' \in Texts \cup {None}, resend' \in Texts \cup {None},
           up' \in BOOLEAN, pushes' \in Nat,
           \/ subs' = <<>> /\ fs' = FreshState /\ walk' = Detached(array)
           \/ subs' # <<>> /\ UNCHANGED <<fs, queue, walk, closed>> /\ subs # <<>>,
           \/ UNCHANGED <<ctx, closed>>
           \/ closed' = TRUE /\ ctx' = None,
           \/ queue' = Append(queue, Op("remove", 0, NoListener))
           \/ queue' = queue /\ (closed' \/ subs' # <<>>),
           budget' \in [{"calls", "faults", "drops"} -> Nat]
    PROVE  IInv'
<1> USE DEF IInv
<1>0. queue \in Seq(Operation) /\ Op("remove", 0, NoListener) \in Operation
  BY DEF TypeOK, Op, Operation
<1>1. walk' \in Loop \cup {None} /\ (walk = None <=> walk' = None)
      /\ (walk # None => walk'.c = walk.c)
  <2>1. walk \in Loop \cup {None} /\ (walk' = walk \/ walk' = Detached(array))
    BY DEF TypeOK
  <2>2. TypeOK
    OBVIOUS
  <2> QED
    BY <2>1, <2>2, LoopDetached
<1>2. TypeOK'
  <2>1. fs' \in FailoverState
    BY FreshTypes DEF TypeOK
  <2>2. queue' \in Seq(Operation)
    <3>1. CASE queue' = Append(queue, Op("remove", 0, NoListener))
      BY <1>0, <3>1, AppendProperties
    <3>2. CASE queue' = queue
      BY <1>0, <3>2
    <3> QED
      BY <3>1, <3>2
  <2> QED
    BY <1>1, <2>1, <2>2 DEF TypeOK
<1>3. Placed' /\ Edited' /\ Answering' /\ FreshWhenGone'
  BY <1>0, <1>1 DEF Placed, Edited, Answering, FreshWhenGone
<1>4. Ordered'
  BY <1>1 DEF Ordered, Reportable, NoneAfter
<1>5. ListenGoes'
  <2>1. CASE queue' = Append(queue, Op("remove", 0, NoListener))
    <3>1. /\ Len(queue') = Len(queue) + 1 /\ Len(queue) \in Nat
          /\ queue'[Len(queue')] = Op("remove", 0, NoListener)
      BY <1>0, <2>1, AppendProperties
    <3>2. Len(queue') > 1 \/ pc' = "idle"
      BY <1>0, <3>1 DEF Placed
    <3>3. Removal(Len(queue))'
      BY <3>1, <3>2 DEF Removal, Op
    <3> QED
      BY <3>1, <3>3 DEF ListenGoes
  <2>2. CASE closed' \/ subs' # <<>>
    BY <2>2 DEF ListenGoes
  <2> QED
    BY <2>1, <2>2
<1>6. OneListener' => Said'
  <2>1. ASSUME subs' # <<>>, walk # None, walk.i = 0, Called # {} PROVE Called' # {}
    <3>1. walk' = walk /\ Len(subs') > 0
      BY <2>1
    <3> QED
      BY <2>1, <3>1 DEF Called, Array
  <2> QED
    BY <2>1 DEF OneListener, Said, Match, Txt
<1>7. ~Reentrant => Undisturbed'
  BY <1>1 DEF Undisturbed, AppTurn, Sync
<1> QED
  BY <1>2, <1>3, <1>4, <1>5, <1>6, <1>7

LEMMA ApplicationKeeps == IInv /\ Application => IInv'
<1> SUFFICES ASSUME IInv, Application PROVE IInv'
  OBVIOUS
<1> USE DEF link, world, history, op
<1>0. TypeOK /\ subs \in Seq(Listener)
  BY DEF IInv, TypeOK
<1>1. ASSUME NEW l \in Listener, UnSubscribe(l) PROVE IInv'
  <2>1. subs' \in Seq(Listener) /\ (subs = <<>> => subs' = <<>>)
    BY <1>0, <1>1, Shorter DEF UnSubscribe
  <2>2. budget' \in [{"calls", "faults", "drops"} -> Nat] /\ AppTurn
        /\ UNCHANGED <<sid, closed, checking, pc, loc, ctx, link, world, history>>
    BY <1>0, <1>1 DEF UnSubscribe, Spend, TypeOK
  <2>3. CASE subs' = <<>>
    <3>1. DropKey(<<>>) /\ <<>> \in Seq(Listener)
      BY <1>1, <2>3 DEF UnSubscribe
    <3> QED
      BY <1>0, <2>1, <2>2, <2>3, <3>1, GoingKeeps DEF DropKey, TypeOK
  <2>4. CASE subs' # <<>>
    <3>1. UNCHANGED <<fs, watcher, queue, walk>>
      BY <1>1, <2>4 DEF UnSubscribe
    <3> QED
      BY <1>0, <2>1, <2>2, <2>4, <3>1, GoingKeeps DEF TypeOK
  <2> QED
    BY <2>3, <2>4
<1>2. CASE UnSubscribeAll
  <2>1. budget' \in [{"calls", "faults", "drops"} -> Nat] /\ AppTurn /\ subs' = <<>>
        /\ DropKey(subs)
        /\ UNCHANGED <<sid, closed, checking, pc, loc, ctx, link, world, history>>
    BY <1>0, <1>2 DEF UnSubscribeAll, Spend, TypeOK
  <2>2. subs' \in Seq(Listener)
    BY <2>1
  <2> QED
    BY <1>0, <2>1, <2>2, GoingKeeps DEF DropKey, TypeOK
<1>3. CASE Close
  <2>1. budget' \in [{"calls", "faults", "drops"} -> Nat]
    BY <1>0, <1>3 DEF Close, Spend, TypeOK
  <2>2. subs' \in Seq(Listener)
    BY <1>3 DEF Close
  <2> QED
    BY <1>0, <1>3, <2>1, <2>2, GoingKeeps DEF Close, TypeOK
<1> QED
  BY <1>1, <1>2, <1>3, SubscribeKeeps DEF Application

\* A listener is called.
LEMMA NotifyKeeps == IInv /\ NotifyNext => IInv'
<1> SUFFICES ASSUME IInv, NotifyNext PROVE IInv'
  OBVIOUS
<1> USE DEF IInv, client, op, link, world
<1>1. /\ walk \in Loop /\ walk # None /\ walk.c \in Contents /\ walk.c \in Int /\ walk.i \in Nat
      /\ pc \in {"stat", "register", "finish"}
      /\ UNCHANGED <<client, op, ctx, link, world, budget>>
      /\ IF Called = {} THEN walk' = None ELSE walk' = [walk EXCEPT !.i = @ + 1]
      /\ seen' = [l \in Listener |-> IF l \in Called THEN walk.c ELSE seen[l]]
      /\ newest' = [l \in Listener |->
                     IF l \in Called /\ walk.c > newest[l] THEN walk.c ELSE newest[l]]
  BY TextTypes DEF NotifyNext, TypeOK, Placed, Loop
<1>2. /\ walk' \in Loop \cup {None}
      /\ walk' # None => walk'.c = walk.c /\ walk'.live = walk.live /\ walk'.array = walk.array
                         /\ walk'.i = walk.i + 1
  BY <1>1 DEF Loop
<1>3. \A l \in Listener :
         /\ newest[l] \in 0 .. MaxVersion /\ newest'[l] \in 0 .. MaxVersion
         /\ newest'[l] = newest[l] \/ (newest'[l] = walk.c /\ walk.c >= 0)
  <2>1. \A l \in Listener : newest[l] \in 0 .. MaxVersion
    BY DEF TypeOK
  <2>2. walk.c <= MaxVersion
    BY <1>1 DEF Contents
  <2> QED
    BY <1>1, <2>1, <2>2, ConfigSubscriptionAssumption
<1>4. TypeOK'
  <2>1. seen' \in [Listener -> Contents \cup {None}] /\ newest' \in [Listener -> 0 .. MaxVersion]
    BY <1>1, <1>3 DEF TypeOK
  <2> QED
    BY <1>1, <1>2, <2>1 DEF TypeOK
<1>5. Placed' /\ Edited' /\ Answering' /\ FreshWhenGone' /\ ListenGoes'
  BY <1>1 DEF Placed, Edited, Answering, FreshWhenGone, ListenGoes, Removal
<1>6. Ordered'
  <2>1. server \in Int /\ snap \in Int \cup {None}
    BY DEF TypeOK
  <2>2. walk.c <= server /\ NoneAfter(server)
        /\ (walk.c >= 0 => \/ stale /\ walk.c = snap
                           \/ NoneAfter(walk.c) /\ (snap # None /\ ~stale => walk.c <= snap))
    BY <1>1 DEF Ordered, Reportable
  <2>3. NoneAfter(server)'
    BY <1>1, <1>3, <2>1, <2>2 DEF NoneAfter
  <2>4. snap # None => snap <= server /\ (stale \/ NoneAfter(snap)')
    BY <1>1, <1>3, <2>1, <2>2 DEF NoneAfter, Ordered
  <2>5. walk' # None /\ walk.c >= 0 /\ NoneAfter(walk.c) => NoneAfter(walk.c)'
    BY <1>1, <1>2, <1>3 DEF NoneAfter
  <2>6. walk' # None => Reportable(walk.c, snap, stale)'
    BY <1>1, <1>2, <2>2, <2>5 DEF Reportable
  <2> QED
    BY <1>1, <2>3, <2>4, <2>6 DEF Ordered
<1>7. OneListener' => Said'
  <2>1. SUFFICES ASSUME OneListener, subs # <<>>, fs.content # None
                 PROVE  IF walk' = None THEN Match'
                        ELSE Txt(walk'.c) = fs.content /\ walk'.i > 0 /\ Match'
    <3>1. Txt(walk'.c) = fs.content => Txt(walk.c)' = fs'.content
      BY <1>1 DEF Txt
    <3>2. walk'.i > 0 => walk'.i # 0
      BY <1>2 DEF Loop
    <3> QED
      BY <1>1, <2>1, <3>1, <3>2 DEF Said, OneListener
  <2>2. Txt(walk.c) = fs.content /\ (IF walk.i = 0 THEN Called # {} ELSE Match)
    BY <1>1, <2>1 DEF Said
  <2>3. CASE Called = {}
    BY <1>1, <2>1, <2>2, <2>3 DEF Match
  <2>4. CASE Called # {}
    <3>1. Called \subseteq Listener
      <4>1. Array \in Seq(Listener)
        BY <1>1 DEF Array, Loop, TypeOK
      <4>2. walk.i < Len(Array) => walk.i + 1 \in 1 .. Len(Array)
        BY <1>1, <4>1
      <4> QED
        BY <4>1, <4>2 DEF Called
    <3>2. \A l \in Listener : l \in Called
      BY <2>1, <2>4, <3>1 DEF OneListener
    <3>3. Match'
      BY <1>1, <2>2, <3>2, TextTypes DEF Match, Txt
    <3>4. walk'.c = walk.c /\ walk'.i > 0
      BY <1>1, <2>4 DEF Loop
    <3> QED
      BY <2>2, <3>3, <3>4
  <2> QED
    BY <2>3, <2>4
<1>8. ~Reentrant => Undisturbed'
  BY <1>1, <1>2 DEF Undisturbed
<1> QED
  BY <1>4, <1>5, <1>6, <1>7, <1>8

LEMMA Inductive == IInv /\ [Next]_vars => IInv'
BY StepKept, WorldKeeps, ApplicationKeeps, NotifyKeeps DEF Next

LEMMA Invariance == Spec => []IInv
BY InitEstablishes, Inductive, PTL DEF Spec
-----------------------------------------------------------------------------
\* Type correctness.
THEOREM TypeCorrect == Spec => []TypeOK
<1>1. IInv => TypeOK
  BY DEF IInv
<1> QED
  BY <1>1, Invariance, PTL

\* Unless a callback calls the client back, no listener is called after it was
\* unsubscribed or the client was closed: every await is followed by a check
\* that the subscription is still the one the operation began with.
THEOREM CallbacksInTime ==
    ASSUME ~Reentrant
    PROVE  Spec => []NoLateCallback
<1>1. IInv => NoLateCallback
  <2>1. SUFFICES ASSUME IInv, walk # None
                 PROVE  Called \subseteq Range(subs) /\ ~closed
    BY DEF NoLateCallback
  <2>2. Undisturbed /\ walk \in Loop /\ subs \in Seq(Listener)
    BY <2>1 DEF IInv, TypeOK
  <2>3. ASSUME walk.i < Len(Array) PROVE Array[walk.i + 1] \in Range(subs)
    <3>1. walk.i \in Nat
      BY <2>2 DEF Loop
    <3>2. CASE walk.live
      BY <2>2, <2>3, <3>1, <3>2 DEF Array, Range
    <3>3. CASE ~walk.live
      <4>1. Array = walk.array /\ walk.array \in Seq(Listener)
        BY <2>2, <3>3 DEF Array, Loop
      <4>2. walk.i + 1 \in 1 .. Len(walk.array)
        BY <2>3, <3>1, <4>1
      <4> QED
        BY <2>1, <2>2, <3>3, <4>1, <4>2 DEF Undisturbed
    <3> QED
      BY <3>2, <3>3
  <2> QED
    BY <2>1, <2>2, <2>3 DEF Called, Undisturbed
<1> QED
  BY <1>1, Invariance, PTL

\* A version that was read late never overwrites a newer one, whatever was
\* queued, failed or read from the snapshot in between; the snapshot that an
\* answer could not replace is the one exception.
THEOREM ReportsInOrder == Spec => []NeverRegresses
<1>1. IInv => NeverRegresses
  <2>1. SUFFICES ASSUME IInv, walk # None, walk.c >= 0
                 PROVE  \A l \in Called : walk.c >= newest[l] \/ (stale /\ walk.c = snap)
    BY DEF NeverRegresses
  <2>2. (NoneAfter(walk.c) \/ (stale /\ walk.c = snap)) /\ walk \in Loop
    BY <2>1 DEF IInv, Ordered, Reportable, TypeOK
  <2>3. Called \subseteq Listener
    <3>1. Array \in Seq(Listener) /\ walk.i \in Nat
      BY <2>1, <2>2 DEF Array, Loop, IInv, TypeOK
    <3>2. walk.i < Len(Array) => walk.i + 1 \in 1 .. Len(Array)
      BY <3>1
    <3> QED
      BY <3>1, <3>2 DEF Called
  <2> QED
    BY <2>2, <2>3 DEF NoneAfter
<1> QED
  BY <1>1, Invariance, PTL

\* A key that lost its last listener loses its listen once the queue is empty,
\* also when callbacks call the client back, as long as it is open.
OpenLeavesNoListen == ~closed => NoListenLeftBehind

THEOREM OpenUnsubscribes == Spec => []OpenLeavesNoListen
<1>1. IInv => OpenLeavesNoListen
  <2>1. SUFFICES ASSUME IInv, ~closed, queue = <<>>, subs = <<>>
                 PROVE  ctx = None
    BY DEF OpenLeavesNoListen, NoListenLeftBehind, Quiet
  <2>2. ctx # None => \E i \in 1 .. Len(queue) : Removal(i)
    BY <2>1 DEF IInv, ListenGoes
  <2> QED
    BY <2>1, <2>2
<1> QED
  BY <1>1, Invariance, PTL

\* Closing leaves none behind either, unless a callback closes the client and
\* its initialisation registers the listen after it.
THEOREM Unsubscribes ==
    ASSUME ~Reentrant
    PROVE  Spec => []NoListenLeftBehind
<1>1. IInv /\ OpenLeavesNoListen => NoListenLeftBehind
  BY DEF IInv, Undisturbed, OpenLeavesNoListen, NoListenLeftBehind
<1> QED
  BY <1>1, Invariance, OpenUnsubscribes, PTL

\* With one listener, what the state object holds is what the listener heard.
THEOREM StateWasReported ==
    ASSUME OneListener
    PROVE  Spec => []ListenerSawState
<1>1. IInv => ListenerSawState
  <2>1. SUFFICES ASSUME IInv, walk = None, subs # <<>>, fs.content # None
                 PROVE  \A l \in Range(subs) : seen[l] # None /\ Txt(seen[l]) = fs.content
    BY DEF ListenerSawState, Quiet
  <2>2. Match
    BY <2>1 DEF IInv, Said
  <2>3. Range(subs) \subseteq Listener
    BY <2>1 DEF IInv, TypeOK, Range
  <2> QED
    BY <2>2, <2>3 DEF Match
<1> QED
  BY <1>1, Invariance, PTL
-----------------------------------------------------------------------------
\* A content that was read ends failover mode only if the server sent it.
LEMMA GotStays ==
    ASSUME TypeOK, NEW c, NEW source, Got(c, source)
    PROVE  fs'.on = fs.on \/ (source = "server" /\ fs'.content = Txt(c))
<1> USE DEF TypeOK, FailoverState
<1>1. CASE InitGot(c)
  BY <1>1 DEF InitGot, InitCommit, Abandon
<1>2. CASE PushGot(c)
  BY <1>2 DEF PushGot, Abandon
<1>3. CASE CheckGot(c, source)
  BY <1>3 DEF CheckGot, Switch, LeftFailover, Abandon
<1> QED
  BY <1>1, <1>2, <1>3 DEF Got

LEMMA StepLeaves ==
    ASSUME IInv, Step, fs.on, ~fs'.on
    PROVE  \E v \in loc.asked .. server : fs'.content = Txt(v)
<1> USE DEF TypeOK, FailoverState
<1>0. TypeOK /\ Answering
  BY DEF IInv
<1>1. CASE FetchAnswered
  <2>1. Got(loc.res, "server") /\ pc = "answer"
    BY <1>1 DEF FetchAnswered
  <2>2. fs'.content = Txt(loc.res)
    BY <1>0, <2>1, GotStays
  <2>3. loc.res \in Int /\ loc.asked \in Int /\ server \in Int
    BY <1>0, TextTypes DEF Locals
  <2> QED
    BY <1>0, <2>1, <2>2, <2>3 DEF Answering
<1>2. CASE ReadFailover
  BY <1>0, <1>2, GotStays DEF ReadFailover, client
<1>3. CASE FetchFailed
  BY <1>0, <1>3, GotStays DEF FetchFailed, client
<1>4. CASE StartInit \/ StartPush \/ StartRemove \/ FetchServed \/ CheckStat \/ AddAnswered
           \/ RemoveEnds \/ FinishOp
  BY <1>4 DEF StartInit, StartPush, StartRemove, FetchServed, CheckStat, AddAnswered,
              RemoveEnds, FinishOp, client
<1>5. CASE StartCheck \/ AddFailed
  BY <1>0, <1>5 DEF StartCheck, AddFailed
<1>6. CASE InitStat \/ InitRegister
  BY <1>0, <1>6 DEF InitStat, InitRegister, Register
<1>7. CASE InitFile
  BY <1>0, <1>7 DEF InitFile, Register, InFailover, Abandon
<1>8. CASE CheckFile
  BY <1>0, <1>8 DEF CheckFile, Switch, InFailover, Abandon
<1> QED
  BY <1>1, <1>2, <1>3, <1>4, <1>5, <1>6, <1>7, <1>8 DEF Step

\* Failover mode ends with a content the server had between the request and
\* then, never with a snapshot.
THEOREM FailoverEnds == Spec => FailoverEndsWithServer
<1>1. ASSUME IInv, Next, fs.on, ~fs'.on, subs' # <<>>
      PROVE  \E v \in loc.asked .. server : fs'.content = Txt(v)
  <2>1. CASE Application
    <3>1. fs' # fs
      BY <1>1
    <3>2. PICK l \in Listener : Subscribe(l) /\ subs = <<>>
      BY <1>1, <2>1, <3>1 DEF Application, Subscribe, UnSubscribe, UnSubscribeAll, Close
    <3> QED
      BY <1>1, <3>2 DEF IInv, FreshWhenGone, FreshState
  <2>2. CASE Step
    BY <1>1, <2>2, StepLeaves
  <2>3. CASE \/ NotifyNext \/ Tick \/ PushArrives \/ ResendEnds \/ Reconnect
             \/ ServerChanges \/ FailoverEdited \/ Drop
    BY <1>1, <2>3 DEF NotifyNext, Tick, PushArrives, ResendEnds, Reconnect, ServerChanges,
                      FailoverEdited, Drop, client
  <2> QED
    BY <1>1, <2>1, <2>2, <2>3 DEF Next
<1>2. IInv /\ [Next]_vars =>
         [fs.on /\ ~fs'.on /\ subs' # <<>> =>
            \E v \in loc.asked .. server : fs'.content = Txt(v)]_vars
  BY <1>1
<1> QED
  BY <1>2, Invariance, PTL DEF Spec, FailoverEndsWithServer

-----------------------------------------------------------------------------
(* The queue the operations of a key run on, for every set of keys and every *)
(* number of calls.  The inductive invariant adds to the map's invariant how *)
(* calls are linked: everything of a key that came before the promise a call *)
(* found in the map is covered by that promise.                              *)

\* Exactly the calls already made have left the status "new".
OnlyCallsExist == \A t \in Task : st[t] = "new" <=> t > calls

\* A call is chained on an earlier call of its key; the calls of that key
\* between the two were drained when it was made.
ChainIsGapless ==
    \A t \in Task : t <= calls =>
        /\ prev[t] < t
        /\ prev[t] # NoTail => key[prev[t]] = key[t]
        /\ \A u \in Task : u < t /\ key[u] = key[t] => u <= prev[t] \/ st[u] = "drained"

\* A task begins only when every earlier call of its key is drained.
BegunAfterDrained ==
    \A t, u \in Task :
        (u < t /\ key[u] = key[t] /\ st[t] \notin {"new", "chained"}) => st[u] = "drained"

QueueIInv ==
    /\ QueueTypeOK
    /\ OnlyCallsExist
    /\ ChainIsGapless
    /\ BegunAfterDrained
    /\ MapHoldsLastLive

-----------------------------------------------------------------------------
\* The initial states satisfy the inductive invariant.
LEMMA QueueInitEstablishes == QueueInit => QueueIInv
  BY KeyedQueueAssumption
     DEF QueueInit, QueueIInv, QueueTypeOK, OnlyCallsExist, ChainIsGapless, BegunAfterDrained,
         MapHoldsLastLive, Live, Task, TailPromise, Status, NoTail

\* A call to run() preserves the inductive invariant.
LEMMA RunPreserves == QueueIInv /\ Run => QueueIInv'
<1> SUFFICES ASSUME QueueIInv, Run PROVE QueueIInv'
  OBVIOUS
<1> DEFINE t == calls + 1
<1>1. t \in Task /\ st[t] = "new" /\ key[t] \in Key /\ calls \in Nat
  BY KeyedQueueAssumption DEF QueueIInv, QueueTypeOK, OnlyCallsExist, Run, Task
<1>2. QueueTypeOK'
  BY <1>1, KeyedQueueAssumption DEF QueueIInv, QueueTypeOK, Run, TailPromise, Status, Task
<1>3. OnlyCallsExist'
  BY <1>1 DEF QueueIInv, QueueTypeOK, OnlyCallsExist, Run, Task
<1>4. ChainIsGapless'
  <2>1. \A u \in Task : u < t /\ key[u] = key[t] =>
           u <= tails[key[t]] \/ st[u] = "drained"
    BY <1>1 DEF QueueIInv, QueueTypeOK, MapHoldsLastLive, Live, Task
  <2>2. tails[key[t]] < t /\ (tails[key[t]] # NoTail => key[tails[key[t]]] = key[t])
    BY <1>1 DEF QueueIInv, QueueTypeOK, MapHoldsLastLive, Live, Task, NoTail
  <2> QED
    BY <1>1, <2>1, <2>2 DEF QueueIInv, QueueTypeOK, ChainIsGapless, Run, Task, TailPromise, NoTail
<1>5. BegunAfterDrained'
  BY <1>1 DEF QueueIInv, QueueTypeOK, BegunAfterDrained, OnlyCallsExist, Run, Task
<1>6. MapHoldsLastLive'
  <2> SUFFICES ASSUME NEW k \in Key
               PROVE  (\/ tails[k] = NoTail /\ Live(k) = {}
                       \/ tails[k] \in Live(k) /\ \A u \in Live(k) : u <= tails[k])'
    BY DEF MapHoldsLastLive
  <2>1. CASE k = key[t]
    <3>1. t \in Live(k)' /\ tails'[k] = t
      BY <1>1, <2>1 DEF QueueIInv, QueueTypeOK, Run, Live
    <3>2. \A u \in Live(k)' : u <= t
      BY <1>1 DEF Run, Live, Task
    <3> QED
      BY <3>1, <3>2
  <2>2. CASE k # key[t]
    <3>1. Live(k)' = Live(k) /\ tails'[k] = tails[k]
      BY <1>1, <2>2 DEF QueueIInv, QueueTypeOK, Run, Live, Task
    <3> QED
      BY <3>1 DEF QueueIInv, MapHoldsLastLive
  <2> QED
    BY <2>1, <2>2
<1> QED
  BY <1>2, <1>3, <1>4, <1>5, <1>6 DEF QueueIInv

\* Beginning a task preserves it: this is where the chain has to be gapless.
LEMMA StartPreserves == ASSUME NEW t \in Task, QueueIInv, Start(t) PROVE QueueIInv'
<1>1. st[t] = "chained" /\ t <= calls /\ calls \in Nat
  BY DEF QueueIInv, QueueTypeOK, OnlyCallsExist, Start, Task
<1>2. QueueTypeOK'
  BY DEF QueueIInv, QueueTypeOK, Start, Status
<1>3. OnlyCallsExist'
  BY <1>1 DEF QueueIInv, QueueTypeOK, OnlyCallsExist, Start, Task
<1>4. ChainIsGapless'
  BY <1>1 DEF QueueIInv, QueueTypeOK, ChainIsGapless, Start, Status
<1>5. BegunAfterDrained'
  <2>1. \A u \in Task : u < t /\ key[u] = key[t] => st[u] = "drained"
    <3> SUFFICES ASSUME NEW u \in Task, u < t, key[u] = key[t]
                 PROVE  st[u] = "drained"
      OBVIOUS
    <3>1. u <= prev[t] \/ st[u] = "drained"
      BY <1>1 DEF QueueIInv, ChainIsGapless
    <3>2. CASE u <= prev[t] /\ st[u] # "drained"
      <4>1. prev[t] \in Task /\ st[prev[t]] = "drained" /\ key[prev[t]] = key[t]
        BY <1>1, <3>2 DEF QueueIInv, QueueTypeOK, ChainIsGapless, Start, TailPromise, NoTail, Task
      <4> QED
        BY <3>2, <4>1 DEF QueueIInv, QueueTypeOK, BegunAfterDrained, Task
    <3> QED
      BY <3>1, <3>2
  <2> QED
    BY <1>1, <2>1 DEF QueueIInv, QueueTypeOK, BegunAfterDrained, Start
<1>6. MapHoldsLastLive'
  <2>1. \A k \in Key : Live(k)' = Live(k)
    BY <1>1 DEF QueueIInv, QueueTypeOK, Start, Live
  <2> QED
    BY <2>1 DEF QueueIInv, MapHoldsLastLive, Start
<1> QED
  BY <1>2, <1>3, <1>4, <1>5, <1>6 DEF QueueIInv

\* The settling of a task preserves it.
LEMMA SettlePreserves == ASSUME NEW t \in Task, QueueIInv, Settle(t) PROVE QueueIInv'
<1>1. st[t] = "running" /\ t <= calls /\ calls \in Nat
  BY DEF QueueIInv, QueueTypeOK, OnlyCallsExist, Settle, Task
<1>2. PICK outcome \in {"fulfilled", "rejected"} : st' = [st EXCEPT ![t] = outcome]
  BY DEF Settle
<1>3. QueueTypeOK'
  BY <1>2 DEF QueueIInv, QueueTypeOK, Settle, Status
<1>4. OnlyCallsExist'
  BY <1>1, <1>2 DEF QueueIInv, QueueTypeOK, OnlyCallsExist, Settle, Task
<1>5. ChainIsGapless'
  BY <1>1, <1>2 DEF QueueIInv, QueueTypeOK, ChainIsGapless, Settle
<1>6. BegunAfterDrained'
  BY <1>1, <1>2 DEF QueueIInv, QueueTypeOK, BegunAfterDrained, Settle
<1>7. MapHoldsLastLive'
  <2>1. \A k \in Key : Live(k)' = Live(k)
    BY <1>1, <1>2 DEF QueueIInv, QueueTypeOK, Settle, Live
  <2> QED
    BY <2>1 DEF QueueIInv, MapHoldsLastLive, Settle
<1> QED
  BY <1>3, <1>4, <1>5, <1>6, <1>7 DEF QueueIInv

\* Resolving a tail preserves it: when the map holds this tail, no other call
\* of the key is live, so nothing is lost with the entry.
LEMMA DrainPreserves == ASSUME NEW t \in Task, QueueIInv, Drain(t) PROVE QueueIInv'
<1>1. st[t] \in {"fulfilled", "rejected"} /\ t <= calls /\ calls \in Nat /\ key[t] \in Key
  BY DEF QueueIInv, QueueTypeOK, OnlyCallsExist, Drain, Task
<1>2. QueueTypeOK'
  BY <1>1 DEF QueueIInv, QueueTypeOK, Drain, Status, TailPromise
<1>3. OnlyCallsExist'
  BY <1>1 DEF QueueIInv, QueueTypeOK, OnlyCallsExist, Drain, Task
<1>4. ChainIsGapless'
  BY <1>1 DEF QueueIInv, QueueTypeOK, ChainIsGapless, Drain
<1>5. BegunAfterDrained'
  BY <1>1 DEF QueueIInv, QueueTypeOK, BegunAfterDrained, Drain
<1>6. MapHoldsLastLive'
  <2> SUFFICES ASSUME NEW k \in Key
               PROVE  (\/ tails[k] = NoTail /\ Live(k) = {}
                       \/ tails[k] \in Live(k) /\ \A u \in Live(k) : u <= tails[k])'
    BY DEF MapHoldsLastLive
  <2>1. CASE k # key[t]
    <3>1. Live(k)' = Live(k) /\ tails'[k] = tails[k]
      BY <1>1, <2>1 DEF QueueIInv, QueueTypeOK, Drain, Live
    <3> QED
      BY <3>1 DEF QueueIInv, MapHoldsLastLive
  <2>2. CASE k = key[t] /\ tails[k] # t
    <3>1. Live(k)' = Live(k) \ {t} /\ tails'[k] = tails[k] /\ t \in Live(k)
      BY <1>1, <2>2 DEF QueueIInv, QueueTypeOK, Drain, Live
    <3> QED
      BY <2>2, <3>1 DEF QueueIInv, MapHoldsLastLive
  <2>3. CASE k = key[t] /\ tails[k] = t
    <3>1. \A u \in Live(k) : u = t
      BY <1>1, <2>3
         DEF QueueIInv, QueueTypeOK, BegunAfterDrained, MapHoldsLastLive, Live, Task, NoTail
    <3>2. Live(k)' = {} /\ tails'[k] = NoTail
      BY <1>1, <2>3, <3>1 DEF QueueIInv, QueueTypeOK, Drain, Live
    <3> QED
      BY <3>2
  <2> QED
    BY <2>1, <2>2, <2>3
<1> QED
  BY <1>2, <1>3, <1>4, <1>5, <1>6 DEF QueueIInv

\* The conjunction of type correctness, the gapless chain and the map's
\* invariant is an invariant of the queue (keyed_queue.ts:23-37).
THEOREM QueueInductive == QueueSpec => []QueueIInv
<1>1. QueueIInv /\ [QueueNext]_queueVars => QueueIInv'
  <2> SUFFICES ASSUME QueueIInv, [QueueNext]_queueVars PROVE QueueIInv'
    OBVIOUS
  <2>1. CASE UNCHANGED queueVars
    BY <2>1 DEF queueVars, QueueIInv, QueueTypeOK, OnlyCallsExist, ChainIsGapless, BegunAfterDrained,
                MapHoldsLastLive, Live
  <2>2. CASE QueueNext
    BY <2>2, RunPreserves, StartPreserves, SettlePreserves, DrainPreserves DEF QueueNext
  <2> QED
    BY <2>1, <2>2
<1> QED
  BY QueueInitEstablishes, <1>1, PTL DEF QueueSpec

\* Every state of the queue has the declared types.
THEOREM QueueTypeCorrect == QueueSpec => []QueueTypeOK
<1>1. QueueIInv => QueueTypeOK
  BY DEF QueueIInv
<1> QED
  BY QueueInductive, <1>1, PTL

\* No two tasks of a key run at the same time: `strictly serial' of the class
\* comment, for every number of calls and every timing of the reactions.
THEOREM Serial == QueueSpec => []SerialPerKey
<1>1. QueueIInv => SerialPerKey
  BY DEF QueueIInv, QueueTypeOK, BegunAfterDrained, SerialPerKey, Task
<1> QED
  BY QueueInductive, <1>1, PTL

\* The map holds the tail of the last live call of each key, and an entry only
\* for keys that have one.
THEOREM MapExact == QueueSpec => []MapHoldsLastLive
<1>1. QueueIInv => MapHoldsLastLive
  BY DEF QueueIInv
<1> QED
  BY QueueInductive, <1>1, PTL

-----------------------------------------------------------------------------
\* The safety part of the promise: each step of the queue is a step of the
\* serial queue or leaves it unchanged.
THEOREM RefinesSafely == QueueSpec => Promised!Init /\ [][Promised!Next]_(Promised!vars)
<1> DEFINE Busy == {t \in Task : st[t] = "running"}
           Done == {t \in Task : Settled(t)}
<1>1. QueueInit => Promised!Init
  BY DEF QueueInit, Promised!Init, Promised!Task, Task, Settled
<1>2. QueueIInv /\ [QueueNext]_queueVars => [Promised!Next]_(Promised!vars)
  <2> SUFFICES ASSUME QueueIInv, [QueueNext]_queueVars PROVE [Promised!Next]_(Promised!vars)
    OBVIOUS
  <2> USE DEF Promised!Task
  <2>1. CASE UNCHANGED queueVars
    BY <2>1 DEF queueVars, Promised!vars, Settled
  <2>2. CASE Run
    <3>1. calls + 1 \in Task /\ st[calls + 1] = "new" /\ calls \in Nat
      BY <2>2, KeyedQueueAssumption DEF QueueIInv, QueueTypeOK, OnlyCallsExist, Run, Task
    <3>2. Busy' = Busy /\ Done' = Done
      BY <2>2, <3>1 DEF QueueIInv, QueueTypeOK, Run, Settled
    <3>3. Promised!Submit
      BY <2>2, <3>2 DEF Run, Promised!Submit
    <3> QED
      BY <3>3 DEF Promised!Next
  <2>3. ASSUME NEW t \in Task, Start(t) PROVE Promised!Next
    <3>1. t <= calls /\ st[t] = "chained"
      BY <2>3 DEF QueueIInv, QueueTypeOK, OnlyCallsExist, Start, Task
    <3>2. Busy' = Busy \cup {t} /\ Done' = Done /\ t \notin Busy \cup Done
      BY <2>3, <3>1 DEF QueueIInv, QueueTypeOK, Start, Settled
    <3>3. \A u \in Task : u < t /\ key[u] = key[t] => u \in Done
      <4>1. QueueIInv'
        BY <2>3, StartPreserves
      <4>2. st'[t] = "running" /\ key' = key
        BY <2>3 DEF QueueIInv, QueueTypeOK, Start
      <4>3. \A u \in Task : u < t /\ key[u] = key[t] => st'[u] = "drained"
        BY <4>1, <4>2 DEF QueueIInv, BegunAfterDrained
      <4> QED
        BY <2>3, <4>3 DEF QueueIInv, QueueTypeOK, Start, Settled, Task
    <3>4. Promised!Begin(t)
      BY <2>3, <3>1, <3>2, <3>3 DEF Start, Promised!Begin, Task
    <3> QED
      BY <3>4 DEF Promised!Next, Task
  <2>4. ASSUME NEW t \in Task, Settle(t) PROVE Promised!Next
    <3>1. PICK outcome \in {"fulfilled", "rejected"} : st' = [st EXCEPT ![t] = outcome]
      BY <2>4 DEF Settle
    <3>2. t \in Busy /\ Busy' = Busy \ {t} /\ Done' = Done \cup {t}
      BY <2>4, <3>1 DEF QueueIInv, QueueTypeOK, Settle, Settled
    <3>3. Promised!Settle(t)
      BY <2>4, <3>2 DEF Settle, Promised!Settle
    <3> QED
      BY <3>3 DEF Promised!Next, Task
  <2>5. ASSUME NEW t \in Task, Drain(t) PROVE UNCHANGED Promised!vars
    <3>1. Busy' = Busy /\ Done' = Done
      BY <2>5 DEF QueueIInv, QueueTypeOK, Drain, Settled
    <3> QED
      BY <2>5, <3>1 DEF Drain, Promised!vars
  <2> QED
    BY <2>1, <2>2, <2>3, <2>4, <2>5 DEF QueueNext
<1> QED
  BY QueueInductive, <1>1, <1>2, PTL DEF QueueSpec
=============================================================================
