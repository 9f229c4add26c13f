------------------------------ MODULE ServerLink ------------------------------
(***************************************************************************)
(* What the users of GrpcConnection count on: a link that may be lost at   *)
(* any time comes back by itself ("Auto reconnect", README.md:123), until  *)
(* the client is closed, which is for good.                                *)
(***************************************************************************)
VARIABLES up,      \* requests reach the server and its pushes reach the client
          closed   \* the client was closed

vars == <<up, closed>>

Init == ~up /\ ~closed

Establish == ~up /\ ~closed /\ up' = TRUE /\ UNCHANGED closed

Lose == up /\ up' = FALSE /\ UNCHANGED closed

Close == ~closed /\ closed' = TRUE /\ up' = FALSE

Next == Establish \/ Lose \/ Close

Spec == Init /\ [][Next]_vars /\ WF_vars(Establish)
=============================================================================
