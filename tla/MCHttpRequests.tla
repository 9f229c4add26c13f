---------------------------- MODULE MCHttpRequests ----------------------------
(* Two lists, of which the second lacks a server of the first, and two       *)
(* publishing calls.                                                         *)
EXTENDS HttpRequests, TLC

CONSTANTS s1, s2

MCServer == {s1, s2}
MCLists  == {<<s1, s2>>, <<s2>>}
=============================================================================
