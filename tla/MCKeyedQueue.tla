---------------------------- MODULE MCKeyedQueue ----------------------------
(* Two keys, of which one may hang, and four calls: enough for a call to    *)
(* arrive before, between and after the reactions of two earlier ones.      *)
EXTENDS KeyedQueue

CONSTANTS k1, k2

MCKey  == {k1, k2}
MCHung == {k2}
=============================================================================
