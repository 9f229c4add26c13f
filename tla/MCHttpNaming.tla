---------------------------- MODULE MCHttpNaming ----------------------------
(* One instance, two lists of which one has a dead server.                  *)
EXTENDS HttpNaming, TLC

CONSTANTS k1, s1, s2

MCKey    == {k1}
MCServer == {s1, s2}
MCDead   == {s1}
MCLists  == {<<s1, s2>>, <<s2>>}
=============================================================================
