---------------------------- MODULE MCConfigRead ----------------------------
(* Three overlapping calls on one configuration with two contents.          *)
EXTENDS ConfigRead

CONSTANTS f1, f2, f3, c1, c2

MCFlow      == {f1, f2, f3}
MCTwoFlows  == {f1, f2}
MCContent   == {c1, c2}
MCPublished == {c1, c2, Empty}
MCNonEmpty  == {c1, c2}
=============================================================================
