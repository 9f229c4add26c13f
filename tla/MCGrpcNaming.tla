---------------------------- MODULE MCGrpcNaming ----------------------------
(* One instance that may be registered with other data, one subscription:    *)
(* the walk of a replay has two entries.                                     *)
EXTENDS GrpcNaming, TLC

CONSTANTS k1, w1, w2, t1

MCKey   == {k1}
MCInfo  == {w1, w2}
MCTopic == {t1}
=============================================================================
