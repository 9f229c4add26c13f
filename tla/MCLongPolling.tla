---------------------------- MODULE MCLongPolling ----------------------------
(* Two listeners of one key and a failover file with one or no content.      *)
EXTENDS LongPolling, TLC

CONSTANTS l1, l2, f1

MCListener == {l1, l2}
MCLocal    == {f1}
=============================================================================
