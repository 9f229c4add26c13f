--------------------------- MODULE MCGrpcConnection ---------------------------
(* The constants of GrpcConnection are numbers and flags: the configurations  *)
(* give them directly.                                                        *)
EXTENDS GrpcConnection
=============================================================================
