---------------------------- MODULE MCGrpcStream ----------------------------
(* Instances of GrpcStream for TLC.                                         *)
EXTENDS GrpcStream
TwoCodes == {"Internal", "Canceled"}
=============================================================================
