---------------------------- MODULE MCRdvBuffer ----------------------------
(* RdvBuffer for TLC, with four data, told apart only by their identity.   *)
EXTENDS RdvBuffer

CONSTANTS d0, d1, d2, d3
=============================================================================
