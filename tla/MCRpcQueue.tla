----------------------------- MODULE MCRpcQueue ------------------------------
(* A ring of the size the firmware is built with, and two contents, so     *)
(* that a request differs from one that would overwrite it.                *)
EXTENDS RpcQueue

MCMsg == {"m1", "m2"}
=============================================================================
