----------------------------- MODULE MCRestApi -----------------------------
(***************************************************************************)
(* RestApi with a pool of three pcbs: two clients that overlap and one     *)
(* connection still being closed.                                          *)
(***************************************************************************)
EXTENDS RestApi
============================================================================
