------------------------- MODULE MCSoftwareDownload -------------------------
(***************************************************************************)
(* A file of three blocks: the one sent with size and hash, one between,   *)
(* and the last.                                                           *)
(***************************************************************************)
EXTENDS SoftwareDownload
=============================================================================
