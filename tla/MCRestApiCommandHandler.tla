---------------------- MODULE MCRestApiCommandHandler ----------------------
(***************************************************************************)
(* Two moisture sensors and the temperature sensor, a digest of two bytes  *)
(* and a block of three.                                                   *)
(***************************************************************************)
EXTENDS RestApiCommandHandler

\* Texts that fit, that are empty, odd, exact, and one or two digits too long.
MCLengths == {0, 3, 4, 5, 6, 7, 8}
============================================================================
