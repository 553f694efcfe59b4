--------------------------- MODULE MCCalibration ---------------------------
(***************************************************************************)
(* Two sensors and a pin without converter, two samples per calibration.   *)
(***************************************************************************)
EXTENDS Calibration

Config(min, max, calMin, calMax) ==
  [typed |-> TRUE, min_value |-> min, max_value |-> max,
   calibrate_min_value |-> calMin, calibrate_max_value |-> calMax]
Typeless(config) == [config EXCEPT !.typed = FALSE]

\* Measuring, calibrating one limit or both, with and without a type, ranges that
\* are empty.
MCPosts ==
  { [p \in {1, 2} |-> IF p = 1 THEN Config(1, 2, TRUE, FALSE)
                               ELSE Typeless(Config(1, 2, TRUE, TRUE))],
    [p \in {1, 2} |-> IF p = 1 THEN Config(0, 1, TRUE, TRUE) ELSE Config(1, 2, FALSE, TRUE)],
    [p \in {1, 2, 9} |->
       CASE p = 1 -> Config(1, 1, FALSE, FALSE)
         [] p = 2 -> Config(1, 2, TRUE, FALSE)
         [] p = 9 -> Config(0, 2, TRUE, FALSE)] }
============================================================================
