----------------------- MODULE MCPlantMoistureSensor -----------------------
(***************************************************************************)
(* Two attempts per join, buttons C and A, a queue of two.  There are two  *)
(* slots for blink tasks: never are there more than one that is ending and *)
(* its successor (AtMostTwoTasks and SlotIsFree in LedProofs).             *)
(***************************************************************************)
EXTENDS PlantMoistureSensor

MCDelays == {500, 3000}
============================================================================
