-------------------------- MODULE MCConfigHandler --------------------------
(***************************************************************************)
(* Small instances of ConfigHandler.  Pages of 8 bytes and a sector of two *)
(* pages stand for the 256 and 4096 of the device.                         *)
(***************************************************************************)
EXTENDS ConfigHandler

CONSTANTS main, tcpip, short, long

\* The main task alone, in which every section is written.
OneTask == {main}
WritesAll == [t \in OneTask |-> Sections]

\* The main task and the lwIP thread, with the sections each of them writes
\* once the REST server runs.
TwoTasks == {main, tcpip}
WritesShared == [t \in TwoTasks |->
  IF t = main THEN {"sensors"} ELSE {"sensors", "mqtt"}]

TwoValues == {short, long}

\* Lengths 5, 6, 9, 10, 11, 13, 14, 15: none ends at the end of a page.
SizesOffBoundary == [s \in Sections |-> [v \in TwoValues |->
  CASE s = "sensors" -> IF v = short THEN 4 ELSE 5
    [] s = "wifi"    -> 4
    [] s = "mqtt"    -> IF v = short THEN 5 ELSE 9]]

\* Lengths that end a page (8), that fill the sector (16) and that exceed it.
SizesOnBoundary == [s \in Sections |-> [v \in TwoValues |->
  CASE s = "sensors" -> IF v = short THEN 3 ELSE 7
    [] s = "wifi"    -> IF v = short THEN 4 ELSE 8
    [] s = "mqtt"    -> 4]]
============================================================================
