------------------------------ MODULE RestData ------------------------------
(***************************************************************************)
(* What a client of GET relies on: for every sensor the latest measurement *)
(* that was published, whole, and its configuration, replaced together;    *)
(* and an answer that is all of them as they are at one moment, or a       *)
(* refusal.                                                                *)
(***************************************************************************)
CONSTANTS Sensors, Measurements, Null

VARIABLES
  typed,     \* the sensors that have a configuration to show
  data,      \* the measurement published of each sensor
  configs,   \* the configuration published of each of these
  answer     \* what the last GET was answered

Init ==
  /\ typed \subseteq Sensors
  /\ data = [s \in Sensors |-> Null]
  /\ configs = [s \in typed |-> Null]
  /\ answer = Null

Publish(s, m) ==
  /\ data' = [data EXCEPT ![s] = m]
  /\ configs' = [c \in typed |-> IF c = s THEN m ELSE configs[c]]
  /\ UNCHANGED <<typed, answer>>

Answer ==
  /\ answer' \in { [resource |-> "SENSORS", payload |-> data],
                   [resource |-> "CONFIG", payload |-> configs], Null }
  /\ UNCHANGED <<typed, data, configs>>

Next == Answer \/ \E s \in Sensors, m \in Measurements : Publish(s, m)

Spec == Init /\ [][Next]_<<typed, data, configs, answer>>
============================================================================
