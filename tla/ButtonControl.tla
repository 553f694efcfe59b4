--------------------------- MODULE ButtonControl ---------------------------
(***************************************************************************)
(* ButtonControl: the interrupt of a rising edge puts the pin into a queue *)
(* of bounded length, or drops it when the queue is full; a task takes the *)
(* pins out and calls the subscribers of their buttons.                    *)
(***************************************************************************)
EXTENDS Naturals, Sequences

CONSTANTS Pins,           \* PIN_GPIOS
          QueueLength,    \* 8 in the code
          None

ASSUME ButtonAssumption == QueueLength \in Nat \ {0} /\ None \notin Seq(Pins)

VARIABLES
  queue,        \* the pins in it, or None before it is created
  irq_enabled,  \* the pins whose interrupt is enabled
  queue_task,   \* the task: None before it is created, else the pins it has taken out
  list_subscribers

buttonVars == <<queue, irq_enabled, queue_task, list_subscribers>>

ButtonTypeOK ==
  /\ queue = None \/ (queue \in Seq(Pins) /\ Len(queue) <= QueueLength)
  /\ irq_enabled \subseteq Pins
  /\ queue_task = None \/ (queue_task \in Seq(Pins) /\ Len(queue_task) <= 1)
  /\ DOMAIN list_subscribers = Pins

Created == queue # None
TaskRuns == queue_task # None
Notifying(p) == queue_task = <<p>>
Updates(p, subscriber) == Notifying(p) /\ subscriber \in list_subscribers[p]
Waiting(p) == Created /\ \E i \in 1 .. Len(queue) : queue[i] = p

ButtonInit ==
  /\ queue = None /\ irq_enabled = {} /\ queue_task = None
  /\ list_subscribers = [p \in Pins |-> {}]

-----------------------------------------------------------------------------
(* The constructor *)

CreateQueue ==
  /\ queue = None /\ queue' = <<>>
  /\ UNCHANGED <<irq_enabled, queue_task, list_subscribers>>

EnableIrq(p) ==
  /\ Created /\ p \notin irq_enabled
  /\ irq_enabled' = irq_enabled \cup {p}
  /\ UNCHANGED <<queue, queue_task, list_subscribers>>

CreateTask ==
  /\ irq_enabled = Pins /\ queue_task = None
  /\ queue_task' = <<>>
  /\ UNCHANGED <<queue, irq_enabled, list_subscribers>>

attach(p, subscriber) ==
  /\ list_subscribers' = [list_subscribers EXCEPT ![p] = @ \cup {subscriber}]
  /\ UNCHANGED <<queue, irq_enabled, queue_task>>

-----------------------------------------------------------------------------
\* Mutation: the newest press is taken first.
PushedToFront(p) == <<p>> \o queue
Queued(p) == Append(queue, p)

\* The interrupt; what does not fit is dropped.
button_press_callback(p) ==
  /\ p \in irq_enabled
  /\ queue' = IF Len(queue) < QueueLength THEN Queued(p) ELSE queue
  /\ UNCHANGED <<irq_enabled, queue_task, list_subscribers>>

Receive ==
  /\ queue_task = <<>> /\ Created /\ queue # <<>>
  /\ queue_task' = <<Head(queue)>> /\ queue' = Tail(queue)
  /\ UNCHANGED <<irq_enabled, list_subscribers>>

\* notify: the subscribers' update has been called.
Notify ==
  /\ \E p \in Pins : Notifying(p)
  /\ queue_task' = <<>>
  /\ UNCHANGED <<queue, irq_enabled, list_subscribers>>
============================================================================
