---------------------------- MODULE ConfigStore ----------------------------
(***************************************************************************)
(* What the configuration handler promises its callers: a store of one     *)
(* setting per section, in which a write changes its own section and no    *)
(* other.  The only other thing that may ever happen to the store is that  *)
(* it is emptied, and only when Lossy says that losing it is possible.     *)
(***************************************************************************)
CONSTANTS Sections,    \* the keys of the stored JSON object
          Values,      \* the settings a section can be given
          NoValue,     \* the section is not in the store
          Lossy        \* may the store be emptied?

VARIABLE store

EmptyStore == [s \in Sections |-> NoValue]

Init == store = EmptyStore

Update(s, v) == store' = [store EXCEPT ![s] = v]

Lose == /\ Lossy
        /\ store' = EmptyStore

Next == \/ \E s \in Sections, v \in Values : Update(s, v)
        \/ Lose

Spec == Init /\ [][Next]_store
============================================================================
