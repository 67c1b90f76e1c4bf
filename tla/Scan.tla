---------------------------------- MODULE Scan ---------------------------------
(***************************************************************************)
(* What a wireless scan promises, told without buffers, retries and         *)
(* streams: the driver is asked to scan once, a list of cells is read       *)
(* from it at one instant, and the caller gets all that this list says or   *)
(* an error.                                                                *)
(***************************************************************************)
EXTENDS Sequences

CONSTANTS
  Lists,       \* the lists of events a driver may hold
  Cells(_),    \* what a list says of the cells
  NoList,      \* nothing was read
  Failed       \* the outcome of a scan that ends with an error

VARIABLES
  results,  \* the list the driver holds
  phase,    \* "idle", "asked", "read" or "done"
  list,     \* <<the list>> that was read
  outcome   \* the cells handed to the caller, or Failed

vars == <<results, phase, list, outcome>>

Init ==
  /\ results \in Lists
  /\ phase = "idle"
  /\ list = NoList
  /\ outcome = <<>>

\* The driver finds other cells, whenever it likes.
Find == results' \in Lists /\ UNCHANGED <<phase, list, outcome>>

Ask ==
  /\ phase = "idle"
  /\ phase' = "asked"
  /\ UNCHANGED <<results, list, outcome>>

Read ==
  /\ phase = "asked"
  /\ phase' = "read"
  /\ list' = <<results>>
  /\ UNCHANGED <<results, outcome>>

Deliver ==
  /\ phase = "read"
  /\ phase' = "done"
  /\ outcome' = Cells(list[1])
  /\ UNCHANGED <<results, list>>

Fail ==
  /\ phase # "done"
  /\ phase' = "done"
  /\ outcome' = Failed
  /\ UNCHANGED <<results, list>>

Next == Find \/ Ask \/ Read \/ Deliver \/ Fail

Spec == Init /\ [][Next]_vars
==============================================================================
