--------------------------------- MODULE IwPriv --------------------------------
(***************************************************************************)
(* iw_get_priv_info of iwlib.c: the table of a driver's private ioctls is   *)
(* read into an array that grows until the table fits, while the driver may *)
(* be loaded anew with another table.                                       *)
(***************************************************************************)
EXTENDS Integers

CONSTANTS
  Sizes,       \* the sizes that a driver's table may have
  Start,       \* entries of the first array, 16 in the code
  Limit,       \* arrays of so many entries are not tried, 1000 in the code
  MaxChanges   \* bound on the changes of the table

VARIABLES
  size,     \* the driver: entries of its table, -1 if it has none
  hint,     \* the driver: how it answers E2BIG, "needed", "low" or "none"
  changes,
  pc,       \* "alloc", "ask" or "done"
  maxpriv,
  priv,     \* entries of the array, -1 if there is none
  ppriv,    \* what the caller gets: the array's entries, -1 for NULL
  ret,
  lost      \* how often memory ran out or the table changed, for the properties

driverVars == <<size, hint, changes>>
vars == <<driverVars, pc, maxpriv, priv, ppriv, ret, lost>>

Init ==
  /\ size \in Sizes \cup {-1} /\ hint \in {"needed", "low", "none"} /\ changes = 0
  /\ pc = "alloc" /\ maxpriv = Start /\ priv = -1 /\ ppriv = -1 /\ ret = -1 /\ lost = 0

DriverChanges ==
  /\ changes < MaxChanges
  /\ changes' = changes + 1
  /\ size' \in (Sizes \cup {-1}) \ {size}
  /\ hint' \in {"needed", "low", "none"}
  /\ lost' = lost + 1
  /\ UNCHANGED <<pc, maxpriv, priv, ppriv, ret>>

-----------------------------------------------------------------------------

\* The way out of the loop: the array is freed, the caller has nothing.
GiveUp == pc' = "done" /\ priv' = -1 /\ ppriv' = -1 /\ ret' = -1

Realloc ==
  /\ pc = "alloc"
  /\ \/ priv' = maxpriv /\ pc' = "ask" /\ UNCHANGED <<ppriv, ret, lost>>
     \/ GiveUp /\ lost' = lost + 1
  /\ UNCHANGED <<driverVars, maxpriv>>

\* SIOCGIWPRIV writes its table if the array has room for it.
Answered ==
  /\ pc = "ask" /\ size \in 0 .. maxpriv
  /\ pc' = "done" /\ ppriv' = priv /\ ret' = size
  /\ UNCHANGED <<driverVars, maxpriv, priv, lost>>

\* Any error but E2BIG ends the loop.
Unsupported ==
  /\ pc = "ask" /\ size = -1
  /\ GiveUp
  /\ UNCHANGED <<driverVars, maxpriv, lost>>

\* wrq.u.data.length, which had maxpriv, after E2BIG.
Length == CASE hint = "needed" -> size [] hint = "low" -> 1 [] hint = "none" -> maxpriv

MUT_Grown == IF Length # maxpriv THEN Length ELSE maxpriv * 2

Grown == IF Length > maxpriv THEN Length ELSE maxpriv * 2

MUT_TooBig ==
  /\ pc = "ask" /\ size > maxpriv
  /\ maxpriv' = Grown
  /\ IF maxpriv * 2 < Limit THEN pc' = "alloc" /\ UNCHANGED <<priv, ppriv, ret>> ELSE GiveUp
  /\ UNCHANGED <<driverVars, lost>>

\* E2BIG: a larger array, unless it would be too large.
TooBig ==
  /\ pc = "ask" /\ size > maxpriv
  /\ maxpriv' = Grown
  /\ IF maxpriv' < Limit THEN pc' = "alloc" /\ UNCHANGED <<priv, ppriv, ret>> ELSE GiveUp
  /\ UNCHANGED <<driverVars, lost>>

Caller == Realloc \/ Answered \/ Unsupported \/ TooBig

Next == DriverChanges \/ Caller

\* Nothing but the driver's answer can hold the caller up, and it always comes.
Spec == Init /\ [][Next]_vars /\ WF_vars(Caller)

-----------------------------------------------------------------------------
(* Properties *)

\* The array is as long as the driver is told, and the caller gets the one there is.
TypeOK ==
  /\ pc \in {"alloc", "ask", "done"} /\ maxpriv \in Nat
  /\ priv \in Nat \cup {-1} /\ (pc = "ask" => priv = maxpriv)
  /\ (pc = "done" => priv = ppriv) /\ (ret >= 0 => ret <= ppriv)

\* The arrays tried for a driver that names no size: Start entries, doubled while that
\* is below the limit; from n entries on, the last of them.
LastTried[n \in 1 .. Limit - 1] == IF n * 2 < Limit THEN LastTried[n * 2] ELSE n
Largest == LastTried[Start]

\* "Dynamic allocation of the array to satisfy everybody" (iwlib.c:603-605), as far as
\* it goes: a table that did not change is read, all of it, if the driver names its
\* size and it is below the limit, or else if it fits the largest array that
\* doubling tries; and a table that is not read leaves nothing behind.
Satisfied ==
  pc = "done" /\ lost = 0 =>
    IF size \in 0 .. (IF hint = "needed" THEN Limit - 1 ELSE Largest)
    THEN ret = size /\ ppriv >= size
    ELSE ret = -1 /\ ppriv = -1

\* The loop ends, whatever the driver says of its table (iwlib.c:608-646).
Termination == <>(pc = "done")
==============================================================================
