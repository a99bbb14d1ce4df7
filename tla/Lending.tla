-------------------------------- MODULE Lending --------------------------------
(***************************************************************************)
(* What the sandbox pool promises its callers, whatever its replicas do: a *)
(* sandbox is lent to one holder, once, and is never lent again ("returned *)
(* means destroyed"); the pool keeps at most Limit usable sandboxes.       *)
(***************************************************************************)
EXTENDS Naturals, FiniteSets

CONSTANTS Row, LeaseId, NoRow, Limit

VARIABLES
  sandbox,   \* Row -> "unborn", "idle", "held" or "spent"
  lease      \* LeaseId -> its state and the sandbox it is of

vars == <<sandbox, lease>>

Usable == {r \in Row : sandbox[r] \in {"idle", "held"}}

Init ==
  /\ sandbox = [r \in Row |-> "unborn"]
  /\ lease = [l \in LeaseId |-> [state |-> "unused", of |-> NoRow]]

\* A sandbox joins the pool.
Join(r) ==
  /\ sandbox[r] = "unborn"
  /\ Cardinality(Usable) < Limit
  /\ sandbox' = [sandbox EXCEPT ![r] = "idle"]
  /\ UNCHANGED lease

\* A sandbox nobody has ever held is lent.
Lend(r, l) ==
  /\ sandbox[r] = "idle"
  /\ lease[l].state = "unused"
  /\ sandbox' = [sandbox EXCEPT ![r] = "held"]
  /\ lease' = [lease EXCEPT ![l] = [state |-> "active", of |-> r]]

\* A lease ends and its sandbox is out of use in the same instant.
Return(l) ==
  /\ lease[l].state = "active"
  /\ sandbox[lease[l].of] = "held"
  /\ sandbox' = [sandbox EXCEPT ![lease[l].of] = "spent"]
  /\ lease' = [lease EXCEPT ![l].state = "ended"]

\* A sandbox that nobody holds is given up.
GiveUp(r) ==
  /\ sandbox[r] = "idle"
  /\ sandbox' = [sandbox EXCEPT ![r] = "spent"]
  /\ UNCHANGED lease

Next ==
  \/ \E r \in Row : Join(r) \/ GiveUp(r)
  \/ \E r \in Row, l \in LeaseId : Lend(r, l)
  \/ \E l \in LeaseId : Return(l)

Spec == Init /\ [][Next]_vars
================================================================================
