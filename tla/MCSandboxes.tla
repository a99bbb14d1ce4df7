---------------------------- MODULE MCSandboxes ----------------------------
(* Small instances of AgentSandboxes.                                       *)
EXTENDS AgentSandboxes, TLC

Symmetric ==
  Permutations(Replica) \cup Permutations(Request) \cup Permutations(Row)

(* What no later step and no property but ConfirmedIsApplied reads is hidden: *)
(* the columns of a row that does not serve and is not being booted, the      *)
(* sandbox of a row that never got its id, what the engine has loaded, and    *)
(* what an actor has read where it is not looked at any more.                 *)
Useful(r) ==
  <<IF st[r] = "ACTIVE" THEN config[r] ELSE 0,
    IF boot[r] = "activate" THEN files[r] ELSE 0,
    IF boot[r] = "none" THEN NoReplica ELSE by[r],
    IF boot[r] = "none" /\ r \notin known THEN "none" ELSE cloud[r],
    r \in known /\ (st[r] # "gone" \/ cloud[r] = "running")>>

Checked ==
  {a \in fresh : pc[a] \in {"retire", "running", "fail", "destroy", "abandon"}}

Told(a) ==
  <<seen[a].row,
    IF At(a, "running") THEN seen[a].st ELSE "",
    IF At(a, "running") /\ seen[a].st = "ACTIVE" THEN seen[a].config ELSE 0,
    IF pc[a] \in {"list", "running", "reload", "write", "dispose", "confirm"}
    THEN seen[a].version ELSE 0>>

Relevant ==
  <<version, st, owner, due, [r \in Row |-> Useful(r)], boot,
    killers, pc, [a \in Actor |-> Told(a)], Checked, down, faults>>
=============================================================================
