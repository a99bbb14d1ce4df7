------------------------------ MODULE Lifecycle ------------------------------
(***************************************************************************)
(* What the allocator, the maintainer and the administration interface     *)
(* share (core/lifecycle.py): coroutines that destroy a sandbox and end a  *)
(* lease, and the cloud platform they call.                                *)
(*                                                                         *)
(* A coroutine of a replica is a slot that runs one operation at a time.   *)
(* Its record keeps what the code keeps in local variables across an       *)
(* await: the row it works on, the row as it was last read (`snap`), the   *)
(* lease, and the target state decided before the await.  `pc` names the   *)
(* await it is at.  Work the code hands to Lifecycle.spawn continues in    *)
(* the slot that started it: slots of one replica are interchangeable.     *)
(***************************************************************************)
EXTENDS PoolStore

CONSTANTS
  Coroutine,   \* coroutine slots, over all replicas
  Home,        \* Coroutine -> Replica
  NoRow        \* a coroutine or a lease without a row

ASSUME LifecycleConstants ==
  /\ Home \in [Coroutine -> Replica]
  /\ NoRow \notin Row

VARIABLES
  cloud,       \* Row -> the platform's sandbox created for that row
  co           \* Coroutine -> its local state

lifecycleVars == <<cloud, co>>

\* A row's create call is issued once, so a sandbox is named by its row (the
\* platform keeps that name too: metadata.pool_row).
CloudState == {"none", "running", "paused", "gone"}

\* Awaits inside a platform request of the operation that owns the row.
CallPc == {"create", "warm", "pause", "resume", "kill"}

Pc ==
  CallPc \cup
  {"idle",
   "destroy", "delete", "endLease", "adminEnd", "endRow",       \* lifecycle.py
   "draw", "claim", "setTimeout", "resumed", "resumeFailed",    \* allocator.py
   "created", "warmed", "createFailed", "bootFailed", "discard",
   "discardRow", "adopt", "adoptCas", "orphan", "startPause", "paused",
   "pauseFailed", "keepalive", "keepTimeout", "keepGone", "keepFailed",
   "list", "listed"}                                            \* maintainer.py

Idle ==
  [pc |-> "idle", row |-> NoRow, snap |-> Absent, lease |-> NoLease, to |-> "-"]

CoRecord ==
  [pc    : Pc,
   row   : Row \cup {NoRow},
   snap  : RowRecord,
   lease : LeaseId \cup {NoLease},
   to    : {"-", "READY", "PAUSED", "live", "gone"} \cup Ended]

LifecycleInit ==
  /\ cloud = [r \in Row |-> "none"]
  /\ co = [c \in Coroutine |-> Idle]

-----------------------------------------------------------------------------
(* Coroutine steps.                                                        *)

At(c, pc) == co[c].pc = pc
Finish(c) == co' = [co EXCEPT ![c] = Idle]
Go(c, pc) == co' = [co EXCEPT ![c] = IF pc = "idle" THEN Idle ELSE [@ EXCEPT !.pc = pc]]

\* The locals of an operation that starts on row r, as the row is read now.
Reading(pc, r, l, to) == [pc |-> pc, row |-> r, snap |-> rows[r], lease |-> l, to |-> to]

Begin(c, pc, r) ==
  /\ At(c, "idle")
  /\ co' = [co EXCEPT ![c] = Reading(pc, r, NoLease, "-")]

\* Begin to end lease l, which then works on the lease's row.
BeginEnd(c, pc, l, to) ==
  /\ At(c, "idle")
  /\ co' = [co EXCEPT ![c] = Reading(pc, leases[l].row, l, to)]

\* Read the row again (get_sandbox): `fresh` in the code.
Reread(c, pc) ==
  co' = [co EXCEPT ![c].pc = pc, ![c].snap = rows[co[c].row]]

\* A request to the platform that would leave the sandbox in state `new`: it
\* succeeds, or it fails with or without having taken effect.
Call(c, new, ok, failed) ==
  LET r == co[c].row
  IN \/ cloud' = [cloud EXCEPT ![r] = new] /\ Go(c, ok)
     \/ cloud' \in {cloud, [cloud EXCEPT ![r] = new]} /\ Go(c, failed)

Live(r) == cloud[r] \in {"running", "paused"}

-----------------------------------------------------------------------------
(* destroy and finish_destroy                                              *)

\* The row goes from the state it was read in to DESTROYING; if it has changed
\* since, somebody else handles it.
DestroyCas(c) ==
  LET r == co[c].row IN
  /\ At(c, "destroy")
  /\ \/ /\ SameVersion(r, co[c].snap)
        /\ Move(r, "DESTROYING", Home[c])
        /\ Go(c, IF co[c].snap.known THEN "kill" ELSE "delete")
     \/ /\ ~SameVersion(r, co[c].snap)
        /\ Finish(c)
        /\ UNCHANGED <<rows, overdue>>
  /\ UNCHANGED <<leases, lapsed, draining, cloud>>

\* Mutated form of Kill: a failed kill deletes the record all the same.
KillThenForget(c) ==
  /\ At(c, "kill")
  /\ Call(c, IF Live(co[c].row) THEN "gone" ELSE cloud[co[c].row], "delete", "delete")
  /\ UNCHANGED storeVars

\* A failed kill keeps the DESTROYING record, to be retried after op_deadline.
\* Killing a sandbox that is gone is not an error.
Kill(c) ==
  /\ At(c, "kill")
  /\ Call(c, IF Live(co[c].row) THEN "gone" ELSE cloud[co[c].row], "delete", "idle")
  /\ UNCHANGED storeVars

DeleteRow(c) ==
  LET r == co[c].row IN
  /\ At(c, "delete")
  /\ \/ DeleteSandboxTx(r, Home[c])
     \/ ~CanDelete(r, Home[c]) /\ UNCHANGED storeVars
  /\ Finish(c)
  /\ UNCHANGED cloud

-----------------------------------------------------------------------------
(* end_lease                                                               *)

\* The lease ends first.  get_lease's early return is the CAS's own condition.
\* The administrator's call goes on to destroy the row it read when the lease
\* had already ended.
EndLeaseCas(c) ==
  LET l == co[c].lease IN
  /\ co[c].pc \in {"endLease", "adminEnd"}
  /\ \/ EndLeaseTx(l, co[c].to) /\ Go(c, "endRow")
     \/ /\ ~CanEnd(l, co[c].to)
        /\ IF At(c, "adminEnd") THEN Go(c, "destroy") ELSE Finish(c)
        /\ UNCHANGED storeVars
  /\ UNCHANGED cloud

\* Then the sandbox, unless the record is no longer leased under that lease.
EndRow(c) ==
  LET r == co[c].row
      mine == rows[r].state = "LEASED" /\ rows[r].lease = co[c].lease IN
  /\ At(c, "endRow")
  /\ \/ mine /\ Move(r, "DESTROYING", Home[c]) /\ Go(c, "kill")
     \/ ~mine /\ Finish(c) /\ UNCHANGED <<rows, overdue>>
  /\ UNCHANGED <<leases, lapsed, draining, cloud>>

=============================================================================
