------------------------------ MODULE Maintainer ------------------------------
(***************************************************************************)
(* The maintenance loop every replica runs (core/maintainer.py) over the   *)
(* rows: replenishing, pausing, keeping READY sandboxes alive, expiring    *)
(* leases, taking over rows whose owner has died and reconciling the       *)
(* records with the platform.  Each part of a tick lists rows and works on *)
(* them one await at a time, so a listed row may have changed by the time  *)
(* its turn comes: an operation starts by remembering the row it read.     *)
(***************************************************************************)
EXTENDS Lifecycle

-----------------------------------------------------------------------------
(* replenish, _create_one, _on_create_failed                               *)

ReserveSlot(c) ==
  /\ At(c, "idle")
  /\ \E r \in Row :
       /\ ReserveSlotTx(r, Home[c])
       /\ co' = [co EXCEPT ![c] = Reading("create", r, NoLease, "-")]
  /\ UNCHANGED cloud

\* A create request that fails may still leave a sandbox behind.
Create(c) ==
  /\ At(c, "create")
  /\ Call(c, "running", "created", "createFailed")
  /\ UNCHANGED storeVars

\* Record the provider id and start warming up; if another replica has taken
\* the row over, the sandbox is nobody's and is killed.  A database error here
\* and below goes to _on_create_failed with the provider id in hand.
RecordProvider(c) ==
  LET r == co[c].row IN
  /\ At(c, "created")
  /\ \/ /\ OwnedIn(r, "CREATING", Home[c])
        /\ rows' = [rows EXCEPT ![r].state = "WARMING", ![r].version = @ + 1,
                                ![r].known = TRUE]
        /\ overdue' = overdue \ {r}
        /\ Go(c, "warm")
     \/ ~OwnedIn(r, "CREATING", Home[c]) /\ Go(c, "discard") /\ UNCHANGED <<rows, overdue>>
     \/ Go(c, "bootFailed") /\ UNCHANGED <<rows, overdue>>
  /\ UNCHANGED <<leases, lapsed, draining, cloud>>

Warm(c) ==
  /\ At(c, "warm")
  /\ (Live(co[c].row) /\ Go(c, "warmed")) \/ Go(c, "bootFailed")
  /\ UNCHANGED <<storeVars, cloud>>

MarkReady(c) ==
  LET r == co[c].row IN
  /\ At(c, "warmed")
  /\ \/ OwnedIn(r, "WARMING", Home[c]) /\ Move(r, "READY", NoReplica) /\ Finish(c)
     \/ ~OwnedIn(r, "WARMING", Home[c]) /\ Finish(c) /\ UNCHANGED <<rows, overdue>>
     \/ Go(c, "bootFailed") /\ UNCHANGED <<rows, overdue>>
  /\ UNCHANGED <<leases, lapsed, draining, cloud>>

Booting(c) ==
  OwnedIn(co[c].row, "CREATING", Home[c]) \/ OwnedIn(co[c].row, "WARMING", Home[c])

\* The create request failed: release the slot, if it is still ours.
CreateFailed(c) ==
  /\ At(c, "createFailed")
  /\ IF Booting(c) THEN Reread(c, "destroy") ELSE Finish(c)
  /\ UNCHANGED <<storeVars, cloud>>

\* A later step failed: the sandbox exists, so it is killed too, here when the
\* record does not name it and by destroy when it does.
BootFailed(c) ==
  LET r == co[c].row IN
  /\ At(c, "bootFailed")
  /\ \/ Booting(c) /\ Reread(c, IF rows[r].known THEN "destroy" ELSE "discardRow")
     \/ ~Booting(c) /\ Go(c, IF rows[r].known /\ r \in Present THEN "idle" ELSE "discard")
  /\ UNCHANGED <<storeVars, cloud>>

\* _kill_quietly: a failure is left to reconcile.
Discard(c) ==
  /\ co[c].pc \in {"discard", "discardRow"}
  /\ LET next == IF At(c, "discard") THEN "idle" ELSE "destroy"
     IN Call(c, IF Live(co[c].row) THEN "gone" ELSE cloud[co[c].row], next, next)
  /\ UNCHANGED storeVars

-----------------------------------------------------------------------------
(* expire_leases, recover_stuck, fix_orphan_leased, retire_old, drain_idle *)

ExpireLease(c, l) ==
  /\ leases[l].state = "ACTIVE" /\ l \in lapsed
  /\ BeginEnd(c, "endLease", l, "EXPIRED")
  /\ UNCHANGED <<storeVars, cloud>>

\* Mutated form of RecoverStuck: a row that is being destroyed is left to its owner.
RecoverStuckAlive(c, r) ==
  /\ rows[r].state \in Transitional \ {"DESTROYING"} /\ r \in overdue
  /\ Begin(c, IF rows[r].state \in {"PAUSING", "RESUMING"} /\ rows[r].known
              THEN "adopt" ELSE "destroy", r)
  /\ UNCHANGED <<storeVars, cloud>>

\* A transitional row whose op_deadline has passed has lost its owner.  A pause
\* or a resume is settled by what the platform says; anything else is destroyed.
RecoverStuck(c, r) ==
  /\ rows[r].state \in Transitional /\ r \in overdue
  /\ Begin(c, IF rows[r].state \in {"PAUSING", "RESUMING"} /\ rows[r].known
              THEN "adopt" ELSE "destroy", r)
  /\ UNCHANGED <<storeVars, cloud>>

\* Mutated form of Adopt: what the platform says becomes the state as it is.
AdoptRaw(c) ==
  /\ At(c, "adopt")
  /\ \/ Live(co[c].row)
        /\ co' = [co EXCEPT ![c].pc = "adoptCas", ![c].to = cloud[co[c].row]]
     \/ Go(c, "destroy")
  /\ UNCHANGED <<storeVars, cloud>>

\* Mutated form of Adopt: any sandbox that is alive is taken for READY.
AdoptAsReady(c) ==
  /\ At(c, "adopt")
  /\ \/ Live(co[c].row) /\ co' = [co EXCEPT ![c].pc = "adoptCas", ![c].to = "READY"]
     \/ Go(c, "destroy")
  /\ UNCHANGED <<storeVars, cloud>>

\* get_state, which may fail.
Adopt(c) ==
  LET actual == cloud[co[c].row] IN
  /\ At(c, "adopt")
  /\ \/ /\ actual \in {"running", "paused"}
        /\ co' = [co EXCEPT ![c].pc = "adoptCas",
                            ![c].to = IF actual = "paused" THEN "PAUSED" ELSE "READY"]
     \/ Go(c, "destroy")
  /\ UNCHANGED <<storeVars, cloud>>

\* Mutated form of AdoptCas: no condition on the row.
AdoptStale(c) ==
  /\ At(c, "adoptCas")
  /\ Move(co[c].row, co[c].to, NoReplica)
  /\ Finish(c)
  /\ UNCHANGED <<leases, lapsed, draining, cloud>>

AdoptCas(c) ==
  LET r == co[c].row IN
  /\ At(c, "adoptCas")
  /\ \/ SameVersion(r, co[c].snap) /\ Move(r, co[c].to, NoReplica)
     \/ ~SameVersion(r, co[c].snap) /\ UNCHANGED <<rows, overdue>>
  /\ Finish(c)
  /\ UNCHANGED <<leases, lapsed, draining, cloud>>

\* The row is listed first and its lease is read afterwards.
FixOrphan(c, r) ==
  /\ rows[r].state = "LEASED"
  /\ Begin(c, "orphan", r)
  /\ UNCHANGED <<storeVars, cloud>>

\* Mutated form of OrphanCheck: a lease that is ACTIVE counts as none.
OrphanUnchecked(c) ==
  /\ At(c, "orphan")
  /\ Go(c, "destroy")
  /\ UNCHANGED <<storeVars, cloud>>

\* Mutated form of OrphanCheck: a lease record that is gone counts as ACTIVE.
OrphanOfEnded(c) ==
  /\ At(c, "orphan")
  /\ Go(c, IF leases[co[c].snap.lease].state \in Ended THEN "destroy" ELSE "idle")
  /\ UNCHANGED <<storeVars, cloud>>

\* The sandbox is destroyed when its lease has ended, or has been purged.
OrphanCheck(c) ==
  /\ At(c, "orphan")
  /\ Go(c, IF leases[co[c].snap.lease].state = "ACTIVE" THEN "idle" ELSE "destroy")
  /\ UNCHANGED <<storeVars, cloud>>

\* Any idle sandbox may have reached max_age_s.
RetireOld(c, r) ==
  /\ rows[r].state \in {"READY", "PAUSED"}
  /\ Begin(c, "destroy", r)
  /\ UNCHANGED <<storeVars, cloud>>

\* Mutated form of DrainIdle: paused sandboxes are forgotten.
DrainReady(c, r) ==
  /\ draining
  /\ rows[r].state = "READY"
  /\ RetireOld(c, r)

DrainIdle(c, r) ==
  /\ draining
  /\ RetireOld(c, r)

-----------------------------------------------------------------------------
(* pause_idle and keepalive_ready                                          *)

\* Any READY sandbox may have been idle for idle_pause_after_s.
PauseIdle(c, r) ==
  /\ ~draining
  /\ rows[r].state = "READY"
  /\ Begin(c, "startPause", r)
  /\ UNCHANGED <<storeVars, cloud>>

StartPause(c) ==
  LET r == co[c].row
      snap == co[c].snap
      allowed == Cardinality(InState({"READY"})) > MinHot /\ ReadyAsRead(r, snap) IN
  /\ At(c, "startPause")
  /\ \/ StartPauseTx(r, snap, Home[c]) /\ Go(c, "pause")
     \/ ~allowed /\ Finish(c) /\ UNCHANGED storeVars
  /\ UNCHANGED cloud

Pause(c) ==
  /\ At(c, "pause")
  /\ \/ Live(co[c].row) /\ Call(c, "paused", "paused", "pauseFailed")
     \/ ~Live(co[c].row) /\ Go(c, "pauseFailed") /\ UNCHANGED cloud
  /\ UNCHANGED storeVars

PauseDone(c) ==
  LET r == co[c].row IN
  /\ At(c, "paused")
  /\ \/ OwnedIn(r, "PAUSING", Home[c]) /\ Move(r, "PAUSED", NoReplica)
     \/ ~OwnedIn(r, "PAUSING", Home[c]) /\ UNCHANGED <<rows, overdue>>
  /\ Finish(c)
  /\ UNCHANGED <<leases, lapsed, draining, cloud>>

PauseFailed(c) ==
  /\ At(c, "pauseFailed")
  /\ IF OwnedIn(co[c].row, "PAUSING", Home[c]) THEN Reread(c, "destroy") ELSE Finish(c)
  /\ UNCHANGED <<storeVars, cloud>>

Keepalive(c, r) ==
  /\ ~draining
  /\ rows[r].state = "READY"
  /\ Begin(c, "keepalive", r)
  /\ UNCHANGED <<storeVars, cloud>>

\* An UPDATE that changes no column the model keeps, but for the version.
Touch(r) == rows' = [rows EXCEPT ![r].version = @ + 1]

\* The version makes a concurrent claim, pause or keepalive lose.
KeepaliveCas(c) ==
  LET r == co[c].row IN
  /\ At(c, "keepalive")
  /\ \/ ReadyAsRead(r, co[c].snap) /\ Touch(r) /\ Go(c, "keepTimeout")
     \/ ~ReadyAsRead(r, co[c].snap) /\ Finish(c) /\ UNCHANGED rows
  /\ UNCHANGED <<overdue, leases, lapsed, draining, cloud>>

\* set_timeout; what it does to the platform's timeout is module LeaseTimeouts.
KeepaliveCall(c) ==
  /\ At(c, "keepTimeout")
  /\ \/ Live(co[c].row) /\ Finish(c)
     \/ ~Live(co[c].row) /\ Go(c, "keepGone")
     \/ Go(c, "keepFailed")
  /\ UNCHANGED <<storeVars, cloud>>

KeepGone(c) ==
  /\ At(c, "keepGone")
  /\ IF rows[co[c].row].state = "READY" THEN Reread(c, "destroy") ELSE Finish(c)
  /\ UNCHANGED <<storeVars, cloud>>

\* The rollback carries no version condition.
KeepFailed(c) ==
  LET r == co[c].row IN
  /\ At(c, "keepFailed")
  /\ IF rows[r].state = "READY" THEN Touch(r) ELSE UNCHANGED rows
  /\ Finish(c)
  /\ UNCHANGED <<overdue, leases, lapsed, draining, cloud>>

-----------------------------------------------------------------------------
(* reconcile, for one sandbox: read the table, list the platform, read the *)
(* table again.                                                            *)

Reconcile(c, r) ==
  /\ Begin(c, "list", r)
  /\ UNCHANGED <<storeVars, cloud>>

ListPlatform(c) ==
  /\ At(c, "list")
  /\ \/ co' = [co EXCEPT ![c].pc = "listed",
                         ![c].to = IF Live(co[c].row) THEN "live" ELSE "gone"]
     \/ Finish(c)
  /\ UNCHANGED <<storeVars, cloud>>

\* A listed sandbox without a record in the second read is an orphan; a record
\* unchanged over the listing whose sandbox was not listed has vanished.
Vanished(c) ==
  LET r == co[c].row
      before == co[c].snap IN
  /\ co[c].to = "gone"
  /\ before.state \in SandboxState /\ before.version = rows[r].version
  /\ rows[r].state \in {"READY", "PAUSED", "LEASED"}

\* Mutated form of KillOrphan: the record is looked for before the listing.
KillOrphanStale(c) ==
  /\ At(c, "listed")
  /\ co[c].to = "live" /\ co[c].snap.state \notin SandboxState
  /\ Go(c, "discard")
  /\ UNCHANGED <<storeVars, cloud>>

\* Mutated form of KillOrphan: only a record lost during the listing counts.
KillOrphanLost(c) ==
  /\ At(c, "listed")
  /\ co[c].to = "live" /\ co[c].snap.state \in SandboxState /\ co[c].row \notin Present
  /\ Go(c, "discard")
  /\ UNCHANGED <<storeVars, cloud>>

KillOrphan(c) ==
  /\ At(c, "listed")
  /\ co[c].to = "live" /\ co[c].row \notin Present
  /\ Go(c, "discard")
  /\ UNCHANGED <<storeVars, cloud>>

DropVanished(c) ==
  LET r == co[c].row IN
  /\ At(c, "listed") /\ Vanished(c)
  /\ IF rows[r].state = "LEASED"
     THEN co' = [co EXCEPT ![c] = Reading("endLease", r, rows[r].lease, "FAILED")]
     ELSE Reread(c, "destroy")
  /\ UNCHANGED <<storeVars, cloud>>

\* Nothing to do, or the sandbox or the record is younger than orphan_grace_s.
LeaveAlone(c) ==
  /\ At(c, "listed")
  /\ Finish(c)
  /\ UNCHANGED <<storeVars, cloud>>

MaintainerNext(c) ==
  \/ ReserveSlot(c) \/ Create(c) \/ RecordProvider(c) \/ Warm(c) \/ MarkReady(c)
  \/ CreateFailed(c) \/ BootFailed(c) \/ Discard(c)
  \/ \E l \in LeaseId : ExpireLease(c, l)
  \/ \E r \in Row :
       \/ RecoverStuck(c, r) \/ FixOrphan(c, r) \/ RetireOld(c, r) \/ DrainIdle(c, r)
       \/ PauseIdle(c, r) \/ Keepalive(c, r) \/ Reconcile(c, r)
  \/ Adopt(c) \/ AdoptCas(c) \/ OrphanCheck(c)
  \/ StartPause(c) \/ Pause(c) \/ PauseDone(c) \/ PauseFailed(c)
  \/ KeepaliveCas(c) \/ KeepaliveCall(c) \/ KeepGone(c) \/ KeepFailed(c)
  \/ ListPlatform(c) \/ KillOrphan(c) \/ DropVanished(c) \/ LeaveAlone(c)

=============================================================================
