------------------------------ MODULE Allocator ------------------------------
(***************************************************************************)
(* Borrowing and returning a sandbox (core/allocator.py), on the rows and  *)
(* leases.  The waiting queue in front of it is module WaitQueue; here a   *)
(* request is at the point where it may try to claim.                      *)
(***************************************************************************)
EXTENDS Lifecycle

\* acquire: refused while draining, otherwise the request tries to claim.
BeginClaim(c) ==
  /\ ~draining
  /\ At(c, "idle")
  /\ co' = [co EXCEPT ![c] = [Idle EXCEPT !.pc = "draw"]]
  /\ UNCHANGED <<storeVars, cloud>>

\* READY sandboxes are candidates before PAUSED ones.
Candidates ==
  IF InState({"READY"}) # {} THEN InState({"READY"}) ELSE InState({"PAUSED"})

\* One attempt of _try_claim: list the candidates and choose one, or stop for
\* lack of candidates or of attempts.
Draw(c) ==
  /\ At(c, "draw")
  /\ \/ \E r \in Candidates :
          co' = [co EXCEPT ![c] = Reading("claim", r, NoLease, "-")]
     \/ Finish(c)
  /\ UNCHANGED <<storeVars, cloud>>

\* _claim_ready: claim the row that was read, unless it has changed.
ClaimReady(c) ==
  LET r == co[c].row
      snap == co[c].snap IN
  /\ At(c, "claim") /\ snap.state = "READY"
  /\ \/ \E l \in LeaseId :
          /\ ClaimReadyTx(r, snap, l)
          /\ co' = [co EXCEPT ![c].pc = "setTimeout", ![c].lease = l]
     \/ ~ReadyAsRead(r, snap) /\ Go(c, "draw") /\ UNCHANGED storeVars
  /\ UNCHANGED cloud

\* The platform timeout is extended after the claim.  The lease is handed over
\* when that works; otherwise the sandbox is unusable and the lease ends.
SetTimeout(c) ==
  /\ At(c, "setTimeout")
  /\ \/ Live(co[c].row) /\ Finish(c)
     \/ co' = [co EXCEPT ![c].pc = "endLease", ![c].to = "FAILED"]
  /\ UNCHANGED <<storeVars, cloud>>

\* _claim_paused: the row is occupied by RESUMING while the platform resumes it.
ClaimPaused(c) ==
  LET r == co[c].row
      snap == co[c].snap IN
  /\ At(c, "claim") /\ snap.state = "PAUSED"
  /\ \/ SameVersion(r, snap) /\ Move(r, "RESUMING", Home[c]) /\ Go(c, "resume")
     \/ ~SameVersion(r, snap) /\ Go(c, "draw") /\ UNCHANGED <<rows, overdue>>
  /\ UNCHANGED <<leases, lapsed, draining, cloud>>

Resume(c) ==
  /\ At(c, "resume")
  /\ \/ Live(co[c].row) /\ Call(c, "running", "resumed", "resumeFailed")
     \/ ~Live(co[c].row) /\ Go(c, "resumeFailed") /\ UNCHANGED cloud
  /\ UNCHANGED storeVars

\* Lease the resumed sandbox, unless another replica has taken the row over.
FinishResume(c) ==
  LET r == co[c].row IN
  /\ At(c, "resumed")
  /\ \/ \E l \in LeaseId : FinishResumeTx(r, Home[c], l)
     \/ ~OwnedIn(r, "RESUMING", Home[c]) /\ UNCHANGED storeVars
  /\ Finish(c)
  /\ UNCHANGED cloud

ResumeFailed(c) ==
  /\ At(c, "resumeFailed")
  /\ IF OwnedIn(co[c].row, "RESUMING", Home[c]) THEN Reread(c, "destroy") ELSE Finish(c)
  /\ UNCHANGED <<storeVars, cloud>>

-----------------------------------------------------------------------------
(* The holder of a lease.                                                  *)

\* release, and a grant whose client has disconnected.
Release(c, l) ==
  /\ leases[l].state = "ACTIVE"
  /\ BeginEnd(c, "endLease", l, "RELEASED")
  /\ UNCHANGED <<storeVars, cloud>>

\* renew and every operation run on the lease's behalf: the platform no longer
\* knows the sandbox, so the lease has failed.
UseFindsGone(c, l) ==
  /\ leases[l].state = "ACTIVE" /\ l \notin lapsed
  /\ ~Live(leases[l].row)
  /\ BeginEnd(c, "endLease", l, "FAILED")
  /\ UNCHANGED <<storeVars, cloud>>

AllocatorNext(c) ==
  \/ BeginClaim(c) \/ Draw(c)
  \/ ClaimReady(c) \/ SetTimeout(c)
  \/ ClaimPaused(c) \/ Resume(c) \/ FinishResume(c) \/ ResumeFailed(c)
  \/ \E l \in LeaseId : Release(c, l) \/ UseFindsGone(c, l)

=============================================================================
