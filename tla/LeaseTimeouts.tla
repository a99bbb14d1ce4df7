----------------------------- MODULE LeaseTimeouts -----------------------------
(***************************************************************************)
(* How long the platform keeps one sandbox, and how long the database says *)
(* so: keepalive of a READY sandbox (core/maintainer.py), a request that   *)
(* borrows it, renews its lease or uses it (core/allocator.py).  Each of   *)
(* them sets the platform's timeout, relative to the time at which its     *)
(* request arrives, in a step of its own, after or before it writes.       *)
(***************************************************************************)
EXTENDS Naturals, FiniteSets

CONSTANTS
  Replica,    \* whose maintainers keep the sandbox alive
  Holder,     \* requests of the lease's holder that may be in progress at once
  ReadyTimeout,   \* ready_platform_timeout_s
  Ttls,       \* the ttl_s of requests
  LeaseMax,   \* lease_max_s
  Margin,     \* platform_timeout_margin_s, and resume_timeout_s is not longer
  MaxClock    \* bound on the clock

VARIABLES
  clock,
  state,      \* of the row; "OUT" once it is destroyed, whatever for
  deadline,   \* its platform_deadline
  fresh,      \* replicas since whose reading, or own write, the row has not changed
  lease,      \* the lease's expires_at and hard_deadline; it is ACTIVE while the row is LEASED
  ends,       \* when the platform takes the sandbox away
  keep,       \* Replica -> a call of _keepalive: the await, and the timeout to restore
  borrow,     \* the request that borrows: the await, its ttl, when it is taken over
  use,        \* Holder -> a renewal, or an operation that connects
  met,        \* what has happened that the properties make an exception of
  crossed     \* a renewal was under way while another request had read the lease before

\* What the settings are taken to be: nobody borrows for longer than the longest lease.
Settings ==
  /\ ReadyTimeout \in Nat /\ LeaseMax \in Nat /\ Margin \in Nat
  /\ Ttls \subseteq 0..LeaseMax
  /\ MaxClock \in Nat \ {0}

row == <<state, deadline, fresh>>
vars == <<clock, row, lease, ends, keep, borrow, use, met, crossed>>

None == 0
Times == 0..(MaxClock + LeaseMax + Margin + ReadyTimeout)

TypeOK ==
  /\ clock \in 1..MaxClock
  /\ state \in {"READY", "PAUSING", "PAUSED", "RESUMING", "LEASED", "OUT"}
  /\ deadline \in Times /\ ends \in Times
  /\ fresh \subseteq Replica
  /\ lease \in [expires : Times, hard : Times]
  /\ keep \in [Replica -> [at : {"idle", "cas", "call", "failed", "reread", "lease", "restore"},
                           timeout : Times]]
  /\ borrow \in [at : {"idle", "timeout", "resume", "finish"}, ttl : Times, by : Times]
  /\ use \in [Holder -> [at : {"idle", "renew", "write", "connect"},
                         until : Times, timeout : Times]]
  /\ met \subseteq {"resume", "lost", "death"}
  /\ crossed \in BOOLEAN

NoKeep == [at |-> "idle", timeout |-> None]
NoBorrow == [at |-> "idle", ttl |-> None, by |-> None]
NoUse == [at |-> "idle", until |-> None, timeout |-> None]

Init ==
  /\ clock = 1
  /\ state = "READY" /\ deadline = clock + ReadyTimeout /\ ends = clock + ReadyTimeout
  /\ fresh = {}
  /\ lease = [expires |-> None, hard |-> None]
  /\ keep = [r \in Replica |-> NoKeep]
  /\ borrow = NoBorrow
  /\ use = [h \in Holder |-> NoUse]
  /\ met = {} /\ crossed = FALSE

Least(a, b) == IF a < b THEN a ELSE b

\* The platform knows the sandbox, and it is not paused.
Running == state # "PAUSED" /\ borrow.at # "resume" /\ clock < ends
Unexpired == state = "LEASED" /\ lease.expires > clock

KeepAt(r, at) == keep' = [keep EXCEPT ![r] = [NoKeep EXCEPT !.at = at]]
Met(what) == met' = met \cup what

\* The row is written, by r or by somebody else: its version tells all other readers.
Row(to, until, by) == state' = to /\ deadline' = until /\ fresh' = by

\* The row goes to DESTROYING; its lease, if any, has ended just before.
Out == Row("OUT", None, {})

-----------------------------------------------------------------------------
(* Keepalive.                                                                *)

\* keepalive_ready lists the READY rows and takes those with less than half the timeout.
List(r) ==
  /\ keep[r].at = "idle"
  /\ state = "READY"
  /\ deadline = None \/ 2 * deadline < 2 * clock + ReadyTimeout
  /\ KeepAt(r, "cas")
  /\ fresh' = fresh \cup {r}
  /\ UNCHANGED <<clock, state, deadline, lease, ends, borrow, use, met>>

\* The row is occupied by a write under its version, before the platform is called.
Cas(r) ==
  /\ keep[r].at = "cas"
  /\ IF r \in fresh
     THEN Row("READY", clock + ReadyTimeout, {r}) /\ KeepAt(r, "call")
     ELSE UNCHANGED row /\ KeepAt(r, "idle")
  /\ UNCHANGED <<clock, lease, ends, borrow, use, met>>

\* A request to the platform fails and has no effect, or its answer is lost.
KeepFails(r) ==
  /\ keep[r].at = "call"
  /\ KeepAt(r, "failed")
  /\ UNCHANGED <<clock, row, lease, ends, borrow, use, met>>
KeepLost(r) ==
  /\ keep[r].at = "call"
  /\ Running
  /\ ends' = clock + ReadyTimeout
  /\ KeepAt(r, "failed")
  /\ Met(IF state = "READY" THEN {} ELSE {"lost"})
  /\ UNCHANGED <<clock, row, lease, borrow, use>>

\* The timeout is set, or the sandbox has vanished.
KeepCall(r) ==
  /\ keep[r].at = "call"
  /\ \/ Running /\ ends' = clock + ReadyTimeout /\ KeepAt(r, "reread") /\ UNCHANGED row
     \/ /\ ~Running
        /\ IF state = "READY" THEN Out ELSE UNCHANGED row
        /\ KeepAt(r, "idle")
        /\ UNCHANGED ends
  /\ UNCHANGED <<clock, lease, borrow, use, met>>

\* The end is unknown, whoever has written the row since.
KeepFailed(r) ==
  /\ keep[r].at = "failed"
  /\ IF state = "READY" THEN Row("READY", None, {}) ELSE UNCHANGED row
  /\ KeepAt(r, "idle")
  /\ UNCHANGED <<clock, lease, ends, borrow, use, met>>

\* Mutated form of Reread: the keepalive ends when the platform has answered.
RereadLeft(r) ==
  /\ keep[r].at = "reread"
  /\ KeepAt(r, "idle")
  /\ UNCHANGED <<clock, row, lease, ends, borrow, use, met>>

\* The row is read again: was it borrowed meanwhile?  If it is being resumed, not yet.
Reread(r) ==
  /\ keep[r].at = "reread"
  /\ KeepAt(r, IF r \notin fresh /\ state = "LEASED" THEN "lease" ELSE "idle")
  /\ Met(IF borrow.at = "finish" THEN {"resume"} ELSE {})
  /\ UNCHANGED <<clock, row, lease, ends, borrow, use>>

\* _restore_lease_timeout.
ReadLease(r) ==
  /\ keep[r].at = "lease"
  /\ keep' = [keep EXCEPT ![r] =
                IF Unexpired
                THEN [at |-> "restore", timeout |-> lease.expires - clock + Margin]
                ELSE NoKeep]
  /\ UNCHANGED <<clock, row, lease, ends, borrow, use, met>>

Restore(r) ==
  /\ keep[r].at = "restore"
  /\ \/ Running /\ ends' = clock + keep[r].timeout /\ UNCHANGED met
     \/ UNCHANGED ends /\ Met({"lost"})
  /\ KeepAt(r, "idle")
  /\ UNCHANGED <<clock, row, lease, borrow, use>>

\* The replica dies; before it has written, this is as if it had not listed the row.
Dies(r) ==
  /\ keep[r].at \notin {"idle", "cas"}
  /\ KeepAt(r, "idle")
  /\ Met({"death"})
  /\ UNCHANGED <<clock, row, lease, ends, borrow, use>>

-----------------------------------------------------------------------------
(* Pausing, and borrowing.                                                   *)

\* pause_idle of a replica that is not in the middle of a keepalive of the same tick.
StartPause ==
  /\ state = "READY"
  /\ \E r \in Replica : keep[r].at = "idle"
  /\ Row("PAUSING", None, {})
  /\ UNCHANGED <<clock, lease, ends, keep, borrow, use, met>>

\* _pause_one; when the platform fails the sandbox is destroyed.
Pause ==
  /\ state = "PAUSING"
  /\ (Running /\ Row("PAUSED", None, {})) \/ Out
  /\ UNCHANGED <<clock, lease, ends, keep, borrow, use, met>>

\* The replica died before it paused the sandbox, and another adopts it as it is.
Adopt ==
  /\ state = "PAUSING" /\ Running
  /\ Row("READY", None, {})
  /\ UNCHANGED <<clock, lease, ends, keep, borrow, use, met>>

NewLease(ttl) == lease' = [expires |-> clock + ttl, hard |-> clock + LeaseMax]

\* claim_ready, and then the timeout.
ClaimReady ==
  /\ state = "READY"
  /\ \E ttl \in Ttls :
       /\ Row("LEASED", None, {})
       /\ NewLease(ttl)
       /\ borrow' = [NoBorrow EXCEPT !.at = "timeout", !.ttl = ttl]
  /\ UNCHANGED <<clock, ends, keep, use, met>>

SetTimeout ==
  /\ borrow.at = "timeout"
  /\ \/ Running /\ ends' = clock + borrow.ttl + Margin /\ UNCHANGED row
     \/ Out /\ UNCHANGED ends
  /\ borrow' = NoBorrow
  /\ UNCHANGED <<clock, lease, keep, use, met>>

\* _claim_paused: RESUMING, then the platform resumes with the timeout, then the lease.
ClaimPaused ==
  /\ state = "PAUSED"
  /\ \E ttl \in Ttls : borrow' = [NoBorrow EXCEPT !.at = "resume", !.ttl = ttl]
  /\ Row("RESUMING", None, {})
  /\ UNCHANGED <<clock, lease, ends, keep, use, met>>

Resume ==
  /\ borrow.at = "resume"
  /\ \/ /\ ends' = clock + borrow.ttl + Margin
        /\ borrow' = [borrow EXCEPT !.at = "finish", !.by = clock + Margin]
        /\ UNCHANGED row
     \/ Out /\ borrow' = NoBorrow /\ UNCHANGED ends
  /\ UNCHANGED <<clock, lease, keep, use, met>>

FinishResume ==
  /\ borrow.at = "finish"
  /\ Row("LEASED", None, {})
  /\ NewLease(borrow.ttl)
  /\ borrow' = NoBorrow
  /\ UNCHANGED <<clock, ends, keep, use, met>>

-----------------------------------------------------------------------------
(* The holder of the lease.                                                  *)

\* The id of the lease is known, once it was handed over.
Held == Unexpired /\ borrow = NoBorrow

\* renew: an unexpired lease, to its hard deadline at most.
Renew(h) ==
  /\ use[h].at = "idle" /\ Held
  /\ \E ttl \in Ttls :
       LET until == Least(clock + ttl, lease.hard) IN
       use' = [use EXCEPT ![h] =
                 [at |-> "renew", until |-> until, timeout |-> until - clock + Margin]]
  /\ UNCHANGED <<clock, row, lease, ends, keep, borrow, met>>

\* _use: an operation whose handle is not cached connects, which sets the timeout.
Use(h) ==
  /\ use[h].at = "idle" /\ Held
  /\ use' = [use EXCEPT ![h] =
               [at |-> "connect", until |-> None, timeout |-> lease.expires - clock + Margin]]
  /\ UNCHANGED <<clock, row, lease, ends, keep, borrow, met>>

\* The request arrives; or it fails, without effect or with, and nothing is written; or
\* the sandbox is gone, and the lease fails.
UseOver(h) == use' = [use EXCEPT ![h] = NoUse]
RenewCall(h) ==
  /\ use[h].at = "renew"
  /\ \/ use' = [use EXCEPT ![h].at = "write"] /\ UNCHANGED met
     \/ UseOver(h) /\ Met({"lost"})

\* The handle is cached; the operation does nothing to the timeout any more.
Connected(h) ==
  /\ use[h].at = "connect"
  /\ UseOver(h) /\ UNCHANGED met

UseCall(h) ==
  /\ Running
  /\ ends' = clock + use[h].timeout
  /\ RenewCall(h) \/ Connected(h)
  /\ UNCHANGED <<clock, row, lease, keep, borrow>>

UseFails(h) ==
  /\ use[h].at \in {"renew", "connect"}
  /\ UseOver(h)
  /\ \/ UNCHANGED row
     \/ ~Running /\ Out
  /\ UNCHANGED <<clock, lease, ends, keep, borrow, met>>

\* After the platform, the database; a lease that has ended or expired stays so.
WriteLease(h) ==
  /\ use[h].at = "write"
  /\ lease' = IF Unexpired THEN [lease EXCEPT !.expires = use[h].until] ELSE lease
  /\ UseOver(h)
  /\ UNCHANGED <<clock, row, ends, keep, borrow, met>>

HolderDies(h) ==
  /\ use[h].at = "write"
  /\ UseOver(h)
  /\ Met({"death"})
  /\ UNCHANGED <<clock, row, lease, ends, keep, borrow>>

-----------------------------------------------------------------------------
\* The lease is returned or reclaimed, or the sandbox is given up or taken over.
GivenUp ==
  /\ Out
  /\ UNCHANGED <<clock, lease, ends, keep, borrow, use, met>>

\* A resumption that takes longer than resume_timeout_s is taken over before its lease.
TimePasses ==
  /\ clock < MaxClock
  /\ borrow.at = "finish" => clock < borrow.by
  /\ clock' = clock + 1
  /\ UNCHANGED <<row, lease, ends, keep, borrow, use, met>>

\* A renewal is under way while somebody else is about to set a timeout, or to write an
\* expiry, that he has computed before: which of them comes last is left to chance.
Crossing ==
  \E h \in Holder :
    /\ use'[h].at \in {"renew", "write"}
    /\ \/ \E g \in Holder \ {h} : use'[g].at # "idle"
       \/ \E r \in Replica : keep'[r].at = "restore"

\* Nothing that comes after its destruction matters here.
Next ==
  /\ state # "OUT"
  /\ \/ \E r \in Replica :
          \/ List(r) \/ Cas(r) \/ KeepCall(r) \/ KeepFails(r) \/ KeepLost(r) \/ KeepFailed(r)
          \/ Reread(r) \/ ReadLease(r) \/ Restore(r) \/ Dies(r)
     \/ \E h \in Holder :
          \/ Renew(h) \/ Use(h) \/ UseCall(h) \/ UseFails(h) \/ WriteLease(h)
          \/ HolderDies(h)
     \/ StartPause \/ Pause \/ Adopt \/ ClaimReady \/ SetTimeout
     \/ ClaimPaused \/ Resume \/ FinishResume
     \/ GivenUp \/ TimePasses
  /\ crossed' = (crossed \/ Crossing)

Spec == Init /\ [][Next]_vars

-----------------------------------------------------------------------------
(* Properties.                                                               *)

\* Nobody is between a request to the platform and the write, or the reading, about it.
Settled ==
  /\ \A r \in Replica : keep[r].at \in {"idle", "cas"}
  /\ borrow = NoBorrow
  /\ \A h \in Holder : use[h].at = "idle"

\* The platform does not end a lease before its time.
Backed == Unexpired => lease.expires <= ends

\* What the database says of the end of a sandbox, the platform grants, whoever set its
\* timeout last: no lease ends before expires_at because a keepalive overtook its
\* borrower, and no keepalive is left out because of a platform_deadline that failed.
\* Not if a replica died, or a lost answer was about a lease, or a renewal crossed with
\* another request, or a keepalive with a resumption.
TimeoutsTrue ==
  Settled =>
    /\ met = {} /\ ~crossed => Backed
    /\ state = "READY" /\ "death" \notin met => deadline <= ends

\* The comment on the second reading: a borrower whose write comes after it sets its
\* timeout after the keepalive, and needs no help.
RereadSuffices ==
  Settled /\ met \subseteq {"resume"} /\ ~crossed => Backed
================================================================================
