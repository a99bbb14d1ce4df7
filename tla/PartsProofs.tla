------------------------------ MODULE PartsProofs ------------------------------
(***************************************************************************)
(* Proofs about the parts that MCParts puts side by side, for any values   *)
(* of the constants: first about the timeouts of a sandbox (LeaseTimeouts, *)
(* here Kept); then that, whatever the part that moves, each part behaves  *)
(* as its own module says, so that what is proved of it holds of the       *)
(* composition.                                                            *)
(*                                                                         *)
(* KeptInv is the inductive invariant of the timeouts.  What it adds to    *)
(* TimeoutsTrue, which speaks of quiet states only, is what holds while    *)
(* requests are under way: the timeout that each of them will set is long  *)
(* enough whenever it arrives (WillGrant), and what has been written is    *)
(* granted already, or a keepalive that shortened it has still to read the *)
(* row (Granted).                                                          *)
(***************************************************************************)
EXTENDS MCParts, PiBridgeProofs

\* How long the request about the lease of a keepalive, or of a holder, still grants.
MaxGrant == LeaseMax + Margin

KeepTypes ==
  [at : {"idle", "cas", "call", "failed", "reread", "lease", "restore"}, timeout : 0..MaxGrant]
BorrowTypes == [at : {"idle", "timeout", "resume", "finish"}, ttl : 0..LeaseMax, by : Nat]
UseTypes == [at : {"idle", "renew", "write", "connect"}, until : Nat, timeout : 0..MaxGrant]

\* The types, with the times measured from the clock.
TimeTypes ==
  /\ clock \in 1..MaxClock
  /\ state \in {"READY", "PAUSING", "PAUSED", "RESUMING", "LEASED", "OUT"}
  /\ deadline \in Nat /\ deadline <= clock + ReadyTimeout
  /\ ends \in Nat /\ ends <= clock + MaxGrant + ReadyTimeout
  /\ fresh \subseteq Replica
  /\ lease \in [expires : Nat, hard : Nat]
  /\ lease.expires <= lease.hard /\ lease.hard <= clock + LeaseMax
  /\ keep \in [Replica -> KeepTypes]
  /\ borrow \in BorrowTypes /\ borrow.by <= clock + Margin
  /\ use \in [Holder -> UseTypes]
  /\ \A h \in Holder :
       /\ use[h].until <= clock + LeaseMax
       /\ use[h].at \in {"renew", "write"} => use[h].until <= lease.hard
  /\ met \subseteq {"resume", "lost", "death"}
  /\ crossed \in BOOLEAN

\* Who can be at work in which state of the row.
Restoring(r) == keep[r].at \in {"lease", "restore"}
Shape ==
  /\ state # "READY" => fresh = {}
  /\ state \notin {"LEASED", "OUT"} =>
       /\ \A r \in Replica : ~Restoring(r)
       /\ \A h \in Holder : use[h].at = "idle"
  /\ borrow.at = "timeout" =>
       /\ state \in {"LEASED", "OUT"}
       /\ \A h \in Holder : use[h].at = "idle"
  /\ borrow.at \in {"resume", "finish"} => state \in {"RESUMING", "OUT"}
  /\ borrow.at = "finish" => clock <= borrow.by

\* While the row is READY, its platform_deadline is granted, or somebody who has been
\* told to write the row has not asked the platform yet, or is about to clear it.
ReadyGranted ==
  state = "READY" /\ "death" \notin met =>
    \/ deadline <= ends
    \/ \E r \in Replica : keep[r].at \in {"call", "failed"}

\* Nobody crosses a renewal, as long as nobody did.
NoneCrosses ==
  \A h \in Holder : use[h].at \in {"renew", "write"} =>
    /\ \A g \in Holder \ {h} : use[g].at = "idle"
    /\ \A r \in Replica : keep[r].at # "restore"

\* What a request that is on its way to the platform will grant, if it arrives.
WillGrant ==
  /\ \A r \in Replica : keep[r].at = "restore" => lease.expires <= clock + keep[r].timeout
  /\ borrow.at = "timeout" => lease.expires <= clock + borrow.ttl
  /\ \A h \in Holder :
       /\ use[h].at = "connect" => lease.expires <= clock + use[h].timeout
       /\ use[h].at = "renew" => use[h].until <= clock + use[h].timeout

\* A keepalive that has set the platform's timeout will still see to the lease.
Overtaking == \E r \in Replica : keep[r].at \in {"reread", "lease", "restore"}

\* What has been granted, unless a keepalive is about to mend it: the lease, or what a
\* renewal, or the borrower who resumed the sandbox, is about to write.
Granted ==
  ~Overtaking =>
    /\ Kept!Unexpired /\ borrow.at # "timeout" /\ (\A h \in Holder : use[h].at # "write") =>
         lease.expires <= ends
    /\ \A h \in Holder : use[h].at = "write" /\ Kept!Unexpired => use[h].until <= ends
    /\ borrow.at = "finish" => borrow.by + borrow.ttl <= ends

Regular == met = {} /\ ~crossed
KeptInv ==
  /\ TimeTypes /\ Shape /\ ReadyGranted
  /\ ~crossed => NoneCrosses
  /\ Regular => WillGrant /\ Granted

USE DEF MaxGrant, KeepTypes, BorrowTypes, UseTypes, Kept!None, Kept!row

\* What a step of Next does besides an action.
Step == state # "OUT" /\ crossed' = (crossed \/ Kept!Crossing)

\* Whether somebody crosses a renewal is looked at after every step.
LEMMA NoneCrossesStep ==
  ASSUME Kept!Settings, KeptInv, Step, TimeTypes'
  PROVE  ~crossed' => NoneCrosses'
BY DEF Step, Kept!Crossing, NoneCrosses, TimeTypes, KeptInv

-----------------------------------------------------------------------------
(* The invariant holds at first, and every action keeps it.                  *)

LEMMA KeptInitHolds == Kept!Settings /\ Kept!Init => KeptInv
<1> SUFFICES ASSUME Kept!Settings, Kept!Init PROVE KeptInv
  OBVIOUS
<1>1. TimeTypes
  <2>1. Kept!NoKeep \in KeepTypes /\ Kept!NoBorrow \in BorrowTypes /\ Kept!NoUse \in UseTypes
    BY DEF Kept!Settings, Kept!NoKeep, Kept!NoBorrow, Kept!NoUse
  <2>2. Kept!NoBorrow.by = 0 /\ \A h \in Holder : use[h] = Kept!NoUse /\ Kept!NoUse.until = 0
                                           /\ Kept!NoUse.at = "idle"
    BY DEF Kept!Init, Kept!NoBorrow, Kept!NoUse
  <2>3. clock = 1 /\ deadline = 1 + ReadyTimeout /\ ends = 1 + ReadyTimeout
        /\ lease = [expires |-> 0, hard |-> 0]
    BY DEF Kept!Init
  <2>4. keep \in [Replica -> KeepTypes] /\ borrow \in BorrowTypes /\ use \in [Holder -> UseTypes]
    BY <2>1 DEF Kept!Init
  <2>5. 1 \in 1..MaxClock /\ ReadyTimeout \in Nat /\ LeaseMax \in Nat /\ Margin \in Nat
    BY DEF Kept!Settings
  <2>6. borrow.by = 0 /\ (\A h \in Holder : use[h].until = 0 /\ use[h].at = "idle")
    BY <2>2 DEF Kept!Init
  <2>7. state = "READY" /\ fresh = {} /\ met = {} /\ crossed = FALSE
    BY DEF Kept!Init
  <2>8. /\ clock \in 1..MaxClock
        /\ deadline \in Nat /\ deadline <= clock + ReadyTimeout
        /\ ends \in Nat /\ ends <= clock + MaxGrant + ReadyTimeout
        /\ lease \in [expires : Nat, hard : Nat]
        /\ lease.expires <= lease.hard /\ lease.hard <= clock + LeaseMax
    BY <2>3, <2>5
  <2>9. /\ borrow.by <= clock + Margin
        /\ \A h \in Holder :
             /\ use[h].until <= clock + LeaseMax
             /\ use[h].at \in {"renew", "write"} => use[h].until <= lease.hard
    BY <2>3, <2>5, <2>6
  <2> QED
    BY <2>4, <2>7, <2>8, <2>9 DEF TimeTypes
<1>2. Shape
  BY DEF Kept!Init, Shape, Restoring, Kept!NoKeep, Kept!NoBorrow, Kept!NoUse
<1>3. ReadyGranted
  BY <1>1 DEF Kept!Init, ReadyGranted, TimeTypes
<1>4. NoneCrosses /\ WillGrant
  BY DEF Kept!Init, NoneCrosses, WillGrant, Kept!NoKeep, Kept!NoBorrow, Kept!NoUse
<1>5. Granted
  BY DEF Kept!Init, Granted, Kept!Unexpired, Kept!NoKeep, Kept!NoBorrow, Kept!NoUse
<1> QED
  BY <1>1, <1>2, <1>3, <1>4, <1>5 DEF KeptInv

-----------------------------------------------------------------------------
(* Keepalive.                                                                *)

LEMMA ListKeeps ==
  ASSUME Kept!Settings, KeptInv, NEW r \in Replica, Kept!List(r), Step
  PROVE  KeptInv'
<1>1. TimeTypes'
  BY DEF KeptInv, TimeTypes, Step, Kept!Settings, Kept!List, Kept!KeepAt, Kept!NoKeep
<1>2. Shape'
  BY DEF KeptInv, TimeTypes, Shape, Restoring, Kept!List, Kept!KeepAt, Kept!NoKeep
<1>3. ReadyGranted'
  BY DEF KeptInv, TimeTypes, Kept!Settings, Shape, ReadyGranted, Kept!List, Kept!KeepAt,
     Kept!NoKeep
<1>4. Regular' => Regular /\ WillGrant'
  BY DEF KeptInv, Regular, TimeTypes, Kept!Settings, Shape, Restoring, NoneCrosses, WillGrant,
       Step, Kept!List, Kept!KeepAt, Kept!NoKeep
<1>5. Regular' => Granted'
  BY DEF KeptInv, Regular, TimeTypes, Kept!Settings, Shape, Restoring, NoneCrosses, WillGrant,
       Granted, Overtaking, Kept!Unexpired, Step, Kept!List, Kept!KeepAt, Kept!NoKeep
<1> QED
  BY <1>1, <1>2, <1>3, <1>4, <1>5, NoneCrossesStep DEF KeptInv

LEMMA CasKeeps ==
  ASSUME Kept!Settings, KeptInv, NEW r \in Replica, Kept!Cas(r), Step
  PROVE  KeptInv'
<1>1. TimeTypes'
  BY DEF KeptInv, TimeTypes, Step, Kept!Settings, Kept!Cas, Kept!KeepAt, Kept!NoKeep, Kept!Row
<1>2. Shape'
  <2>1. /\ UNCHANGED <<clock, borrow, use>>
        /\ state' = "READY" \/ (state' = state /\ fresh' = fresh)
        /\ r \in fresh \/ UNCHANGED state
        /\ \A q \in Replica : Restoring(q)' => Restoring(q)
    BY DEF KeptInv, TimeTypes, Restoring, Kept!Cas, Kept!KeepAt, Kept!NoKeep, Kept!Row
  <2> QED
    BY <2>1 DEF KeptInv, Shape
<1>3. ReadyGranted'
  BY DEF KeptInv, TimeTypes, Kept!Settings, Shape, ReadyGranted, Kept!Cas, Kept!KeepAt,
     Kept!NoKeep, Kept!Row
<1>4. Regular' => Regular /\ WillGrant'
  BY DEF KeptInv, Regular, TimeTypes, Kept!Settings, Shape, Restoring, NoneCrosses, WillGrant,
       Step, Kept!Cas, Kept!KeepAt, Kept!NoKeep, Kept!Row
<1>5. Regular' => Granted'
  BY DEF KeptInv, Regular, TimeTypes, Kept!Settings, Shape, Restoring, NoneCrosses, WillGrant,
       Granted, Overtaking, Kept!Unexpired, Step, Kept!Cas, Kept!KeepAt, Kept!NoKeep, Kept!Row
<1> QED
  BY <1>1, <1>2, <1>3, <1>4, <1>5, NoneCrossesStep DEF KeptInv

LEMMA KeepFailsKeeps ==
  ASSUME Kept!Settings, KeptInv, NEW r \in Replica, Kept!KeepFails(r), Step
  PROVE  KeptInv'
<1>1. TimeTypes'
  BY DEF KeptInv, TimeTypes, Step, Kept!Settings, Kept!KeepFails, Kept!KeepAt, Kept!NoKeep
<1>2. Shape'
  BY DEF KeptInv, TimeTypes, Shape, Restoring, Kept!KeepFails, Kept!KeepAt, Kept!NoKeep
<1>3. ReadyGranted'
  BY DEF KeptInv, TimeTypes, Kept!Settings, Shape, ReadyGranted, Kept!KeepFails, Kept!KeepAt,
     Kept!NoKeep
<1>4. Regular' => Regular /\ WillGrant'
  BY DEF KeptInv, Regular, TimeTypes, Kept!Settings, Shape, Restoring, NoneCrosses, WillGrant,
       Step, Kept!KeepFails, Kept!KeepAt, Kept!NoKeep
<1>5. Regular' => Granted'
  BY DEF KeptInv, Regular, TimeTypes, Kept!Settings, Shape, Restoring, NoneCrosses, WillGrant,
       Granted, Overtaking, Kept!Unexpired, Step, Kept!KeepFails, Kept!KeepAt, Kept!NoKeep
<1> QED
  BY <1>1, <1>2, <1>3, <1>4, <1>5, NoneCrossesStep DEF KeptInv

LEMMA KeepLostKeeps ==
  ASSUME Kept!Settings, KeptInv, NEW r \in Replica, Kept!KeepLost(r), Step
  PROVE  KeptInv'
<1>1. TimeTypes'
  BY DEF KeptInv, TimeTypes, Step, Kept!Settings, Kept!KeepLost, Kept!KeepAt, Kept!NoKeep,
     Kept!Met, Kept!Running
<1>2. Shape'
  BY DEF KeptInv, TimeTypes, Shape, Restoring, Kept!KeepLost, Kept!KeepAt, Kept!NoKeep, Kept!Met,
     Kept!Running
<1>3. ReadyGranted'
  BY DEF KeptInv, TimeTypes, Kept!Settings, Shape, ReadyGranted, Kept!KeepLost, Kept!KeepAt,
     Kept!NoKeep, Kept!Met, Kept!Running
<1>4. Regular' => Regular /\ WillGrant'
  BY DEF KeptInv, Regular, TimeTypes, Kept!Settings, Shape, Restoring, NoneCrosses, WillGrant,
       Step, Kept!KeepLost, Kept!KeepAt, Kept!NoKeep, Kept!Met, Kept!Running
<1>5. Regular' => Granted'
  BY DEF KeptInv, Regular, TimeTypes, Kept!Settings, Shape, Restoring, NoneCrosses, WillGrant,
     Granted, Overtaking, Kept!Unexpired, Step, Kept!KeepLost, Kept!KeepAt, Kept!NoKeep,
     Kept!Met, Kept!Running
<1> QED
  BY <1>1, <1>2, <1>3, <1>4, <1>5, NoneCrossesStep DEF KeptInv

LEMMA KeepCallKeeps ==
  ASSUME Kept!Settings, KeptInv, NEW r \in Replica, Kept!KeepCall(r), Step
  PROVE  KeptInv'
<1>1. TimeTypes'
  BY DEF KeptInv, TimeTypes, Step, Kept!Settings, Kept!KeepCall, Kept!KeepAt, Kept!NoKeep,
     Kept!Running, Kept!Row, Kept!Out
<1>2. Shape'
  <2>1. /\ UNCHANGED <<clock, borrow, use>>
        /\ (state' = "OUT" /\ fresh' = {}) \/ UNCHANGED <<state, fresh>>
        /\ \A q \in Replica : Restoring(q)' => Restoring(q)
    BY DEF KeptInv, TimeTypes, Restoring, Kept!KeepCall, Kept!KeepAt, Kept!NoKeep, Kept!Row,
       Kept!Out
  <2> QED
    BY <2>1 DEF KeptInv, Shape
<1>3. ReadyGranted'
  BY DEF KeptInv, TimeTypes, Kept!Settings, Shape, ReadyGranted, Kept!KeepCall, Kept!KeepAt,
     Kept!NoKeep, Kept!Running, Kept!Row, Kept!Out
<1>4. Regular' => Regular /\ WillGrant'
  BY DEF KeptInv, Regular, TimeTypes, Kept!Settings, Shape, Restoring, NoneCrosses, WillGrant,
       Step, Kept!KeepCall, Kept!KeepAt, Kept!NoKeep, Kept!Running, Kept!Row, Kept!Out
<1>5. Regular' => Granted'
  BY DEF KeptInv, Regular, TimeTypes, Kept!Settings, Shape, Restoring, NoneCrosses, WillGrant,
     Granted, Overtaking, Kept!Unexpired, Step, Kept!KeepCall, Kept!KeepAt, Kept!NoKeep,
     Kept!Running, Kept!Row, Kept!Out
<1> QED
  BY <1>1, <1>2, <1>3, <1>4, <1>5, NoneCrossesStep DEF KeptInv

LEMMA KeepFailedKeeps ==
  ASSUME Kept!Settings, KeptInv, NEW r \in Replica, Kept!KeepFailed(r), Step
  PROVE  KeptInv'
<1>1. TimeTypes'
  BY DEF KeptInv, TimeTypes, Step, Kept!Settings, Kept!KeepFailed, Kept!KeepAt, Kept!NoKeep,
     Kept!Row
<1>2. Shape'
  BY DEF KeptInv, TimeTypes, Shape, Restoring, Kept!KeepFailed, Kept!KeepAt, Kept!NoKeep, Kept!Row
<1>3. ReadyGranted'
  <2>1. /\ state' = state /\ met' = met
        /\ state = "READY" => deadline' = 0 /\ ends' \in Nat
    BY DEF KeptInv, TimeTypes, Kept!KeepFailed, Kept!Row
  <2> QED
    BY <2>1 DEF ReadyGranted
<1>4. Regular' => Regular /\ WillGrant'
  BY DEF KeptInv, Regular, TimeTypes, Kept!Settings, Shape, Restoring, NoneCrosses, WillGrant,
       Step, Kept!KeepFailed, Kept!KeepAt, Kept!NoKeep, Kept!Row
<1>5. Regular' => Granted'
  BY DEF KeptInv, Regular, TimeTypes, Kept!Settings, Shape, Restoring, NoneCrosses, WillGrant,
     Granted, Overtaking, Kept!Unexpired, Step, Kept!KeepFailed, Kept!KeepAt, Kept!NoKeep,
     Kept!Row
<1> QED
  BY <1>1, <1>2, <1>3, <1>4, <1>5, NoneCrossesStep DEF KeptInv

LEMMA RereadKeeps ==
  ASSUME Kept!Settings, KeptInv, NEW r \in Replica, Kept!Reread(r), Step
  PROVE  KeptInv'
<1>1. TimeTypes'
  BY DEF KeptInv, TimeTypes, Step, Kept!Settings, Kept!Reread, Kept!KeepAt, Kept!NoKeep, Kept!Met
<1>2. Shape'
  BY DEF KeptInv, TimeTypes, Shape, Restoring, Kept!Reread, Kept!KeepAt, Kept!NoKeep, Kept!Met
<1>3. ReadyGranted'
  BY DEF KeptInv, TimeTypes, Kept!Settings, Shape, ReadyGranted, Kept!Reread, Kept!KeepAt,
     Kept!NoKeep, Kept!Met
<1>4. Regular' => Regular /\ WillGrant'
  BY DEF KeptInv, Regular, TimeTypes, Kept!Settings, Shape, Restoring, NoneCrosses, WillGrant,
       Step, Kept!Reread, Kept!KeepAt, Kept!NoKeep, Kept!Met
<1>5. Regular' => Granted'
  BY DEF KeptInv, Regular, TimeTypes, Kept!Settings, Shape, Restoring, NoneCrosses, WillGrant,
     Granted, Overtaking, Kept!Unexpired, Step, Kept!Reread, Kept!KeepAt, Kept!NoKeep, Kept!Met
<1> QED
  BY <1>1, <1>2, <1>3, <1>4, <1>5, NoneCrossesStep DEF KeptInv

LEMMA ReadLeaseKeeps ==
  ASSUME Kept!Settings, KeptInv, NEW r \in Replica, Kept!ReadLease(r), Step
  PROVE  KeptInv'
<1>1. TimeTypes'
  BY DEF KeptInv, TimeTypes, Step, Kept!Settings, Kept!ReadLease, Kept!NoKeep, Kept!Unexpired
<1>2. Shape'
  BY DEF KeptInv, TimeTypes, Shape, Restoring, Kept!ReadLease, Kept!NoKeep, Kept!Unexpired
<1>3. ReadyGranted'
  BY DEF KeptInv, TimeTypes, Kept!Settings, Shape, ReadyGranted, Kept!ReadLease, Kept!NoKeep,
     Kept!Unexpired
<1>4. Regular' => Regular /\ WillGrant'
  BY DEF KeptInv, Regular, TimeTypes, Kept!Settings, Shape, Restoring, NoneCrosses, WillGrant,
       Step, Kept!ReadLease, Kept!NoKeep, Kept!Unexpired
<1>5. Regular' => Granted'
  BY DEF KeptInv, Regular, TimeTypes, Kept!Settings, Shape, Restoring, NoneCrosses, WillGrant,
       Granted, Overtaking, Kept!Unexpired, Step, Kept!ReadLease, Kept!NoKeep
<1> QED
  BY <1>1, <1>2, <1>3, <1>4, <1>5, NoneCrossesStep DEF KeptInv

LEMMA RestoreKeeps ==
  ASSUME Kept!Settings, KeptInv, NEW r \in Replica, Kept!Restore(r), Step
  PROVE  KeptInv'
<1>1. TimeTypes'
  <2>1. keep[r] \in KeepTypes
    BY DEF KeptInv, TimeTypes
  <2>2. ends' \in Nat /\ ends' <= clock' + MaxGrant + ReadyTimeout
    BY <2>1, SMT DEF Kept!Restore, KeptInv, TimeTypes, Kept!Settings, MaxGrant
  <2>3. keep' \in [Replica -> KeepTypes]
    BY DEF Kept!Restore, Kept!KeepAt, Kept!NoKeep, KeptInv, TimeTypes, Kept!Settings, MaxGrant
  <2> QED
    BY <2>2, <2>3 DEF KeptInv, TimeTypes, Step, Kept!Restore, Kept!Met
<1>2. Shape'
  BY DEF KeptInv, TimeTypes, Shape, Restoring, Kept!Restore, Kept!KeepAt, Kept!NoKeep, Kept!Met,
     Kept!Running
<1>3. ReadyGranted'
  <2>1. state # "READY" /\ state' = state
    BY DEF KeptInv, Shape, Restoring, Kept!Restore
  <2> QED
    BY <2>1 DEF ReadyGranted
<1>4. Regular' => Regular /\ WillGrant'
  BY DEF KeptInv, Regular, TimeTypes, Kept!Settings, Shape, Restoring, NoneCrosses, WillGrant,
       Step, Kept!Restore, Kept!KeepAt, Kept!NoKeep, Kept!Met, Kept!Running
<1>5. Regular' => Granted'
  BY DEF KeptInv, Regular, TimeTypes, Kept!Settings, Shape, Restoring, NoneCrosses, WillGrant,
     Granted, Overtaking, Kept!Unexpired, Step, Kept!Restore, Kept!KeepAt, Kept!NoKeep,
     Kept!Met, Kept!Running
<1> QED
  BY <1>1, <1>2, <1>3, <1>4, <1>5, NoneCrossesStep DEF KeptInv

LEMMA DeathKeeps ==
  ASSUME Kept!Settings, KeptInv, NEW r \in Replica, Kept!Dies(r), Step
  PROVE  KeptInv'
<1>1. TimeTypes'
  BY DEF KeptInv, TimeTypes, Step, Kept!Settings, Kept!Dies, Kept!KeepAt, Kept!NoKeep, Kept!Met
<1>2. Shape'
  BY DEF KeptInv, TimeTypes, Shape, Restoring, Kept!Dies, Kept!KeepAt, Kept!NoKeep, Kept!Met
<1>3. ReadyGranted'
  BY DEF KeptInv, TimeTypes, Kept!Settings, Shape, ReadyGranted, Kept!Dies, Kept!KeepAt,
     Kept!NoKeep, Kept!Met
<1>4. Regular' => Regular /\ WillGrant'
  BY DEF KeptInv, Regular, TimeTypes, Kept!Settings, Shape, Restoring, NoneCrosses, WillGrant,
       Step, Kept!Dies, Kept!KeepAt, Kept!NoKeep, Kept!Met
<1>5. Regular' => Granted'
  BY DEF KeptInv, Regular, TimeTypes, Kept!Settings, Shape, Restoring, NoneCrosses, WillGrant,
       Granted, Overtaking, Kept!Unexpired, Step, Kept!Dies, Kept!KeepAt, Kept!NoKeep, Kept!Met
<1> QED
  BY <1>1, <1>2, <1>3, <1>4, <1>5, NoneCrossesStep DEF KeptInv

-----------------------------------------------------------------------------
(* The holder of the lease.                                                  *)

LEMMA RenewKeeps ==
  ASSUME Kept!Settings, KeptInv, NEW h \in Holder, Kept!Renew(h), Step
  PROVE  KeptInv'
<1>1. TimeTypes'
  BY DEF KeptInv, TimeTypes, Step, Kept!Settings, Kept!Renew, Kept!Held, Kept!Unexpired,
     Kept!Least, Kept!NoBorrow
<1>2. Shape'
  BY DEF KeptInv, TimeTypes, Shape, Restoring, Kept!Renew, Kept!Held, Kept!Unexpired, Kept!Least,
     Kept!NoBorrow
<1>3. ReadyGranted'
  BY DEF KeptInv, TimeTypes, Kept!Settings, Shape, ReadyGranted, Kept!Renew, Kept!Held,
     Kept!Unexpired, Kept!Least, Kept!NoBorrow
<1>4. Regular' => Regular /\ WillGrant'
  BY DEF KeptInv, Regular, TimeTypes, Kept!Settings, Shape, Restoring, NoneCrosses, WillGrant,
       Step, Kept!Renew, Kept!Held, Kept!Unexpired, Kept!Least, Kept!NoBorrow
<1>5. Regular' => Granted'
  BY DEF KeptInv, Regular, TimeTypes, Kept!Settings, Shape, Restoring, NoneCrosses, WillGrant,
     Granted, Overtaking, Kept!Unexpired, Step, Kept!Renew, Kept!Held, Kept!Least, Kept!NoBorrow
<1> QED
  BY <1>1, <1>2, <1>3, <1>4, <1>5, NoneCrossesStep DEF KeptInv

LEMMA UseKeeps ==
  ASSUME Kept!Settings, KeptInv, NEW h \in Holder, Kept!Use(h), Step
  PROVE  KeptInv'
<1>1. TimeTypes'
  BY DEF KeptInv, TimeTypes, Step, Kept!Settings, Kept!Use, Kept!Held, Kept!Unexpired,
     Kept!NoBorrow
<1>2. Shape'
  BY DEF KeptInv, TimeTypes, Shape, Restoring, Kept!Use, Kept!Held, Kept!Unexpired, Kept!NoBorrow
<1>3. ReadyGranted'
  BY DEF KeptInv, TimeTypes, Kept!Settings, Shape, ReadyGranted, Kept!Use, Kept!Held,
     Kept!Unexpired, Kept!NoBorrow
<1>4. Regular' => Regular /\ WillGrant'
  BY DEF KeptInv, Regular, TimeTypes, Kept!Settings, Shape, Restoring, NoneCrosses, WillGrant,
       Step, Kept!Use, Kept!Held, Kept!Unexpired, Kept!NoBorrow
<1>5. Regular' => Granted'
  BY DEF KeptInv, Regular, TimeTypes, Kept!Settings, Shape, Restoring, NoneCrosses, WillGrant,
       Granted, Overtaking, Kept!Unexpired, Step, Kept!Use, Kept!Held, Kept!NoBorrow
<1> QED
  BY <1>1, <1>2, <1>3, <1>4, <1>5, NoneCrossesStep DEF KeptInv

LEMMA UseCallKeeps ==
  ASSUME Kept!Settings, KeptInv, NEW h \in Holder, Kept!UseCall(h), Step
  PROVE  KeptInv'
<1>1. TimeTypes'
  BY DEF KeptInv, TimeTypes, Step, Kept!Settings, Kept!UseCall, Kept!RenewCall, Kept!Connected,
     Kept!UseOver, Kept!NoUse, Kept!Met,
     Kept!Running
<1>2. Shape'
  BY DEF KeptInv, TimeTypes, Shape, Restoring, Kept!UseCall, Kept!RenewCall, Kept!Connected,
     Kept!UseOver, Kept!NoUse, Kept!Met,
     Kept!Running
<1>3. ReadyGranted'
  BY DEF KeptInv, TimeTypes, Kept!Settings, Shape, ReadyGranted, Kept!UseCall, Kept!RenewCall,
     Kept!Connected, Kept!UseOver,
     Kept!NoUse, Kept!Met, Kept!Running
<1>4. Regular' => Regular /\ WillGrant'
  BY DEF KeptInv, Regular, TimeTypes, Kept!Settings, Shape, Restoring, NoneCrosses, WillGrant,
       Step, Kept!UseCall, Kept!RenewCall, Kept!Connected, Kept!UseOver, Kept!NoUse, Kept!Met,
       Kept!Running
<1>5. Regular' => Granted'
  BY DEF KeptInv, Regular, TimeTypes, Kept!Settings, Shape, Restoring, NoneCrosses, WillGrant,
     Granted, Overtaking, Kept!Unexpired, Step, Kept!UseCall, Kept!RenewCall, Kept!Connected,
     Kept!UseOver, Kept!NoUse,
     Kept!Met, Kept!Running
<1> QED
  BY <1>1, <1>2, <1>3, <1>4, <1>5, NoneCrossesStep DEF KeptInv

LEMMA UseFailsKeeps ==
  ASSUME Kept!Settings, KeptInv, NEW h \in Holder, Kept!UseFails(h), Step
  PROVE  KeptInv'
<1>1. TimeTypes'
  BY DEF KeptInv, TimeTypes, Step, Kept!Settings, Kept!UseFails, Kept!UseOver, Kept!NoUse,
     Kept!Out, Kept!Row, Kept!Running
<1>2. Shape'
  BY DEF KeptInv, TimeTypes, Shape, Restoring, Kept!UseFails, Kept!UseOver, Kept!NoUse, Kept!Out,
     Kept!Row, Kept!Running
<1>3. ReadyGranted'
  BY DEF KeptInv, TimeTypes, Kept!Settings, Shape, ReadyGranted, Kept!UseFails, Kept!UseOver,
     Kept!NoUse, Kept!Out, Kept!Row, Kept!Running
<1>4. Regular' => Regular /\ WillGrant'
  BY DEF KeptInv, Regular, TimeTypes, Kept!Settings, Shape, Restoring, NoneCrosses, WillGrant,
       Step, Kept!UseFails, Kept!UseOver, Kept!NoUse, Kept!Out, Kept!Row, Kept!Running
<1>5. Regular' => Granted'
  BY DEF KeptInv, Regular, TimeTypes, Kept!Settings, Shape, Restoring, NoneCrosses, WillGrant,
     Granted, Overtaking, Kept!Unexpired, Step, Kept!UseFails, Kept!UseOver, Kept!NoUse,
     Kept!Out, Kept!Row, Kept!Running
<1> QED
  BY <1>1, <1>2, <1>3, <1>4, <1>5, NoneCrossesStep DEF KeptInv

LEMMA WriteLeaseKeeps ==
  ASSUME Kept!Settings, KeptInv, NEW h \in Holder, Kept!WriteLease(h), Step
  PROVE  KeptInv'
<1>1. TimeTypes'
  BY DEF KeptInv, TimeTypes, Step, Kept!Settings, Kept!WriteLease, Kept!UseOver, Kept!NoUse,
     Kept!Unexpired
<1>2. Shape'
  BY DEF KeptInv, TimeTypes, Shape, Restoring, Kept!WriteLease, Kept!UseOver, Kept!NoUse,
     Kept!Unexpired
<1>3. ReadyGranted'
  BY DEF KeptInv, TimeTypes, Kept!Settings, Shape, ReadyGranted, Kept!WriteLease, Kept!UseOver,
     Kept!NoUse, Kept!Unexpired
<1>4. Regular' => Regular /\ WillGrant'
  BY DEF KeptInv, Regular, TimeTypes, Kept!Settings, Shape, Restoring, NoneCrosses, WillGrant,
       Step, Kept!WriteLease, Kept!UseOver, Kept!NoUse, Kept!Unexpired
<1>5. Regular' => Granted'
  BY DEF KeptInv, Regular, TimeTypes, Kept!Settings, Shape, Restoring, NoneCrosses, WillGrant,
       Granted, Overtaking, Kept!Unexpired, Step, Kept!WriteLease, Kept!UseOver, Kept!NoUse
<1> QED
  BY <1>1, <1>2, <1>3, <1>4, <1>5, NoneCrossesStep DEF KeptInv

LEMMA HolderDeathKeeps ==
  ASSUME Kept!Settings, KeptInv, NEW h \in Holder, Kept!HolderDies(h), Step
  PROVE  KeptInv'
<1>1. TimeTypes'
  BY DEF KeptInv, TimeTypes, Step, Kept!Settings, Kept!HolderDies, Kept!UseOver, Kept!NoUse,
     Kept!Met
<1>2. Shape'
  BY DEF KeptInv, TimeTypes, Shape, Restoring, Kept!HolderDies, Kept!UseOver, Kept!NoUse, Kept!Met
<1>3. ReadyGranted'
  BY DEF KeptInv, TimeTypes, Kept!Settings, Shape, ReadyGranted, Kept!HolderDies, Kept!UseOver,
     Kept!NoUse, Kept!Met
<1>4. Regular' => Regular /\ WillGrant'
  BY DEF KeptInv, Regular, TimeTypes, Kept!Settings, Shape, Restoring, NoneCrosses, WillGrant,
       Step, Kept!HolderDies, Kept!UseOver, Kept!NoUse, Kept!Met
<1>5. Regular' => Granted'
  BY DEF KeptInv, Regular, TimeTypes, Kept!Settings, Shape, Restoring, NoneCrosses, WillGrant,
     Granted, Overtaking, Kept!Unexpired, Step, Kept!HolderDies, Kept!UseOver, Kept!NoUse,
     Kept!Met
<1> QED
  BY <1>1, <1>2, <1>3, <1>4, <1>5, NoneCrossesStep DEF KeptInv

-----------------------------------------------------------------------------
(* Pausing and borrowing, and the end.                                       *)

LEMMA StartPauseKeeps ==
  ASSUME Kept!Settings, KeptInv, Kept!StartPause, Step
  PROVE  KeptInv'
<1>1. TimeTypes'
  BY DEF KeptInv, TimeTypes, Step, Kept!Settings, Kept!StartPause, Kept!Row
<1>2. Shape'
  BY DEF KeptInv, TimeTypes, Shape, Restoring, Kept!StartPause, Kept!Row
<1>3. ReadyGranted'
  BY DEF KeptInv, TimeTypes, Kept!Settings, Shape, ReadyGranted, Kept!StartPause, Kept!Row
<1>4. Regular' => Regular /\ WillGrant'
  BY DEF KeptInv, Regular, TimeTypes, Kept!Settings, Shape, Restoring, NoneCrosses, WillGrant,
       Step, Kept!StartPause, Kept!Row
<1>5. Regular' => Granted'
  BY DEF KeptInv, Regular, TimeTypes, Kept!Settings, Shape, Restoring, NoneCrosses, WillGrant,
       Granted, Overtaking, Kept!Unexpired, Step, Kept!StartPause, Kept!Row
<1> QED
  BY <1>1, <1>2, <1>3, <1>4, <1>5, NoneCrossesStep DEF KeptInv

LEMMA PauseKeeps ==
  ASSUME Kept!Settings, KeptInv, Kept!Pause, Step
  PROVE  KeptInv'
<1>1. TimeTypes'
  BY DEF KeptInv, TimeTypes, Step, Kept!Settings, Kept!Pause, Kept!Row, Kept!Out
<1>2. Shape'
  BY DEF KeptInv, TimeTypes, Shape, Restoring, Kept!Pause, Kept!Row, Kept!Out
<1>3. ReadyGranted'
  BY DEF KeptInv, TimeTypes, Kept!Settings, Shape, ReadyGranted, Kept!Pause, Kept!Row, Kept!Out
<1>4. Regular' => Regular /\ WillGrant'
  BY DEF KeptInv, Regular, TimeTypes, Kept!Settings, Shape, Restoring, NoneCrosses, WillGrant,
       Step, Kept!Pause, Kept!Row, Kept!Out
<1>5. Regular' => Granted'
  BY DEF KeptInv, Regular, TimeTypes, Kept!Settings, Shape, Restoring, NoneCrosses, WillGrant,
       Granted, Overtaking, Kept!Unexpired, Step, Kept!Pause, Kept!Row, Kept!Out
<1> QED
  BY <1>1, <1>2, <1>3, <1>4, <1>5, NoneCrossesStep DEF KeptInv

LEMMA AdoptKeeps ==
  ASSUME Kept!Settings, KeptInv, Kept!Adopt, Step
  PROVE  KeptInv'
<1>1. TimeTypes'
  BY DEF KeptInv, TimeTypes, Step, Kept!Settings, Kept!Adopt, Kept!Row
<1>2. Shape'
  BY DEF KeptInv, TimeTypes, Shape, Restoring, Kept!Adopt, Kept!Row
<1>3. ReadyGranted'
  BY DEF KeptInv, TimeTypes, Kept!Settings, Shape, ReadyGranted, Kept!Adopt, Kept!Row
<1>4. Regular' => Regular /\ WillGrant'
  BY DEF KeptInv, Regular, TimeTypes, Kept!Settings, Shape, Restoring, NoneCrosses, WillGrant,
       Step, Kept!Adopt, Kept!Row
<1>5. Regular' => Granted'
  BY DEF KeptInv, Regular, TimeTypes, Kept!Settings, Shape, Restoring, NoneCrosses, WillGrant,
       Granted, Overtaking, Kept!Unexpired, Step, Kept!Adopt, Kept!Row
<1> QED
  BY <1>1, <1>2, <1>3, <1>4, <1>5, NoneCrossesStep DEF KeptInv

LEMMA ClaimReadyKeeps ==
  ASSUME Kept!Settings, KeptInv, Kept!ClaimReady, Step
  PROVE  KeptInv'
<1>1. TimeTypes'
  <2>1. PICK ttl \in Ttls :
          /\ lease' = [expires |-> clock + ttl, hard |-> clock + LeaseMax]
          /\ borrow' = [at |-> "timeout", ttl |-> ttl, by |-> 0]
    BY DEF Kept!ClaimReady, Kept!NewLease, Kept!NoBorrow
  <2>2. ttl \in 0..LeaseMax
    BY DEF Kept!Settings
  <2>3. clock \in Nat /\ clock' = clock /\ Margin \in Nat
    BY DEF Kept!ClaimReady, KeptInv, TimeTypes, Kept!Settings
  <2>4. borrow' \in BorrowTypes /\ borrow'.by <= clock' + Margin
    BY <2>1, <2>2, <2>3
  <2>5. /\ lease' \in [expires : Nat, hard : Nat]
        /\ lease'.expires <= lease'.hard /\ lease'.hard <= clock' + LeaseMax
    BY <2>1, <2>2 DEF Kept!ClaimReady, KeptInv, TimeTypes, Kept!Settings
  <2> QED
    BY <2>4, <2>5 DEF KeptInv, TimeTypes, Shape, Step, Kept!Settings, Kept!ClaimReady, Kept!Row
<1>2. Shape'
  BY DEF KeptInv, TimeTypes, Shape, Restoring, Kept!ClaimReady, Kept!Row, Kept!NewLease,
     Kept!NoBorrow
<1>3. ReadyGranted'
  BY DEF KeptInv, TimeTypes, Kept!Settings, Shape, ReadyGranted, Kept!ClaimReady, Kept!Row,
     Kept!NewLease, Kept!NoBorrow
<1>4. Regular' => Regular /\ WillGrant'
  BY DEF KeptInv, Regular, TimeTypes, Kept!Settings, Shape, Restoring, NoneCrosses, WillGrant,
       Step, Kept!ClaimReady, Kept!Row, Kept!NewLease, Kept!NoBorrow
<1>5. Regular' => Granted'
  BY DEF KeptInv, Regular, TimeTypes, Kept!Settings, Shape, Restoring, NoneCrosses, WillGrant,
     Granted, Overtaking, Kept!Unexpired, Step, Kept!ClaimReady, Kept!Row, Kept!NewLease,
     Kept!NoBorrow
<1> QED
  BY <1>1, <1>2, <1>3, <1>4, <1>5, NoneCrossesStep DEF KeptInv

LEMMA SetTimeoutKeeps ==
  ASSUME Kept!Settings, KeptInv, Kept!SetTimeout, Step
  PROVE  KeptInv'
<1>1. TimeTypes'
  BY DEF KeptInv, TimeTypes, Step, Kept!Settings, Kept!SetTimeout, Kept!Running, Kept!Out,
     Kept!Row, Kept!NoBorrow
<1>2. Shape'
  BY DEF KeptInv, TimeTypes, Shape, Restoring, Kept!SetTimeout, Kept!Running, Kept!Out, Kept!Row,
     Kept!NoBorrow
<1>3. ReadyGranted'
  BY DEF KeptInv, TimeTypes, Kept!Settings, Shape, ReadyGranted, Kept!SetTimeout, Kept!Running,
     Kept!Out, Kept!Row, Kept!NoBorrow
<1>4. Regular' => Regular /\ WillGrant'
  BY DEF KeptInv, Regular, TimeTypes, Kept!Settings, Shape, Restoring, NoneCrosses, WillGrant,
       Step, Kept!SetTimeout, Kept!Running, Kept!Out, Kept!Row, Kept!NoBorrow
<1>5. Regular' => Granted'
  BY DEF KeptInv, Regular, TimeTypes, Kept!Settings, Shape, Restoring, NoneCrosses, WillGrant,
     Granted, Overtaking, Kept!Unexpired, Step, Kept!SetTimeout, Kept!Running, Kept!Out,
     Kept!Row, Kept!NoBorrow
<1> QED
  BY <1>1, <1>2, <1>3, <1>4, <1>5, NoneCrossesStep DEF KeptInv

LEMMA ClaimPausedKeeps ==
  ASSUME Kept!Settings, KeptInv, Kept!ClaimPaused, Step
  PROVE  KeptInv'
<1>1. TimeTypes'
  <2>1. PICK ttl \in Ttls : borrow' = [at |-> "resume", ttl |-> ttl, by |-> 0]
    BY DEF Kept!ClaimPaused, Kept!NoBorrow
  <2>2. ttl \in 0..LeaseMax /\ clock \in Nat /\ clock' = clock /\ Margin \in Nat
    BY DEF Kept!ClaimPaused, KeptInv, TimeTypes, Kept!Settings
  <2>3. borrow' \in BorrowTypes /\ borrow'.by <= clock' + Margin
    BY <2>1, <2>2
  <2> QED
    BY <2>3 DEF KeptInv, TimeTypes, Step, Kept!Settings, Kept!ClaimPaused, Kept!Row
<1>2. Shape'
  BY DEF KeptInv, TimeTypes, Shape, Restoring, Kept!ClaimPaused, Kept!Row, Kept!NoBorrow
<1>3. ReadyGranted'
  BY DEF KeptInv, TimeTypes, Kept!Settings, Shape, ReadyGranted, Kept!ClaimPaused, Kept!Row,
     Kept!NoBorrow
<1>4. Regular' => Regular /\ WillGrant'
  BY DEF KeptInv, Regular, TimeTypes, Kept!Settings, Shape, Restoring, NoneCrosses, WillGrant,
       Step, Kept!ClaimPaused, Kept!Row, Kept!NoBorrow
<1>5. Regular' => Granted'
  BY DEF KeptInv, Regular, TimeTypes, Kept!Settings, Shape, Restoring, NoneCrosses, WillGrant,
       Granted, Overtaking, Kept!Unexpired, Step, Kept!ClaimPaused, Kept!Row, Kept!NoBorrow
<1> QED
  BY <1>1, <1>2, <1>3, <1>4, <1>5, NoneCrossesStep DEF KeptInv

LEMMA ResumeKeeps ==
  ASSUME Kept!Settings, KeptInv, Kept!Resume, Step
  PROVE  KeptInv'
<1>1. borrow \in BorrowTypes /\ clock \in Nat /\ ends \in Nat
  BY DEF KeptInv, TimeTypes
<1>2. \/ /\ ends' = clock + borrow.ttl + Margin
         /\ borrow' = [at |-> "finish", ttl |-> borrow.ttl, by |-> clock + Margin]
         /\ UNCHANGED Kept!row
      \/ Kept!Out /\ borrow' = Kept!NoBorrow /\ UNCHANGED ends
  BY <1>1 DEF Kept!Resume
<1>3. borrow.at = "resume" /\ UNCHANGED <<clock, lease, keep, use, met>>
  BY DEF Kept!Resume
<1>4. TimeTypes'
  <2>1. borrow' \in BorrowTypes /\ borrow'.by <= clock' + Margin
    BY <1>1, <1>2, <1>3 DEF Kept!NoBorrow, Kept!Settings, KeptInv, TimeTypes
  <2>2. ends' \in Nat /\ ends' <= clock' + MaxGrant + ReadyTimeout
    BY <1>1, <1>2, <1>3 DEF MaxGrant, Kept!Settings, KeptInv, TimeTypes
  <2>3. state' \in {state, "OUT"} /\ deadline' \in {deadline, 0} /\ fresh' \in {fresh, {}}
    BY <1>2 DEF Kept!Out, Kept!Row
  <2> QED
    BY <1>3, <2>1, <2>2, <2>3 DEF KeptInv, TimeTypes, Step, Kept!Settings
<1>5. Shape'
  <2>1. CASE borrow'.at = "finish"
    BY <1>1, <1>2, <1>3, <2>1 DEF Kept!NoBorrow, KeptInv, Shape, Restoring, Kept!Settings
  <2>2. CASE borrow'.at # "finish"
    BY <1>1, <1>2, <1>3, <2>2 DEF Kept!NoBorrow, KeptInv, Shape, Restoring, Kept!Out, Kept!Row
  <2> QED
    BY <2>1, <2>2
<1>6. ReadyGranted'
  BY DEF KeptInv, TimeTypes, Kept!Settings, Shape, ReadyGranted, Kept!Resume, Kept!Out, Kept!Row,
     Kept!NoBorrow
<1>7. Regular' => Regular /\ WillGrant'
  <2>1. borrow'.at # "timeout"
    BY <1>2 DEF Kept!NoBorrow
  <2> QED
    BY <1>3, <2>1 DEF KeptInv, Regular, WillGrant, Step
<1>8. Regular' => Granted'
  <2>1. ~Kept!Unexpired'
    BY <1>2, <1>3 DEF Kept!Unexpired, KeptInv, Shape, Step, Kept!Out, Kept!Row
  <2>2. borrow'.at = "finish" => borrow'.by + borrow'.ttl <= ends'
    BY <1>1, <1>2 DEF Kept!NoBorrow, Kept!Settings
  <2> QED
    BY <2>1, <2>2 DEF Granted
<1> QED
  BY <1>4, <1>5, <1>6, <1>7, <1>8, NoneCrossesStep DEF KeptInv

LEMMA FinishResumeKeeps ==
  ASSUME Kept!Settings, KeptInv, Kept!FinishResume, Step
  PROVE  KeptInv'
<1>1. TimeTypes'
  BY DEF KeptInv, TimeTypes, Step, Kept!Settings, Kept!FinishResume, Kept!Row, Kept!NewLease,
     Kept!NoBorrow
<1>2. Shape'
  BY DEF KeptInv, TimeTypes, Shape, Restoring, Kept!FinishResume, Kept!Row, Kept!NewLease,
     Kept!NoBorrow
<1>3. ReadyGranted'
  BY DEF KeptInv, TimeTypes, Kept!Settings, Shape, ReadyGranted, Kept!FinishResume, Kept!Row,
     Kept!NewLease, Kept!NoBorrow
<1>4. Regular' => Regular /\ WillGrant'
  BY DEF KeptInv, Regular, TimeTypes, Kept!Settings, Shape, Restoring, NoneCrosses, WillGrant,
       Step, Kept!FinishResume, Kept!Row, Kept!NewLease, Kept!NoBorrow
<1>5. Regular' => Granted'
  BY DEF KeptInv, Regular, TimeTypes, Kept!Settings, Shape, Restoring, NoneCrosses, WillGrant,
     Granted, Overtaking, Kept!Unexpired, Step, Kept!FinishResume, Kept!Row, Kept!NewLease,
     Kept!NoBorrow
<1> QED
  BY <1>1, <1>2, <1>3, <1>4, <1>5, NoneCrossesStep DEF KeptInv

LEMMA GivenUpKeeps ==
  ASSUME Kept!Settings, KeptInv, Kept!GivenUp, Step
  PROVE  KeptInv'
<1>1. TimeTypes'
  BY DEF KeptInv, TimeTypes, Step, Kept!Settings, Kept!GivenUp, Kept!Out, Kept!Row
<1>2. Shape'
  BY DEF KeptInv, TimeTypes, Shape, Restoring, Kept!GivenUp, Kept!Out, Kept!Row
<1>3. ReadyGranted'
  BY DEF KeptInv, TimeTypes, Kept!Settings, Shape, ReadyGranted, Kept!GivenUp, Kept!Out, Kept!Row
<1>4. Regular' => Regular /\ WillGrant'
  BY DEF KeptInv, Regular, TimeTypes, Kept!Settings, Shape, Restoring, NoneCrosses, WillGrant,
       Step, Kept!GivenUp, Kept!Out, Kept!Row
<1>5. Regular' => Granted'
  BY DEF KeptInv, Regular, TimeTypes, Kept!Settings, Shape, Restoring, NoneCrosses, WillGrant,
       Granted, Overtaking, Kept!Unexpired, Step, Kept!GivenUp, Kept!Out, Kept!Row
<1> QED
  BY <1>1, <1>2, <1>3, <1>4, <1>5, NoneCrossesStep DEF KeptInv

LEMMA TimePassesKeeps ==
  ASSUME Kept!Settings, KeptInv, Kept!TimePasses, Step
  PROVE  KeptInv'
<1>1. TimeTypes'
  BY DEF KeptInv, TimeTypes, Step, Kept!Settings, Kept!TimePasses
<1>2. Shape'
  BY DEF KeptInv, TimeTypes, Shape, Restoring, Kept!TimePasses
<1>3. ReadyGranted'
  BY DEF KeptInv, TimeTypes, Kept!Settings, Shape, ReadyGranted, Kept!TimePasses
<1>4. Regular' => Regular /\ WillGrant'
  BY DEF KeptInv, Regular, TimeTypes, Kept!Settings, Shape, Restoring, NoneCrosses, WillGrant,
       Step, Kept!TimePasses
<1>5. Regular' => Granted'
  BY DEF KeptInv, Regular, TimeTypes, Kept!Settings, Shape, Restoring, NoneCrosses, WillGrant,
       Granted, Overtaking, Kept!Unexpired, Step, Kept!TimePasses
<1> QED
  BY <1>1, <1>2, <1>3, <1>4, <1>5, NoneCrossesStep DEF KeptInv

-----------------------------------------------------------------------------
(* Every step.                                                               *)

LEMMA Stutters == ASSUME KeptInv, UNCHANGED Kept!vars PROVE KeptInv'
BY DEF Kept!vars, KeptInv, TimeTypes, Shape, Restoring, ReadyGranted, NoneCrosses, Regular,
       WillGrant, Granted, Overtaking, Kept!Unexpired

LEMMA KeptInductive == ASSUME Kept!Settings, KeptInv, [Kept!Next]_Kept!vars PROVE KeptInv'
<1>1. CASE UNCHANGED Kept!vars
  BY <1>1, Stutters
<1> SUFFICES ASSUME Kept!Next PROVE KeptInv'
  BY <1>1
<1>2. Step
  BY DEF Kept!Next, Step
<1>3. ASSUME NEW r \in Replica,
             \/ Kept!List(r) \/ Kept!Cas(r) \/ Kept!KeepCall(r) \/ Kept!KeepFails(r)
             \/ Kept!KeepLost(r) \/ Kept!KeepFailed(r) \/ Kept!Reread(r)
             \/ Kept!ReadLease(r) \/ Kept!Restore(r) \/ Kept!Dies(r)
      PROVE  KeptInv'
  BY <1>2, <1>3, ListKeeps, CasKeeps, KeepCallKeeps, KeepFailsKeeps, KeepLostKeeps,
     KeepFailedKeeps, RereadKeeps, ReadLeaseKeeps, RestoreKeeps, DeathKeeps
<1>4. ASSUME NEW h \in Holder,
             \/ Kept!Renew(h) \/ Kept!Use(h) \/ Kept!UseCall(h) \/ Kept!UseFails(h)
             \/ Kept!WriteLease(h) \/ Kept!HolderDies(h)
      PROVE  KeptInv'
  BY <1>2, <1>4, RenewKeeps, UseKeeps, UseCallKeeps, UseFailsKeeps, WriteLeaseKeeps,
     HolderDeathKeeps
<1>5. CASE Kept!StartPause \/ Kept!Pause \/ Kept!Adopt \/ Kept!ClaimReady \/ Kept!SetTimeout
  BY <1>2, <1>5, StartPauseKeeps, PauseKeeps, AdoptKeeps, ClaimReadyKeeps, SetTimeoutKeeps
<1>6. CASE \/ Kept!ClaimPaused \/ Kept!Resume \/ Kept!FinishResume
           \/ Kept!GivenUp \/ Kept!TimePasses
  BY <1>2, <1>6, ClaimPausedKeeps, ResumeKeeps, FinishResumeKeeps, GivenUpKeeps,
     TimePassesKeeps
<1> QED
  BY <1>3, <1>4, <1>5, <1>6 DEF Kept!Next

\* Between the steps of keepalives, borrowers and holders, in any order and with any
\* failures, the invariant holds.
THEOREM KeptInvariance == Kept!Settings => (Kept!Spec => []KeptInv)
<1> SUFFICES ASSUME Kept!Settings PROVE Kept!Spec => []KeptInv
  OBVIOUS
<1> QED
  BY KeptInitHolds, KeptInductive, PTL DEF Kept!Spec

-----------------------------------------------------------------------------
(* What follows.                                                             *)

LEMMA GivesTypes == Kept!Settings /\ KeptInv => Kept!TypeOK
<1> SUFFICES ASSUME Kept!Settings, KeptInv PROVE Kept!TypeOK
  OBVIOUS
<1>1. /\ clock \in 1..MaxClock
      /\ ReadyTimeout \in Nat /\ LeaseMax \in Nat /\ Margin \in Nat /\ MaxClock \in Nat
  BY DEF Kept!Settings, KeptInv, TimeTypes
<1>2. \A n \in Nat : n <= clock + MaxGrant + ReadyTimeout => n \in Kept!Times
  BY <1>1 DEF Kept!Times
<1>3. deadline \in Kept!Times /\ ends \in Kept!Times
  BY <1>1, <1>2 DEF KeptInv, TimeTypes
<1>4. lease \in [expires : Kept!Times, hard : Kept!Times]
  <2>1. lease \in [expires : Nat, hard : Nat] /\ lease.expires <= clock + LeaseMax
        /\ lease.hard <= clock + LeaseMax
    BY <1>1 DEF KeptInv, TimeTypes
  <2> QED
    BY <1>1, <1>2, <2>1
<1>5. 0..MaxGrant \subseteq Kept!Times
  BY <1>1, <1>2
<1>6. keep \in [Replica -> [at : {"idle", "cas", "call", "failed", "reread", "lease",
                                  "restore"}, timeout : Kept!Times]]
  BY <1>5 DEF KeptInv, TimeTypes
<1>7. borrow \in [at : {"idle", "timeout", "resume", "finish"}, ttl : Kept!Times, by : Kept!Times]
  <2>1. borrow \in BorrowTypes /\ borrow.ttl \in 0..MaxGrant
        /\ borrow.by \in Nat /\ borrow.by <= clock + Margin
    BY <1>1 DEF KeptInv, TimeTypes
  <2>2. borrow.by \in Kept!Times /\ borrow.ttl \in Kept!Times
    BY <1>1, <1>2, <1>5, <2>1
  <2> QED
    BY <2>1, <2>2
<1>8. use \in [Holder -> [at : {"idle", "renew", "write", "connect"},
                          until : Kept!Times, timeout : Kept!Times]]
  <2> SUFFICES ASSUME NEW h \in Holder PROVE use[h].until \in Kept!Times
    BY <1>5 DEF KeptInv, TimeTypes
  <2>1. use[h].until \in Nat /\ use[h].until <= clock + LeaseMax
    BY <1>1 DEF KeptInv, TimeTypes
  <2> QED
    BY <1>1, <1>2, <2>1
<1> QED
  BY <1>1, <1>3, <1>4, <1>6, <1>7, <1>8 DEF KeptInv, TimeTypes, Kept!TypeOK

\* Every variable has its type, whatever the settings: no time runs beyond its bound.
THEOREM KeptTypeCorrect == Kept!Settings => (Kept!Spec => []Kept!TypeOK)
<1> SUFFICES ASSUME Kept!Settings PROVE Kept!Spec => []Kept!TypeOK
  OBVIOUS
<1> QED
  BY KeptInvariance, GivesTypes, PTL

\* What the database says of the end of a sandbox, the platform grants, once nobody is
\* between a request to the platform and the write about it.
THEOREM TimesTrue == Kept!Settings => (Kept!Spec => []Kept!TimeoutsTrue)
<1> SUFFICES ASSUME Kept!Settings PROVE Kept!Spec => []Kept!TimeoutsTrue
  OBVIOUS
<1>1. KeptInv => Kept!TimeoutsTrue
  <2> SUFFICES ASSUME KeptInv, Kept!Settled PROVE
        /\ met = {} /\ ~crossed => Kept!Backed
        /\ state = "READY" /\ "death" \notin met => deadline <= ends
    BY DEF Kept!TimeoutsTrue
  <2>1. ASSUME met = {}, ~crossed PROVE Kept!Backed
    BY <2>1 DEF Kept!Settled, KeptInv, Regular, Granted, Overtaking, Kept!Backed, Kept!NoBorrow
  <2>2. ASSUME state = "READY", "death" \notin met PROVE deadline <= ends
    BY <2>2 DEF Kept!Settled, KeptInv, ReadyGranted
  <2> QED
    BY <2>1, <2>2
<1> QED
  BY <1>1, KeptInvariance, PTL

-----------------------------------------------------------------------------
(* The composition.                                                          *)

\* What is proved of two of the parts, in the variables of the composition.
FollowerFacts == INSTANCE FollowerProofs
ScheduleFacts == INSTANCE SchedulesProofs

\* While another part moves a schedule stands still.
LEMMA SchedulesBehave == PartsSpec => ScheduleFacts!Spec
<1>1. PartsInit => ScheduleFacts!Init
  BY DEF PartsInit, Scheduled!Init, ScheduleFacts!Init, Scheduled!FirstRow,
      ScheduleFacts!FirstRow, Scheduled!NoFiring, ScheduleFacts!NoFiring, Scheduled!Null,
      ScheduleFacts!Null, Scheduled!NextRun, ScheduleFacts!NextRun
<1>2. Scheduled!Next => ScheduleFacts!Next
  BY DEF Scheduled!Next, ScheduleFacts!Next, Scheduled!vars, ScheduleFacts!vars,
      Scheduled!TimePasses, ScheduleFacts!TimePasses, Scheduled!Delete,
      ScheduleFacts!Delete, Scheduled!BeginTick, ScheduleFacts!BeginTick, Scheduled!ListDue,
      ScheduleFacts!ListDue, Scheduled!Claim, ScheduleFacts!Claim, Scheduled!Crash,
      ScheduleFacts!Crash, Scheduled!Manual, ScheduleFacts!Manual, Scheduled!Check,
      ScheduleFacts!Check, Scheduled!Start, ScheduleFacts!Start, Scheduled!EndTask,
      ScheduleFacts!EndTask, Scheduled!ReadForUpdate, ScheduleFacts!ReadForUpdate,
      Scheduled!Update, ScheduleFacts!Update, Scheduled!Null, ScheduleFacts!Null,
      Scheduled!NextRun, ScheduleFacts!NextRun, Scheduled!FirstRow, ScheduleFacts!FirstRow,
      Scheduled!NoFiring, ScheduleFacts!NoFiring, Scheduled!NewTick, ScheduleFacts!NewTick,
      Scheduled!Due, ScheduleFacts!Due, Scheduled!NextFire, ScheduleFacts!NextFire,
      Scheduled!CallFire, ScheduleFacts!CallFire, Scheduled!Over, ScheduleFacts!Over,
      Scheduled!Busy, ScheduleFacts!Busy, Scheduled!Skipped, ScheduleFacts!Skipped,
      Scheduled!Starting, ScheduleFacts!Starting, Scheduled!Patched, ScheduleFacts!Patched,
      Scheduled!Retimed, ScheduleFacts!Retimed, Scheduled!StillDue, ScheduleFacts!StillDue,
      Scheduled!Disable, ScheduleFacts!Disable
<1>3. [PartsNext]_partVars => [ScheduleFacts!Next]_ScheduleFacts!vars
  BY <1>2 DEF PartsNext, BridgeMoves, FollowerMoves, ScheduleMoves, CronMoves, TimeoutsMove,
      partVars,
      scheduleVars, ScheduleFacts!vars
<1> QED
  BY <1>1, <1>3, PTL DEF PartsSpec, ScheduleFacts!Spec

\* So do the timeouts of a sandbox.
LEMMA TimeoutsBehave == PartsSpec => Kept!Spec
<1>1. PartsInit => Kept!Init
  BY DEF PartsInit
<1>2. [PartsNext]_partVars => [Kept!Next]_Kept!vars
  BY DEF PartsNext, BridgeMoves, FollowerMoves, ScheduleMoves, CronMoves, TimeoutsMove,
      partVars, timeoutVars, Kept!vars, Kept!row
<1> QED
  BY <1>1, <1>2, PTL DEF PartsSpec, Kept!Spec

\* Two tasks of a schedule overlap only if both were between check and start at once.
THEOREM SkipIsKept == PartsSpec => []SkipKept
<1>1. ScheduleFacts!SkipKept => SkipKept
  BY DEF SkipKept, Scheduled!SkipKept, ScheduleFacts!SkipKept
<1> QED
  BY <1>1, SchedulesBehave, ScheduleFacts!SkipIsKept, PTL

\* What the database says of the end of a sandbox, the platform grants.
THEOREM TimesAreTrue == PartsSpec => []TimeoutsTrue
<1>1. Kept!TimeoutsTrue => TimeoutsTrue
  BY DEF TimeoutsTrue
<1>2. Kept!Spec => []Kept!TimeoutsTrue
  BY TimeoutSettings, TimesTrue
<1> QED
  BY <1>1, <1>2, TimeoutsBehave, PTL

\* A cron expression comes round at least once in a while.
LEMMA TimingsAreSound == ScheduleFacts!TimingsAssumption
<1> DEFINE cron == [kind |-> "cron", units |-> 2]
<1>1. cron \in Timings /\ ScheduleFacts!NextRun(cron, 1) = 2
  BY DEF Timings, ScheduleFacts!NextRun
<1>2. \A t \in Timings : t.units \in Nat \ {0}
  BY DEF Timings
<1> QED
  BY <1>1, <1>2, ScheduleSettings DEF ScheduleFacts!TimingsAssumption

\* A run of a schedule is claimed once, whatever the replicas have read, and missed runs are
\* not made up for.
THEOREM ClaimsOnce == PartsSpec => []ClaimedOnce
<1>1. ScheduleFacts!Spec => []ScheduleFacts!ClaimedOnce
  BY TimingsAreSound, ScheduleFacts!ClaimsOnce
<1>2. ScheduleFacts!ClaimedOnce => ClaimedOnce
  BY DEF ClaimedOnce, Scheduled!ClaimedOnce, ScheduleFacts!ClaimedOnce
<1> QED
  BY <1>1, <1>2, SchedulesBehave, PTL

\* So does a search of next_fire.
LEMMA SearchesBehave == PartsSpec => ScheduleFacts!Timed!Spec
<1>1. PartsInit => ScheduleFacts!Timed!Init
  BY DEF PartsInit, Timed!Init, ScheduleFacts!Timed!Init, Timed!FieldName,
      ScheduleFacts!Timed!FieldName
<1>2. Timed!Next => ScheduleFacts!Timed!Next
  BY DEF Timed!vars, ScheduleFacts!Timed!vars, Timed!DayMinutes,
      ScheduleFacts!Timed!DayMinutes, Timed!Month, ScheduleFacts!Timed!Month, Timed!Length,
      ScheduleFacts!Timed!Length, Timed!LongestMonth, ScheduleFacts!Timed!LongestMonth,
      Timed!LastDay, ScheduleFacts!Timed!LastDay, Timed!Day, ScheduleFacts!Timed!Day,
      Timed!MonthIndex, ScheduleFacts!Timed!MonthIndex, Timed!Get, ScheduleFacts!Timed!Get,
      Timed!Local, ScheduleFacts!Timed!Local, Timed!Clock, ScheduleFacts!Timed!Clock,
      Timed!FieldName, ScheduleFacts!Timed!FieldName, Timed!Lowest,
      ScheduleFacts!Timed!Lowest, Timed!Highest, ScheduleFacts!Timed!Highest, Timed!First,
      ScheduleFacts!Timed!First, Timed!Last, ScheduleFacts!Timed!Last, Timed!InRange,
      ScheduleFacts!Timed!InRange, Timed!Values, ScheduleFacts!Timed!Values, Timed!IsAny,
      ScheduleFacts!Timed!IsAny, Timed!Parsed, ScheduleFacts!Timed!Parsed, Timed!Matches,
      ScheduleFacts!Timed!Matches, Timed!DayMatches, ScheduleFacts!Timed!DayMatches,
      Timed!Init, ScheduleFacts!Timed!Init, Timed!Begin, ScheduleFacts!Timed!Begin,
      Timed!Start, ScheduleFacts!Timed!Start, Timed!Limit, ScheduleFacts!Timed!Limit,
      Timed!NextMonth, ScheduleFacts!Timed!NextMonth, Timed!NextDay,
      ScheduleFacts!Timed!NextDay, Timed!NextHour, ScheduleFacts!Timed!NextHour,
      Timed!Skip, ScheduleFacts!Timed!Skip, Timed!Look, ScheduleFacts!Timed!Look,
      Timed!GiveUp, ScheduleFacts!Timed!GiveUp, Timed!Next, ScheduleFacts!Timed!Next
<1>3. [PartsNext]_partVars => [ScheduleFacts!Timed!Next]_ScheduleFacts!Timed!vars
  BY <1>2 DEF PartsNext, BridgeMoves, FollowerMoves, ScheduleMoves, CronMoves, TimeoutsMove,
      partVars, cronVars, ScheduleFacts!Timed!vars
<1> QED
  BY <1>1, <1>3, PTL DEF PartsSpec, ScheduleFacts!Timed!Spec

LEMMA CronIsSound == ScheduleFacts!Timed!Settings
BY CronSettings
   DEF Timed!Settings, ScheduleFacts!Timed!Settings, Timed!DayMinutes,
         ScheduleFacts!Timed!DayMinutes, Timed!LastDay, ScheduleFacts!Timed!LastDay,
         Timed!FieldName, ScheduleFacts!Timed!FieldName

\* The time that a cron expression gives is the next one at which it fires.
THEOREM FiresFirst == PartsSpec => []FiresNext
<1>1. ScheduleFacts!Timed!Settings
  BY CronIsSound
<1>2. ScheduleFacts!Timed!FiresNext => FiresNext
  BY DEF FiresNext, Timed!DayMinutes, ScheduleFacts!Timed!DayMinutes, Timed!Month,
      ScheduleFacts!Timed!Month, Timed!Length, ScheduleFacts!Timed!Length,
      Timed!LongestMonth, ScheduleFacts!Timed!LongestMonth, Timed!LastDay,
      ScheduleFacts!Timed!LastDay, Timed!Day, ScheduleFacts!Timed!Day, Timed!MonthIndex,
      ScheduleFacts!Timed!MonthIndex, Timed!Get, ScheduleFacts!Timed!Get, Timed!Local,
      ScheduleFacts!Timed!Local, Timed!Clock, ScheduleFacts!Timed!Clock, Timed!FieldName,
      ScheduleFacts!Timed!FieldName, Timed!Lowest, ScheduleFacts!Timed!Lowest,
      Timed!Highest, ScheduleFacts!Timed!Highest, Timed!First, ScheduleFacts!Timed!First,
      Timed!Last, ScheduleFacts!Timed!Last, Timed!InRange, ScheduleFacts!Timed!InRange,
      Timed!Values, ScheduleFacts!Timed!Values, Timed!IsAny, ScheduleFacts!Timed!IsAny,
      Timed!Parsed, ScheduleFacts!Timed!Parsed, Timed!Matches, ScheduleFacts!Timed!Matches,
      Timed!DayMatches, ScheduleFacts!Timed!DayMatches, Timed!Start,
      ScheduleFacts!Timed!Start, Timed!Limit, ScheduleFacts!Timed!Limit, Timed!Passed,
      ScheduleFacts!Timed!Passed, Timed!Shows, ScheduleFacts!Timed!Shows, Timed!Fires, ScheduleFacts!Timed!Fires, Timed!FiresNext,
      ScheduleFacts!Timed!FiresNext
<1>3. ScheduleFacts!Timed!Spec => []ScheduleFacts!Timed!FiresNext
  BY <1>1, ScheduleFacts!FiresFirst
<1> QED
  BY <1>2, <1>3, SearchesBehave, PTL

\* Counting is the same in either instance.
LEMMA FollowersCount ==
  ASSUME NEW S PROVE Attached!Cardinality(S) = FollowerFacts!Cardinality(S)
BY Zenon DEF Attached!Cardinality, FollowerFacts!Cardinality

\* Followers stand still, too.
LEMMA FollowersBehave == PartsSpec => FollowerFacts!Spec
<1>1. PartsInit => FollowerFacts!Init
  BY DEF PartsInit,
      Attached!Init, FollowerFacts!Init, Attached!NewRow, FollowerFacts!NewRow,
      Attached!NotWriting, FollowerFacts!NotWriting, Attached!NewTranslator,
      FollowerFacts!NewTranslator, Attached!Nothing, FollowerFacts!Nothing, Attached!None,
      FollowerFacts!None
<1>2. Attached!Count = FollowerFacts!Count
  BY FollowersCount DEF Attached!Count, FollowerFacts!Count
<1>3. Attached!Follow => FollowerFacts!Follow
  <2>1. ASSUME NEW e PROVE Attached!Emitted(e) = FollowerFacts!Emitted(e)
    BY FollowersCount DEF
      Attached!Emitted, FollowerFacts!Emitted, Attached!Part, FollowerFacts!Part
  <2>2. ASSUME NEW e PROVE Attached!Shows(e) = FollowerFacts!Shows(e)
    BY <2>1 DEF
      Attached!Shows, FollowerFacts!Shows, Attached!PiShows, FollowerFacts!PiShows,
      Attached!OpencodeShows, FollowerFacts!OpencodeShows, Attached!Buffered,
      FollowerFacts!Buffered, Attached!Prefix, FollowerFacts!Prefix, Attached!ThisPiece,
      FollowerFacts!ThisPiece, Attached!Part, FollowerFacts!Part, Attached!Text,
      FollowerFacts!Text
  <2>3. ASSUME NEW e
        PROVE  /\ Attached!PiNext(e) = FollowerFacts!PiNext(e)
               /\ Attached!OpencodeNext(e) = FollowerFacts!OpencodeNext(e)
               /\ Attached!BeginsRound(e) = FollowerFacts!BeginsRound(e)
    BY DEF
      Attached!PiNext, FollowerFacts!PiNext, Attached!OpencodeNext,
      FollowerFacts!OpencodeNext, Attached!ThisPiece, FollowerFacts!ThisPiece, Attached!Part,
      FollowerFacts!Part, Attached!BeginsRound, FollowerFacts!BeginsRound
  <2> QED
    BY <2>2, <2>3 DEF
      Attached!Follow, FollowerFacts!Follow, Attached!Goes, FollowerFacts!Goes
<1>4. Attached!Next => FollowerFacts!Next
  BY <1>2, <1>3 DEF
      Attached!session, FollowerFacts!session, Attached!follower, FollowerFacts!follower,
      Attached!vars, FollowerFacts!vars, Attached!None, FollowerFacts!None,
      Attached!NotWriting, FollowerFacts!NotWriting, Attached!NewRow, FollowerFacts!NewRow,
      Attached!NewTranslator, FollowerFacts!NewTranslator, Attached!Nothing,
      FollowerFacts!Nothing, Attached!Publish, FollowerFacts!Publish, Attached!Event,
      FollowerFacts!Event, Attached!Entry, FollowerFacts!Entry, Attached!Silent,
      FollowerFacts!Silent, Attached!Admit, FollowerFacts!Admit, Attached!Accept,
      FollowerFacts!Accept, Attached!Begin, FollowerFacts!Begin, Attached!Work,
      FollowerFacts!Work, Attached!OpenMessage, FollowerFacts!OpenMessage,
      Attached!WritePiece, FollowerFacts!WritePiece, Attached!CloseMessage,
      FollowerFacts!CloseMessage, Attached!End, FollowerFacts!End, Attached!SaveRun,
      FollowerFacts!SaveRun, Attached!SaveKey, FollowerFacts!SaveKey, Attached!EndTask,
      FollowerFacts!EndTask, Attached!Running, FollowerFacts!Running, Attached!Goes,
      FollowerFacts!Goes, Attached!Attach, FollowerFacts!Attach, Attached!Poll,
      FollowerFacts!Poll, Attached!ReadStatus, FollowerFacts!ReadStatus, Attached!Eligible,
      FollowerFacts!Eligible, Attached!ReadRow, FollowerFacts!ReadRow, Attached!LastPrompt,
      FollowerFacts!LastPrompt, Attached!Prompts, FollowerFacts!Prompts, Attached!MatchesPrompt,
      FollowerFacts!MatchesPrompt,
      Attached!ReadMessages, FollowerFacts!ReadMessages, Attached!SnapshotFails,
      FollowerFacts!SnapshotFails, Attached!Text, FollowerFacts!Text, Attached!Result,
      FollowerFacts!Result, Attached!Texts, FollowerFacts!Texts, Attached!StillRuns,
      FollowerFacts!StillRuns,
      Attached!ShowSnapshot, FollowerFacts!ShowSnapshot, Attached!Subscribe,
      FollowerFacts!Subscribe, Attached!Connect, FollowerFacts!Connect, Attached!Break,
      FollowerFacts!Break, Attached!AskAgain, FollowerFacts!AskAgain, Attached!Check,
      FollowerFacts!Check, Attached!Leave, FollowerFacts!Leave, Attached!SessionMoves,
      FollowerFacts!SessionMoves, Attached!Follows, FollowerFacts!Follows, Attached!Reader,
      FollowerFacts!Reader, Attached!Next, FollowerFacts!Next
<1>5. [PartsNext]_partVars => [FollowerFacts!Next]_FollowerFacts!vars
  BY <1>4 DEF PartsNext, BridgeMoves, FollowerMoves, ScheduleMoves, CronMoves, TimeoutsMove,
      partVars, followerVars, FollowerFacts!vars, FollowerFacts!session,
      FollowerFacts!follower
<1> QED
  BY <1>1, <1>5, PTL DEF PartsSpec, FollowerFacts!Spec

\* What a client is sent is, message by message, what the engine said for its task.
THEOREM OutputTrue == PartsSpec => []OutputIsTrue
<1>1. FollowerFacts!Settings
  BY FollowerSettings DEF Attached!Settings, FollowerFacts!Settings
<1>2. FollowerFacts!OutputIsTrue => OutputIsTrue
  BY DEF OutputIsTrue,
      Attached!OutputIsTrue, FollowerFacts!OutputIsTrue, Attached!OwnOutput,
      FollowerFacts!OwnOutput, Attached!WholeOutput, FollowerFacts!WholeOutput
<1>3. FollowerFacts!Spec => []FollowerFacts!OutputIsTrue
  BY <1>1, FollowerFacts!OutputTrue
<1> QED
  BY <1>2, <1>3, FollowersBehave, PTL
-----------------------------------------------------------------------------
(* The bridge, which MCParts extends.                                         *)

LEMMA BridgeBehaves == PartsSpec => Spec
<1>1. PartsInit => Init
  BY DEF PartsInit
<1>2. [PartsNext]_partVars => [Next]_vars
  BY DEF PartsNext, BridgeMoves, FollowerMoves, ScheduleMoves, CronMoves, TimeoutsMove,
      partVars
<1> QED
  BY <1>1, <1>2, PTL DEF PartsSpec, Spec

\* What is proved of the bridge holds of it beside the others: a session has one process at
\* work at most, and the flags of a session say what pi does.
THEOREM BridgeIsTrue == PartsSpec => [](OneWriter /\ RunsAreTrue)
BY BridgeBehaves, WritersAlone, RunsTrue, PTL

\* Busy processes are spared, and events carry the run they belong to.
THEOREM BridgeSpares == PartsSpec => SparesBusy /\ EventsOfRun
BY BridgeBehaves, BusyAreSpared, EventsCarryRun, PTL

-----------------------------------------------------------------------------
(* Types.                                                                     *)

\* One of the two timings is the longer one.
LEMMA LongestIsThere == ScheduleFacts!LongestExists
<1>1. \A t \in Timings : t.units \in {1, 2}
  BY DEF Timings
<1>2. \E t \in Timings : t.units = 2
  BY DEF Timings
<1> QED
  BY <1>1, <1>2 DEF ScheduleFacts!LongestExists

\* The part that moves is always the same.
LEMMA OnePart == PartsSpec => [](part \in Parts)
<1>1. PartsInit => part \in Parts
  BY DEF PartsInit
<1>2. part \in Parts /\ [PartsNext]_partVars => (part \in Parts)'
  BY DEF PartsNext, BridgeMoves, FollowerMoves, ScheduleMoves, CronMoves, TimeoutsMove,
      partVars
<1> QED
  BY <1>1, <1>2, PTL DEF PartsSpec

\* Every variable of the part that moves has its type.
THEOREM PartTypeCorrect == PartsSpec => []PartTypeOK
<1>1. PartsSpec => []TypeOK
  BY BridgeBehaves, TypeCorrect, PTL
<1>2. PartsSpec => []FollowerFacts!TypeOK
  <2>1. FollowerFacts!Settings
    BY FollowerSettings DEF Attached!Settings, FollowerFacts!Settings
  <2>2. FollowerFacts!Spec => []FollowerFacts!TypeOK
    BY <2>1, FollowerFacts!TypeCorrect
  <2> QED
    BY <2>2, FollowersBehave, PTL
<1>3. PartsSpec => []ScheduleFacts!TypeOK
  <2>1. ScheduleFacts!Spec => []ScheduleFacts!TypeOK
    BY TimingsAreSound, LongestIsThere, ScheduleFacts!TypeCorrect
  <2> QED
    BY <2>1, SchedulesBehave, PTL
<1>4. PartsSpec => []ScheduleFacts!Timed!TypeOK
  <2>1. ScheduleFacts!Timed!Settings
    BY CronIsSound
  <2>2. ScheduleFacts!Timed!Spec => []ScheduleFacts!Timed!TypeOK
    BY <2>1, ScheduleFacts!SearchTypes
  <2> QED
    BY <2>2, SearchesBehave, PTL
<1>5. PartsSpec => []Kept!TypeOK
  <2>1. Kept!Spec => []Kept!TypeOK
    BY TimeoutSettings, KeptTypeCorrect
  <2> QED
    BY <2>1, TimeoutsBehave, PTL
<1>6. FollowerFacts!TypeOK => Attached!TypeOK
  BY DEF Attached!TypeOK, FollowerFacts!TypeOK, Attached!Stored, FollowerFacts!Stored,
      Attached!Events, FollowerFacts!Events, Attached!Task, FollowerFacts!Task,
      Attached!Pieces, FollowerFacts!Pieces
<1>7. ScheduleFacts!TypeOK => Scheduled!TypeOK
  BY DEF Scheduled!TypeOK, ScheduleFacts!TypeOK, Scheduled!Time, ScheduleFacts!Time,
      Scheduled!Rows, ScheduleFacts!Rows, Scheduled!Null, ScheduleFacts!Null,
      Scheduled!LongestTiming, ScheduleFacts!LongestTiming
<1>8. ScheduleFacts!Timed!TypeOK => Timed!TypeOK
  BY DEF Timed!TypeOK, ScheduleFacts!Timed!TypeOK, Timed!FieldName, ScheduleFacts!Timed!FieldName,
      Timed!LastDay, ScheduleFacts!Timed!LastDay, Timed!DayMinutes,
      ScheduleFacts!Timed!DayMinutes
<1>9. /\ part \in Parts /\ TypeOK /\ FollowerFacts!TypeOK /\ ScheduleFacts!TypeOK
      /\ ScheduleFacts!Timed!TypeOK /\ Kept!TypeOK
      => PartTypeOK
  BY <1>6, <1>7, <1>8, PartNames DEF PartTypeOK
<1> QED
  BY <1>1, <1>2, <1>3, <1>4, <1>5, <1>9, OnePart, PTL
================================================================================
