------------------------------- MODULE Schedules -------------------------------
(***************************************************************************)
(* A scheduled task of an agent: its row, the maintainers of several       *)
(* replicas that fire it (AgentMaintainer.fire_schedules), the calls that  *)
(* change it or run it at once, and the tasks it starts.                   *)
(*                                                                         *)
(* Time is counted in units; a cron expression fires at the multiples of a *)
(* number (next_fire is the subject of module Cron).  Overlap is "skip".   *)
(* Name, prompt and duration are left out: to change these is to rename.   *)
(***************************************************************************)
EXTENDS Naturals, Sequences

CONSTANTS
  Replica,    \* processes of the gateway
  Edit,       \* PATCH requests that may be in progress at once
  Firing,     \* calls of fire_schedule that may be in progress at once, or their tasks
  MaxTime,    \* bound on the clock
  Grace,      \* _MISSED_GRACE_S
  Timings     \* of the schedule: every_s, or cron

VARIABLES
  now,
  row,       \* of the schedule
  tick,      \* Replica -> its maintainer
  edit,      \* Edit -> the request
  firing,    \* Firing -> the call
  beside,    \* Firing -> others that were between check and start at the same time
  claims     \* the claims since a request last changed next_run_at: what was due, and when claimed

vars == <<now, row, tick, edit, firing, beside, claims>>

Null == 0    \* of next_run_at: the clock starts later
Time == 1..MaxTime
LongestTiming == CHOOSE n \in {t.units : t \in Timings} : \A t \in Timings : t.units <= n
Rows == [there : BOOLEAN, enabled : BOOLEAN, next : Null..MaxTime + LongestTiming,
         timing : Timings]

TypeOK ==
  /\ now \in Time
  /\ row \in Rows
  /\ tick \in [Replica -> [at : {"idle", "list", "claim"}, now : Null..MaxTime, row : Rows]]
  /\ \A r \in Replica : tick[r].at = "claim" =>
       tick[r].row.enabled /\ tick[r].row.next \in 1..tick[r].now
  /\ edit \in [Edit -> [at : {"idle", "write"}, row : Rows, times : BOOLEAN]]
  /\ firing \in [Firing -> [at : {"idle", "check", "start", "running"},
                            by : Replica \cup {Null}]]
  /\ beside \in [Firing -> SUBSET Firing]
  /\ claims \in Seq([run : Time, at : Time])

\* _next_run
NextRun(timing, after) ==
  IF timing.kind = "every" THEN after + timing.units
  ELSE (after \div timing.units + 1) * timing.units

FirstRow == [there |-> TRUE, enabled |-> TRUE, next |-> 2,
             timing |-> CHOOSE t \in Timings : NextRun(t, 1) = 2]
NoFiring == [at |-> "idle", by |-> Null]
Init ==
  /\ now = 1
  /\ row = FirstRow
  /\ tick = [r \in Replica |-> [at |-> "idle", now |-> Null, row |-> FirstRow]]
  /\ edit = [e \in Edit |-> [at |-> "idle", row |-> FirstRow, times |-> FALSE]]
  /\ firing = [f \in Firing |-> NoFiring]
  /\ beside = [f \in Firing |-> {}]
  /\ claims = <<>>

TimePasses ==
  /\ now < MaxTime
  /\ now' = now + 1
  /\ UNCHANGED <<row, tick, edit, firing, beside, claims>>

-----------------------------------------------------------------------------
(* The maintainer.  What it read may be old when it claims.                 *)

NewTick == [at |-> "idle", now |-> Null, row |-> FirstRow]
BeginTick(r) ==
  /\ tick[r].at = "idle"
  /\ tick' = [tick EXCEPT ![r].at = "list", ![r].now = now]
  /\ UNCHANGED <<now, row, edit, firing, beside, claims>>

\* due_schedules
Due(at) == row.there /\ row.enabled /\ row.next # Null /\ row.next <= at
ListDue(r) ==
  /\ tick[r].at = "list"
  /\ tick' = [tick EXCEPT ![r] = IF Due(@.now) THEN [at |-> "claim", now |-> @.now, row |-> row]
                                 ELSE NewTick]
  /\ UNCHANGED <<now, row, edit, firing, beside, claims>>

\* The time after this one, counted from when it was due; from now, if that is past.
NextFire(due, at) ==
  LET next == NextRun(due.timing, due.next) IN
  IF next <= at THEN NextRun(due.timing, at) ELSE next

CallFire(f, r) ==
  /\ firing[f].at = "idle"
  /\ firing' = [firing EXCEPT ![f] = [at |-> "check", by |-> r]]
  /\ beside' = [beside EXCEPT ![f] = {}]

\* The condition of the UPDATE: nobody has claimed that run, or changed the schedule, since.
StillEnabled(due) == row.there /\ row.enabled    \* mutant: without next_run_at == expect_next
StillDue(due) == row.there /\ row.enabled /\ row.next = due.next

\* claim_schedule: one replica moves next_run_at and fires, unless it is very late.
Claim(r) ==
  LET due == tick[r].row
      at == tick[r].now
  IN
  /\ tick[r].at = "claim"
  /\ tick' = [tick EXCEPT ![r] = NewTick]
  /\ IF StillDue(due)
     THEN /\ row' = [row EXCEPT !.next = NextFire(due, at)]
          /\ claims' = Append(claims, [run |-> due.next, at |-> at])
          /\ IF at - due.next <= Grace
             THEN \E f \in Firing : CallFire(f, r)
             ELSE UNCHANGED <<firing, beside>>
     ELSE UNCHANGED <<row, claims, firing, beside>>
  /\ UNCHANGED <<now, edit>>

\* No next time can be told, the host having lost the zone of the expression: the schedule
\* is disabled, whatever has become of it since it was read.
Disable(r) ==
  /\ tick[r].at = "claim"
  /\ tick[r].row.timing.kind = "cron"
  /\ tick' = [tick EXCEPT ![r] = NewTick]
  /\ row' = IF row.there THEN [row EXCEPT !.enabled = FALSE, !.next = Null] ELSE row
  /\ UNCHANGED <<now, edit, firing, beside, claims>>

-----------------------------------------------------------------------------
(* fire_schedule.                                                           *)

\* The schedule is run at once.
Manual(r, f) ==
  /\ row.there
  /\ CallFire(f, r)
  /\ UNCHANGED <<now, row, tick, edit, claims>>

\* Those of F are over: skipped, failed, dead, or their tasks have ended.
Over(F) ==
  /\ firing' = [f \in Firing |-> IF f \in F THEN NoFiring ELSE firing[f]]
  /\ beside' = [f \in Firing |-> IF f \in F THEN {} ELSE beside[f] \ F]

\* A task of the schedule still runs.
Busy == \E g \in Firing : firing[g].at = "running"
NotSkipped(f) == FALSE    \* mutant
Skipped(f) == Busy

Starting == {g \in Firing : firing[g].at = "start"}
Check(f) ==
  /\ firing[f].at = "check"
  /\ IF Skipped(f)
     THEN Over({f})
     ELSE /\ firing' = [firing EXCEPT ![f].at = "start"]
          /\ beside' = [g \in Firing |-> IF g = f THEN Starting
                                         ELSE IF g \in Starting THEN beside[g] \cup {f}
                                         ELSE beside[g]]
  /\ UNCHANGED <<now, row, tick, edit, claims>>

\* The sandbox was found or booted and the task admitted; or this failed.
Start(f) ==
  /\ firing[f].at = "start"
  /\ \/ firing' = [firing EXCEPT ![f].at = "running", ![f].by = Null] /\ UNCHANGED beside
     \/ Over({f})
  /\ UNCHANGED <<now, row, tick, edit, claims>>

EndTask(f) ==
  /\ firing[f].at = "running"
  /\ Over({f})
  /\ UNCHANGED <<now, row, tick, edit, claims>>

\* A replica dies: what it has claimed and not started is lost; its tasks go on.
Crash(r) ==
  /\ tick' = [tick EXCEPT ![r] = NewTick]
  /\ Over({f \in Firing : firing[f].by = r})
  /\ UNCHANGED <<now, row, edit, claims>>

-----------------------------------------------------------------------------
(* Requests.                                                                *)

\* update_schedule reads the row; the request replaces some of its fields.
Patched == {row} \cup {[row EXCEPT !.enabled = b] : b \in BOOLEAN}
                 \cup {[row EXCEPT !.timing = t] : t \in Timings}
Retimed(to) ==
  to.enabled /\ (to.timing # row.timing \/ to.enabled # row.enabled \/ row.next = Null)
ReadForUpdate(e) ==
  /\ edit[e].at = "idle" /\ row.there
  /\ \E to \in Patched :
       edit' = [edit EXCEPT ![e] =
                  [at |-> "write", times |-> ~to.enabled \/ Retimed(to),
                   row |-> IF ~to.enabled THEN [to EXCEPT !.next = Null]
                           ELSE IF Retimed(to) THEN [to EXCEPT !.next = NextRun(to.timing, now)]
                           ELSE to]]
  /\ UNCHANGED <<now, row, tick, firing, beside, claims>>

\* It writes all fields, and next_run_at if that changes.
Update(e) ==
  LET to == edit[e].row
      times == edit[e].times
  IN
  /\ edit[e].at = "write"
  /\ edit' = [edit EXCEPT ![e] = [at |-> "idle", row |-> FirstRow, times |-> FALSE]]
  /\ IF row.there
     THEN /\ row' = [to EXCEPT !.next = IF times THEN to.next ELSE row.next]
          /\ claims' = IF times THEN <<>> ELSE claims
     ELSE UNCHANGED <<row, claims>>
  /\ UNCHANGED <<now, tick, firing, beside>>

Delete ==
  /\ row.there
  /\ row' = [FirstRow EXCEPT !.there = FALSE]
  /\ UNCHANGED <<now, tick, edit, firing, beside, claims>>

-----------------------------------------------------------------------------
Next ==
  \/ TimePasses \/ Delete
  \/ \E r \in Replica :
       \/ BeginTick(r) \/ ListDue(r) \/ Claim(r) \/ Disable(r) \/ Crash(r)
       \/ \E f \in Firing : Manual(r, f)
  \/ \E f \in Firing : Check(f) \/ Start(f) \/ EndTask(f)
  \/ \E e \in Edit : ReadForUpdate(e) \/ Update(e)

Spec == Init /\ [][Next]_vars

-----------------------------------------------------------------------------
(* Properties.                                                             *)

\* A run is claimed by one replica only, whatever the others have read, and runs that were
\* missed are not made up for: what is claimed later became due after the earlier claim.
\* (A request that sets next_run_at begins anew.)
ClaimedOnce ==
  \A i, j \in DOMAIN claims : i < j => claims[j].run > claims[i].at

\* With overlap=skip two tasks run at the same time only if each was between its check
\* and its start while the other was (the limit that the handbook admits).
SkipKept ==
  \A f, g \in Firing :
    /\ f # g
    /\ firing[f].at = "running" /\ firing[g].at = "running"
    => g \in beside[f] /\ f \in beside[g]
=============================================================================
