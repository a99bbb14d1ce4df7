---------------------------- MODULE SchedulesProofs ----------------------------
(* Proofs about Schedules, for any replicas, requests and firings, any        *)
(* timings, and without a bound on how many of them are at work; and about    *)
(* the search of Cron for the next time of a schedule, for any calendar and   *)
(* any expressions.                                                           *)
EXTENDS Schedules, Integers, Sequences, TLAPS, WellFoundedInduction

CONSTANTS Minutes, Hours, Weekdays, Months, MonthStarts, SearchDays, Change, Shifts, Texts,
          LastAfter
VARIABLES expr, shift, after, local, stage
Timed == INSTANCE Cron

\* What a firing is.
FiringTypes == [at : {"idle", "check", "start", "running"}, by : Replica \cup {Null}]
FiringType ==
  /\ firing \in [Firing -> FiringTypes]
  /\ beside \in [Firing -> SUBSET Firing]

Passed(f) == firing[f].at \in {"start", "running"}
\* Of two firings that have passed the check, each was between check and start
\* while the other was: had one been running, the other would have been skipped.
Beside ==
  \A f, g \in Firing : f # g /\ Passed(f) /\ Passed(g) => g \in beside[f] /\ f \in beside[g]

SkipInv == FiringType /\ Beside

\* What a firing is after a step, and that Beside looks at nothing else.
LEMMA OverKeeps ==
  ASSUME SkipInv, NEW F, Over(F)
  PROVE  SkipInv'
<1>1. FiringType'
  BY DEF SkipInv, FiringType, FiringTypes, Over, NoFiring
<1>2. \A f \in Firing : IF f \in F THEN ~Passed(f)'
                        ELSE Passed(f)' = Passed(f) /\ beside'[f] = beside[f] \ F
  BY DEF SkipInv, FiringType, FiringTypes, Over, NoFiring, Passed
<1> QED
  BY <1>1, <1>2 DEF SkipInv, Beside

LEMMA CallKeeps ==
  ASSUME SkipInv, NEW f \in Firing, NEW r \in Replica, CallFire(f, r)
  PROVE  SkipInv'
<1>1. FiringType'
  BY DEF SkipInv, FiringType, FiringTypes, CallFire
<1>2. \A g \in Firing : IF g = f THEN ~Passed(g)'
                        ELSE Passed(g)' = Passed(g) /\ beside'[g] = beside[g]
  BY DEF SkipInv, FiringType, FiringTypes, CallFire, Passed
<1> QED
  BY <1>1, <1>2 DEF SkipInv, Beside

LEMMA SkipStep == SkipInv /\ [Next]_vars => SkipInv'
<1> SUFFICES ASSUME SkipInv, [Next]_vars PROVE SkipInv'
  OBVIOUS
<1>1. CASE UNCHANGED <<firing, beside>>
  BY <1>1 DEF SkipInv, FiringType, FiringTypes, Beside, Passed
<1>2. ASSUME NEW r \in Replica, Claim(r) PROVE SkipInv'
  BY <1>1, <1>2, CallKeeps DEF Claim
<1>3. ASSUME NEW r \in Replica, NEW f \in Firing, Manual(r, f) PROVE SkipInv'
  BY <1>3, CallKeeps DEF Manual
<1>4. ASSUME NEW f \in Firing, Check(f) PROVE SkipInv'
  <2>1. CASE Skipped(f)
    BY <1>4, <2>1, OverKeeps DEF Check
  <2>2. CASE ~Skipped(f)
    <3>1. firing' = [firing EXCEPT ![f].at = "start"]
          /\ beside' = [g \in Firing |-> IF g = f THEN Starting
                                        ELSE IF g \in Starting THEN beside[g] \cup {f}
                                        ELSE beside[g]]
      BY <1>4, <2>2 DEF Check
    <3>2. /\ \A g \in Firing : firing[g].at # "running"
          /\ Starting \subseteq Firing /\ \A g \in Starting : Passed(g)
      BY <2>2 DEF Skipped, Busy, Starting, Passed
    <3>3. firing'[f].at = "start" /\ \A g \in Firing \ {f} : firing'[g] = firing[g]
      BY <3>1 DEF SkipInv, FiringType, FiringTypes
    <3>4. FiringType'
      <4>1. beside' \in [Firing -> SUBSET Firing]
        BY <3>1, <3>2 DEF SkipInv, FiringType, FiringTypes
      <4>2. firing' \in [Firing -> FiringTypes]
        BY <3>1 DEF SkipInv, FiringType, FiringTypes
      <4> QED
        BY <4>1, <4>2 DEF FiringType, FiringTypes
    <3>5. \A g \in Firing : Passed(g)' <=> (g = f \/ g \in Starting)
      BY <3>2, <3>3 DEF Passed, Starting
    <3> QED
      BY <3>1, <3>2, <3>4, <3>5 DEF SkipInv, Beside
  <2> QED
    BY <2>1, <2>2
<1>5. ASSUME NEW f \in Firing, Start(f) PROVE SkipInv'
  <2>1. CASE Over({f})
    BY <2>1, OverKeeps
  <2>2. ASSUME firing' = [firing EXCEPT ![f].at = "running", ![f].by = Null],
               UNCHANGED beside
        PROVE  SkipInv'
    <3>1. firing'[f].at = "running" /\ firing'[f].by = Null
          /\ firing' = [firing EXCEPT ![f] = firing'[f]]
          /\ firing'[f] \in FiringTypes
      BY <2>2 DEF SkipInv, FiringType, FiringTypes
    <3>2. FiringType' /\ \A g \in Firing : Passed(g)' <=> Passed(g)
      BY <1>5, <2>2, <3>1 DEF SkipInv, FiringType, FiringTypes, Passed, Start
    <3> QED
      BY <2>2, <3>2 DEF SkipInv, Beside
  <2> QED
    BY <1>5, <2>1, <2>2 DEF Start
<1>6. ASSUME NEW f \in Firing, EndTask(f) PROVE SkipInv'
  BY <1>6, OverKeeps DEF EndTask
<1>7. ASSUME NEW r \in Replica, Crash(r) PROVE SkipInv'
  BY <1>7, OverKeeps DEF Crash
<1>8. CASE UNCHANGED vars
  BY <1>1, <1>8 DEF vars
<1>9. CASE \/ TimePasses \/ Delete
           \/ \E r \in Replica : BeginTick(r) \/ ListDue(r) \/ Disable(r)
           \/ \E e \in Edit : ReadForUpdate(e) \/ Update(e)
  BY <1>1, <1>9 DEF TimePasses, Delete, BeginTick, ListDue, Disable, ReadForUpdate, Update
<1> QED
  BY <1>2, <1>3, <1>4, <1>5, <1>6, <1>7, <1>8, <1>9 DEF Next

\* Two tasks of a schedule overlap only if each was between its check and its start while
\* the other was, however many replicas and requests fire it.
THEOREM SkipIsKept == Spec => []SkipKept
<1>1. Init => SkipInv
  BY DEF Init, SkipInv, FiringType, FiringTypes, Beside, Passed, NoFiring
<1>2. SkipInv => SkipKept
  BY DEF SkipInv, Beside, Passed, SkipKept
<1> QED
  BY <1>1, <1>2, SkipStep, PTL DEF Spec

-----------------------------------------------------------------------------
(* Claims.                                                                    *)

\* A timing has at least one unit, and a first time can be told.
TimingsAssumption ==
  /\ MaxTime \in Nat \ {0}
  /\ \A t \in Timings : t.units \in Nat \ {0}
  /\ \E t \in Timings : NextRun(t, 1) = 2

RowType == [there : BOOLEAN, enabled : BOOLEAN, next : Nat, timing : Timings]

TickType == [at : {"idle", "list", "claim"}, now : Nat, row : RowType]

ClaimType == [run : Nat, at : Nat]

\* What a maintainer claims was due; what the row says is next comes after every claim.
ClaimInv ==
  /\ now \in Nat \ {0}
  /\ row \in RowType
  /\ tick \in [Replica -> TickType]
  /\ \A r \in Replica : tick[r].at = "claim" =>
       tick[r].row.next # Null /\ tick[r].row.next <= tick[r].now
  /\ edit \in [Edit -> [at : {"idle", "write"}, row : RowType, times : BOOLEAN]]
  /\ claims \in Seq(ClaimType)
  /\ ClaimedOnce
  /\ row.there /\ row.next # Null => \A i \in DOMAIN claims : row.next > claims[i].at

LEMMA DivUp ==
  ASSUME NEW a \in Nat, NEW n \in Nat \ {0}
  PROVE  (a \div n + 1) * n \in Nat /\ (a \div n + 1) * n > a
OBVIOUS

LEMMA NextRunIsLater ==
  ASSUME TimingsAssumption, NEW t \in Timings, NEW a \in Nat
  PROVE  NextRun(t, a) \in Nat /\ NextRun(t, a) > a
BY DivUp DEF TimingsAssumption, NextRun

\* Where a claim leaves the row.
LEMMA NextFireIsLater ==
  ASSUME TimingsAssumption, NEW due \in RowType, NEW at \in Nat
  PROVE  NextFire(due, at) \in Nat /\ NextFire(due, at) > at
<1>1. due.next \in Nat /\ due.timing \in Timings
  BY DEF RowType
<1> QED
  BY <1>1, NextRunIsLater DEF NextFire

LEMMA FirstRowType ==
  ASSUME TimingsAssumption
  PROVE  FirstRow \in RowType /\ FirstRow.next = 2
BY DEF TimingsAssumption, FirstRow, RowType

\* A tick that begins again has the type of one.
LEMMA NewTickType ==
  ASSUME TimingsAssumption
  PROVE  /\ NewTick \in TickType
         /\ NewTick.at = "idle"
BY FirstRowType DEF NewTick, TickType, Null

\* One more claim, of a run that became due after all others were claimed.
LEMMA OneMoreClaim ==
  ASSUME ClaimInv, NEW c \in ClaimType, c.run <= c.at, claims' = Append(claims, c),
         \A i \in DOMAIN claims : c.run > claims[i].at,
         row' \in RowType, row'.next > c.at
  PROVE  /\ claims' \in Seq(ClaimType)
         /\ ClaimedOnce'
         /\ \A i \in DOMAIN claims' : row'.next > claims'[i].at
<1>1. /\ claims \in Seq(ClaimType) /\ claims' \in Seq(ClaimType)
      /\ Len(claims') = Len(claims) + 1 /\ Len(claims) \in Nat
      /\ \A i \in 1..Len(claims) : claims'[i] = claims[i] /\ claims[i] \in ClaimType
      /\ claims'[Len(claims) + 1] = c
      /\ DOMAIN claims = 1..Len(claims) /\ DOMAIN claims' = 1..Len(claims) + 1
  BY DEF ClaimInv
<1>2. \A i \in 1..Len(claims) : claims[i].at \in Nat /\ claims[i].run \in Nat
  BY <1>1 DEF ClaimType
<1>3. c.run \in Nat /\ c.at \in Nat /\ row'.next \in Nat
  BY DEF ClaimType, RowType
<1>4. \A i \in DOMAIN claims' : i \in 1..Len(claims) \/ i = Len(claims) + 1
  BY <1>1
<1>5. ASSUME NEW i \in DOMAIN claims', NEW j \in DOMAIN claims', i < j
      PROVE  claims'[j].run > claims'[i].at
  <2>1. i \in 1..Len(claims)
    BY <1>1, <1>5
  <2>2. CASE j \in 1..Len(claims)
    BY <1>1, <1>5, <2>1, <2>2 DEF ClaimInv, ClaimedOnce
  <2>3. CASE j = Len(claims) + 1
    BY <1>1, <2>1, <2>3
  <2> QED
    BY <1>4, <2>2, <2>3
<1>6. ASSUME NEW i \in DOMAIN claims' PROVE row'.next > claims'[i].at
  BY <1>1, <1>2, <1>3, <1>4
<1> QED
  BY <1>1, <1>5, <1>6 DEF ClaimedOnce

LEMMA ClaimStep ==
  ASSUME TimingsAssumption, ClaimInv, [Next]_vars
  PROVE  ClaimInv'
<1> USE DEF ClaimInv, TickType, ClaimedOnce
<1>1. CASE TimePasses
  BY <1>1 DEF TimePasses
<1>2. CASE Delete
  <2>1. row' \in RowType /\ ~row'.there
    BY <1>2, FirstRowType DEF Delete, RowType
  <2> QED
    BY <1>2, <2>1 DEF Delete
<1>3. ASSUME NEW r \in Replica, BeginTick(r) PROVE ClaimInv'
  <2>1. tick'[r].at = "list" /\ tick'[r] \in TickType
        /\ tick' = [tick EXCEPT ![r] = tick'[r]]
    BY <1>3 DEF BeginTick
  <2> QED
    BY <1>3, <2>1 DEF BeginTick
<1>4. ASSUME NEW r \in Replica, ListDue(r) PROVE ClaimInv'
  <2>1. CASE ~Due(tick[r].now)
    BY <1>4, <2>1, NewTickType DEF ListDue, ClaimedOnce
  <2>2. CASE Due(tick[r].now)
    BY <1>4, <2>2 DEF ListDue, Due, ClaimedOnce
  <2> QED
    BY <2>1, <2>2
<1>5. ASSUME NEW r \in Replica, Claim(r) PROVE ClaimInv'
  <2>1. /\ tick[r].row \in RowType /\ tick[r].now \in Nat
        /\ tick[r].row.next \in Nat \ {0} /\ tick[r].row.next <= tick[r].now
    BY <1>5 DEF Claim, RowType, Null
  <2>2. /\ NextFire(tick[r].row, tick[r].now) \in Nat
        /\ NextFire(tick[r].row, tick[r].now) > tick[r].now
    BY <2>1, NextFireIsLater
  <2>3. /\ tick' \in [Replica -> TickType]
        /\ \A x \in Replica : tick'[x].at = "claim" =>
             tick'[x].row.next # Null /\ tick'[x].row.next <= tick'[x].now
    BY <1>5, NewTickType DEF Claim
  <2>4. CASE ~StillDue(tick[r].row)
    BY <1>5, <2>3, <2>4 DEF Claim, ClaimedOnce
  <2>5. CASE StillDue(tick[r].row)
    <3>1. /\ row' = [row EXCEPT !.next = NextFire(tick[r].row, tick[r].now)]
          /\ claims' = Append(claims, [run |-> tick[r].row.next, at |-> tick[r].now])
          /\ UNCHANGED <<now, edit>>
      BY <1>5, <2>5 DEF Claim
    <3>2. row' \in RowType /\ row'.next > tick[r].now
      BY <2>2, <3>1 DEF RowType
    <3>3. \A i \in DOMAIN claims : tick[r].row.next > claims[i].at
      BY <2>1, <2>5 DEF StillDue, Null
    <3>4. PICK c \in ClaimType : c = [run |-> tick[r].row.next, at |-> tick[r].now]
      BY <2>1 DEF ClaimType
    <3>5. /\ claims' \in Seq(ClaimType) /\ ClaimedOnce'
          /\ \A i \in DOMAIN claims' : row'.next > claims'[i].at
      BY <2>1, <3>1, <3>2, <3>3, <3>4, OneMoreClaim
    <3> QED
      BY <2>3, <3>1, <3>2, <3>5
  <2> QED
    BY <2>4, <2>5
<1>10. ASSUME NEW r \in Replica, Disable(r) PROVE ClaimInv'
  <2>1. row' \in RowType /\ (row'.there => row'.next = Null)
    BY <1>10 DEF Disable, RowType, Null
  <2> QED
    BY <1>10, <2>1, NewTickType DEF Disable, ClaimedOnce
<1>6. ASSUME NEW r \in Replica, Crash(r) PROVE ClaimInv'
  BY <1>6, NewTickType DEF Crash
<1>7. ASSUME NEW e \in Edit, ReadForUpdate(e) PROVE ClaimInv'
  <2>1. \A to \in Patched : to \in RowType
    <3>1. row \in RowType
      OBVIOUS
    <3> QED
      BY ONLY <3>1 DEF Patched, RowType
  <2>2. \A to \in Patched : /\ [to EXCEPT !.next = Null] \in RowType
                            /\ [to EXCEPT !.next = NextRun(to.timing, now)] \in RowType
    BY <2>1, NextRunIsLater DEF RowType, Null
  <2>3. edit' \in [Edit -> [at : {"idle", "write"}, row : RowType, times : BOOLEAN]]
    <3>1. PICK to \in Patched :
            edit' = [edit EXCEPT ![e] =
                  [at |-> "write", times |-> ~to.enabled \/ Retimed(to),
                   row |-> IF ~to.enabled THEN [to EXCEPT !.next = Null]
                           ELSE IF Retimed(to)
                                THEN [to EXCEPT !.next = NextRun(to.timing, now)]
                           ELSE to]]
      BY <1>7 DEF ReadForUpdate
    <3>2. (~to.enabled \/ Retimed(to)) \in BOOLEAN
      OBVIOUS
    <3> QED
      BY <2>1, <2>2, <3>1, <3>2
  <2> QED
    BY <1>7, <2>3 DEF ReadForUpdate
<1>8. ASSUME NEW e \in Edit, Update(e) PROVE ClaimInv'
  <2>1. edit[e].row \in RowType /\ edit[e].times \in BOOLEAN
    BY <1>8
  <2>2. edit' \in [Edit -> [at : {"idle", "write"}, row : RowType, times : BOOLEAN]]
    BY <1>8, FirstRowType DEF Update
  <2>3. CASE row.there /\ edit[e].times
    <3>1. row' \in RowType /\ claims' = <<>>
      BY <1>8, <2>1, <2>3 DEF Update, RowType
    <3>2. claims' \in Seq(ClaimType) /\ DOMAIN claims' = {}
      BY <3>1
    <3> QED
      BY <1>8, <2>2, <3>1, <3>2 DEF Update
  <2>4. CASE row.there /\ ~edit[e].times
    <3>1. row' \in RowType /\ row'.next = row.next /\ UNCHANGED claims
      BY <1>8, <2>1, <2>4 DEF Update, RowType
    <3> QED
      BY <1>8, <2>2, <2>4, <3>1 DEF Update
  <2>5. CASE ~row.there
    BY <1>8, <2>2, <2>5 DEF Update
  <2> QED
    BY <2>3, <2>4, <2>5
<1>9. CASE \/ \E f \in Firing : Check(f) \/ Start(f) \/ EndTask(f)
           \/ \E r \in Replica, f \in Firing : Manual(r, f)
           \/ UNCHANGED vars
  BY <1>9 DEF Check, Start, EndTask, Manual, vars
<1> QED
  BY <1>1, <1>2, <1>3, <1>4, <1>5, <1>6, <1>7, <1>8, <1>9, <1>10 DEF Next

LEMMA ClaimBegins == TimingsAssumption /\ Init => ClaimInv
<1> SUFFICES ASSUME TimingsAssumption, Init PROVE ClaimInv
  OBVIOUS
<1>1. claims = <<>>
  BY DEF Init
<1>2. ClaimedOnce /\ claims \in Seq(ClaimType) /\ DOMAIN claims = {}
  BY <1>1 DEF ClaimedOnce
<1> QED
  BY <1>2, FirstRowType DEF Init, ClaimInv, TickType, Null, TimingsAssumption

\* No run is claimed twice, however many replicas have read that it is due, and runs that
\* were missed are not made up for: without `next_run_at == expect_next` in claim_schedule
\* the run that is claimed need not be the next one, and the invariant would break.
THEOREM ClaimsOnce ==
  ASSUME TimingsAssumption
  PROVE  Spec => []ClaimedOnce
<1>1. Init => ClaimInv
  BY ClaimBegins
<1>2. ClaimInv /\ [Next]_vars => ClaimInv'
  BY ClaimStep
<1>3. ClaimInv => ClaimedOnce
  BY DEF ClaimInv
<1> QED
  BY <1>1, <1>2, <1>3, PTL DEF Spec

-----------------------------------------------------------------------------
(* Types, with the bounds of the times.                                       *)

\* One of the timings is the longest.
LongestExists == \E n \in {t.units : t \in Timings} : \A t \in Timings : t.units <= n

LastRun == MaxTime + LongestTiming
BoundInv ==
  /\ now <= MaxTime
  /\ claims \in Seq([run : Time, at : Time])
  /\ row.next <= LastRun
  /\ \A r \in Replica :
       /\ tick[r].now <= MaxTime /\ tick[r].row.next <= LastRun
       /\ tick[r].at = "claim" =>
            tick[r].row.enabled /\ tick[r].row.next \in 1..tick[r].now
  /\ \A e \in Edit : edit[e].row.next <= LastRun

TypeInv == ClaimInv /\ SkipInv /\ BoundInv

LEMMA Longest ==
  ASSUME TimingsAssumption, LongestExists
  PROVE  /\ LongestTiming \in Nat \ {0}
         /\ \A t \in Timings : t.units <= LongestTiming
         /\ LastRun \in Nat /\ LastRun >= 2
<1>1. /\ LongestTiming \in {t.units : t \in Timings}
      /\ \A t \in Timings : t.units <= LongestTiming
  BY DEF LongestTiming, LongestExists
<1> QED
  BY <1>1 DEF TimingsAssumption, LastRun

\* The next multiple is not further than one period.
LEMMA DivUpNear ==
  ASSUME NEW a \in Nat, NEW n \in Nat \ {0}
  PROVE  (a \div n + 1) * n <= a + n
OBVIOUS

LEMMA NextRunIsNear ==
  ASSUME TimingsAssumption, LongestExists, NEW t \in Timings, NEW a \in 0..MaxTime
  PROVE  NextRun(t, a) <= LastRun
<1>1. t.units \in Nat \ {0} /\ t.units <= LongestTiming /\ MaxTime \in Nat
      /\ LongestTiming \in Nat
  BY Longest DEF TimingsAssumption
<1>2. (a \div t.units + 1) * t.units <= a + t.units
  <2>1. a \in Nat
    BY <1>1
  <2>2. PICK n \in Nat \ {0} : n = t.units
    BY <1>1
  <2> QED
    BY <2>1, <2>2, DivUpNear
<1>3. NextRun(t, a) <= a + t.units
  BY <1>1, <1>2 DEF NextRun
<1> QED
  BY <1>1, <1>3, NextRunIsLater DEF LastRun

LEMMA AppendType ==
  ASSUME NEW S, NEW s \in Seq(S), NEW e \in S
  PROVE  Append(s, e) \in Seq(S)
OBVIOUS

LEMMA BoundBegins ==
  ASSUME TimingsAssumption, LongestExists, Init PROVE TypeInv
<1>1. FirstRow \in RowType /\ FirstRow.next = 2 /\ LastRun \in Nat /\ LastRun >= 2
  BY FirstRowType, Longest
<1>2. ClaimInv
  BY ClaimBegins
<1>3. SkipInv
  BY DEF Init, SkipInv, FiringType, FiringTypes, Beside, Passed, NoFiring
<1>4. BoundInv
  BY <1>1 DEF Init, BoundInv, Null, TimingsAssumption
<1> QED
  BY <1>2, <1>3, <1>4 DEF TypeInv

LEMMA BoundStep ==
  ASSUME TimingsAssumption, LongestExists, ClaimInv, ClaimInv', BoundInv, [Next]_vars
  PROVE  BoundInv'
<1> DEFINE B == LastRun
<1>1. B \in Nat /\ B >= 2 /\ MaxTime \in Nat \ {0} /\ FirstRow.next = 2 /\ LastRun' = B
  BY Longest, FirstRowType DEF TimingsAssumption, LastRun
<1>2. /\ now \in 1..MaxTime /\ row.next \in 0..B
      /\ tick \in [Replica -> TickType]
      /\ edit \in [Edit -> [at : {"idle", "write"}, row : RowType, times : BOOLEAN]]
      /\ \A r \in Replica : tick[r].now \in 0..MaxTime /\ tick[r].row.next \in 0..B
      /\ \A e \in Edit : edit[e].row.next \in 0..B
  BY <1>1 DEF ClaimInv, BoundInv, TickType, RowType
<1>3. CASE UNCHANGED <<now, row, tick, edit, claims>>
  BY <1>1, <1>3 DEF BoundInv
<1>4. CASE TimePasses
  BY <1>1, <1>2, <1>4 DEF TimePasses, BoundInv
<1>5. CASE Delete
  BY <1>1, <1>2, <1>5 DEF Delete, BoundInv
<1>6. ASSUME NEW r \in Replica, BeginTick(r) \/ ListDue(r) \/ Crash(r) PROVE BoundInv'
  <2>1. \A x \in Replica : x # r => tick'[x] = tick[x]
    BY <1>2, <1>6 DEF BeginTick, ListDue, Crash, TickType
  <2>2. /\ tick'[r].now \in 0..MaxTime /\ tick'[r].row.next \in 0..B
        /\ tick'[r].at = "claim" =>
             tick'[r].row.enabled /\ tick'[r].row.next \in 1..tick'[r].now
    <3>1. row \in RowType /\ tick[r] \in TickType /\ FirstRow.next \in 0..B
      BY <1>1, <1>2 DEF ClaimInv
    <3> QED
      BY ONLY <1>1, <1>2, <1>6, <3>1 DEF BeginTick, ListDue, Crash, TickType, NewTick, Due, Null,
         RowType
  <2>3. UNCHANGED <<now, row, edit, claims>>
    BY <1>6 DEF BeginTick, ListDue, Crash
  <2> QED
    BY <1>1, <1>2, <2>1, <2>2, <2>3 DEF BoundInv
<1>7. ASSUME NEW r \in Replica, Claim(r) PROVE BoundInv'
  <2>1. tick[r].row \in RowType /\ tick[r].now \in 0..MaxTime
        /\ tick[r].row.next \in 0..MaxTime /\ tick[r].row.timing \in Timings
    BY <1>1, <1>2, <1>7 DEF Claim, BoundInv, TickType, RowType
  <2>2. NextFire(tick[r].row, tick[r].now) <= B
    BY <2>1, NextRunIsNear DEF NextFire
  <2>3. tick' = [tick EXCEPT ![r] = NewTick] /\ UNCHANGED <<now, edit>>
        /\ \/ row' = [row EXCEPT !.next = NextFire(tick[r].row, tick[r].now)]
              /\ claims' = Append(claims, [run |-> tick[r].row.next, at |-> tick[r].now])
           \/ UNCHANGED <<row, claims>>
    BY <1>7 DEF Claim
  <2>4. [run |-> tick[r].row.next, at |-> tick[r].now] \in [run : Time, at : Time]
    <3>1. tick[r].row.next \in 1..tick[r].now
      BY <1>7 DEF Claim, BoundInv
    <3> QED
      BY <1>1, <2>1, <3>1 DEF Time
  <2>5. row'.next <= B
    BY <1>1, <1>2, <2>1, <2>2, <2>3 DEF ClaimInv, BoundInv, RowType
  <2>6. claims' \in Seq([run : Time, at : Time])
    <3>1. claims \in Seq([run : Time, at : Time])
      BY DEF BoundInv
    <3>2. CASE claims' = Append(claims, [run |-> tick[r].row.next, at |-> tick[r].now])
      BY <2>4, <3>1, <3>2, AppendType, Zenon
    <3>3. CASE UNCHANGED claims
      BY <3>1, <3>3, Zenon
    <3> QED
      BY <2>3, <3>2, <3>3, Zenon
  <2> QED
    BY <1>1, <1>2, <2>3, <2>5, <2>6 DEF BoundInv, NewTick, Null, Time
<1>11. ASSUME NEW r \in Replica, Disable(r) PROVE BoundInv'
  <2>1. row'.next <= B /\ tick' = [tick EXCEPT ![r] = NewTick] /\ UNCHANGED <<now, edit, claims>>
    BY <1>1, <1>2, <1>11 DEF Disable, ClaimInv, RowType, Null
  <2> QED
    BY <1>1, <1>2, <2>1 DEF BoundInv, NewTick, Null, Time
<1>8. ASSUME NEW e \in Edit, ReadForUpdate(e) PROVE BoundInv'
  <2>1. PICK to \in Patched :
            edit' = [edit EXCEPT ![e] =
                  [at |-> "write", times |-> ~to.enabled \/ Retimed(to),
                   row |-> IF ~to.enabled THEN [to EXCEPT !.next = Null]
                           ELSE IF Retimed(to)
                                THEN [to EXCEPT !.next = NextRun(to.timing, now)]
                           ELSE to]]
    BY <1>8 DEF ReadForUpdate
  <2>2. to \in RowType /\ to.next = row.next
    <3>1. row \in RowType
      BY DEF ClaimInv
    <3>2. /\ \A b \in BOOLEAN : [row EXCEPT !.enabled = b] \in RowType
                              /\ [row EXCEPT !.enabled = b].next = row.next
          /\ \A t \in Timings : [row EXCEPT !.timing = t] \in RowType
                              /\ [row EXCEPT !.timing = t].next = row.next
      BY <3>1 DEF RowType
    <3> QED
      BY <3>1, <3>2 DEF Patched
  <2>3. NextRun(to.timing, now) <= B
    BY <1>2, <2>2, NextRunIsNear DEF RowType
  <2>4. edit'[e].row.next <= B
    BY <1>1, <1>2, <2>1, <2>2, <2>3 DEF RowType, Null
  <2>5. \A x \in Edit : x # e => edit'[x] = edit[x]
    BY <1>2, <2>1
  <2>6. UNCHANGED <<now, row, tick, claims>>
    BY <1>8 DEF ReadForUpdate
  <2> QED
    BY <1>1, <1>2, <2>4, <2>5, <2>6 DEF BoundInv
<1>9. ASSUME NEW e \in Edit, Update(e) PROVE BoundInv'
  <2>1. edit'[e].row.next <= B /\ \A x \in Edit : x # e => edit'[x] = edit[x]
    BY <1>1, <1>2, <1>9 DEF Update
  <2>2. row'.next <= B
    BY <1>1, <1>2, <1>9 DEF Update, RowType, ClaimInv
  <2>3. claims' \in Seq([run : Time, at : Time]) /\ UNCHANGED <<now, tick>>
    <3>1. <<>> \in Seq([run : Time, at : Time])
      OBVIOUS
    <3>2. claims \in Seq([run : Time, at : Time])
      BY DEF BoundInv
    <3>3. (claims' = <<>> \/ claims' = claims) /\ UNCHANGED <<now, tick>>
      BY <1>9 DEF Update
    <3> QED
      BY <3>1, <3>2, <3>3
  <2> QED
    BY <1>1, <1>2, <2>1, <2>2, <2>3 DEF BoundInv
<1>10. CASE \/ \E f \in Firing : Check(f) \/ Start(f) \/ EndTask(f)
            \/ \E r \in Replica, f \in Firing : Manual(r, f)
  BY <1>3, <1>10 DEF Check, Start, EndTask, Manual
<1> HIDE DEF B
<1> QED
  BY <1>3, <1>4, <1>5, <1>6, <1>7, <1>8, <1>9, <1>10, <1>11 DEF Next, vars

LEMMA TypesFit ==
  ASSUME TimingsAssumption, LongestExists, TypeInv PROVE TypeOK
<1>1. LastRun \in Nat /\ LastRun = MaxTime + LongestTiming /\ MaxTime \in Nat \ {0}
  BY Longest DEF LastRun, TimingsAssumption
<1>2. \A x \in RowType : x.next <= LastRun => x \in Rows
  BY <1>1 DEF RowType, Rows, Null
<1>3. tick \in [Replica -> [at : {"idle", "list", "claim"}, now : Null..MaxTime, row : Rows]]
  <2> SUFFICES ASSUME NEW r \in Replica
               PROVE  tick[r] \in [at : {"idle", "list", "claim"}, now : Null..MaxTime, row : Rows]
    BY DEF TypeInv, ClaimInv
  <2>1. tick[r] \in TickType /\ tick[r].now <= MaxTime /\ tick[r].row.next <= LastRun
    BY DEF TypeInv, ClaimInv, BoundInv
  <2> QED
    BY <1>1, <1>2, <2>1 DEF TickType, Null
<1>4. edit \in [Edit -> [at : {"idle", "write"}, row : Rows, times : BOOLEAN]]
  <2> SUFFICES ASSUME NEW e \in Edit
               PROVE  edit[e] \in [at : {"idle", "write"}, row : Rows, times : BOOLEAN]
    BY DEF TypeInv, ClaimInv
  <2> QED
    BY <1>2 DEF TypeInv, ClaimInv, BoundInv
<1>5. row \in Rows
  BY <1>2 DEF TypeInv, ClaimInv, BoundInv
<1> QED
  BY <1>1, <1>3, <1>4, <1>5 
  DEF TypeInv, ClaimInv, SkipInv, FiringType, FiringTypes, BoundInv, TypeOK, Time

\* Every variable of a schedule has its type, and a maintainer claims only what was due.
THEOREM TypeCorrect ==
  ASSUME TimingsAssumption, LongestExists
  PROVE  Spec => []TypeOK
<1>1. ASSUME Init PROVE TypeInv
  BY <1>1, BoundBegins
<1>2. TypeInv /\ [Next]_vars => TypeInv'
  BY ClaimStep, BoundStep, SkipStep DEF TypeInv
<1>3. TypeInv => TypeOK
  BY TypesFit
<1> QED
  BY <1>1, <1>2, <1>3, PTL DEF Spec

-----------------------------------------------------------------------------
(* The search of next_fire.  It jumps over months, days and hours; that no    *)
(* time it jumps over matches rests on the arithmetic of its calendar.        *)

\* The quotient and the remainder.
LEMMA DivMod ==
  ASSUME NEW n \in Nat \ {0}, NEW t \in Nat
  PROVE  t \div n \in Nat /\ t % n \in 0..n - 1 /\ t = n * (t \div n) + (t % n)
OBVIOUS

\* The quotient is the only number of its kind.
LEMMA DivIs ==
  ASSUME NEW n \in Nat \ {0}, NEW t \in Nat, NEW q \in Nat, n * q <= t, t < n * q + n
  PROVE  t \div n = q /\ t % n = t - n * q
<1>1. q * n <= t /\ t < (q + 1) * n
  OBVIOUS
<1>2. t \div n = q
  BY <1>1
<1>3. t % n \in Int /\ t = n * q + (t % n)
  <2>1. t % n \in Nat /\ t = n * (t \div n) + (t % n)
    BY DivMod
  <2> QED
    BY <1>2, <2>1
<1>4. n * q \in Int
  OBVIOUS
<1> QED
  BY <1>2, <1>3, <1>4

\* The multiple a number belongs to.
LEMMA Multiple ==
  ASSUME NEW n \in Nat \ {0}, NEW t \in Nat
  PROVE  /\ (t \div n) * n \in Nat /\ (t \div n) * n <= t
         /\ (t \div n + 1) * n \in Nat /\ t < (t \div n + 1) * n
         /\ (t \div n + 1) * n <= t + n
<1>1. PICK q : q = t \div n
  OBVIOUS
<1>2. PICK r : r = t % n
  OBVIOUS
<1>3. q \in Nat /\ r \in 0..n - 1 /\ t = n * q + r
  BY <1>1, <1>2, DivMod
<1>4. PICK a : a = n * q
  OBVIOUS
<1>5. a \in Nat /\ q * n = a /\ (q + 1) * n = a + n
  BY <1>3, <1>4
<1>6. t = a + r
  BY <1>3, <1>4, Zenon
<1>7. a <= t /\ a + n \in Nat /\ t < a + n /\ a + n <= t + n
  BY ONLY <1>3, <1>5, <1>6, n \in Nat, t \in Nat
<1> QED
  BY <1>1, <1>5, <1>7, Zenon

LEMMA Scaled ==
  ASSUME NEW n \in Nat \ {0}, NEW x \in Nat, NEW y \in Nat
  PROVE  x * n \in Nat /\ (x <= y <=> x * n <= y * n) /\ (x < y <=> x * n < y * n)
OBVIOUS

\* The quotients of neighbours agree.
LEMMA Between ==
  ASSUME NEW n \in Nat \ {0}, NEW t \in Nat, NEW u \in t..(t \div n + 1) * n - 1
  PROVE  u \in Nat /\ u \div n = t \div n
<1>1. t \div n \in Nat /\ n * (t \div n) <= t /\ t < n * (t \div n) + n
  BY DivMod
<1>2. (t \div n + 1) * n = n * (t \div n) + n
  BY <1>1
<1>3. u \in Nat /\ n * (t \div n) <= u /\ u < n * (t \div n) + n
  BY <1>1, <1>2
<1> QED
  BY <1>1, <1>3, DivIs

Less == {p \in Nat \X Nat : p[1] < p[2]}

\* A set of naturals has a least one.
LEMMA LeastExists ==
  ASSUME NEW S, S \subseteq Nat, S # {}
  PROVE  \E x \in S : \A y \in S : x <= y
<1>1. IsWellFoundedOn(Less, Nat)
  BY NatLessThanWellFounded, Zenon DEF Less, OpToRel
<1>2. ASSUME NEW R, NEW N, IsWellFoundedOn(R, N), S \subseteq N
      PROVE  \E x \in S : \A y \in S : ~(<<y, x>> \in R)
  BY <1>2, WFMin
<1>3. \E x \in S : \A y \in S : ~(<<y, x>> \in Less)
  BY <1>1, <1>2, Zenon
<1>4. ASSUME NEW x \in S, NEW y \in S, <<y, x>> \notin Less PROVE x <= y
  <2>1. x \in Nat /\ y \in Nat
    OBVIOUS
  <2>2. <<y, x>> \in Nat \X Nat /\ <<y, x>>[1] = y /\ <<y, x>>[2] = x
    BY <2>1
  <2>3. ~(y < x)
    BY <2>2, <1>4, Zenon DEF Less
  <2> QED BY <2>1, <2>3
<1> QED BY <1>3, <1>4

LEMMA Sizes ==
  ASSUME Timed!Settings
  PROVE  /\ Minutes \in Nat \ {0} /\ Hours \in Nat \ {0} /\ Timed!DayMinutes \in Nat \ {0}
         /\ Len(MonthStarts) \in Nat /\ Len(MonthStarts) > 1
         /\ \A m \in 1..Len(MonthStarts) : MonthStarts[m] \in Nat
         /\ Timed!LastDay \in Nat
<1>1. Minutes \in Nat \ {0} /\ Hours \in Nat \ {0}
  BY DEF Timed!Settings
<1>2. Timed!DayMinutes \in Nat \ {0}
  BY <1>1 DEF Timed!DayMinutes
<1>3. MonthStarts \in Seq(Nat) /\ Len(MonthStarts) > 1
  BY DEF Timed!Settings
<1>4. Len(MonthStarts) \in Nat /\ \A m \in 1..Len(MonthStarts) : MonthStarts[m] \in Nat
  BY <1>3
<1>5. Timed!LastDay \in Nat
  BY <1>3, <1>4 DEF Timed!LastDay
<1> QED
  BY <1>1, <1>2, <1>3, <1>4, <1>5

LEMMA Ordered ==
  ASSUME Timed!Settings, NEW m \in 1..Len(MonthStarts), NEW n \in 1..Len(MonthStarts), m < n
  PROVE  MonthStarts[m] < MonthStarts[n]
<1>1. DOMAIN MonthStarts = 1..Len(MonthStarts)
  BY DEF Timed!Settings
<1> QED
  BY <1>1 DEF Timed!Settings

\* A day before the last belongs to one month.
LEMMA MonthExists ==
  ASSUME Timed!Settings, NEW d \in Nat, d < Timed!LastDay
  PROVE  \E m \in Timed!Month : MonthStarts[m] <= d /\ d < MonthStarts[m + 1]
<1> DEFINE Later == {m \in 1..Len(MonthStarts) : d < MonthStarts[m]}
<1> USE Sizes
<1>1. Later \subseteq Nat /\ Len(MonthStarts) \in Later
  BY DEF Timed!LastDay
<1>2. PICK n \in Later : \A m \in Later : n <= m
  <2> HIDE DEF Later
  <2> QED BY <1>1, LeastExists
<1>3. n # 1
  BY DEF Timed!Settings
<1>4. n - 1 \in Timed!Month /\ n - 1 \in 1..Len(MonthStarts) /\ (n - 1) + 1 = n
  BY <1>3 DEF Timed!Month
<1>5. n - 1 \notin Later
  BY <1>2, <1>4
<1>6. MonthStarts[n - 1] <= d
  BY <1>4, <1>5
<1> QED
  BY <1>4, <1>6

LEMMA MonthFound ==
  ASSUME Timed!Settings, NEW t \in Nat, Timed!Day(t) \in Nat, Timed!Day(t) < Timed!LastDay
  PROVE  /\ Timed!MonthIndex(t) \in Timed!Month
         /\ MonthStarts[Timed!MonthIndex(t)] <= Timed!Day(t)
            /\ Timed!Day(t) < MonthStarts[Timed!MonthIndex(t) + 1]
BY MonthExists DEF Timed!MonthIndex

LEMMA MonthIs ==
  ASSUME Timed!Settings, NEW t \in Nat, Timed!Day(t) \in Nat, NEW m \in Timed!Month,
         MonthStarts[m] <= Timed!Day(t), Timed!Day(t) < MonthStarts[m + 1]
  PROVE  Timed!MonthIndex(t) = m
<1> USE Sizes
<1>1. m \in 1..Len(MonthStarts) /\ m + 1 \in 1..Len(MonthStarts)
  BY DEF Timed!Month
<1>2. ASSUME NEW n \in Timed!Month, MonthStarts[n] <= Timed!Day(t),
             Timed!Day(t) < MonthStarts[n + 1]
      PROVE  n = m
  <2>1. n \in 1..Len(MonthStarts) /\ n + 1 \in 1..Len(MonthStarts)
    BY DEF Timed!Month
  <2>2. ~(n + 1 <= m)
    <3>1. n + 1 < m => MonthStarts[n + 1] < MonthStarts[m]
      BY <2>1, <1>1, Ordered
    <3> QED
      BY <3>1, <2>1, <1>1, <1>2
  <2>3. ~(m + 1 <= n)
    <3>1. m + 1 < n => MonthStarts[m + 1] < MonthStarts[n]
      BY <2>1, <1>1, Ordered
    <3> QED
      BY <3>1, <2>1, <1>1, <1>2
  <2> QED
    BY <2>1, <1>1, <2>2, <2>3
<1> QED
  BY <1>2, Zenon DEF Timed!MonthIndex

\* What shows on local clocks of the day, and of the hour.
LEMMA SameDay ==
  ASSUME NEW t, NEW u, Timed!Day(u) = Timed!Day(t)
  PROVE  /\ Timed!MonthIndex(u) = Timed!MonthIndex(t)
         /\ \A name \in {"day", "month", "weekday"} : Timed!Get(name, u) = Timed!Get(name, t)
<1>1. Timed!MonthIndex(u) = Timed!MonthIndex(t)
  BY Zenon DEF Timed!MonthIndex
<1> QED
  BY <1>1 DEF Timed!Get

LEMMA DivDiv ==
  ASSUME NEW n \in Nat \ {0}, NEW m \in Nat \ {0}, NEW t \in Nat
  PROVE  t \div (n * m) = (t \div n) \div m
OBVIOUS

LEMMA Products ==
  ASSUME NEW n \in Nat, NEW m \in Nat, NEW x \in Nat, NEW y \in Nat
  PROVE  /\ m * y \in Nat /\ n * x \in Nat /\ (n * m) * y \in Nat
         /\ n * (x - m * y) = n * x - (n * m) * y
OBVIOUS

LEMMA HourOf ==
  ASSUME Timed!Settings, NEW t \in Nat
  PROVE  Timed!Day(t) \in Nat /\ Timed!Day(t) = (t \div Minutes) \div Hours
         /\ (t % Timed!DayMinutes) \div Minutes = (t \div Minutes) - Hours * Timed!Day(t)
<1> USE Sizes
<1>1. PICK h : h = t \div Minutes
  OBVIOUS
<1>2. PICK d : d = Timed!Day(t)
  OBVIOUS
<1>3. PICK r : r = t % Timed!DayMinutes
  OBVIOUS
<1>4. PICK a : a = Hours * d
  OBVIOUS
<1>5. PICK b : b = Minutes * h
  OBVIOUS
<1>6. PICK c : c = Timed!DayMinutes * d
  OBVIOUS
<1>7. d \in Nat /\ r \in Nat /\ t = c + r
  <2>1. /\ Timed!Day(t) \in Nat /\ t % Timed!DayMinutes \in 0..Timed!DayMinutes - 1
        /\ t = Timed!DayMinutes * Timed!Day(t) + (t % Timed!DayMinutes)
    BY DivMod DEF Timed!Day
  <2>2. t % Timed!DayMinutes \in Nat
    BY <2>1
  <2> QED
    BY <1>2, <1>3, <1>6, <2>1, <2>2, Zenon
<1>8. h \in Nat /\ b <= t /\ t < b + Minutes
  <2>1. h \in Nat /\ \E x \in 0..Minutes - 1 : t = b + x
    BY <1>1, <1>5, DivMod
  <2>2. b \in Nat
    BY <1>5, <2>1, Products
  <2> QED
    BY ONLY <2>1, <2>2, Minutes \in Nat, t \in Nat
<1>9. d = h \div Hours
  BY <1>1, <1>2, DivDiv DEF Timed!Day, Timed!DayMinutes
<1>10. a \in Nat /\ c \in Nat /\ b \in Nat
  BY <1>4, <1>5, <1>6, <1>7, <1>8, Products
<1>11. a <= h
  <2>1. \E x \in 0..Hours - 1 : h = a + x
    BY <1>4, <1>8, <1>9, DivMod
  <2> QED
    BY ONLY <2>1, <1>10, <1>8, Hours \in Nat
<1>12. Minutes * (h - a) = b - c
  <2>1. Minutes * (h - Hours * d) = Minutes * h - (Minutes * Hours) * d
    BY <1>7, <1>8, Products
  <2> QED
    BY <1>4, <1>5, <1>6, <2>1, Zenon DEF Timed!DayMinutes
<1>13. PICK p : p = Minutes * (h - a)
  OBVIOUS
<1>14. p <= r /\ r < p + Minutes /\ h - a \in Nat
  BY ONLY <1>7, <1>8, <1>10, <1>11, <1>12, <1>13, Minutes \in Nat, t \in Nat
<1>15. r \div Minutes = h - a
  BY <1>7, <1>13, <1>14, DivIs
<1> QED
  BY <1>1, <1>2, <1>3, <1>4, <1>7, <1>9, <1>15

LEMMA SameHour ==
  ASSUME Timed!Settings, NEW t \in Nat, NEW u \in Nat, u \div Minutes = t \div Minutes
  PROVE  Timed!Day(u) = Timed!Day(t) /\ Timed!Get("hour", u) = Timed!Get("hour", t)
BY HourOf DEF Timed!Get


LEMMA DayBounds ==
  ASSUME Timed!Settings, NEW t \in Nat
  PROVE  /\ Timed!Day(t) \in Nat /\ Timed!Day(t) * Timed!DayMinutes \in Nat
            /\ Timed!Day(t) * Timed!DayMinutes <= t
         /\ Timed!NextDay(t) \in Nat /\ t < Timed!NextDay(t)
<1>1. Timed!DayMinutes \in Nat \ {0}
  BY Sizes
<1>2. t \div Timed!DayMinutes \in Nat
  BY <1>1, DivMod
<1> QED
  BY <1>1, <1>2, Multiple, Zenon DEF Timed!Day, Timed!NextDay

LEMMA Within ==
  ASSUME Timed!Settings, NEW t \in Nat, NEW d \in Nat
  PROVE  t < d * Timed!DayMinutes <=> Timed!Day(t) < d
<1>1. Timed!DayMinutes \in Nat \ {0} /\ d * Timed!DayMinutes \in Nat
  BY Sizes, Scaled
<1>2. /\ Timed!Day(t) \in Nat /\ Timed!Day(t) * Timed!DayMinutes \in Nat
         /\ Timed!Day(t) * Timed!DayMinutes <= t
      /\ Timed!NextDay(t) \in Nat /\ t < Timed!NextDay(t)
  BY DayBounds
<1>3. ASSUME Timed!Day(t) < d PROVE t < d * Timed!DayMinutes
  <2>1. Timed!NextDay(t) <= d * Timed!DayMinutes
    <3>1. Timed!Day(t) + 1 \in Nat /\ Timed!Day(t) + 1 <= d
      BY <1>2, <1>3
    <3> QED
      BY <1>1, <3>1, Scaled DEF Timed!NextDay
  <2> QED
    BY ONLY <1>1, <1>2, <2>1, t \in Nat
<1>4. ASSUME t < d * Timed!DayMinutes PROVE Timed!Day(t) < d
  <2>1. Timed!Day(t) * Timed!DayMinutes < d * Timed!DayMinutes
    BY ONLY <1>1, <1>2, <1>4, t \in Nat
  <2> QED
    BY <1>1, <1>2, <2>1, Scaled
<1> QED
  BY <1>3, <1>4

LEMMA DaysAdvance ==
  ASSUME Timed!Settings, NEW t \in Nat, NEW u \in Nat, t <= u
  PROVE  Timed!Day(t) <= Timed!Day(u)
<1>1. Timed!Day(t) \in Nat /\ Timed!Day(u) \in Nat /\ Timed!Day(u) + 1 \in Nat
  BY DayBounds
<1>2. u < (Timed!Day(u) + 1) * Timed!DayMinutes
  BY <1>1, Within
<1>3. t < (Timed!Day(u) + 1) * Timed!DayMinutes
  <2>1. (Timed!Day(u) + 1) * Timed!DayMinutes \in Nat
    BY <1>1, Sizes, Scaled
  <2> QED
    BY ONLY <2>1, <1>2, t \in Nat, u \in Nat, t <= u
<1> QED
  BY <1>1, <1>3, Within

\* Up to the time the search jumps to, what did not match does not match.
LEMMA SkipsMonth ==
  ASSUME Timed!Settings, NEW t \in Nat, t < Timed!LastDay * Timed!DayMinutes
  PROVE  /\ Timed!NextMonth(t) \in Nat /\ t < Timed!NextMonth(t)
            /\ Timed!NextMonth(t) <= Timed!LastDay * Timed!DayMinutes
         /\ \A u \in t..Timed!NextMonth(t) - 1 : Timed!Get("month", u) = Timed!Get("month", t)
<1> USE Sizes
<1>1. Timed!Day(t) \in Nat /\ Timed!Day(t) < Timed!LastDay
  BY Within, DayBounds
<1>2. PICK m \in Timed!Month : m = Timed!MonthIndex(t)
  BY <1>1, MonthFound
<1>3. MonthStarts[m] <= Timed!Day(t) /\ Timed!Day(t) < MonthStarts[m + 1]
  BY <1>1, <1>2, MonthFound
<1>4. PICK e \in Nat : e = MonthStarts[m + 1]
  BY DEF Timed!Month
<1>5. Timed!NextMonth(t) = e * Timed!DayMinutes
  BY <1>2, <1>4 DEF Timed!NextMonth
<1>6. e <= Timed!LastDay
  <2>1. m + 1 # Len(MonthStarts) => MonthStarts[m + 1] < MonthStarts[Len(MonthStarts)]
    BY Ordered DEF Timed!Month
  <2> QED
    BY <2>1, <1>4 DEF Timed!LastDay
<1>7. t < e * Timed!DayMinutes
  BY <1>3, <1>4, Within
<1>8. e * Timed!DayMinutes \in Nat /\ e * Timed!DayMinutes <= Timed!LastDay * Timed!DayMinutes
  BY <1>6, Scaled
<1>9. ASSUME NEW u \in t..Timed!NextMonth(t) - 1
      PROVE  Timed!Get("month", u) = Timed!Get("month", t)
  <2>1. u \in Nat /\ t <= u /\ u < e * Timed!DayMinutes
    BY <1>5, <1>8
  <2>2. Timed!Day(u) \in Nat /\ Timed!Day(u) < e
    BY <2>1, Within, DayBounds
  <2>3. Timed!Day(t) <= Timed!Day(u)
    BY <2>1, DaysAdvance
  <2>4. Timed!MonthIndex(u) = m
    <3>1. MonthStarts[m] \in Nat
      BY DEF Timed!Month
    <3> QED
      BY <2>1, <2>2, <2>3, <3>1, <1>1, <1>3, <1>4, MonthIs
  <2> QED
    BY <2>4, <1>2 DEF Timed!Get
<1> QED
  BY <1>5, <1>7, <1>8, <1>9

LEMMA SkipsDay ==
  ASSUME Timed!Settings, NEW t \in Nat, t < Timed!LastDay * Timed!DayMinutes
  PROVE  /\ Timed!NextDay(t) \in Nat /\ t < Timed!NextDay(t)
            /\ Timed!NextDay(t) <= Timed!LastDay * Timed!DayMinutes
         /\ \A u \in t..Timed!NextDay(t) - 1 : u \in Nat /\ Timed!Day(u) = Timed!Day(t)
<1> USE Sizes
<1>1. Timed!Day(t) \in Nat /\ Timed!Day(t) + 1 \in Nat /\ Timed!Day(t) + 1 <= Timed!LastDay
  <2>1. Timed!Day(t) \in Nat /\ Timed!Day(t) < Timed!LastDay
    BY Within, DayBounds
  <2> QED
    BY ONLY <2>1, Timed!LastDay \in Nat
<1>2. Timed!NextDay(t) <= Timed!LastDay * Timed!DayMinutes
  BY <1>1, Scaled DEF Timed!NextDay
<1>3. \A u \in t..Timed!NextDay(t) - 1 : u \in Nat /\ Timed!Day(u) = Timed!Day(t)
  BY Between DEF Timed!NextDay, Timed!Day
<1> QED
  BY <1>2, <1>3, DayBounds

LEMMA SkipsHour ==
  ASSUME Timed!Settings, NEW t \in Nat
  PROVE  /\ Timed!NextHour(t) \in Nat /\ t < Timed!NextHour(t)
            /\ Timed!NextHour(t) <= t + Minutes
         /\ \A u \in t..Timed!NextHour(t) - 1 : Timed!Get("hour", u) = Timed!Get("hour", t)
<1> USE Sizes
<1>1. Timed!NextHour(t) \in Nat /\ t < Timed!NextHour(t) /\ Timed!NextHour(t) <= t + Minutes
  BY Multiple DEF Timed!NextHour
<1>2. \A u \in t..Timed!NextHour(t) - 1 : u \in Nat /\ u \div Minutes = t \div Minutes
  BY Between DEF Timed!NextHour
<1> QED
  BY <1>1, <1>2, SameHour

\* The hour of the change is one hour, and an hour later shows the same minute.
LEMMA ChangeHour ==
  ASSUME Timed!Settings, NEW t \in Change..Change + Minutes - 1,
         NEW u \in Change..Change + Minutes - 1
  PROVE  t \in Nat /\ u \in Nat /\ t \div Minutes = u \div Minutes
<1> USE Sizes
<1>1. Change \in Nat /\ Change % Minutes = 0
  BY DEF Timed!Settings
<1>2. PICK q \in Nat : Change = Minutes * q
  <2>1. Change \div Minutes \in Nat /\ Change = Minutes * (Change \div Minutes) + 0
    BY <1>1, DivMod
  <2>2. Minutes * (Change \div Minutes) \in Nat
    BY <2>1
  <2> QED
    BY <2>1, <2>2
<1>3. PICK b : b = Minutes * q
  OBVIOUS
<1>4. ASSUME NEW x \in Change..Change + Minutes - 1
      PROVE  x \in Nat /\ x \div Minutes = q
  <2>1. x \in Nat /\ b <= x /\ x < b + Minutes
    BY ONLY <1>1, <1>2, <1>3, x \in Change..Change + Minutes - 1, Minutes \in Nat
  <2> QED
    BY <1>3, <2>1, DivIs
<1> QED
  BY <1>4

LEMMA HourLaterSame ==
  ASSUME Timed!Settings, NEW t \in Nat
  PROVE  Timed!Get("minute", t + Minutes) = Timed!Get("minute", t)
<1> USE Sizes
<1>1. PICK q : q = t \div Minutes
  OBVIOUS
<1>2. PICK r : r = t % Minutes
  OBVIOUS
<1>3. PICK b : b = Minutes * q
  OBVIOUS
<1>4. q \in Nat /\ r \in 0..Minutes - 1 /\ t = b + r
  <2>1. /\ t \div Minutes \in Nat /\ t % Minutes \in 0..Minutes - 1
        /\ t = Minutes * (t \div Minutes) + (t % Minutes)
    BY DivMod
  <2> QED
    BY <1>1, <1>2, <1>3, <2>1, Zenon
<1>k. PICK k \in Nat : k = q + 1
  BY <1>4
<1>5. b \in Nat /\ Minutes * k = b + Minutes
  BY <1>3, <1>4, <1>k
<1>6. PICK a : a = Minutes * k
  OBVIOUS
<1>7. a <= t + Minutes /\ t + Minutes < a + Minutes /\ (t + Minutes) - a = r
  BY ONLY <1>4, <1>5, <1>6, t \in Nat, Minutes \in Nat
<1>8. (t + Minutes) % Minutes = (t + Minutes) - a
  <2>1. PICK u \in Nat : u = t + Minutes
    OBVIOUS
  <2>2. Minutes * k <= u /\ u < Minutes * k + Minutes
    BY <1>6, <1>7, <2>1, Zenon
  <2>3. u % Minutes = u - Minutes * k
    BY <2>2, DivIs
  <2> QED
    BY <1>6, <2>1, <2>3, Zenon
<1> QED
  BY <1>2, <1>7, <1>8 DEF Timed!Get

\* The range of the search is within the calendar.
LEMMA InCalendar ==
  ASSUME Timed!Settings, Timed!TypeOK
  PROVE  /\ Timed!Start \in Nat /\ Timed!Start > 0 /\ Timed!Limit \in Nat
            /\ Timed!Limit < Timed!LastDay * Timed!DayMinutes
         /\ Timed!LastDay * Timed!DayMinutes \in Nat
         /\ (Timed!LastDay + 1) * Timed!DayMinutes \in Nat
         /\ Timed!LastDay * Timed!DayMinutes + Minutes <= (Timed!LastDay + 1) * Timed!DayMinutes
<1> USE Sizes
<1>1. after \in 0..LastAfter /\ LastAfter \in Nat /\ shift \in {-Minutes, 0, Minutes}
      /\ Change \in Nat /\ Change >= Minutes
  BY DEF Timed!Settings, Timed!TypeOK
<1>2. Timed!Start \in 1..LastAfter + Minutes + 1
  BY <1>1 DEF Timed!Start, Timed!Local
<1>3. PICK s : s = SearchDays * Timed!DayMinutes
  OBVIOUS
<1>4. PICK l : l = Timed!LastDay * Timed!DayMinutes
  OBVIOUS
<1>5. s \in Nat /\ LastAfter + Minutes + 1 + s < l
  BY <1>3, <1>4, Scaled DEF Timed!Settings
<1>6. l \in Nat /\ (Timed!LastDay + 1) * Timed!DayMinutes = l + Timed!DayMinutes
  BY <1>4
<1>7. Minutes <= Timed!DayMinutes
  <2>1. Hours - 1 \in Nat
    OBVIOUS
  <2>2. Minutes * (Hours - 1) \in Nat /\ Timed!DayMinutes = Minutes * (Hours - 1) + Minutes
    BY <2>1 DEF Timed!DayMinutes
  <2> QED
    BY <2>2
<1>8. Timed!Limit = Timed!Start + s
  BY <1>3 DEF Timed!Limit
<1> QED
  BY ONLY <1>1, <1>2, <1>4, <1>5, <1>6, <1>7, <1>8, Minutes \in Nat, Timed!DayMinutes \in Nat

\* A local time that next_fire would return: its fields match and it is after the given
\* one.  The search has passed over none.
Fitting(t) ==
  /\ Timed!Matches("month", t) /\ Timed!Matches("hour", t) /\ Timed!Matches("minute", t)
     /\ Timed!DayMatches(t)
  /\ Timed!Clock(t) > after
NonePassed ==
  stage # "none" =>
    /\ Timed!Start <= local /\ \A t \in Timed!Start..local - 1 : ~Fitting(t)
    /\ stage = "found" => local <= Timed!Limit /\ Fitting(local)
    /\ stage = "never" => local > Timed!Limit
CronInv == Timed!TypeOK /\ NonePassed

LEMMA CronBegins == Timed!Settings /\ Timed!Init => CronInv
<1> SUFFICES ASSUME Timed!Settings, Timed!Init PROVE CronInv
  OBVIOUS
<1> USE Sizes
<1>1. \A name \in Timed!FieldName : expr[name] \in Texts[name]
  BY DEF Timed!Init, Timed!Settings
<1>2. 0 \in 0..LastAfter /\ 0 \in Shifts
  BY DEF Timed!Settings
<1>3. 0 \in 0..(Timed!LastDay + 1) * Timed!DayMinutes
  BY Scaled
<1> QED
  BY <1>1, <1>2, <1>3 DEF Timed!Init, CronInv, Timed!TypeOK, NonePassed

\* What does not change of a search as it goes on.
LEMMA SameQuestion ==
  ASSUME UNCHANGED <<expr, shift, after>>
  PROVE  /\ Timed!Start' = Timed!Start /\ Timed!Limit' = Timed!Limit
         /\ \A t : Fitting(t)' = Fitting(t)
<1>1. Timed!Start' = Timed!Start
  BY DEF Timed!Start, Timed!Local
<1>2. \A name : Timed!Parsed(name)' = Timed!Parsed(name)
  BY DEF Timed!Parsed
<1>3. \A name : Timed!IsAny(name)' = Timed!IsAny(name)
  BY DEF Timed!IsAny
<1> QED
  BY <1>1, <1>2, <1>3 DEF Timed!Limit, Fitting, Timed!Matches, Timed!DayMatches, Timed!Clock

LEMMA StartsWithin ==
  ASSUME Timed!Settings, NEW x \in 0..LastAfter, NEW s \in {-Minutes, 0, Minutes}
  PROVE  (IF x < Change THEN x ELSE x + s) + 1 \in 1..LastAfter + Minutes + 1
<1>1. LastAfter \in Nat /\ Change \in Nat /\ Change >= Minutes /\ Minutes \in Nat
  BY Sizes DEF Timed!Settings
<1> QED
  BY <1>1

LEMMA BeginKeeps ==
  ASSUME Timed!Settings, CronInv, Timed!Begin
  PROVE  CronInv'
<1> USE Sizes
<1>1. after' \in 0..LastAfter /\ LastAfter \in Nat /\ shift' \in {-Minutes, 0, Minutes}
      /\ Change \in Nat /\ Change >= Minutes /\ shift' \in Shifts
  BY DEF Timed!Settings, Timed!Begin
<1>2. local' = Timed!Start' /\ local' \in 1..LastAfter + Minutes + 1
  <2>1. local' = (IF after' < Change THEN after' ELSE after' + shift') + 1
    BY DEF Timed!Begin
  <2>2. Timed!Start' = (IF after' < Change THEN after' ELSE after' + shift') + 1
    BY DEF Timed!Start, Timed!Local
  <2> QED
    BY <1>1, <2>1, <2>2, StartsWithin, Zenon
<1>3. LastAfter + Minutes + 1 <= (Timed!LastDay + 1) * Timed!DayMinutes
      /\ (Timed!LastDay + 1) * Timed!DayMinutes \in Nat
  <2>1. SearchDays * Timed!DayMinutes \in Nat /\ Timed!LastDay * Timed!DayMinutes \in Nat
        /\ Timed!LastDay * Timed!DayMinutes <= (Timed!LastDay + 1) * Timed!DayMinutes
        /\ (Timed!LastDay + 1) * Timed!DayMinutes \in Nat
    <3>1. SearchDays \in Nat
      BY DEF Timed!Settings
    <3>2. Timed!LastDay + 1 \in Nat /\ Timed!LastDay <= Timed!LastDay + 1
      OBVIOUS
    <3> QED
      BY <3>1, <3>2, Scaled
  <2>2. LastAfter + Minutes + 1 + SearchDays * Timed!DayMinutes
        < Timed!LastDay * Timed!DayMinutes
    BY DEF Timed!Settings
  <2> QED
    BY ONLY <1>1, <2>1, <2>2, Minutes \in Nat
<1>4. local' \in 0..(Timed!LastDay + 1) * Timed!DayMinutes
  BY ONLY <1>1, <1>2, <1>3, Minutes \in Nat
<1>5. Timed!TypeOK'
  BY <1>1, <1>4 DEF Timed!Begin, Timed!TypeOK
<1>6. Timed!Start'..local' - 1 = {} /\ Timed!Start' <= local'
  <2>1. local' \in Int
    BY <1>1, <1>2
  <2>2. \A x \in Int : x..x - 1 = {} /\ x <= x
    OBVIOUS
  <2> QED
    BY <1>2, <2>1, <2>2, Zenon
<1> QED
  BY <1>5, <1>6 DEF Timed!Begin, CronInv, NonePassed

\* No time is passed over.
LEMMA LookKeeps ==
  ASSUME Timed!Settings, CronInv, Timed!Look
  PROVE  CronInv'
<1> USE Sizes
<1>1. /\ Timed!Start \in Nat /\ Timed!Limit \in Nat /\ local \in Nat /\ Timed!Start <= local
         /\ local <= Timed!Limit
      /\ local < Timed!LastDay * Timed!DayMinutes /\ stage = "search"
  BY InCalendar DEF CronInv, Timed!TypeOK, NonePassed, Timed!Look
<1>2. UNCHANGED <<expr, shift, after>>
  BY DEF Timed!Look
<1>3. ASSUME stage' = "found", UNCHANGED local, Fitting(local)
      PROVE  CronInv'
  <2>1. NonePassed'
    BY <1>1, <1>2, <1>3, SameQuestion DEF CronInv, NonePassed
  <2> QED
    BY <1>2, <1>3, <2>1 DEF CronInv, Timed!TypeOK
<1>4. ASSUME NEW to \in Nat, Timed!Skip(to), local < to,
             to <= (Timed!LastDay + 1) * Timed!DayMinutes,
             \A u \in local..to - 1 : ~Fitting(u)
      PROVE  CronInv'
  <2>1. local' = to /\ stage' = "search"
    BY <1>1, <1>4 DEF Timed!Skip
  <2>2. to \in 0..(Timed!LastDay + 1) * Timed!DayMinutes
    BY <1>4, InCalendar DEF CronInv
  <2>3. Timed!TypeOK'
    BY <1>2, <2>1, <2>2 DEF CronInv, Timed!TypeOK
  <2>4. \A t \in Timed!Start..to - 1 : ~Fitting(t)
    <3>1. \A t \in Timed!Start..local - 1 : ~Fitting(t)
      BY <1>1 DEF CronInv, NonePassed
    <3>2. \A t \in Timed!Start..to - 1 : t \in Timed!Start..local - 1 \/ t \in local..to - 1
      BY <1>1, <1>4
    <3> QED
      BY <3>1, <3>2, <1>4
  <2>5. NonePassed'
    BY <1>1, <1>2, <1>4, <2>1, <2>4, SameQuestion DEF NonePassed
  <2> QED
    BY <2>3, <2>5 DEF CronInv
<1>5. Timed!LastDay * Timed!DayMinutes \in Nat /\ (Timed!LastDay + 1) * Timed!DayMinutes \in Nat
      /\ Timed!LastDay * Timed!DayMinutes + Minutes <= (Timed!LastDay + 1) * Timed!DayMinutes
  BY InCalendar DEF CronInv
<1>6. CASE ~Timed!Matches("month", local) /\ Timed!Skip(Timed!NextMonth(local))
  <2>1. /\ Timed!NextMonth(local) \in Nat /\ local < Timed!NextMonth(local)
        /\ Timed!NextMonth(local) <= Timed!LastDay * Timed!DayMinutes
        /\ \A u \in local..Timed!NextMonth(local) - 1 : Timed!Get("month",
           u) = Timed!Get("month", local)
    BY <1>1, SkipsMonth
  <2>2. \A u \in local..Timed!NextMonth(local) - 1 : ~Fitting(u)
    BY <1>6, <2>1 DEF Fitting, Timed!Matches
  <2>3. Timed!NextMonth(local) <= (Timed!LastDay + 1) * Timed!DayMinutes
    BY ONLY <1>5, <2>1, Minutes \in Nat
  <2> QED
    BY <1>4, <1>6, <2>1, <2>2, <2>3
<1>7. CASE ~Timed!DayMatches(local) /\ Timed!Skip(Timed!NextDay(local))
  <2>1. /\ Timed!NextDay(local) \in Nat /\ local < Timed!NextDay(local)
        /\ Timed!NextDay(local) <= Timed!LastDay * Timed!DayMinutes
        /\ \A u \in local..Timed!NextDay(local) - 1 : Timed!Day(u) = Timed!Day(local)
    BY <1>1, SkipsDay
  <2>2. \A u \in local..Timed!NextDay(local) - 1 : ~Fitting(u)
    <3>1. \A u \in local..Timed!NextDay(local) - 1 :
            Timed!Get("day", u) = Timed!Get("day", local) /\ Timed!Get("weekday",
            u) = Timed!Get("weekday", local)
      BY <2>1, SameDay
    <3> QED
      BY <1>7, <3>1 DEF Fitting, Timed!DayMatches, Timed!Matches
  <2>3. Timed!NextDay(local) <= (Timed!LastDay + 1) * Timed!DayMinutes
    BY ONLY <1>5, <2>1, Minutes \in Nat
  <2> QED
    BY <1>4, <1>7, <2>1, <2>2, <2>3
<1>8. CASE ~Timed!Matches("hour", local) /\ Timed!Skip(Timed!NextHour(local))
  <2>1. /\ Timed!NextHour(local) \in Nat /\ local < Timed!NextHour(local)
        /\ Timed!NextHour(local) <= local + Minutes
        /\ \A u \in local..Timed!NextHour(local) - 1 : Timed!Get("hour",
           u) = Timed!Get("hour", local)
    BY <1>1, SkipsHour
  <2>2. \A u \in local..Timed!NextHour(local) - 1 : ~Fitting(u)
    BY <1>8, <2>1 DEF Fitting, Timed!Matches
  <2>3. Timed!NextHour(local) <= (Timed!LastDay + 1) * Timed!DayMinutes
    BY ONLY <1>1, <1>5, <2>1, Minutes \in Nat
  <2> QED
    BY <1>4, <1>8, <2>1, <2>2, <2>3
<1>9. CASE ~(Timed!Matches("minute", local) /\ Timed!Clock(local) > after)
           /\ Timed!Skip(local + 1)
  <2>1. local + 1 \in Nat /\ local < local + 1
        /\ local + 1 <= (Timed!LastDay + 1) * Timed!DayMinutes
    BY ONLY <1>1, <1>5, Minutes \in Nat
  <2>2. \A u \in local..(local + 1) - 1 : u = local
    BY <1>1
  <2>3. ~Fitting(local)
    BY <1>9 DEF Fitting
  <2> QED
    BY <1>4, <1>9, <2>1, <2>2, <2>3
<1>10. CASE /\ Timed!Matches("month", local) /\ Timed!DayMatches(local)
               /\ Timed!Matches("hour", local)
            /\ Timed!Matches("minute", local) /\ Timed!Clock(local) > after
            /\ stage' = "found" /\ UNCHANGED local
  BY <1>3, <1>10 DEF Fitting
<1> QED
  BY <1>6, <1>7, <1>8, <1>9, <1>10 DEF Timed!Look

LEMMA CronGoesOn == Timed!Settings /\ CronInv /\ [Timed!Next]_Timed!vars => CronInv'
<1> SUFFICES ASSUME Timed!Settings, CronInv, [Timed!Next]_Timed!vars PROVE CronInv'
  OBVIOUS
<1>1. CASE Timed!Begin
  BY <1>1, BeginKeeps
<1>2. CASE Timed!Look
  BY <1>2, LookKeeps
<1>3. CASE Timed!GiveUp
  <2>1. UNCHANGED <<expr, shift, after, local>> /\ stage = "search" /\ stage' = "never"
        /\ local > Timed!Limit
    BY <1>3 DEF Timed!GiveUp
  <2> QED
    BY <2>1, SameQuestion DEF CronInv, Timed!TypeOK, NonePassed
<1>4. CASE UNCHANGED Timed!vars
  <2>1. UNCHANGED <<expr, shift, after, local, stage>>
    BY <1>4 DEF Timed!vars
  <2> QED
    BY <2>1, SameQuestion DEF CronInv, Timed!TypeOK, NonePassed
<1> QED
  BY <1>1, <1>2, <1>3, <1>4 DEF Timed!Next

\* A firing is a local time of the search.
LEMMA FiringFits ==
  ASSUME Timed!Settings, Timed!TypeOK, NEW c \in Nat, c > after, Timed!Clock(Timed!Local(c)) = c,
         Timed!Shows(Timed!Local(c))
  PROVE  /\ Timed!Local(c) \in Nat /\ Timed!Start <= Timed!Local(c) /\ Fitting(Timed!Local(c))
         /\ c <= Timed!Local(c) + Minutes
<1> USE Sizes
<1>1. after \in Nat /\ shift \in {-Minutes, 0, Minutes} /\ Change \in Nat /\ Change >= Minutes
  BY DEF Timed!Settings, Timed!TypeOK
<1>2. Timed!Local(c) \in Nat /\ Timed!Start <= Timed!Local(c) /\ c <= Timed!Local(c) + Minutes
  BY <1>1 DEF Timed!Local, Timed!Clock, Timed!Start
<1> QED
  BY <1>2 DEF Fitting, Timed!Shows

\* So is one at a time that clocks pass over.
LEMMA PassedFits ==
  ASSUME Timed!Settings, Timed!TypeOK, NEW c \in Nat, c > after, c \in Timed!Passed,
         Timed!Shows(c)
  PROVE  /\ Timed!Start <= c /\ Fitting(c) /\ shift = Minutes
         /\ Timed!Local(c) = c + Minutes
<1> USE Sizes
<1>1. after \in Nat /\ shift \in {-Minutes, 0, Minutes} /\ Change \in Nat /\ Change >= Minutes
  BY DEF Timed!Settings, Timed!TypeOK
<1>2. after < Change /\ c \in Change..Change + shift - 1
  BY DEF Timed!Passed
<1>3. shift = Minutes
  BY <1>1, <1>2
<1>4. Timed!Clock(c) = c /\ Timed!Start = after + 1 /\ Timed!Local(c) = c + Minutes
  BY <1>1, <1>2, <1>3 DEF Timed!Clock, Timed!Start, Timed!Local
<1> QED
  BY <1>1, <1>3, <1>4 DEF Fitting, Timed!Shows

\* The expression fires at the time found.
LEMMA FoundFires ==
  ASSUME Timed!Settings, CronInv, stage = "found"
  PROVE  Timed!Clock(local) > after /\ Timed!Fires(Timed!Clock(local))
<1> USE Sizes
<1>1. /\ after \in Nat /\ shift \in {-Minutes, 0, Minutes}
      /\ Change \in Nat /\ Change >= Minutes /\ local \in Nat
  <2>1. (Timed!LastDay + 1) * Timed!DayMinutes \in Nat
    BY InCalendar DEF CronInv
  <2> QED
    BY <2>1 DEF Timed!Settings, Timed!TypeOK, CronInv
<1>2. Timed!Start <= local /\ Fitting(local)
  BY DEF CronInv, NonePassed
<1>3. Timed!Clock(local) > after /\ Timed!Shows(local)
  BY <1>2 DEF Fitting, Timed!Shows
<1>4. CASE shift = Minutes /\ local \in Change..Change + Minutes - 1
  <2>1. Timed!Clock(local) = local
    BY <1>1, <1>4 DEF Timed!Clock
  <2>2. after < Change
    BY <1>1, <1>2, <1>4 DEF Timed!Start, Timed!Local
  <2>3. local \in Timed!Passed
    BY <1>4, <2>2 DEF Timed!Passed
  <2> QED
    BY <1>3, <2>1, <2>3 DEF Timed!Fires
<1>5. CASE ~(shift = Minutes /\ local \in Change..Change + Minutes - 1)
  <2>1. Timed!Local(Timed!Clock(local)) = local
    <3>1. CASE shift = Minutes
      BY <1>1, <1>5, <3>1 DEF Timed!Local, Timed!Clock
    <3>2. CASE shift = 0
      BY <1>1, <3>2 DEF Timed!Local, Timed!Clock
    <3>3. CASE shift = -Minutes
      BY <1>1, <3>3 DEF Timed!Local, Timed!Clock
    <3> QED
      BY <1>1, <3>1, <3>2, <3>3
  <2> QED
    BY <1>3, <2>1 DEF Timed!Fires
<1> QED
  BY <1>4, <1>5

LEMMA FoundFirst ==
  ASSUME Timed!Settings, CronInv, stage = "found",
         NEW c \in after + 1..Timed!Clock(local) - 1,
         Timed!Clock(Timed!Local(c)) = c, Timed!Shows(Timed!Local(c))
  PROVE  FALSE
<1> USE Sizes
<1>1. /\ after \in Nat /\ shift \in {-Minutes, 0, Minutes}
      /\ Change \in Nat /\ Change >= Minutes /\ local \in Nat
  <2>1. (Timed!LastDay + 1) * Timed!DayMinutes \in Nat
    BY InCalendar DEF CronInv
  <2> QED
    BY <2>1 DEF Timed!Settings, Timed!TypeOK, CronInv
<1>2. Timed!Start \in Nat /\ Timed!Start <= local /\ Fitting(local)
      /\ \A t \in Timed!Start..local - 1 : ~Fitting(t)
  BY InCalendar DEF CronInv, NonePassed
<1>3. c \in Nat /\ c > after /\ c < Timed!Clock(local)
  BY <1>1 DEF Timed!Clock
<1>4. Timed!Local(c) \in Nat /\ Timed!Start <= Timed!Local(c) /\ Fitting(Timed!Local(c))
  BY <1>3, FiringFits DEF CronInv
<1>5. local <= Timed!Local(c)
  BY <1>1, <1>2, <1>4
<1>6. Timed!Clock(Timed!Local(c)) = c
  OBVIOUS
<1>7. /\ shift = Minutes /\ Timed!Local(c) = c + Minutes
      /\ c \in Change..Change + Minutes - 1 /\ local \in Change..Change + Minutes - 1
      /\ c < local
  <2>1. CASE shift = 0
    BY <1>1, <1>3, <1>5, <1>6, <2>1 DEF Timed!Local, Timed!Clock
  <2>2. CASE shift = -Minutes
    BY <1>1, <1>3, <1>5, <1>6, <2>2 DEF Timed!Local, Timed!Clock
  <2>3. CASE shift = Minutes
    <3>1. /\ Timed!Local(c) = IF c < Change THEN c ELSE c + Minutes
          /\ Timed!Clock(local) = IF local < Change + Minutes THEN local ELSE local - Minutes
      BY <2>3 DEF Timed!Local, Timed!Clock
    <3> QED
      BY ONLY <1>1, <1>3, <1>5, <2>3, <3>1, Minutes \in Nat \ {0}
  <2> QED
    BY <1>1, <2>1, <2>2, <2>3
<1>8. Timed!Start <= c
  BY <1>1, <1>2, <1>3, <1>7 DEF Timed!Start, Timed!Local
<1>9. Fitting(c)
  <2>1. c \div Minutes = local \div Minutes
    BY <1>7, ChangeHour
  <2>2. Timed!Day(c) = Timed!Day(local) /\ Timed!Get("hour", c) = Timed!Get("hour", local)
    BY <1>1, <1>3, <2>1, SameHour
  <2>3. /\ Timed!Get("month", c) = Timed!Get("month", local) /\ Timed!Get("day",
           c) = Timed!Get("day", local)
        /\ Timed!Get("weekday", c) = Timed!Get("weekday", local)
    BY <2>2, SameDay
  <2>4. Timed!Get("minute", c) = Timed!Get("minute", Timed!Local(c))
    BY <1>3, <1>7, HourLaterSame
  <2>5. Timed!Clock(c) = c
    BY <1>1, <1>7 DEF Timed!Clock
  <2> QED
    BY <1>2, <1>3, <1>4, <2>2, <2>3, <2>4, <2>5 DEF Fitting, Timed!Matches, Timed!DayMatches
<1> QED
  BY <1>1, <1>2, <1>3, <1>7, <1>8, <1>9

\* What a firing is: what local clocks show, or what they pass over.
LEMMA FiringIs ==
  ASSUME NEW c, Timed!Fires(c)
  PROVE  \/ Timed!Clock(Timed!Local(c)) = c /\ Timed!Shows(Timed!Local(c))
         \/ c \in Timed!Passed /\ Timed!Shows(c)
BY DEF Timed!Fires

LEMMA NoneMissed == Timed!Settings /\ CronInv => Timed!FiresNext
<1> SUFFICES ASSUME Timed!Settings, CronInv PROVE Timed!FiresNext
  OBVIOUS
<1>1. /\ after \in Nat /\ Timed!Start \in Nat /\ Timed!Limit \in Nat /\ local \in Nat
      /\ Timed!TypeOK /\ Minutes \in Nat \ {0}
      /\ Change \in Nat /\ shift \in {-Minutes, 0, Minutes}
  <2>1. LastAfter \in Nat /\ Change \in Nat /\ Shifts \subseteq {-Minutes, 0, Minutes}
    BY DEF Timed!Settings
  <2>2. Timed!TypeOK
    BY DEF CronInv
  <2>3. after \in Nat /\ shift \in Shifts
    BY <2>1, <2>2 DEF Timed!TypeOK
  <2>4. Timed!Start \in Nat /\ Timed!Limit \in Nat
    BY <2>2, InCalendar
  <2>5. local \in Nat
    BY <2>2, InCalendar DEF Timed!TypeOK
  <2> QED
    BY <2>1, <2>2, <2>3, <2>4, <2>5, Sizes
<1>2. ASSUME stage = "found", NEW c \in after + 1..Timed!Clock(local) - 1, Timed!Fires(c)
      PROVE  FALSE
  <2>1. CASE Timed!Clock(Timed!Local(c)) = c /\ Timed!Shows(Timed!Local(c))
    BY <1>2, <2>1, FoundFirst
  <2>2. CASE c \in Timed!Passed /\ Timed!Shows(c)
    <3>1. c \in Nat /\ c > after /\ c < Timed!Clock(local)
      BY <1>1, <1>2 DEF Timed!Clock
    <3>2. Timed!Start <= c /\ Fitting(c) /\ shift = Minutes
      BY <1>1, <2>2, <3>1, PassedFits
    <3>3. local <= c
      BY <1>1, <1>2, <3>1, <3>2 DEF CronInv, NonePassed
    <3>4. Timed!Clock(local) <= local
      BY <1>1, <3>2 DEF Timed!Clock
    <3> QED
      BY <1>1, <3>1, <3>3, <3>4 DEF Timed!Clock
  <2> QED
    BY <1>2, <2>1, <2>2, FiringIs
<1>3. ASSUME stage = "never", NEW c \in after + 1..Timed!Limit + Minutes,
             Timed!Local(c) <= Timed!Limit, Timed!Fires(c)
      PROVE  FALSE
  <2>1. local > Timed!Limit /\ \A t \in Timed!Start..local - 1 : ~Fitting(t)
    BY <1>3 DEF CronInv, NonePassed
  <2>2. c \in Nat /\ c > after
    BY <1>1
  <2>3. CASE Timed!Clock(Timed!Local(c)) = c /\ Timed!Shows(Timed!Local(c))
    <3>1. Timed!Local(c) \in Nat /\ Timed!Start <= Timed!Local(c) /\ Fitting(Timed!Local(c))
      BY <1>1, <2>2, <2>3, FiringFits
    <3> QED
      BY <1>1, <1>3, <2>1, <3>1
  <2>4. CASE c \in Timed!Passed /\ Timed!Shows(c)
    <3>1. Timed!Start <= c /\ Fitting(c) /\ Timed!Local(c) = c + Minutes
      BY <1>1, <2>2, <2>4, PassedFits
    <3> QED
      BY <1>1, <1>3, <2>1, <2>2, <3>1
  <2> QED
    BY <1>3, <2>3, <2>4, FiringIs
<1> QED
  BY <1>2, <1>3, FoundFires DEF Timed!FiresNext

\* The expression fires at the time that next_fire gives, which is after the given one, and
\* at no time in between; and if next_fire gives none, it does not fire within the range.
THEOREM FiresFirst == Timed!Settings => (Timed!Spec => []Timed!FiresNext)
<1> SUFFICES ASSUME Timed!Settings PROVE Timed!Spec => []Timed!FiresNext
  OBVIOUS
<1>1. Timed!Init => CronInv
  BY CronBegins
<1>2. CronInv /\ [Timed!Next]_Timed!vars => CronInv'
  BY CronGoesOn
<1>3. CronInv => Timed!FiresNext
  BY NoneMissed
<1> QED
  BY <1>1, <1>2, <1>3, PTL DEF Timed!Spec

\* The search stays in its calendar.
THEOREM SearchTypes == Timed!Settings => (Timed!Spec => []Timed!TypeOK)
<1> SUFFICES ASSUME Timed!Settings PROVE Timed!Spec => []Timed!TypeOK
  OBVIOUS
<1>1. Timed!Init => CronInv
  BY CronBegins
<1>2. CronInv /\ [Timed!Next]_Timed!vars => CronInv'
  BY CronGoesOn
<1>3. CronInv => Timed!TypeOK
  BY DEF CronInv
<1> QED
  BY <1>1, <1>2, <1>3, PTL DEF Timed!Spec
================================================================================
