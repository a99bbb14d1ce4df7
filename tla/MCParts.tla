-------------------------------- MODULE MCParts --------------------------------
(***************************************************************************)
(* Four parts of the agent service and one of the pool, which share no     *)
(* state, each checked by itself: the bridge, or one of the other parts,   *)
(* moves; the rest stays as it begins.                                     *)
(***************************************************************************)
EXTENDS PiBridge, Integers, TLC

CONSTANTS
  Parts,
  MaxTask, MaxMessages, MaxPieces,
  Replica, Edit, Firing, MaxTime, Grace,
  Minutes, Hours, Weekdays, Months, SearchDays, Change, LastAfter,
  Holder, ReadyTimeout, Ttls, LeaseMax, Margin, MaxClock

VARIABLES
  part,    \* the part that moves
  engine, turn, db, round, log, writing, task, at, link, stream, read, tr, held, shown,
  now, row, tick, edit, firing, beside, claims,
  expr, shift, after, local, stage,
  clock, state, deadline, fresh, lease, ends, keep, borrow, use, met, crossed

Timings == {[kind |-> "every", units |-> 1], [kind |-> "cron", units |-> 2]}

\* Two months a year, the first of three days, the second of one or two; the zone goes
\* forward or back by an hour.
MonthStarts == <<0, 3, 5, 8, 9, 12, 14>>
Shifts == {0, 2, -2}
Item(base, from, to, step) == [base |-> base, from |-> from, to |-> to, step |-> step]
Star == Item("star", 0, 0, 0)
Number(n) == Item("number", n, n, 0)
Texts ==
  [minute |-> {{Star}, {Number(1)}, {Item("star", 0, 0, 2)}},
   hour |-> {{Star}, {Number(1)}, {Item("number", 1, 1, 2), Number(4)}},
   day |-> {{Star}, {Number(2)}, {Number(3)}, {Item("range", 1, 2, 0)}},
   month |-> {{Star}, {Number(2)}},
   weekday |-> {{Star}, {Number(1)}, {Number(2)}}]

Attached == INSTANCE Follower
Scheduled == INSTANCE Schedules
Timed == INSTANCE Cron
Kept == INSTANCE LeaseTimeouts

(* The parts that may be named.                                            *)
ASSUME PartNames == Parts \subseteq {"bridge", "follower", "schedule", "cron", "timeouts"}

\* The times of the fifth part are sound.
ASSUME TimeoutSettings == Kept!Settings

\* So are the calendar, the zone and the texts of the fourth.
ASSUME CronSettings == Timed!Settings

\* A text of the second part has a piece.
ASSUME FollowerSettings == Attached!Settings

\* Time passes in the third part.
ASSUME ScheduleSettings == MaxTime \in Nat \ {0}

followerVars == <<engine, turn, db, round, log, writing, task, at, link, stream, read, tr,
                  held, shown>>
scheduleVars == <<now, row, tick, edit, firing, beside, claims>>
cronVars == <<expr, shift, after, local, stage>>
timeoutVars == <<clock, state, deadline, fresh, lease, ends, keep, borrow, use, met, crossed>>
partVars == <<vars, part, followerVars, scheduleVars, cronVars, timeoutVars>>

\* The bridge knows one session from its file; others are created.
PartsInit ==
  /\ part \in Parts
  /\ Init /\ Cardinality(known) = (IF part = "bridge" THEN 1 ELSE 0)
  /\ Attached!Init /\ Scheduled!Init /\ Timed!Init /\ Kept!Init

BridgeMoves ==
  /\ part = "bridge"
  /\ Next
  /\ UNCHANGED <<part, followerVars, scheduleVars, cronVars, timeoutVars>>
FollowerMoves ==
  /\ part = "follower"
  /\ Attached!Next
  /\ UNCHANGED <<part, vars, scheduleVars, cronVars, timeoutVars>>
ScheduleMoves ==
  /\ part = "schedule"
  /\ Scheduled!Next
  /\ UNCHANGED <<part, vars, followerVars, cronVars, timeoutVars>>
CronMoves ==
  /\ part = "cron"
  /\ Timed!Next
  /\ UNCHANGED <<part, vars, followerVars, scheduleVars, timeoutVars>>
TimeoutsMove ==
  /\ part = "timeouts"
  /\ Kept!Next
  /\ UNCHANGED <<part, vars, followerVars, scheduleVars, cronVars>>

PartsNext == BridgeMoves \/ FollowerMoves \/ ScheduleMoves \/ CronMoves \/ TimeoutsMove
PartsSpec == PartsInit /\ [][PartsNext]_partVars

\* What the part that moves has of the state, less what neither its steps nor the
\* properties read any more: how a run ended, and the stdin of a process that is gone.
BridgeView ==
  LET over == {r \in Run : runs[r] \in {"settled", "lost"}}
      gone == {p \in Proc : life[p] = "gone"}
  IN <<known, proc, busy, runId, reload, starting, call, life, home, pi, odd, faults,
       [r \in Run |-> IF r \in over THEN "over" ELSE runs[r]], stopping \ gone>>
Moving ==
  <<part,
    CASE part = "bridge" -> BridgeView
      [] part = "follower" -> followerVars
      [] part = "schedule" -> scheduleVars
      [] part = "cron" -> cronVars
      [] part = "timeouts" -> timeoutVars>>

\* The replicas of the gateway are called like sessions of the bridge, the firings of a
\* schedule like its calls: the fewer permutations, the faster TLC.
Symmetric == Permutations(Session) \cup Permutations(Call)

-----------------------------------------------------------------------------
(* Properties of the other parts, while they move.                          *)

\* Every variable of the part has its type, and a maintainer claims only what was due.
PartTypeOK ==
  CASE part = "bridge" -> TypeOK
    [] part = "follower" -> Attached!TypeOK
    [] part = "schedule" -> Scheduled!TypeOK
    [] part = "cron" -> Timed!TypeOK
    [] part = "timeouts" -> Kept!TypeOK

\* What a client is sent is, message by message, what the engine said for its task.
OutputIsTrue == part = "follower" => Attached!OutputIsTrue

\* A run of a schedule is claimed once, and missed runs are not made up for.
ClaimedOnce == part = "schedule" => Scheduled!ClaimedOnce

\* Two tasks of a schedule overlap only if both were between check and start at once.
SkipKept == part = "schedule" => Scheduled!SkipKept

\* The time that a cron expression gives is the next one at which it fires.
FiresNext == part = "cron" => Timed!FiresNext

\* What the database says of the end of a sandbox, the platform grants.
TimeoutsTrue == part = "timeouts" => Kept!TimeoutsTrue

\* A borrower whose write comes after the second reading needs no help of the keepalive.
RereadSuffices == part = "timeouts" => Kept!RereadSuffices
=============================================================================
