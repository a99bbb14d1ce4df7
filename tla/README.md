# A TLA+ model of the sandbox pool

This directory is a verification development for `sandbox_pool`: a service that keeps a pool of
cloud sandboxes warm, lends each of them to one caller at a time, and, on top of that, runs one
resident coding agent per user. Any number of replicas of the service share one database (SQLite,
Postgres or MySQL) and one cloud platform; no replica is a leader. Everything difficult follows
from that: every operation reads the database, awaits the platform for seconds, and writes the
database again, while other replicas, and other coroutines of the same replica, do the same to the
same records, and any of them may die in between.

Source paths below are relative to `src/sandbox_pool/`. `PROJECT.json` maps each definition to the
lines it translates.

## 1. Inventory

| component | state it keeps | operations | what must be right |
|---|---|---|---|
| **pool store** `store/repository.py`, `store/schema.py` | tables `sandboxes`, `leases`, `waiters`, `pool_kv`, `events` | conditional UPDATEs (`cas_*`) with a state plus a version, owner or lease; `reserve_slot`, `claim_ready`, `finish_resume`, `start_pause`, `enqueue` under the pool's lock row; `purge_history` | a lease and its sandbox agree; the records never exceed the limit |
| **lifecycle** `core/lifecycle.py` | spawned background tasks | `destroy`, `finish_destroy`, `end_lease` | a record is forgotten only when its sandbox is dead; nobody destroys what somebody holds |
| **allocator** `core/allocator.py` | per request: its waiter, the candidate it read | `acquire`, `_claim_ready`, `_claim_paused`, `_hand_over`, `renew`, `release`, `run_*` | exclusive leases, no reuse, the queue, no grant lost |
| **maintainer** `core/maintainer.py` | rows listed at the start of each part of a tick | expire, recover, adopt, fix orphans, retire, drain, pause, keep alive, replenish, reconcile, purge | stuck records come back, leases are reclaimed, nothing live is destroyed on stale data |
| **pool facade** `core/pool.py` | – | `drain`, `undrain`, `destroy_sandbox`, `stats`, `stop` | a draining pool empties |
| **cloud platform** `provider/base.py`, `provider/e2b_provider.py` | its sandboxes; here also a cache of handles | `create`, `warmup`, `pause`, `resume`, `set_timeout`, `kill`, `get_state`, `list` | every request has a timeout shorter than the `op_deadline` that covers it (`check_deadlines`) |
| **create breaker** `core/maintainer.py`, `pool_kv` | failure count, block time | count, open, close | an open breaker stops creation, a success resets it |
| **agent sandboxes** `agent/service.py`, `agent/maintainer.py`, `store/agent_repo.py` | rows with `agent_id`, `config_version`, `network_version`, `health_failures` | `sandbox_for`, `_boot`, `activate_sandbox`, rotation, health, `begin_reload` | at most one ACTIVE sandbox per agent; one that has just been given a task is not destroyed as idle |
| **agent tasks** `agent/service.py`, `agent/runner.py`, `store/agent_repo.py` | table `tasks`; per runner: the round it follows | `create_task`, heartbeat, take-over, `begin_abort`/`end_abort`, finish, `attach` | one task per session, an abort never hits another task, every task ends |
| **schedules** `agent/service.py`, `agent/maintainer.py`, `agent/cron.py` | table `schedules` | `claim_schedule`, `fire_schedule`, edit, cron evaluation | each due time fires once over all replicas |
| **pi bridge** `agent/pi_bridge/pi-bridge.mjs` | processes, runs, pending requests | start, prompt, abort, evict, reap | a run settles exactly once, the process limit |
| **engine translators** `agent/engines/` | parts already sent per message | `feed`, `flush` | text is neither repeated nor lost |
| **policy, HTTP interface, fakes, start-up** `agent/policy.py`, `api/`, `provider/fake*.py`, `config.py` | – | – | not modelled: construction of documents, parsing, test doubles |

How they interact. A request enters through `api/` and calls the allocator. The allocator and the
maintainer never talk to each other: both act on the store, and on the platform through the
provider, and use the lifecycle to destroy. All coordination is in the conditions of the UPDATEs.
The maintainer's loop runs on every replica. The agent subsystem uses the same store class, under
another pool name, with its own maintainer and its own states.

Hard behaviours: rows read before an await and used after it; take-over of an operation whose owner
is dead, or only slow; requests to the platform that fail after having taken effect; a process that
dies between two transactions; the platform reclaiming sandboxes by itself; two tables that one
logical operation changes in two transactions. `PROJECT.json` lists each of them, at its line,
under `hazards`, with the properties that cover it.

## 2. Modules

`EXTENDS` chain of the pool: `PoolStore` → `Lifecycle` → `Allocator`, `Maintainer` → `SandboxPool` →
`MCPool` (TLC) and `SandboxPoolProofs` (TLAPS). `Lending` is its abstract specification.
`WaitQueue` looks at the same pool from the requests that wait for it, and reduces a sandbox to its
state and its holder. `AgentTasks` stands on its own, with `TaskLife` as its abstract specification.
`AgentSandboxes` is about the sandbox in which these tasks run; `Follower`, `PiBridge`, `Schedules`
and `Cron` are parts of the agent service, and `LeaseTimeouts` is a part of the pool, that share no state with each other
and no variables: `MCParts` extends the bridge, instantiates the other four, and lets one of them move.

| module | models | correspondence |
|---|---|---|
| `PoolStore` | the tables and their transactions | `rows[r]` is a record of `sandboxes` (`known` = `provider_id IS NOT NULL`); `leases[l]` a record of `leases`; one transaction is one operator. The timestamps `op_deadline` and `expires_at` become the sets `overdue` and `lapsed` of rows and leases for which they have passed |
| `Lifecycle` | `core/lifecycle.py` and the platform | `co[c]` is a coroutine with the local variables that survive an await: `row`, `snap` (the row as read), `lease`, `to`. `pc` names the await. `cloud[r]` is the sandbox created for row `r` |
| `Allocator` | claim, hand-over, resume, release | a step from one await to the next is one action |
| `Maintainer` | a tick, one row or lease at a time | a tick lists rows and works on them in turn; an operation therefore starts by remembering the row it read, and anything may happen before its first write |
| `SandboxPool` | the whole pool | adds administration, deaths of coroutines, time, and sandboxes vanishing |
| `Lending` | what borrowers are promised | a sandbox is unborn, idle, held or spent; a lease is unused, active or ended |
| `MCPool` | TLC instances | small sets, symmetry and the `VIEW` |
| `WaitQueue` | the queue in `allocator.acquire`, the table `waiters`, and what the rest of the pool does to the sandboxes meanwhile | `pc[q]` is the await of request `q`; `seq[q]` and `waiter[q]` its row; `late` and `stale` stand for a passed `deadline` and an old `heartbeat_at`, `lost` for `_Heartbeat.lost`, `gone` for a client that left |
| `AgentTasks` | tasks of one agent: admission, runner, heartbeat, abort, take-over, end | a runner is a pair of a replica and a task; `pc` names its await, `loc` its local variables |
| `TaskLife` | what the row of a task promises | a task runs, may be asked to stop or pass its deadline, and ends once |
| `AgentSandboxes` | the sandboxes of one agent, one after the other: `sandbox_for`, `_boot`, admission, rotation, idle destruction, health, reset, `begin_reload`, reconcile | `st`, `owner`, `config` are columns of the row, `due` those whose `op_deadline` has passed; `boot[r]` and `by[r]` the await and the replica of the boot of `r`; an actor is a request, or the maintainer of a replica, with what it read (`seen`) |
| `Follower` | `attach`, `_follow_remote`, `_attach_snapshot`, both translators, `extract_result` | `task` is followed; `at` its await; `stream` the events not yet read, `tr` the translator, `shown` what the client has been sent. `turn`, `round`, `log`, `writing` are the session as its engine sees it |
| `PiBridge` | `pi_bridge/pi-bridge.mjs` | `proc`, `busy`, `runId`, `reload`, `starting` are fields of `Session`; `runs` the map of runs; `call[c]` an HTTP request and what it awaits; `stdin`, `stdout`, `work` a process of pi |
| `Schedules` | `update_schedule`, `fire_schedules`, `claim_schedule`, `fire_schedule` | `row` is the schedule; `tick[r]` what a maintainer has read, `edit[e]` what a PATCH has; `firing[f]` a call of `fire_schedule`, later its task; `claims` remembers what was claimed, and when |
| `Cron` | `agent/cron.py` | `expr` holds a text for each field, `local` is the variable of the loop of `next_fire` |
| `LeaseTimeouts` | `keepalive_ready`, `_keepalive`, `_restore_lease_timeout`; what borrowing, `renew` and `_use` do to the platform's timeout | `state`, `deadline` (`platform_deadline`) and `lease` are columns, `ends` is when the platform takes the sandbox away; `keep[r]` a keepalive by replica `r`, `borrow` the one that borrows, `use[h]` a renewal or an operation that connects |
| `MCQueue`, `MCTasks`, `MCSandboxes`, `MCParts` | TLC instances | small sets, symmetry, views; `MCParts` also a calendar |
| `SandboxPoolProofs`, `WaitQueueProofs`, `AgentTasksProofs`, `AgentSandboxesProofs`, `PiBridgeProofs`, `SchedulesProofs` (cron too), `FollowerProofs`, `PartsProofs` (lease timeouts too) | theorems | see section 4 |

Decisions a reader should know of:

* **Awaits.** A coroutine of Python's event loop runs atomically between two awaits; every
  transaction and every platform request is an await. An action is a transaction or a request
  together with the local computation after it. Work handed to `Lifecycle.spawn` continues in the slot that started
  it: coroutines of one replica are interchangeable.
* **Requests to the platform** (`Call`) succeed, or fail having taken effect or not. `create`
  failing after taking effect leaves a sandbox whose id no record knows.
* **Database errors.** `Store._retry` repeats a transaction only on "locked" and "busy", which means it
  was not committed. Another error ends the operation where it is: `Crash`, except where the code
  catches it (`_create_one`: `RecordProvider` and `MarkReady` may go to `bootFailed`).
* **Deadlines.** `DeadlinePasses(r)` may happen at any time, but not while a coroutine is inside a
  platform request for that row: `check_deadlines` refuses to start a configuration whose deadlines
  are not longer than the request timeouts. Nothing in the code bounds the time of the database
  writes around a request. `Prompt = FALSE` lets a live owner be overtaken there too; `Prompt = TRUE`
  assumes it is not.
* **A request that loses its claim** draws again up to ten times; in the model it may always stop,
  and another slot may begin.
* **Ages** (`max_age_s`, `idle_pause_after_s`, `orphan_grace_s`) are nondeterministic: any READY row may be idle long
  enough, any row may be too old, any orphan young enough to be left alone.

Of `WaitQueue`:

* `acquire` is a loop; an action is one turn of it up to the next await: `Admit`, `Count`, `Enqueue`,
  `Position`, `Turn`, `List`, the claims, and the ways out (`GiveUp`, `EndFailed`, `Revert`, `Hand`).
  The pool around it is given by what it may do to a sandbox, in the words of `SandboxPool`: `Pause`,
  `Replenish`, `LeaseEnds`, `Disturb` (retired, lost or destroyed), `Recover`, `Drain`.
* `quiet` is the count of waiters that `pause_idle` takes once per tick and relies on for every row.
* `Patient`, `Punctual`: no request's deadline passes; no live request's heartbeat is late.

Of `AgentTasks`:

* The tasks of one agent share one sandbox, and `Session` stands for the engine's sessions in it. What
  the engine does is taken from how `runner.py` and `engines/opencode.py` use it: an abort names a
  session and ends whatever runs there, idle means no round, and the answer to a task is what follows
  the last user message of its session (`talk`). The run ids of the pi engine, which name a round,
  are not modelled.
* A command to abort is `on the wire` from `SendAbort` until it arrives or is lost, also after its sender
  has given up or died. `fence[t]` is `abort_fence_until` while it has not passed, with the replica that
  set it; `Lapse` ends it, never while a command it is for may still arrive: the command is sent under
  `wait_for(20 s)`, the fence lasts 45 s. With `DbPrompt = FALSE` the database may take longer than the
  difference to answer `begin_abort`.
* `old` and `late` are the tasks whose `op_deadline` (heartbeat) and `deadline` have passed. `Punctual`: a
  live runner beats in time, so only tasks without one are taken over. `Patient`: no deadline passes.
* The sandbox's own life is that of its row, its process and one pending destruction (`Doom`, `FailTask`,
  `Destroy`); booting and replacing it belong to `AgentSandboxes`.
* A database error while the runner follows the round or records the end makes `run` record FAILED instead (`RequestFails`); if that
  fails as well (`FinishFails`), the task is left without a runner, to be taken over.

Of `AgentSandboxes`:

* A row is one sandbox in its life, and `Row` the sandboxes that an agent has one after the other. A request
  looks for a serving sandbox (`Look`), retires one that is too old or of an engine no longer wanted
  (`Retire`), reserves a row for a new one under the pool's lock (`Reserve`) or is admitted (`Admit`). The
  reasons to retire or to destroy as idle are left open: any sandbox may be old, or unused for long.
* Boots go on when the request that began them has left. A boot may fail at every step, its requests to
  the platform with or without effect, and its replica may die.
* The maintainer reads all rows once per tick (`List`) and judges each by that reading (`Judge`): what it
  then does may be based on a reading as old as a tick. `version` counts changes of the settings; `config`
  is what the row says is applied, `files` and `loaded` what the sandbox really has.

Of `PiBridge`:

* JavaScript runs a handler from one await to the next without interruption: this is a step. Every process
  has two queues; what it has said is read before its exit is reported, and `Dies` of a process whose stdin is
  closed happens within `killGraceMs` and the second that `startProc` adds to it, by SIGKILL if need be.
* `odd` are the sessions in which a command timed out, or an extension began a run of its own. `SparesBusy`,
  `EventsOfRun` and `RunsAreTrue` say nothing of them: after a timeout nobody knows whether pi took the command,
  and the bridge says so to its caller. `OneWriter` holds for them, too.
* `lastUsed` is left open: any idle session may be the one that is evicted, any unused one may be reaped.

Of `Follower`:

* Prompts may have the same text, so all have. An answer is a sequence of messages, a message a sequence of pieces; a
  tool, reasoning and usage take the same ways as text. The engine stores a message and publishes its event
  in one step, and a task ends when its round is over or has not begun: `EndedIsStopped` of `AgentTasks`, here assumed.
* The follower subscribes some time after it took the snapshot, or never, and is not connected again.

Of `Schedules`: a schedule has `overlap=skip`; name, prompt and duration are left out, and an update that changes
nothing stands for one of these. `beside[f]` are the firings that were between check and start while `f` was: for
two such firings the check cannot help, as the handbook says. `claims` is a history: each time a maintainer's conditional UPDATE
succeeds, it appends the run that was due and the time of the tick; a request that sets `next_run_at` empties it, for the timing is then another
one. A claim calls `fire_schedule` in the same step, unless the run is missed. `Disable` is the maintainer that can tell no next time: it
writes without a condition. It needs a `cron` timing, of which a zone is unknown to this host.

Of `LeaseTimeouts`: one sandbox, from READY to its end, and a clock. Every request to the platform is an await, and takes effect
relative to the time it arrives; what it was given was computed when it was sent. `fresh` replaces the version of the row: the replicas
that have read it, or written it themselves, since anybody else did. `met` and `crossed` remember what the properties
make an exception of. A resumption that lasts longer than `resume_timeout_s` is taken to be taken over.

Of `Cron`: the calendar is a parameter: minutes of an hour, hours of a day, and so on, and `MonthStarts`, the days on which the
months begin. A run gives it a week of two days, a year of two months, a day of five hours of two minutes, with months of one to three days,
so that there are days that some months lack. The zone moves its clocks forward, back or not at all, once; `Settings` says that it
does so on the hour and by an hour, which not every zone does (see "Known limits").

## 3. Runs

| run | instance | checks |
|---|---|---|
| `pool_two` | two coroutines on two replicas, two rows, two leases, `Limit = 1`, `Prompt = FALSE` | `TypeOK`, `ActiveLeaseHeld`, `CapacityKept`, `NoSilentLeak`, refinement `ImplementsLending` |
| `pool_one` | three coroutines (two on one replica), one row, one lease, one death, `Prompt = TRUE` | `UsableIsRunning`, `LeasedUndisturbed` |
| `pool_live` | one coroutine, one row, one lease, two deaths, fairness | `StuckIsRecovered`, `LeaseIsReclaimed`, `DrainEmpties`, `OrphanIsKilled` |
| `queue_faults` | two requests, two sandboxes, a queue of one; deadlines, late heartbeats, one failure | `TypeOK`, `NothingLeftBehind`, `AnsweredIsGranted` |
| `queue_strict` | `strict_fifo`, four requests, no failure, no pausing | `QueueBound`, `FirstCome` |
| `queue_live` | two requests, one sandbox, one failure, fairness | `EveryRequestAnswered`, `GhostsLeave` |
| `tasks_overtaken` | two replicas, two tasks, one session; late heartbeats, aborts that fail at will, no other failure | `OneTaskPerSession`, `AbortHitsItsTask` |
| `tasks_crash` | the same, heartbeats in time, deadlines, one death, stop, failed request or lost sandbox | `TypeOK`, `EndedIsStopped`, `OwnAnswer`, refinement `ImplementsTaskLife` |
| `tasks_live` | two replicas, one task, deadlines, two failures, fairness | `StopEnds` |
| `tasks_old_answer` | as `tasks_crash` | violates `OwnAnswerOrNone` |
| `sandboxes` | one replica with its maintainer, two requests, two sandboxes one after the other, a change of settings, one failure or death | `TypeOK`, `OneBound`, `ReloadIsAlone`, `RecordedIsKilled`, `TasksSpared` |
| `parts` | the bridge: two sessions, room for one process, two calls at a time, two processes, two runs and one fault in all; the follower: two tasks, one answer of two pieces, both engines; a schedule: two maintainers, one update and two firings at a time, three units of time; cron: the calendar above; timeouts: one sandbox, two replicas, one request of the holder at a time, four units of time | `PartTypeOK`; `OneWriter`, `RunsAreTrue`, `SparesBusy`, `EventsOfRun`; `OutputIsTrue`; `SkipKept`, `ClaimedOnce`; `FiresNext`; `TimeoutsTrue` |

What they show. An ACTIVE lease always holds its sandbox, whatever recovery, draining, retiring,
pausing, keeping alive and reconciling read before it was granted (`ActiveLeaseHeld`). A sandbox is
lent once in its life: "returned means destroyed" (part of `ImplementsLending`, and by itself
the theorem `Fresh`). The limit holds over all replicas
(`CapacityKept`). A record is deleted only when its sandbox is dead, unless the sandbox's id never
reached the record (`NoSilentLeak`); that remaining leak is found by reconcile (`OrphanIsKilled`).
Adopting a pause or resume whose owner died never yields a READY record of a paused sandbox
(`UsableIsRunning`), and no step of the pool pauses or kills a sandbox under an active lease
(`LeasedUndisturbed`). Seen from outside, the pool does nothing but add, lend, take back and give up
sandboxes (`ImplementsLending`): in particular the two transactions of `end_lease`, between which
the process may die, look like one step.

*The queue.* A request that ends without a sandbox leaves none behind and no GRANTED waiter
(`NothingLeftBehind`); one that is answered has its grant (`AnsweredIsGranted`); a queued request is answered,
by a sandbox or a refusal, and the waiter of one whose process died does not block the others
(`EveryRequestAnswered`, `GhostsLeave`). The bound on the queue and the order of service hold when nothing fails and
nothing is paused (`queue_strict`). Where something fails, the queue may exceed its bound by one: a waiter that
was GRANTED a sandbox which proves unusable comes back to a queue whose last place has been taken. And in strict
mode pausing between one request's look at its position and its claim lets the next one go first (see "Known limits").

*Tasks.* A session has one running task over all replicas (`OneTaskPerSession`). An abort, which names a session
only, ends no round but that of its own task, although it may be late and its sender may have lost the
task (`AbortHitsItsTask`): this is what the fence is for. What is recorded as succeeded or stopped is not
still running in the engine (`EndedIsStopped`), and what is recorded as the answer answers that prompt
(`OwnAnswer`), if the engine ever got it. A task ends once and for a reason, whoever ended it
(`ImplementsTaskLife`), and a task that should stop ends (`StopEnds`). The run that fails: a death between the
admission and the prompt makes a task succeed with the previous task's answer (`tasks_old_answer`).

*Agent sandboxes.* An agent never has two sandboxes that boot or take tasks, however many requests find none at the same
time (`OneBound`). A maintainer that read the tasks of a sandbox long ago does not take it from the task that
was admitted since, unless the sandbox is ill (`TasksSpared`), and does not reload its settings, which would abort that task
(`ReloadIsAlone`). No row is deleted while its sandbox runs (`RecordedIsKilled`).

*The bridge.* Two processes never write the file of one session (`OneWriter`): a start waits until the old process is gone,
and all calls that need one share a start. Neither eviction nor a reload nor the idle timer stops a process with a run
(`SparesBusy`). What a session's flags and the map of runs say is what pi does (`RunsAreTrue`), and the lines of a process are sent with the
id of the run they belong to, although they name none (`EventsOfRun`).

*Followers.* What a client is sent is of the task it follows, and of every message the beginning of the text, each piece
once and in its place (`OutputIsTrue`): with a snapshot that was read before events were subscribed to, and events that name a session only.

*Schedules.* Of two claims the later one is of a run that became due after the earlier claim, whatever its replica had read before another claim
or an update (`ClaimedOnce`): so no run is claimed by two replicas, and runs missed are not made up for. Tasks overlap only if their
firings were between check and start at the same time (`SkipKept`). The time a cron expression gives is after the given one, the expression
fires at it, and it fires at none in between, with months that lack a day, and clocks that are put forward or back by an hour (`FiresNext`).
To fire is that local clocks show a minute of the expression for the first time; or, for one who asks before the clocks go forward, that
they would have shown one, had they not. If there is none within `_MAX_SEARCH_DAYS`, the search says so.

*Lease timeouts.* When nobody is in the middle of a request, the platform keeps a leased sandbox until `expires_at` at least, although a keepalive
with its shorter timeout may have arrived after the borrower's, and a READY sandbox until `platform_deadline`, so that keepalive
does not pass over one that is about to vanish (`TimeoutsTrue`). The exceptions are under "Known limits".

**Known limits.** What the models showed of the code beyond what the runs check; each is reproduced by the changed
constant or property that is named.

* `strict_fifo`: `core/allocator.py:102` says requests are served in the order of arrival. With `PauseEnabled = TRUE` in
  `queue_strict`, `FirstCome` fails: a sandbox is paused between one request's look at its position and its claim.
* `agent/runner.py:239` says that only a process frozen while it writes the request could abort a later task. The end of the fence is computed before `begin_abort` waits
  for the database; with `DbPrompt = FALSE` in `tasks_overtaken` (a database that takes longer than 25 s), `AbortHitsItsTask` fails.
* `config_version = settings_version` is to mean that settings are applied. `ConfirmedIsApplied` of `AgentSandboxes` fails:
  a maintainer reloads with settings it read before newer ones were applied, and its request fails after it had its effect. Both
  versions are then equal, the engine has loaded the older settings, and no later tick retries. `sandboxes_config.cfg` shows it.
* "改名字、提示词等不打乱固定间隔任务的节奏" (`agent/service.py:959`: a new name does not disturb the schedule). `update_schedule` writes back
  every field it read. With two updates at a time: a rename reads `enabled = 1`, another update disables the schedule and sets
  `next_run_at` to NULL, the rename writes `enabled = 1` back and leaves `next_run_at`. The schedule is enabled and never fires.
* `core/maintainer.py:269` says that a borrower whose CAS comes after the second reading of a keepalive sets its timeout later than the keepalive
  did, so that nothing need be restored. A resumption writes twice. The sandbox is paused and resumed while the keepalive is under
  way, the keepalive's request arrives after the resumption, and its second reading finds RESUMING and restores nothing. The lease that
  follows has the short timeout until it is renewed or used on a new connection. `timeouts_resumed.cfg` shows it (`RereadSuffices`).
* What else `TimeoutsTrue` leaves out, each of which TLC finds to break it: a replica that dies between its request to the platform and its
  write or second reading; a keepalive, a renewal or a restoration whose request failed for the caller only, or a restoration that fails, for then
  nothing is restored or written; a renewal under way while somebody else sets a timeout that he computed from the lease before.
* `agent/engines/opencode.py:25` says the prompt is not part of the output. A follower that subscribes between the event of the user's message and
  that of its part does not know its role, and sends the prompt of its own round as text.
* `agent/cron.py:4` claims to agree with Vixie cron. There a day or weekday field that begins with a star, such as `*/2`, counts as
  a star; here it counts as restricted, and either of the two fields is enough. Of a local hour that the zone has twice only the first showing
  fires. A local time it does not have fires shifted, at the moment at which it would have been without the change, but only if `next_fire` is asked
  before the change; asked after it, it goes on from the local time that clocks then show. In `America/New_York`, `30 2 * * *` fires at 03:30 on 2026-03-08;
  `0,30 2 * * *` fires at 03:00, and the firing after this one is on the next day. `Fires` in `Cron` says just this (`Passed`).
* A request sets `next_run_at` to a time it computed before it writes. If the run of that time is claimed in between, it is claimed
  again after the write; `ClaimedOnce` counts from the write on. A run whose replica dies between the claim and the start is lost; nothing
  looks for it, and `ClaimedOnce` does not ask for it. `Disable` may also turn off a schedule that a request has given a good timing since it was read.
* `agent/cron.py:98` says that `next_fire` gives the next time after the given one. It does where the zone moves its clocks by hours,
  and on the hour; the proof of `FiresNext` needs that, since `next_fire` jumps to the beginning of the next hour, and looks at the clock only at minutes
  that match. In `Australia/Lord_Howe`, which moves them by half an hour, `15,35 2 * * *` after 01:50 of 2026-10-04 gives
  02:45 and passes over 02:35. With four minutes to the hour, `Shifts` of two of them and a text for the second and third, TLC
  finds `FiresNext` violated; `Settings` excludes such a zone.

**Taken as given.** Where the models let something not happen that the code alone does not exclude:

* `core/maintainer.py:187` gives every pause of a tick an `op_deadline` counted from the beginning of the tick, although pauses are made one after the other.
  A late one has less than `op_timeout_s` left, so that the margin `check_deadlines` asks for is not there. With `Prompt = TRUE` the deadline
  is nevertheless taken not to pass during the request.
* `agent/service.py:501` computes the end of a reload's hold before `begin_reload` waits for the database, as `begin_abort` does with its fence. And a `dispose` that
  timed out is taken not to act any more when the hold is released. `ReloadIsAlone` and `TasksSpared` rest on both.
* `Reap` of `PiBridge` stops a process only without a call or a start in progress. The code compares `lastUsed` alone; by default it waits
  ten minutes, longer than any call.
* `KeepCall` of `LeaseTimeouts` takes a request that fails, the question whether the sandbox exists, and its destruction together; `Draw` of the pool
  lists the READY and the PAUSED rows together. What is claimed after these is claimed on a condition.

**Bounds.** Two rows with `Limit = 1` is the smallest pool in which a sandbox is replaced and a
second one competes for its place; two leases are needed for reuse. `pool_two` has no `Crash`
because a coroutine that never moves again is a dead one, and with `Prompt = FALSE` its deadline
passes all the same. Three coroutines on one row are needed to take over a row while two operations of its former owner
are still under way. `MaxCrashes` bounds deaths where `Prompt = TRUE`: a live coroutine then
keeps its deadline from passing, so only a death causes take-over. Two coroutines and two replicas of
`pool_two` may be exchanged together: that, too, is a symmetry.
In the queue, a bound of one with two requests is the smallest that is exceeded, four requests give two
that wait behind two that are served; `MaxAttempts = 2` stands for the ten attempts of a claim: the last one, and
one that is not.
Two tasks in one session are a task and its successor; two replicas a task's owner and who takes it over.
`MaxFaults` bounds deaths, stops, failed requests and lost sandboxes together; failures of aborts are not
bounded where `Lossy` holds.
Two sandboxes of an agent are one and its successor. With the maintainers of two replicas TLC does
not finish; the theorems about `AgentSandboxes` hold for any number of them.
Room for one process with two sessions makes every start an eviction; a second process of a session is a restart, a second run
follows or competes with the first. One session is known from its file and the other one is created. Two tasks of a
session are the one that is followed and its successor, whose events must not be sent; two pieces can be in the wrong order.
Three units of time let a schedule become due, be missed and become due again.
Of leases, one `ttl_s` is shorter and one longer than `ready_platform_timeout_s`, which is two units so that half of it is one; a lease may
expire, be renewed to its hard deadline, and outlive a timeout that is too short, within four.
`StopEnds` is checked with one task and more failures: the tasks of a session run one after another
and an abort ends whatever rounds the session has, while each failure takes away a runner, a command or the sandbox
at another moment.

**VIEW.** Every UPDATE increments `version`, so the plain state space is infinite. The code compares
a version only with the one a coroutine has read. `UpToVersions` replaces versions by the relation of
each snapshot to its row (same, changed, stale), and hides a local variable at a `pc` after which no
step reads it. States with the same view have steps to states with the same views, so the quotient is exact.
`TypeOK`, the invariants and the action property depend on the view alone. The views of `MCQueue` and
`MCTasks` hide, likewise, what no later step and no property of the run reads: local variables at an await
after which they are not used, the clocks of what has ended; `Commands` also how a task ended and the
answers. `Moving` of `MCParts` is the part that moves, where of the bridge it hides how a
run ended, and whether the stdin of a process that is gone was closed. Where a run has both a view and symmetry, the view is an expression over all of the state in which replicas and
requests are treated alike, so that exchanging them before or after taking the view is the same.

**Deadlock** checking is off: a pool with its last lease id and row id used up, or a `draining` and
empty pool, may really stop; so may the queue when every request is answered, an agent without tasks, and each
of the parts when its bound on tasks, runs or time is reached.

**Assumption, and its limit.** `op_owner` is the name of a replica, not of an operation. With
`Prompt = FALSE` and two coroutines of one replica, a stalled pause or resume whose row has been taken over, adopted
and occupied again *by its own replica* finds "its" row unchanged, and writes PAUSED or LEASED for a sandbox in another
state. `UsableIsRunning` fails there, which is why it is checked with `Prompt = TRUE`: the deadlines
(60–120 s against request timeouts of 20–45 s) make it unlikely, nothing makes it impossible. The
exclusiveness of leases does not depend on it.

**Fairness.** A coroutine continues (`WF` on `Continue`): event loops run and every request has a timeout.
Each part of every tick visits every row and lease (`SF` on `Tick(A, x)`, because a visit is possible only at the moments
in which the slot is free). The platform does not refuse `kill` or `list` for ever (`SF` on
`KillWorks`, `KillReported`, `Listed`); without that a sandbox may live for ever and the code can only retry.
Deadlines pass (`WF`). No fairness is assumed for requests, leases being returned, draining, or anything only a user does:
a lease ends because it lapses and the maintainer expires it.
In `WaitQueue` requests step (`WF`), and the maintainer's parts and the end of leases recur; in `AgentTasks` runners step,
replicas list tasks to take over (`WF`), heartbeats without a runner run out, commands arrive or are lost, a dead
sandbox is found by its health checks. A round of `_follow` both checks for an abort and polls the engine,
so neither may be postponed for ever by the other (`SF` on seeing the end of the round). Nothing is assumed of
the engine: a round may last for ever, and users need not ask for anything.

## 4. Proofs

Every theorem holds for any value of the constants that satisfies the named assumptions
(`PoolStoreConstants`, `LifecycleConstants`, `SandboxPoolConstants`, `WaitQueueConstants`, `AgentTasksConstants`,
`AgentSandboxesConstants`, `PiBridgeConstants`, `PartNames`). Of modules without assumptions of their own, `TimingsAssumption`, and `Settings` of
`LeaseTimeouts`, of `Cron` and of `Follower`, are hypotheses of the theorems.

### The pool

`SandboxPoolProofs` proves, for any sets of replicas, coroutines, rows and leases, any `Limit`, and
both values of `Prompt`:

| theorem | statement |
|---|---|
| `Invariance` | `Spec => []IInv` |
| `TypeCorrect` | `Spec => []TypeOK` |
| `Exclusive` | `Spec => []ActiveLeaseHeld` |
| `Fresh` | `Spec => []NeverReused` |
| `Bounded` | `Spec => []CapacityKept` |
| `Implements` | `Spec => ImplementsLending` |

The argument. `ActiveLeaseHeld` is not inductive: it says nothing of a coroutine that read the row
earlier and is about to destroy it. `IInv` adds, for the tables, that a granted lease and its row name
each other for ever (`LeaseInv`, `RowInv`), and, for each suspended coroutine, what its local
variables still guarantee (`CoInv`): the decisive part is that a coroutine about to destroy either
holds a snapshot whose version is no longer current, or its row is not LEASED under an active
lease. This survives other coroutines' steps because any change of a row either raises its version
or makes it other than LEASED (`Onward`), and a lease that has ended stays ended. Each kind of change of the tables is a lemma about `StoreInv`
(`StoreMove`, `StoreGrant`, `StoreEnd`, …) that also says how it looks to a borrower
(`SeenLend`, `SeenReturn`, …): so one case analysis over the actions gives both invariance and refinement.
`CoWaits` covers every coroutine that does not move; one lemma per module covers the
one that does.

The same module extends it to the platform, for the same sets of replicas, coroutines, rows and leases:

| theorem | statement |
|---|---|
| `NoneLeaks` | `Spec => []NoSilentLeak` |
| `UsableRuns` | `Prompt => (Spec => []UsableIsRunning)` |
| `LeasedUntouched` | `Prompt => (Spec => LeasedUndisturbed)` |

`LeakInv` says what a coroutine that destroys a sandbox knows (`Held`): the row it has taken to DESTROYING never comes
back, a row whose version it knows has the `provider_id` it has read, and before it deletes the record of a known
sandbox, that sandbox is dead. What could break this is a `provider_id` recorded after the decision not to kill: `Alone` (one
coroutine creates the sandbox of a record) and the version that `RecordProvider` raises exclude it. `Tables` and
`Platform` say how everything but `RecordProvider` changes the state, so that `OneMoves` leaves only the coroutine that moves.

`OwnInv` needs `Prompt`: an operation whose deadline does not pass while it is alive owns its row to the end
(`Owns`, `Sole`), and who decides about a transitional row on a current reading decides about a row nobody works on (`Decides`).
So the checks of `op_owner`, which names a replica and not an operation, never confuse two operations. `Knows` is what the answers of
the platform still mean when they are used. Every lemma about a step also says that the step changes no sandbox under a LEASED
row (`Undisturbed`), which gives `LeasedUntouched`. Without `Prompt` both are false: see "Assumption, and its limit" in section 3.

### The queue

`WaitQueueProofs`: `Invariance` (`Spec => []IInv`), `TypeCorrect`, `NoneLeft` (`NothingLeftBehind`), `GrantsKept`
(`AnsweredIsGranted`), for any number of failures and both modes; and `BoundKept`
(`NothingFails /\ Spec => []QueueBound`), for the mode without `strict_fifo` when nothing fails. `IInv` adds to the types that a sandbox
has at most one holder, which is at an await where it works on it (`HoldInv`), and that a waiter is GRANTED
exactly from the claim to the answer (`WaiterInv`). The proof of `BoundKept` counts: only `Enqueue` adds a waiter.

For strict mode the module proves `StrictBoundKept` (`Calm /\ Spec => []QueueBound`) and `InOrder` (`Calm /\ Spec => FirstCome`), for
any number of requests and sandboxes. `Calm` says what strict mode promises its order for: nothing fails, no deadline passes, no sandbox is
paused. `SeqInv` says that `queue_seq` grows and no two requests share one, so a newcomer is behind everybody. `TurnInv` says that who found it its
turn still has, until its compare-and-set, a sandbox for each request in front of it and one for itself. Every step is a
move of one request of three kinds: it goes on within the queue (`Onwards`), takes a sandbox (`Serves`), or joins
(`Joins`). The second removes one request and one sandbox at once. It could take the sandbox from under another whose
turn it is only if it were behind that one; but then more sandboxes are left than wait in front of it, the other among them.

No condition of `Calm` can be dropped, from either theorem: with four requests and two sandboxes TLC finds a counterexample without
any one of them. A waiter that was expired while it was claiming (`late` or `stale`) no longer counts, yet its claim is granted
(`_grant_waiter` accepts TIMEOUT): who waits behind it, or was admitted meanwhile, loses a sandbox it counted on. A pause, or a failed
sandbox, takes one away after the turn was found or the newcomer admitted.

### Tasks

`AgentTasksProofs`, for any replicas, tasks, sessions and number of failures:

| theorem | statement |
|---|---|
| `CoreInvariance` | `Spec => []Core` |
| `TypeCorrect` | `Spec => []TypeOK` |
| `OneTask` | `Spec => []OneTaskPerSession` |
| `AbortHits` | `DbPrompt` implies `Spec => AbortHitsItsTask` |
| `Implements` | `Spec => ImplementsTaskLife` |
| `EndedStopped` | `Punctual` implies `Spec => []EndedIsStopped` |
| `AnswersOwn` | `Punctual` implies `Spec => []OwnAnswer` |

A runner that lost its task goes on until it notices, so what it knows must be tied to the row without its
owning it: the session it works in is that of its task (`SessInv`), and one it has created but not recorded is nobody
else's, which is why recording it keeps a session to one task. `AbortHits` needs `FenceInv`: a command on the wire, or
about to be, has a fence on its task; while there is a fence no other task runs in the session; and a replica
that may take its fence away, because it found none before it, is the only one with a command. Setting the
fence keeps the second part because the task still runs and is the only one of its session; taking it
away keeps the first because of the third. Only `Lapse` needs `DbPrompt`: without it, TLC finds a
counterexample (known limits). `Implements` needs that a runner which wants a task stopped has seen the reason (`ReasonInv`).

The last two rest on `EndInv`. Until a task is prompted its creator is alone with it and it has not ended, unless its sandbox is
being destroyed (`EarlyInv`). So once a runner has seen the session idle, or an end has been recorded, no round of
the task begins any more (`IdleInv`); and while a task runs, nothing follows its prompt in its session (`TalkInv`), because who
else may prompt there would be a second running task of the session. What is read is then the answer (`AnswerInv`), and a
success has a session (`DoneInv`). Only `GrowOld` needs `Punctual`: without it, TLC finds a task that is taken over before its first
runner has prompted, is found idle and recorded as ended, and is prompted after that (both properties fail).

### Agent sandboxes

`AgentSandboxesProofs`, for any replicas, requests and sandboxes, any `Limit`, any number of settings and failures:

| theorem | statement |
|---|---|
| `Invariance` | `Spec => []IInv` |
| `TypeCorrect` | `Spec => []TypeOK` |
| `OneSandbox` | `Spec => []OneBound` |
| `ReloadsAlone` | `Spec => []ReloadIsAlone` |
| `NoneForgotten` | `Spec => []RecordedIsKilled` |
| `TasksAreSpared` | `Spec => TasksSpared` |

`OneBound` is inductive with the types: whoever makes a row bound holds the lock of the pool and has found none. The others
are about decisions that rest on an old reading. `Spare` says what is left of one: a maintainer about to destroy a serving
sandbox whose reading is still fresh has no task there, because an admission writes the row and ends the freshness.
`Alone` says the same of a reload: while its replica holds the row and the deadline has not passed, nobody is admitted;
when somebody else may act, the sandbox no longer serves. `RowInv` follows a row through its destruction: whoever destroys it has it in
DESTROYING, whoever deletes it has seen the sandbox dead, and a boot that has not recorded an id has none to forget. Types
are proved in three parts (`Tables`, `Ownership`, `Readings`), which different steps change.

### The bridge

`PiBridgeProofs`, for any sessions and calls, and any number of processes, runs and failures:

| theorem | statement |
|---|---|
| `TypeCorrect` | `Spec => []TypeOK` |
| `WritersAlone` | `Spec => []OneWriter` |
| `BusyAreSpared` | `Spec => SparesBusy` |
| `RunsTrue` | `Spec => []RunsAreTrue` |
| `EventsCarryRun` | `Spec => []EventsOfRun` |

`ProcInv` ties a session to its process and back. A live process is the one its session
names, so no second one is alive; `Spawn` keeps this because it awaits `OldIsGone`. `WhoInv` adds
that calls, processes and the lines of processes name sessions.

`RunsAreTrue` compares the flags of a session with its process, but between the two lie two queues, of commands to pi
and of its lines, and nothing in a line names a run. So `RunInv` says which of three a session is: resting (no run, and nothing about one in either queue),
lost (its prompt went to a process that is being stopped and does not read it), or active, and then how far its run is:
the one place in its process in which it is found, stdin, the work of pi, or stdout, where it has settled or was declined. Each step moves a session along these, and `EventsCarryRun`
is what the active case says of the line to be read next.

### Schedules and cron

`SchedulesProofs`, for any number of replicas, updates and firings: `SkipIsKept` (`SkipKept`), from `Beside`, the same of all firings
that have passed the check and not only of those that run; and `ClaimsOnce` (`Spec => []ClaimedOnce`), for any `Timings`
with `TimingsAssumption`, which says that periods are positive and a first time exists. `ClaimInv` adds that what a row gives as its next
time lies after every claim. A claim keeps both, however old its reading (`OneMoreClaim`): since the UPDATE is conditional, the run it claims is the one the row
still names, which lies after the claims before it, and the row then names one after this claim. Without that condition
the run that is appended may be one that another replica has claimed.

The same module proves `FiresFirst` (`FiresNext`), for any calendar, expressions and zone with `Settings`, and with it the types of `Cron`. That the
expression fires at the time found (`FoundFires`) has two cases: it lies in the hour that the zone does not have, or it is what local clocks show at that moment. That it fires at none before rests on the invariant
`NonePassed`: no time between the given one and the minute looked at fires. That a jump keeps it is arithmetic: all minutes of a month have
the month of its first (`MonthIndex` is a `CHOOSE`, so there is exactly one), all of a day its day, all of an hour its hour; and a clock that lies between two
local times shows a local time between them, or one that the zone has twice. That is where a change by hours, on the hour, is needed.

Types: `TypeCorrect` (`Spec => []TypeOK`), where the bound of the times needs that one of the timings is the longest (`LongestExists`: `LongestTiming` is a
maximum, and an infinite set may have none), and `SearchTypes` for `Cron`.

### Followers

`FollowerProofs`, for either engine, any number of tasks, messages and pieces with `Settings` (a text has a piece at least):
`Invariance`, `TypeCorrect` (`Spec => []TypeOK`) and `OutputTrue` (`Spec => []OutputIsTrue`). Between what the engine stores and what the
client has been sent lie a snapshot, a queue of events, and what the translator has noted; `IInv` relates them one by one.
`LogInv` and `SnapshotInv`: messages are in order, and one that has been read with its text is complete. `StreamInv`: each event in the
queue goes on where the one before it stopped (`Linked`), and the last one is where the engine is (`LastEvent`). `OutInv`: what has been sent, or
is held back until the row is asked again (`Out`), is a beginning of every message, and nothing of a message to come. `ReadInv` joins
the two: the next event goes on where the client is (`NextEvent`), or, if the queue is empty, the engine does (`NoEvent`), unless the
opening of that message was missed. Then the client gets it as a whole when it is closed, if at all, and it has had nothing of it before. `RoundInv` is
for `Check`: no event of a later round is read before the row has said that the task has ended.

### Lease timeouts

`PartsProofs` holds them, too, under the names of an instance `Kept`, for any replicas, requests of the holder, and timeouts with `Settings`:
`KeptTypeCorrect` (`Spec => []TypeOK`) and `TimesTrue` (`Spec => []TimeoutsTrue`). `TimeoutsTrue` speaks of moments in which
nobody has a request under way. `KeptInv` says what holds
in between: a request sent with what was computed from the lease grants enough whenever it arrives (`WillGrant`), and what the
database says is granted already, or somebody who shortened it has still to read the row again (`Granted`, `ReadyGranted`).

### The parts together

In `MCParts` one of five parts moves and the others stand still. `PartsProofs` shows for each part that the composition behaves as that module
alone (`BridgeBehaves`, `FollowersBehave`, `SchedulesBehave`, `SearchesBehave`, `TimeoutsBehave`), and so has its properties:

| theorem | statement |
|---|---|
| `SkipIsKept` | `PartsSpec => []SkipKept` |
| `ClaimsOnce` | `PartsSpec => []ClaimedOnce` |
| `FiresFirst` | `PartsSpec => []FiresNext` |
| `TimesAreTrue` | `PartsSpec => []TimeoutsTrue` |
| `OutputTrue` | `PartsSpec => []OutputIsTrue` |
| `BridgeIsTrue` | `PartsSpec => [](OneWriter /\ RunsAreTrue)` |
| `BridgeSpares` | `PartsSpec => SparesBusy /\ EventsOfRun` |
| `PartTypeCorrect` | `PartsSpec => []PartTypeOK` |

`PartNames` says which parts `Parts` may name. The definitions of `MCParts` give the settings that the theorems of the parts ask for
(`TimingsAreSound`, `CronIsSound`, `LongestIsThere`).

### Only model-checked

All liveness (`StuckIsRecovered`, `LeaseIsReclaimed`, `DrainEmpties`, `OrphanIsKilled`, `EveryRequestAnswered`, `GhostsLeave`, `StopEnds`): temporal
proofs under fairness are beyond the prover. Every invariant and every action property of the passing runs is proved, under the hypotheses
above.

## 5. Order of work, and what is left

Modelled in this order: the pool, the queue, agent tasks, agent sandboxes, followers, the bridge, schedules and cron, lease timeouts.
What a next step would add:

1. The handle cache of `provider/e2b_provider.py`, and the create breaker.
2. The wire between `AgentTasks` and its engines: run ids of pi in the runner, with `PiBridge` below it.
3. What strict mode still promises when a waiter is expired during its claim: a weaker order and bound than `FirstCome` and `QueueBound`.

## 6. Not modelled

* **Create breaker**: a counter in `pool_kv` that delays creations; no other state depends on it.
* **Network and permission policy** (`agent/policy.py`), configuration files of the engines: pure construction of documents.
* **Agent registry**: creating and deleting agents, and who may see them.
* Of the bridge: waiting for the MCP cache, answers to dialogs, warm-up, shutdown. Of translators: tools, reasoning, usage, permissions.
* Statistics, events and logging; HTTP, authentication and body limits; database engine options (a transaction is an atomic
  step because SQLite runs `BEGIN IMMEDIATE` and the other engines lock the pool's row); the test doubles.
