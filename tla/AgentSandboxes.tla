---------------------------- MODULE AgentSandboxes ----------------------------
(***************************************************************************)
(* The sandboxes of one agent: how a request finds or boots one            *)
(* (agent/service.py), how the maintainer of every replica retires,        *)
(* destroys and reloads them (agent/maintainer.py), and how tasks are      *)
(* admitted to them (store/agent_repo.py).                                 *)
(*                                                                         *)
(* Replicas (their maintainers), requests and boots are actors.  What an   *)
(* actor has read of a row may be old: `fresh` holds the actors whose      *)
(* version is still that of the row, so every write to a row makes those   *)
(* that have read it stale.  Ages, idle times, health and the choice of an *)
(* engine are not variables: a sandbox may be found too old, idle, ill or  *)
(* of an engine that is not wanted any more at any moment.                 *)
(***************************************************************************)
EXTENDS Naturals, FiniteSets

CONSTANTS
  Row, Replica, Request,
  NoRow, NoReplica,
  Limit,        \* agent_max_sandboxes
  MaxVersion,   \* bound on settings_version
  MaxFaults     \* bound on failed requests, lost sandboxes and deaths

ASSUME AgentSandboxesConstants ==
  /\ NoRow \notin Row /\ NoReplica \notin Replica
  /\ Replica \cap Request = {}
  /\ MaxVersion \in Nat \ {0} /\ MaxFaults \in Nat /\ Limit \in Nat

VARIABLES
  version,  \* agents.settings_version
  st,       \* Row -> sandboxes.state; "absent" before, "gone" after
  owner,    \* Row -> op_owner
  due,      \* rows whose op_deadline has passed
  config,   \* Row -> config_version
  known,    \* rows with a provider_id
  cloud,    \* Row -> the sandbox at the platform
  files,    \* Row -> version of the settings in its files
  loaded,   \* Row -> version of the settings its engine has loaded
  boot,     \* Row -> where its _boot is
  by,       \* Row -> the replica that boots it
  killers,  \* what finish_destroy is about to do: <<row, replica, "kill" or "delete">>
  pc,       \* Replica \cup Request -> where it is
  seen,     \* Replica \cup Request -> what it has read
  fresh,    \* those whose row has not changed since
  down, faults

rows == <<st, owner, due, config, known>>
box == <<cloud, files, loaded>>
boots == <<boot, by>>
actors == <<pc, seen, fresh>>
bounds == <<down, faults>>
vars == <<version, st, owner, due, config, known, cloud, files, loaded,
          boot, by, killers, pc, seen, fresh, down, faults>>

Actor == Replica \cup Request
Version == 0..MaxVersion

Transitional == {"CREATING", "WARMING", "DESTROYING"}
BOUND_STATES == {"CREATING", "WARMING", "ACTIVE"}
SERVING == {"ACTIVE", "RETIRING"}
States == Transitional \cup SERVING \cup {"absent", "gone"}

\* row: the row read, with its state and config_version; version: the settings read.
Reading == [row : Row \cup {NoRow}, st : States, config : Version, version : Version]

\* A row that was chosen, and the settings to apply; the rest is not used again.
Chosen(r, v) == [row |-> r, st |-> "absent", config |-> 0, version |-> v]
Nothing == Chosen(NoRow, 0)

MaintainerAt ==
  {"none", "list", "running", "fail", "ill", "reread", "destroy", "abandon", "retire",
   "reload", "write", "dispose", "confirm", "release"}
RequestAt == {"look", "retire", "reserve", "admit", "RUNNING", "done"}
BootAt ==
  {"none", "create", "record", "prepare", "activate", "discard", "undo"}

\* A row in transition has an owner, and only a row with an owner has a deadline.
TypeOK ==
  /\ version \in Version
  /\ st \in [Row -> States]
  /\ owner \in [Row -> Replica \cup {NoReplica}]
  /\ due \subseteq {r \in Row : owner[r] # NoReplica}
  /\ \A r \in Row : st[r] \in Transitional => owner[r] # NoReplica
  /\ config \in [Row -> Version]
  /\ known \subseteq Row
  /\ cloud \in [Row -> {"none", "running", "dead"}]
  /\ files \in [Row -> Version] /\ loaded \in [Row -> Version]
  /\ boot \in [Row -> BootAt]
  /\ by \in [Row -> Replica \cup {NoReplica}]
  /\ killers \subseteq Row \X Replica \X {"kill", "delete"}
  /\ pc \in [Actor -> MaintainerAt \cup RequestAt]
  /\ seen \in [Actor -> Reading]
  /\ fresh \subseteq Actor
  /\ down \subseteq Replica
  /\ faults \in 0..MaxFaults

Init ==
  /\ version = 1
  /\ st = [r \in Row |-> "absent"]
  /\ owner = [r \in Row |-> NoReplica]
  /\ due = {}
  /\ config = [r \in Row |-> 0]
  /\ known = {}
  /\ cloud = [r \in Row |-> "none"]
  /\ files = [r \in Row |-> 0] /\ loaded = [r \in Row |-> 0]
  /\ boot = [r \in Row |-> "none"]
  /\ by = [r \in Row |-> NoReplica]
  /\ killers = {}
  /\ pc = [a \in Actor |-> IF a \in Request THEN "look" ELSE "none"]
  /\ seen = [a \in Actor |-> Nothing]
  /\ fresh = {}
  /\ down = {} /\ faults = 0

-----------------------------------------------------------------------------
Fault ==
  /\ faults < MaxFaults
  /\ faults' = faults + 1

Running(r) == {q \in Request : pc[q] = "RUNNING" /\ seen[q].row = r}
Bound == {r \in Row : st[r] \in BOUND_STATES}
Serving(r) == st[r] \in SERVING

\* In use by a reload, and not for too long.
Held(r) == owner[r] # NoReplica /\ r \notin due

At(a, here) == pc[a] = here
Goto(a, to) == pc' = [pc EXCEPT ![a] = to]
See(a, s) == seen' = [seen EXCEPT ![a] = s]

\* Actors that have not read row r.
Others(r) == {a \in Actor : seen[a].row # r}

\* A write to row r: its version goes up.
Written(r) == fresh' = fresh \cap Others(r)

\* The actor is done, and has no use for what it has read.
Rest(a, to) == Goto(a, to) /\ See(a, Nothing)
Leave(a, to) == Rest(a, to) /\ fresh' = fresh \ {a}

-----------------------------------------------------------------------------
(* Destroying a row.                                                        *)

\* destroy, after its version check: replica m will kill the sandbox, if its id is
\* known, and delete the row.
Destroying(r, m) ==
  /\ st' = [st EXCEPT ![r] = "DESTROYING"]
  /\ owner' = [owner EXCEPT ![r] = m]
  /\ due' = due \ {r}
  /\ killers' = killers \cup {<<r, m, IF r \in known THEN "kill" ELSE "delete">>}

Kill(r, m) ==
  /\ <<r, m, "kill">> \in killers
  /\ cloud' = [cloud EXCEPT ![r] = "dead"]
  /\ killers' = (killers \ {<<r, m, "kill">>}) \cup {<<r, m, "delete">>}
  /\ UNCHANGED <<version, rows, files, loaded, boots, actors, bounds>>

\* Mutated form of KillFails: the row is deleted all the same.
KillFailsDeletes(r, m) ==
  /\ <<r, m, "kill">> \in killers
  /\ Fault
  /\ killers' = (killers \ {<<r, m, "kill">>}) \cup {<<r, m, "delete">>}
  /\ UNCHANGED <<version, rows, box, boots, actors, down>>

\* The row stays DESTROYING until its deadline; the kill may have worked.
KillFails(r, m) ==
  /\ <<r, m, "kill">> \in killers
  /\ Fault
  /\ killers' = killers \ {<<r, m, "kill">>}
  /\ \/ UNCHANGED cloud
     \/ cloud' = [cloud EXCEPT ![r] = "dead"]
  /\ UNCHANGED <<version, rows, files, loaded, boots, actors, down>>

Delete(r, m) ==
  /\ <<r, m, "delete">> \in killers
  /\ killers' = killers \ {<<r, m, "delete">>}
  /\ IF st[r] = "DESTROYING" /\ owner[r] = m
     THEN /\ st' = [st EXCEPT ![r] = "gone"]
          /\ owner' = [owner EXCEPT ![r] = NoReplica]
          /\ due' = due \ {r}
          /\ Written(r)
     ELSE UNCHANGED <<st, owner, due, fresh>>
  /\ UNCHANGED <<version, config, known, box, boots, pc, seen, bounds>>

-----------------------------------------------------------------------------
(* A request: sandbox_for, then the admission of its task.                  *)

\* An ACTIVE sandbox is used, or retired if its remaining life is too short or its
\* engine is not wanted; if there is none, and none is being booted, one is built.
Look(q) ==
  /\ At(q, "look")
  /\ \/ \E r \in Row :
          /\ st[r] = "ACTIVE"
          /\ See(q, Chosen(r, 0))
          /\ fresh' = fresh \cup {q}
          /\ Goto(q, "admit") \/ Goto(q, "retire")
     \/ Bound = {} /\ Goto(q, "reserve") /\ UNCHANGED <<seen, fresh>>
  /\ UNCHANGED <<version, rows, box, boots, killers, bounds>>

\* ACTIVE to RETIRING, if the row is as it was read; by a request or a maintainer.
Retire(a) ==
  LET r == seen[a].row IN
  /\ At(a, "retire")
  /\ IF a \in fresh /\ st[r] = "ACTIVE"
     THEN st' = [st EXCEPT ![r] = "RETIRING"] /\ Written(r)
     ELSE UNCHANGED st /\ fresh' = fresh \ {a}
  /\ Rest(a, IF a \in Request THEN "look" ELSE "none")
  /\ UNCHANGED <<version, owner, due, config, known, box, boots, killers, bounds>>

\* A row is inserted and replica m, which serves the request, begins to boot it.
Insert(m) ==
  \E r \in Row :
    /\ st[r] = "absent"
    /\ st' = [st EXCEPT ![r] = "CREATING"]
    /\ owner' = [owner EXCEPT ![r] = m]
    /\ boot' = [boot EXCEPT ![r] = "create"]
    /\ by' = [by EXCEPT ![r] = m]

Present == {r \in Row : st[r] \notin {"absent", "gone"}}

\* Mutated form of Reserve: the table was looked at before, without the lock.
ReserveUnlocked(q, m) ==
  /\ At(q, "reserve")
  /\ m \notin down
  /\ Cardinality(Present) < Limit
  /\ Insert(m)
  /\ Goto(q, "look")
  /\ UNCHANGED <<version, due, config, known, box, killers, seen, fresh, bounds>>

\* reserve_agent_sandbox, in one transaction: it exists, the pool is full, or it is
\* inserted.
Reserve(q, m) ==
  /\ At(q, "reserve")
  /\ m \notin down
  /\ \/ Bound # {} /\ Goto(q, "look") /\ UNCHANGED <<st, owner, boots>>
     \/ /\ Bound = {} /\ Cardinality(Present) >= Limit
        /\ Goto(q, "done")
        /\ UNCHANGED <<st, owner, boots>>
     \/ /\ Bound = {} /\ Cardinality(Present) < Limit
        /\ Insert(m)
        /\ Goto(q, "look")
  /\ UNCHANGED <<version, due, config, known, box, killers, seen, fresh, bounds>>

\* Mutated form of Admit: the version of the row stays.
AdmitUnmarked(q) ==
  /\ At(q, "admit")
  /\ Serving(seen[q].row) /\ ~Held(seen[q].row)
  /\ Goto(q, "RUNNING")
  /\ See(q, Chosen(seen[q].row, 0))
  /\ UNCHANGED <<version, rows, box, boots, killers, fresh, bounds>>

\* create_task: if the row does not serve any more, another is looked for (a second
\* time, or in a session, the request fails); a reload is waited for.
Admit(q) ==
  LET r == seen[q].row IN
  /\ At(q, "admit")
  /\ \/ /\ ~Serving(r)
        /\ Leave(q, "look") \/ Leave(q, "done")
     \/ /\ Serving(r) /\ ~Held(r)
        /\ Goto(q, "RUNNING")
        /\ See(q, Chosen(r, 0))
        /\ Written(r)
  /\ UNCHANGED <<version, rows, box, boots, killers, bounds>>

\* The request times out, or its replica or its caller goes away.
GiveUp(q) ==
  /\ pc[q] \in {"look", "retire", "reserve", "admit"}
  /\ Leave(q, "done")
  /\ UNCHANGED <<version, rows, box, boots, killers, bounds>>

\* The task ends, in one of the ways of AgentTasks.
EndTask(q) ==
  /\ At(q, "RUNNING")
  /\ Leave(q, "done")
  /\ UNCHANGED <<version, rows, box, boots, killers, bounds>>

-----------------------------------------------------------------------------
(* _boot.                                                                   *)

BootTo(r, to) == boot' = [boot EXCEPT ![r] = to]

Create(r) ==
  /\ boot[r] = "create"
  /\ cloud' = [cloud EXCEPT ![r] = "running"]
  /\ BootTo(r, "record")
  /\ UNCHANGED <<version, rows, files, loaded, by, killers, actors, bounds>>

\* The request fails; a sandbox may have been whose id is not known.
CreateFails(r) ==
  /\ boot[r] = "create"
  /\ Fault
  /\ BootTo(r, "undo")
  /\ \/ UNCHANGED cloud
     \/ cloud' = [cloud EXCEPT ![r] = "running"]
  /\ UNCHANGED <<version, rows, files, loaded, by, killers, actors, down>>

\* CREATING to WARMING, with the id, unless the row has been taken meanwhile.
Record(r) ==
  /\ boot[r] = "record"
  /\ IF st[r] = "CREATING" /\ owner[r] = by[r]
     THEN /\ st' = [st EXCEPT ![r] = "WARMING"]
          /\ known' = known \cup {r}
          /\ due' = due \ {r}
          /\ Written(r)
          /\ BootTo(r, "prepare")
     ELSE BootTo(r, "discard") /\ UNCHANGED <<st, known, due, fresh>>
  /\ UNCHANGED <<version, owner, config, box, by, killers, pc, seen, bounds>>

\* The service answers; the settings are read and written, and the engine loads them.
Prepare(r) ==
  /\ boot[r] = "prepare"
  /\ cloud[r] = "running"
  /\ files' = [files EXCEPT ![r] = version]
  /\ loaded' = [loaded EXCEPT ![r] = version]
  /\ BootTo(r, "activate")
  /\ UNCHANGED <<version, rows, cloud, by, killers, actors, bounds>>

\* Mutated form of Activate: the deadline of the boot stays.
ActivateOverdue(r) ==
  /\ boot[r] = "activate"
  /\ IF st[r] = "WARMING" /\ owner[r] = by[r]
     THEN /\ st' = [st EXCEPT ![r] = "ACTIVE"]
          /\ owner' = [owner EXCEPT ![r] = NoReplica]
          /\ config' = [config EXCEPT ![r] = files[r]]
          /\ Written(r)
          /\ BootTo(r, "none")
     ELSE BootTo(r, "undo") /\ UNCHANGED <<st, owner, config, fresh>>
  /\ UNCHANGED <<version, due, known, box, by, killers, pc, seen, bounds>>

\* activate_sandbox: WARMING to ACTIVE; another ACTIVE row would be retired.
Activate(r) ==
  /\ boot[r] = "activate"
  /\ IF st[r] = "WARMING" /\ owner[r] = by[r]
     THEN LET others == {x \in Row \ {r} : st[x] = "ACTIVE"} IN
          /\ st' = [x \in Row |-> IF x = r THEN "ACTIVE"
                                  ELSE IF x \in others THEN "RETIRING" ELSE st[x]]
          /\ owner' = [owner EXCEPT ![r] = NoReplica]
          /\ due' = due \ {r}
          /\ config' = [config EXCEPT ![r] = files[r]]
          /\ fresh' = {a \in fresh : seen[a].row \notin others \cup {r}}
          /\ BootTo(r, "none")
     ELSE BootTo(r, "undo") /\ UNCHANGED <<st, owner, due, config, fresh>>
  /\ UNCHANGED <<version, known, box, by, killers, pc, seen, bounds>>

\* A request to the sandbox or the database fails: what was made is removed.
BootFails(r) ==
  /\ boot[r] \in {"record", "prepare", "activate"}
  /\ IF cloud[r] = "running" THEN Fault ELSE UNCHANGED faults
  /\ BootTo(r, IF r \in known THEN "undo" ELSE "discard")
  /\ UNCHANGED <<version, rows, box, by, killers, actors, down>>

\* _kill_quietly, of a sandbox that no row has.
Discard(r) ==
  /\ boot[r] = "discard"
  /\ \/ cloud' = [cloud EXCEPT ![r] = "dead"] /\ UNCHANGED faults
     \/ Fault /\ UNCHANGED cloud
  /\ BootTo(r, "undo")
  /\ UNCHANGED <<version, rows, files, loaded, by, killers, actors, down>>

Undo(r) ==
  /\ boot[r] = "undo"
  /\ IF st[r] \in {"CREATING", "WARMING"} /\ owner[r] = by[r]
     THEN Destroying(r, by[r]) /\ Written(r)
     ELSE UNCHANGED <<st, owner, due, killers, fresh>>
  /\ BootTo(r, "none")
  /\ UNCHANGED <<version, config, known, box, by, pc, seen, bounds>>

-----------------------------------------------------------------------------
(* The maintainer of a replica.                                             *)

\* tick: the settings are read before the rows.
Tick(m) ==
  /\ At(m, "none") /\ m \notin down
  /\ See(m, Chosen(NoRow, version))
  /\ Goto(m, "list")
  /\ UNCHANGED <<version, rows, box, boots, killers, fresh, bounds>>

List(m) ==
  /\ At(m, "list")
  /\ \/ \E r \in Row :
          /\ Serving(r)
          /\ See(m, [seen[m] EXCEPT !.row = r, !.st = st[r], !.config = config[r]])
          /\ fresh' = fresh \cup {m}
          /\ Goto(m, "running")
     \/ (\A r \in Row : ~Serving(r)) /\ Leave(m, "none")
  /\ UNCHANGED <<version, rows, box, boots, killers, bounds>>

\* recover_stuck.
FindStuck(m, r) ==
  /\ At(m, "none") /\ m \notin down
  /\ st[r] \in Transitional /\ r \in due
  /\ See(m, Chosen(r, 0))
  /\ fresh' = fresh \cup {m}
  /\ Goto(m, "destroy")
  /\ UNCHANGED <<version, rows, box, boots, killers, bounds>>

\* A reset by the user, or a sandbox that reconcile misses at the platform.
Condemn(m, r) ==
  /\ At(m, "none") /\ m \notin down
  /\ Serving(r)
  /\ See(m, Chosen(r, 0))
  /\ fresh' = fresh \cup {m}
  /\ Goto(m, "fail")
  /\ UNCHANGED <<version, rows, box, boots, killers, bounds>>

\* check_sandbox, from the row and the settings that were read and the tasks that
\* run now: it has reached the end of its life; it is retired and its last task has
\* ended; its engine is not wanted, its rotation is due, or it is idle; it is ill;
\* its settings are not those of the agent.
Judge(m) ==
  LET s == seen[m]
      quiet == Running(s.row) = {}
      active == s.st = "ACTIVE"
      next == {"fail"}
        \cup (IF quiet THEN {"destroy"} ELSE {})
        \cup (IF active /\ ~quiet THEN {"retire"} ELSE {})
        \cup (IF ~active /\ quiet THEN {}
              ELSE {"ill", IF active /\ quiet /\ s.config # s.version THEN "reload"
                           ELSE "none"})
  IN
  /\ At(m, "running")
  /\ \E to \in next :
       IF to = "none" THEN Leave(m, "none")
       ELSE Goto(m, to) /\ See(m, Chosen(s.row, s.version)) /\ UNCHANGED fresh
  /\ UNCHANGED <<version, rows, box, boots, killers, bounds>>

\* fail_tasks.
FailTasks(m) ==
  LET r == seen[m].row IN
  /\ pc[m] \in {"fail", "ill"}
  /\ pc' = [a \in Actor |-> IF a = m THEN IF pc[m] = "ill" THEN "reread" ELSE "destroy"
                            ELSE IF a \in Running(r) THEN "done" ELSE pc[a]]
  /\ seen' = [a \in Actor |-> IF a \in Running(r) THEN Nothing ELSE seen[a]]
  /\ fresh' = fresh \ Running(r)
  /\ UNCHANGED <<version, rows, box, boots, killers, bounds>>

\* A sandbox that is ill is read again before it is destroyed.
Reread(m) ==
  /\ At(m, "reread")
  /\ IF seen[m].row \in Present
     THEN Goto(m, "abandon") /\ fresh' = fresh \cup {m} /\ UNCHANGED seen
     ELSE Leave(m, "none")
  /\ UNCHANGED <<version, rows, box, boots, killers, bounds>>

\* destroy: if the row is as it was read.
Destroy(m) ==
  /\ pc[m] \in {"destroy", "abandon"}
  /\ IF m \in fresh
     THEN Destroying(seen[m].row, m) /\ Written(seen[m].row)
     ELSE UNCHANGED <<st, owner, due, killers, fresh>>
  /\ Rest(m, "none")
  /\ UNCHANGED <<version, config, known, box, boots, bounds>>

-----------------------------------------------------------------------------
(* Reloading the settings: apply_settings.                                  *)

\* Mutated form of BeginReload: the tasks that were read before are relied upon.
BeginReloadAnyway(m) ==
  LET r == seen[m].row IN
  /\ At(m, "reload")
  /\ IF st[r] = "ACTIVE" /\ ~Held(r)
     THEN /\ owner' = [owner EXCEPT ![r] = m]
          /\ due' = due \ {r}
          /\ Written(r)
          /\ Goto(m, "write") /\ UNCHANGED seen
     ELSE Leave(m, "none") /\ UNCHANGED <<owner, due>>
  /\ UNCHANGED <<version, st, config, known, box, boots, killers, bounds>>

\* begin_reload, in one transaction: nothing runs and nobody else reloads.
BeginReload(m) ==
  LET r == seen[m].row IN
  /\ At(m, "reload")
  /\ IF Running(r) = {} /\ st[r] = "ACTIVE" /\ ~Held(r)
     THEN /\ owner' = [owner EXCEPT ![r] = m]
          /\ due' = due \ {r}
          /\ Written(r)
          /\ Goto(m, "write") /\ UNCHANGED seen
     ELSE Leave(m, "none") /\ UNCHANGED <<owner, due>>
  /\ UNCHANGED <<version, st, config, known, box, boots, killers, bounds>>

\* The settings that the tick has read.
WriteFiles(m) ==
  /\ At(m, "write")
  /\ cloud[seen[m].row] = "running"
  /\ files' = [files EXCEPT ![seen[m].row] = seen[m].version]
  /\ Goto(m, "dispose")
  /\ UNCHANGED <<version, rows, cloud, loaded, boots, killers, seen, fresh, bounds>>

\* The engine drops its sessions, aborting those at work, and loads the files.
Reloads(r) ==
  /\ cloud[r] = "running"
  /\ loaded' = [loaded EXCEPT ![r] = files[r]]

Dispose(m) ==
  /\ At(m, "dispose")
  /\ Reloads(seen[m].row)
  /\ Goto(m, "confirm")
  /\ UNCHANGED <<version, rows, cloud, files, boots, killers, seen, fresh, bounds>>

\* A request fails or the time is up, before or after it had its effect.  (Here a
\* reload that is given up is not still under way.)
ReloadFails(m) ==
  LET r == seen[m].row IN
  /\ pc[m] \in {"write", "dispose"}
  /\ IF cloud[r] = "running" THEN Fault ELSE UNCHANGED faults
  /\ \/ UNCHANGED <<files, loaded>>
     \/ /\ At(m, "write") /\ cloud[r] = "running"
        /\ files' = [files EXCEPT ![r] = seen[m].version]
        /\ UNCHANGED <<loaded>>
     \/ At(m, "dispose") /\ Reloads(r) /\ UNCHANGED <<files>>
  /\ Goto(m, "release")
  /\ UNCHANGED <<version, rows, cloud, boots, killers, seen, fresh, down>>

\* end_reload: the version is recorded only after a success.
EndReload(m) ==
  LET r == seen[m].row IN
  /\ pc[m] \in {"confirm", "release"}
  /\ IF Serving(r) /\ owner[r] = m
     THEN /\ owner' = [owner EXCEPT ![r] = NoReplica]
          /\ due' = due \ {r}
          /\ config' = IF At(m, "confirm") THEN [config EXCEPT ![r] = seen[m].version]
                       ELSE config
          /\ fresh' = (fresh \cap Others(r)) \ {m}
     ELSE UNCHANGED <<owner, due, config>> /\ fresh' = fresh \ {m}
  /\ Rest(m, "none")
  /\ UNCHANGED <<version, st, known, box, boots, killers, bounds>>

-----------------------------------------------------------------------------
(* Users, time, the platform.                                               *)

\* patch_settings.
Patch ==
  /\ version < MaxVersion
  /\ version' = version + 1
  /\ UNCHANGED <<rows, box, boots, killers, actors, bounds>>

\* Writes of a serving row that change nothing here but its version: touch_sandbox,
\* keepalive, apply_network, the count of failed health checks.
Touch(r) ==
  /\ Serving(r)
  /\ Written(r)
  /\ UNCHANGED <<version, rows, box, boots, killers, pc, seen, bounds>>

\* A reload is given up long before its deadline.
DeadlinePasses(r) ==
  /\ owner[r] # NoReplica /\ r \notin due
  /\ \A m \in Replica : seen[m].row = r => pc[m] \notin {"write", "dispose"}
  /\ due' = due \cup {r}
  /\ UNCHANGED <<version, st, owner, config, known, box, boots, killers, actors, bounds>>

SandboxDies(r) ==
  /\ cloud[r] = "running"
  /\ Fault
  /\ cloud' = [cloud EXCEPT ![r] = "dead"]
  /\ UNCHANGED <<version, rows, files, loaded, boots, killers, actors, down>>

\* reconcile: a sandbox without a row.
KillOrphan(r) ==
  /\ st[r] = "gone" /\ cloud[r] = "running"
  /\ cloud' = [cloud EXCEPT ![r] = "dead"]
  /\ UNCHANGED <<version, rows, files, loaded, boots, killers, actors, bounds>>

\* A replica dies with its boots and whatever it was destroying or reloading.
Crash(m) ==
  /\ m \notin down
  /\ Fault
  /\ down' = down \cup {m}
  /\ boot' = [r \in Row |-> IF by[r] = m THEN "none" ELSE boot[r]]
  /\ killers' = {k \in killers : k[2] # m}
  /\ Leave(m, "none")
  /\ UNCHANGED <<version, rows, box, by>>

-----------------------------------------------------------------------------
BootStep(r) ==
  \/ Create(r) \/ CreateFails(r) \/ Record(r) \/ Prepare(r) \/ Activate(r)
  \/ BootFails(r) \/ Discard(r) \/ Undo(r)

RequestStep(q) ==
  \/ Look(q) \/ Retire(q) \/ Admit(q)
  \/ GiveUp(q) \/ EndTask(q)
  \/ \E m \in Replica : Reserve(q, m)

MaintainerStep(m) ==
  \/ Tick(m) \/ List(m) \/ Judge(m) \/ FailTasks(m) \/ Reread(m) \/ Destroy(m)
  \/ Retire(m) \/ BeginReload(m) \/ WriteFiles(m) \/ Dispose(m) \/ ReloadFails(m)
  \/ EndReload(m)
  \/ \E r \in Row : FindStuck(m, r) \/ Condemn(m, r)

Next ==
  \/ \E q \in Request : RequestStep(q)
  \/ \E m \in Replica : MaintainerStep(m) \/ Crash(m)
  \/ \E r \in Row :
       \/ BootStep(r) \/ Touch(r) \/ DeadlinePasses(r)
       \/ SandboxDies(r) \/ KillOrphan(r)
       \/ \E m \in Replica : Kill(r, m) \/ KillFails(r, m) \/ Delete(r, m)
  \/ Patch

Spec == Init /\ [][Next]_vars

-----------------------------------------------------------------------------
(* Properties.                                                             *)

\* An agent has one sandbox that is being booted or takes new tasks, however many
\* requests find none at the same time on whatever replicas: what the defensive part
\* of activate_sandbox says never to happen does not happen.
OneBound == \A r1, r2 \in Bound : r1 = r2

\* No task is lost with its sandbox because of an old reading: a sandbox is taken from
\* service while a task runs in it only if it is ill, though its tasks were read, or
\* failed, before, and others are admitted meanwhile.
TasksSpared ==
  [][\A r \in Row :
       Serving(r) /\ st'[r] = "DESTROYING" /\ Running(r) # {}
         => \E m \in Replica : At(m, "abandon") /\ seen[m].row = r]_vars

\* While a replica reloads the settings of a serving sandbox, which aborts every session
\* in it, no task runs there, though its tasks were read long before and requests are
\* admitted by other replicas.
ReloadIsAlone ==
  \A m \in Replica :
    pc[m] \in {"write", "dispose"} /\ Serving(seen[m].row) => Running(seen[m].row) = {}

\* The row of a sandbox is deleted only when the sandbox is dead, if its id was known.
RecordedIsKilled ==
  \A r \in known : st[r] = "gone" => cloud[r] # "running"

\* A user who sees the version of the settings in the row of an ACTIVE sandbox has
\* them applied: the engine has loaded that version.
ConfirmedIsApplied ==
  \A r \in Row :
    st[r] = "ACTIVE" /\ config[r] = version /\ owner[r] = NoReplica
      => loaded[r] = version
=============================================================================
