------------------------ MODULE AgentSandboxesProofs ------------------------
(* Proofs about AgentSandboxes, for any replicas, requests and sandboxes,   *)
(* any limit and any number of failures.                                    *)
EXTENDS AgentSandboxes, TLAPS

\* Where an actor is, and that it has read a row where it uses one.
ActorInv ==
  /\ \A q \in Request :
       /\ pc[q] \in RequestAt
       /\ pc[q] \in {"retire", "admit", "RUNNING"} => seen[q].row \in Row
  /\ \A m \in Replica :
       /\ pc[m] \in MaintainerAt
       /\ pc[m] \notin {"none", "list"} => seen[m].row \in Row

\* A row gets its id once, after it was created; who destroys it has made sure that
\* nobody does anything else with it; and who deletes it, that its sandbox is dead.
RowInv ==
  \A r \in Row :
    /\ r \in known => st[r] \notin {"absent", "CREATING"}
    /\ boot[r] \in {"create", "record"} => r \notin known
    /\ \A m \in Replica, do \in {"kill", "delete"} :
         <<r, m, do>> \in killers => st[r] \in {"DESTROYING", "gone"}
    /\ \A m \in Replica :
         r \in known /\ <<r, m, "delete">> \in killers => cloud[r] # "running"
    /\ r \in known /\ st[r] = "gone" => cloud[r] # "running"

\* A maintainer about to destroy a serving sandbox has an old reading, or nothing runs.
Spare ==
  \A m \in Replica :
    m \in fresh /\ pc[m] = "destroy" /\ Serving(seen[m].row)
      => Running(seen[m].row) = {}

\* One that reloads a sandbox which still serves holds it, and nothing runs there.
Alone ==
  \A m \in Replica :
    pc[m] \in {"write", "dispose"} =>
      /\ st[seen[m].row] \in {"ACTIVE", "RETIRING", "DESTROYING", "gone"}
      /\ Serving(seen[m].row) =>
           /\ owner[seen[m].row] = m /\ seen[m].row \notin due
           /\ Running(seen[m].row) = {}

IInv == TypeOK /\ ActorInv /\ OneBound /\ RowInv /\ Spare /\ Alone

(* What was read, and who reads.                                            *)
LEMMA ChosenType ==
  ASSUME NEW r \in Row \cup {NoRow}, NEW v \in Version
  PROVE  Chosen(r, v) \in Reading /\ Chosen(r, v).row = r
BY AgentSandboxesConstants DEF Chosen, Reading, States, Version

LEMMA NothingType == Nothing \in Reading
BY ChosenType, AgentSandboxesConstants DEF Nothing, Version

\* A request is not a replica.
LEMMA Two == \A q \in Request : q \notin Replica
BY AgentSandboxesConstants

(* TypeOK in three parts: what the steps below change together.             *)
Tables ==
  /\ version \in Version
  /\ config \in [Row -> Version]
  /\ known \subseteq Row
  /\ cloud \in [Row -> {"none", "running", "dead"}]
  /\ files \in [Row -> Version] /\ loaded \in [Row -> Version]
  /\ boot \in [Row -> BootAt]
  /\ by \in [Row -> Replica \cup {NoReplica}]
  /\ killers \subseteq Row \X Replica \X {"kill", "delete"}
  /\ down \subseteq Replica
  /\ faults \in 0..MaxFaults

Ownership ==
  /\ st \in [Row -> States]
  /\ owner \in [Row -> Replica \cup {NoReplica}]
  /\ \A r \in due : r \in Row /\ owner[r] # NoReplica
  /\ \A r \in Row : st[r] \in Transitional => owner[r] # NoReplica

Readings ==
  /\ pc \in [Actor -> MaintainerAt \cup RequestAt]
  /\ seen \in [Actor -> Reading]
  /\ fresh \subseteq Actor

\* The three parts together are TypeOK, now and after a step.
LEMMA TypeParts == TypeOK <=> Tables /\ Ownership /\ Readings
BY DEF TypeOK, Tables, Ownership, Readings

LEMMA TypePartsNext == TypeOK' <=> Tables' /\ Ownership' /\ Readings'
BY DEF TypeOK, Tables, Ownership, Readings

(* The steps that write a row's state or its owner.                         *)
LEMMA RowSteps ==
  ASSUME [Next]_vars
  PROVE  \/ UNCHANGED <<st, owner, due>>
         \/ \E a \in Actor : Retire(a)
         \/ \E q \in Request, m \in Replica : Reserve(q, m)
         \/ \E m \in Replica : Destroy(m) \/ BeginReload(m) \/ EndReload(m)
         \/ \E r \in Row : Record(r) \/ Activate(r) \/ Undo(r) \/ DeadlinePasses(r)
         \/ \E r \in Row, m \in Replica : Delete(r, m)
<1>1. CASE UNCHANGED vars
  BY <1>1 DEF vars, rows
<1>2. CASE \E q \in Request : RequestStep(q)
  BY <1>2 DEF RequestStep, Look, Admit, GiveUp, EndTask, rows, Actor
<1>3. CASE \E m \in Replica : MaintainerStep(m) \/ Crash(m)
    BY <1>3 DEF MaintainerStep, Crash, Tick, List, Judge, FailTasks, Reread, WriteFiles,
     Dispose, ReloadFails, FindStuck, Condemn, rows, Actor
<1>4. CASE \E r \in Row : BootStep(r)
  BY <1>4 DEF BootStep, Create, CreateFails, Prepare, BootFails, Discard, rows
<1>5. CASE \E r \in Row :
             \/ Touch(r) \/ DeadlinePasses(r) \/ SandboxDies(r) \/ KillOrphan(r)
             \/ \E m \in Replica : Kill(r, m) \/ KillFails(r, m) \/ Delete(r, m)
  BY <1>5 DEF Touch, SandboxDies, KillOrphan, Kill, KillFails, rows
<1>6. CASE Patch
  BY <1>6 DEF Patch, rows
<1> QED
  BY <1>1, <1>2, <1>3, <1>4, <1>5, <1>6 DEF Next

\* A row in transition keeps an owner, and only a row with an owner has a deadline.
LEMMA OwnershipStep ==
  ASSUME TypeOK, ActorInv, [Next]_vars
  PROVE  Ownership'
<1> USE AgentSandboxesConstants DEF Ownership, States, SERVING, Transitional
<1>0. Ownership
  BY TypeParts
<1>1. CASE UNCHANGED <<st, owner, due>>
  BY <1>0, <1>1
<1>2. ASSUME NEW a \in Actor, Retire(a) PROVE Ownership'
  <2>1. seen[a].row \in Row
    BY <1>2 DEF Retire, At, ActorInv, Actor
  <2> QED
    BY <1>0, <1>2, <2>1 DEF Retire
<1>3. ASSUME NEW q \in Request, NEW m \in Replica, Reserve(q, m) PROVE Ownership'
  BY <1>0, <1>3 DEF Reserve, Insert
<1>4. ASSUME NEW m \in Replica, Destroy(m) PROVE Ownership'
  <2>1. seen[m].row \in Row
    BY <1>4 DEF Destroy, ActorInv
  <2> QED
    BY <1>0, <1>4, <2>1 DEF Destroy, Destroying
<1>5. ASSUME NEW m \in Replica, BeginReload(m) PROVE Ownership'
  BY <1>0, <1>5 DEF BeginReload
<1>6. ASSUME NEW m \in Replica, EndReload(m) PROVE Ownership'
  BY <1>0, <1>6 DEF EndReload, Serving
<1>7. ASSUME NEW r \in Row, Record(r) PROVE Ownership'
  BY <1>0, <1>7 DEF Record
<1>8. ASSUME NEW r \in Row, Activate(r) PROVE Ownership'
  BY <1>0, <1>8 DEF Activate
<1>9. ASSUME NEW r \in Row, Undo(r) PROVE Ownership'
  <2>1. st[r] \in {"CREATING", "WARMING"} /\ owner[r] = by[r] => by[r] \in Replica
    BY <1>0
  <2> QED
    BY <1>0, <1>9, <2>1 DEF Undo, Destroying
<1>10. ASSUME NEW r \in Row, DeadlinePasses(r) PROVE Ownership'
  BY <1>0, <1>10 DEF DeadlinePasses
<1>11. ASSUME NEW r \in Row, NEW m \in Replica, Delete(r, m) PROVE Ownership'
  BY <1>0, <1>11 DEF Delete
<1> QED
  BY RowSteps, <1>1, <1>2, <1>3, <1>4, <1>5, <1>6, <1>7, <1>8, <1>9, <1>10, <1>11

(* A reading consists of what TypeOK says.                                  *)
LEMMA SeenType ==
  ASSUME TypeOK, NEW a \in Actor
  PROVE  seen[a] \in Reading /\ seen[a].version \in Version
BY DEF TypeOK, Reading

\* The reading of a row by List: its type, and its row.
LEMMA ListType ==
  ASSUME TypeOK, NEW a \in Actor, NEW r \in Row
  PROVE  [seen[a] EXCEPT !.row = r, !.st = st[r], !.config = config[r]] \in Reading
<1>1. seen[a] \in Reading /\ st[r] \in States /\ config[r] \in Version
  BY DEF TypeOK
<1> QED
  BY <1>1 DEF Reading

LEMMA ListRow ==
  ASSUME TypeOK, NEW a \in Actor, NEW r \in Row
  PROVE  [seen[a] EXCEPT !.row = r, !.st = st[r], !.config = config[r]].row = r
<1>1. seen[a] \in Reading
  BY DEF TypeOK
<1> QED
  BY <1>1 DEF Reading

\* IInv holds initially.
LEMMA Init_IInv == Init => IInv
<1> SUFFICES ASSUME Init PROVE IInv
  OBVIOUS
<1>1. TypeOK
  <2>1. Tables
    <3>1. version \in Version /\ 0 \in Version /\ faults \in 0..MaxFaults
      BY AgentSandboxesConstants DEF Init, Version
    <3> QED
      BY <3>1 DEF Init, Tables, BootAt
  <2>2. Ownership
    BY DEF Init, Ownership, States, Transitional
  <2>3. Readings
    BY NothingType DEF Init, Readings, RequestAt, MaintainerAt
  <2> QED
    BY <2>1, <2>2, <2>3, TypeParts
<1>2. ActorInv
  BY AgentSandboxesConstants DEF Init, ActorInv, Actor, RequestAt, MaintainerAt
<1>3. OneBound
  BY DEF Init, OneBound, Bound, BOUND_STATES
<1>4. RowInv
  BY DEF Init, RowInv
<1>5. Spare
  BY DEF Init, Spare
<1>6. Alone
  BY AgentSandboxesConstants DEF Init, Alone, Actor
<1> QED
  BY <1>1, <1>2, <1>3, <1>4, <1>5, <1>6 DEF IInv

(* One actor moves, and has read a row where it uses one; but fail_tasks also *)
(* ends the tasks of a row.                                                   *)
Arrives(a, to, s) ==
  \/ a \in Request /\ to \in {"look", "reserve", "done"}
  \/ a \in Request /\ to \in {"retire", "admit", "RUNNING"} /\ s.row \in Row
  \/ a \in Replica /\ to \in {"none", "list"}
  \/ a \in Replica /\ to \in MaintainerAt /\ s.row \in Row

LEMMA MoveKeeps ==
  ASSUME Readings, ActorInv, NEW a \in Actor, NEW to, NEW s \in Reading,
         Arrives(a, to, s),
         pc' = [pc EXCEPT ![a] = to], seen' = [seen EXCEPT ![a] = s],
         fresh' \subseteq Actor
  PROVE  Readings' /\ ActorInv'
<1>1. to \in MaintainerAt \cup RequestAt
  BY DEF Arrives, RequestAt, MaintainerAt
<1>2. Readings'
  BY <1>1 DEF Readings
<1>3. \A b \in Actor : IF b = a THEN pc'[b] = to /\ seen'[b] = s
                       ELSE pc'[b] = pc[b] /\ seen'[b] = seen[b]
  BY DEF Readings
<1>4. ASSUME NEW q \in Request
      PROVE  /\ pc'[q] \in RequestAt
             /\ pc'[q] \in {"retire", "admit", "RUNNING"} => seen'[q].row \in Row
  BY <1>3, <1>4, Two DEF Arrives, Actor, ActorInv, RequestAt
<1>5. ASSUME NEW m \in Replica
      PROVE  /\ pc'[m] \in MaintainerAt
             /\ pc'[m] \notin {"none", "list"} => seen'[m].row \in Row
  BY <1>3, <1>5, Two DEF Arrives, Actor, ActorInv, MaintainerAt
<1> QED
  BY <1>2, <1>4, <1>5 DEF ActorInv

\* The same for an actor that moves with the reading it has.
LEMMA GoKeeps ==
  ASSUME Readings, ActorInv, NEW a \in Actor, NEW to, Arrives(a, to, seen[a]),
         pc' = [pc EXCEPT ![a] = to], seen' = seen, fresh' \subseteq Actor
  PROVE  Readings' /\ ActorInv'
<1>1. seen[a] \in Reading /\ seen' = [seen EXCEPT ![a] = seen[a]]
  BY DEF Readings
<1> QED
  BY <1>1, MoveKeeps

\* Readings and ActorInv are kept by every step.
LEMMA ReadingsStep ==
  ASSUME TypeOK, ActorInv, [Next]_vars
  PROVE  Readings' /\ ActorInv'
<1>1. ASSUME NEW r \in Row,
              Create(r) \/ CreateFails(r) \/ Prepare(r) \/ BootFails(r) \/
              Discard(r) \/ KillOrphan(r) \/ SandboxDies(r) \/
              DeadlinePasses(r)
      PROVE  Readings' /\ ActorInv'
  BY <1>1, TypeParts DEF Create, CreateFails, Prepare, BootFails, Discard, KillOrphan,
     SandboxDies, DeadlinePasses, actors, Readings, ActorInv
<1>2. ASSUME NEW m \in Replica, NEW r \in Row, Kill(r, m) \/ KillFails(r, m)
      PROVE  Readings' /\ ActorInv'
  BY <1>2, TypeParts DEF Kill, KillFails, actors, Readings, ActorInv
<1>3. ASSUME NEW r \in Row, NEW m \in Replica, Delete(r, m)
      PROVE  Readings' /\ ActorInv'
  BY <1>3, TypeParts DEF Delete, actors, Readings, ActorInv, Written, Others
<1>4. ASSUME Patch
      PROVE  Readings' /\ ActorInv'
  BY <1>4, TypeParts DEF Patch, actors, Readings, ActorInv
<1>5. ASSUME NEW r \in Row, Record(r) \/ Undo(r) \/ Touch(r) \/ Activate(r)
      PROVE  Readings' /\ ActorInv'
  BY <1>5, TypeParts DEF Record, Undo, Touch, Activate, actors, Readings, ActorInv,
     Written, Others
<1>6. ASSUME NEW q \in Request, Look(q)
      PROVE  Readings' /\ ActorInv'
  <2>1. q \in Actor
    BY DEF Actor
  <2>2. ASSUME NEW r \in Row, NEW to \in {"admit", "retire"}, pc' = [pc EXCEPT ![q] = to],
               seen' = [seen EXCEPT ![q] = Chosen(r, 0)], fresh' = fresh \cup {q}
        PROVE  Readings' /\ ActorInv'
    <3>1. Chosen(r, 0) \in Reading /\ Arrives(q, to, Chosen(r, 0))
      BY ChosenType, AgentSandboxesConstants DEF Arrives, Version
    <3>2. fresh' \subseteq Actor
      BY <2>1, <2>2, TypeParts DEF Readings
    <3> QED
      BY <2>1, <2>2, <3>1, <3>2, TypeParts, MoveKeeps
  <2>3. ASSUME pc' = [pc EXCEPT ![q] = "reserve"], UNCHANGED <<seen, fresh>>
        PROVE  Readings' /\ ActorInv'
    BY <2>1, <2>3, TypeParts, GoKeeps DEF Arrives, Readings
  <2> QED
    BY <1>6, <2>2, <2>3 DEF Look, Goto, See
<1>7. ASSUME NEW q \in Request, Retire(q)
      PROVE  Readings' /\ ActorInv'
  BY <1>7, TypeParts, MoveKeeps, GoKeeps, ChosenType, NothingType, SeenType, Two DEF
     Retire, Readings, Goto, See, At, Arrives, MaintainerAt, Actor, Rest, Written,
     ActorInv
<1>8. ASSUME NEW q \in Request, Admit(q)
      PROVE  Readings' /\ ActorInv'
  <2>1. q \in Actor /\ seen[q].row \in Row
    BY <1>8 DEF Admit, At, ActorInv, Actor
  <2>2. CASE Leave(q, "look") \/ Leave(q, "done")
        BY <2>1, <2>2, TypeParts, MoveKeeps, NothingType DEF Leave, Rest, Goto, See,
       Arrives, Readings
  <2>3. ASSUME pc' = [pc EXCEPT ![q] = "RUNNING"],
               seen' = [seen EXCEPT ![q] = Chosen(seen[q].row, 0)], Written(seen[q].row)
        PROVE  Readings' /\ ActorInv'
    <3>1. /\ Chosen(seen[q].row, 0) \in Reading
          /\ Arrives(q, "RUNNING", Chosen(seen[q].row, 0))
      BY <2>1, ChosenType, AgentSandboxesConstants DEF Arrives, Version
    <3>2. fresh' \subseteq Actor
      BY <2>3, TypeParts DEF Readings, Written
    <3> QED
      BY <2>1, <2>3, <3>1, <3>2, TypeParts, MoveKeeps
  <2> QED
    BY <1>8, <2>2, <2>3 DEF Admit, Goto, See
<1>9. ASSUME NEW q \in Request, GiveUp(q) \/ EndTask(q)
      PROVE  Readings' /\ ActorInv'
  BY <1>9, TypeParts, MoveKeeps, GoKeeps, ChosenType, NothingType, SeenType, Two DEF
     GiveUp, EndTask, Readings, Goto, See, At, Arrives, MaintainerAt, Actor, Leave, Rest
<1>10. ASSUME NEW q \in Request, NEW m \in Replica, Reserve(q, m)
      PROVE  Readings' /\ ActorInv'
  BY <1>10, TypeParts, MoveKeeps, GoKeeps, ChosenType, NothingType, SeenType, Two,
     GoKeeps DEF Reserve, Readings, Goto, See, At, Arrives, MaintainerAt, Actor
<1>11. ASSUME NEW m \in Replica, Tick(m)
      PROVE  Readings' /\ ActorInv'
  BY <1>11, TypeParts, MoveKeeps, GoKeeps, ChosenType, NothingType, SeenType, Two DEF
     Tick, Readings, Goto, See, At, Arrives, MaintainerAt, Actor, TypeOK
<1>12. ASSUME NEW m \in Replica, List(m)
      PROVE  Readings' /\ ActorInv'
  <2> DEFINE s(r) == [seen[m] EXCEPT !.row = r, !.st = st[r], !.config = config[r]]
  <2>1. ASSUME NEW r \in Row, pc' = [pc EXCEPT ![m] = "running"],
               seen' = [seen EXCEPT ![m] = s(r)], fresh' = fresh \cup {m}
        PROVE  Readings' /\ ActorInv'
    <3>1. m \in Actor
      BY DEF Actor
    <3>2. s(r) \in Reading /\ s(r).row = r
      BY <3>1, ListType, ListRow
    <3>3. Arrives(m, "running", s(r))
      BY <3>2 DEF Arrives, MaintainerAt
    <3>4. fresh' \subseteq Actor
      BY <2>1, <3>1, TypeParts DEF Readings
    <3> QED
      BY <2>1, <3>1, <3>2, <3>3, <3>4, TypeParts, MoveKeeps
  <2>2. CASE Leave(m, "none")
        BY <2>2, TypeParts, MoveKeeps, NothingType DEF Leave, Rest, Goto, See, Arrives,
       Actor, Readings
  <2> QED
    BY <1>12, <2>1, <2>2 DEF List, Goto, See
<1>13. ASSUME NEW m \in Replica, Judge(m)
      PROVE  Readings' /\ ActorInv'
  BY <1>13, TypeParts, MoveKeeps, GoKeeps, ChosenType, NothingType, SeenType, Two DEF
     Judge, Readings, Goto, See, At, Arrives, MaintainerAt, Actor, Leave, Rest, ActorInv
<1>14. ASSUME NEW m \in Replica, FailTasks(m)
      PROVE  Readings' /\ ActorInv'
  <2>1. \A a \in Actor : /\ pc'[a] = (IF a = m THEN IF pc[m] = "ill" THEN "reread" ELSE "destroy"
                                   ELSE IF a \in Running(seen[m].row) THEN "done" ELSE pc[a])
                        /\ seen'[a] = IF a \in Running(seen[m].row) THEN Nothing ELSE seen[a]
    BY <1>14 DEF FailTasks
  <2>2. Running(seen[m].row) \subseteq Request
    BY DEF Running
  <2>3. Readings'
        BY <1>14, <2>2, TypeParts, NothingType DEF FailTasks, Readings, MaintainerAt,
       RequestAt
  <2>4. seen[m].row \in Row /\ m \notin Running(seen[m].row)
    BY <1>14, <2>2, Two DEF FailTasks, ActorInv
  <2> QED
    BY <2>1, <2>2, <2>3, <2>4, Two DEF ActorInv, Actor, MaintainerAt, RequestAt
<1>15. ASSUME NEW m \in Replica, Reread(m)
      PROVE  Readings' /\ ActorInv'
  BY <1>15, TypeParts, MoveKeeps, GoKeeps, ChosenType, NothingType, SeenType, Two DEF
     Reread, Readings, Goto, See, At, Arrives, MaintainerAt, Actor, Leave, Rest,
     Present, ActorInv
<1>16. ASSUME NEW m \in Replica, Destroy(m)
      PROVE  Readings' /\ ActorInv'
  BY <1>16, TypeParts, MoveKeeps, GoKeeps, ChosenType, NothingType, SeenType, Two DEF
     Destroy, Readings, Goto, See, At, Arrives, MaintainerAt, Actor, Rest, Written
<1>17. ASSUME NEW m \in Replica, Retire(m)
      PROVE  Readings' /\ ActorInv'
  BY <1>17, TypeParts, MoveKeeps, GoKeeps, ChosenType, NothingType, SeenType, Two DEF
     Retire, Readings, Goto, See, At, Arrives, MaintainerAt, Actor, Rest, Written
<1>18. ASSUME NEW m \in Replica, BeginReload(m)
      PROVE  Readings' /\ ActorInv'
  BY <1>18, TypeParts, MoveKeeps, GoKeeps, ChosenType, NothingType, SeenType, Two DEF
     BeginReload, Readings, Goto, See, At, Arrives, MaintainerAt, Actor, Leave, Rest,
     Written, ActorInv
<1>19. ASSUME NEW m \in Replica, WriteFiles(m) \/ Dispose(m) \/ ReloadFails(m)
      PROVE  Readings' /\ ActorInv'
  BY <1>19, TypeParts, MoveKeeps, GoKeeps, ChosenType, NothingType, SeenType, Two DEF
     WriteFiles, Dispose, ReloadFails, Readings, Goto, See, At, Arrives, MaintainerAt,
     Actor, ActorInv
<1>20. ASSUME NEW m \in Replica, EndReload(m)
      PROVE  Readings' /\ ActorInv'
  BY <1>20, TypeParts, MoveKeeps, GoKeeps, ChosenType, NothingType, SeenType, Two DEF
     EndReload, Readings, Goto, See, At, Arrives, MaintainerAt, Actor, Rest
<1>21. ASSUME NEW m \in Replica, NEW r \in Row, FindStuck(m, r) \/ Condemn(m, r)
      PROVE  Readings' /\ ActorInv'
  <2>1. m \in Actor
    BY DEF Actor
  <2>2. ASSUME NEW to \in {"destroy", "fail"}, pc' = [pc EXCEPT ![m] = to],
               seen' = [seen EXCEPT ![m] = Chosen(r, 0)], fresh' = fresh \cup {m}
        PROVE  Readings' /\ ActorInv'
    <3>1. Chosen(r, 0) \in Reading /\ Arrives(m, to, Chosen(r, 0))
      BY ChosenType, AgentSandboxesConstants DEF Arrives, Version, MaintainerAt
    <3>2. fresh' \subseteq Actor
      BY <2>1, <2>2, TypeParts DEF Readings
    <3> QED
      BY <2>1, <2>2, <3>1, <3>2, TypeParts, MoveKeeps
  <2> QED
    BY <1>21, <2>2 DEF FindStuck, Condemn, Goto, See
<1>22. ASSUME NEW m \in Replica, Crash(m)
      PROVE  Readings' /\ ActorInv'
  BY <1>22, TypeParts, MoveKeeps, GoKeeps, ChosenType, NothingType, SeenType, Two DEF
     Crash, Readings, Goto, See, At, Arrives, MaintainerAt, Actor, Leave, Rest
<1>23. ASSUME Next PROVE Readings' /\ ActorInv'
  BY <1>1, <1>2, <1>3, <1>4, <1>5, <1>6, <1>7, <1>8, <1>9, <1>10, <1>11, <1>12, <1>13,
     <1>14, <1>15, <1>16, <1>17, <1>18, <1>19, <1>20, <1>21, <1>22, <1>23 DEF Next,
     RequestStep, MaintainerStep, BootStep
<1>24. ASSUME UNCHANGED vars PROVE Readings' /\ ActorInv'
  BY <1>24 DEF vars, rows, box, boots, actors, bounds, Readings, ActorInv, TypeOK
<1> QED
  BY <1>23, <1>24

\* Tables are kept by every step.
LEMMA TablesStep ==
  ASSUME TypeOK, ActorInv, [Next]_vars
  PROVE  Tables'
<1>1. ASSUME NEW q \in Request,
              Look(q) \/ Admit(q) \/ GiveUp(q) \/ EndTask(q) \/ Retire(q)
      PROVE  Tables'
  BY <1>1, TypeParts DEF Look, Admit, GiveUp, EndTask, Retire, Tables, rows, box,
     boots, bounds
<1>2. ASSUME NEW q \in Request, NEW m \in Replica, Reserve(q, m)
      PROVE  Tables'
  BY <1>2, TypeParts DEF Reserve, Tables, Insert, BootAt, rows, box, boots, bounds
<1>3. ASSUME NEW m \in Replica,
              Tick(m) \/ List(m) \/ Judge(m) \/ FailTasks(m) \/ Reread(m) \/
              Retire(m) \/ BeginReload(m)
      PROVE  Tables'
  BY <1>3, TypeParts DEF Tick, List, Judge, FailTasks, Reread, Retire, BeginReload,
     Tables, rows, box, boots, bounds
<1>4. ASSUME NEW m \in Replica, NEW r \in Row, FindStuck(m, r) \/ Condemn(m, r)
      PROVE  Tables'
  BY <1>4, TypeParts DEF FindStuck, Condemn, Tables, rows, box, boots, bounds
<1>5. ASSUME NEW m \in Replica, Destroy(m)
      PROVE  Tables'
  <2>1. seen[m].row \in Row
    BY <1>5 DEF Destroy, ActorInv
  <2> QED
    BY <1>5, <2>1, TypeParts DEF Destroy, Destroying, Tables, box, boots, bounds
<1>6. ASSUME NEW m \in Replica, WriteFiles(m) \/ Dispose(m)
      PROVE  Tables'
  BY <1>6, TypeParts, SeenType DEF WriteFiles, Dispose, Tables, Reloads, rows, boots,
     bounds, Actor, TypeOK
<1>7. ASSUME NEW m \in Replica, ReloadFails(m)
      PROVE  Tables'
  BY <1>7, TypeParts, SeenType, AgentSandboxesConstants DEF ReloadFails, Tables,
     Reloads, rows, boots, bounds, Fault, Actor
<1>8. ASSUME NEW m \in Replica, EndReload(m)
      PROVE  Tables'
  BY <1>8, TypeParts, SeenType DEF EndReload, Tables, box, boots, bounds, Actor
<1>9. ASSUME NEW r \in Row, Create(r)
      PROVE  Tables'
  BY <1>9, TypeParts DEF Create, Tables, BootTo, BootAt, rows, bounds
<1>10. ASSUME NEW r \in Row, CreateFails(r)
      PROVE  Tables'
  BY <1>10, TypeParts, AgentSandboxesConstants DEF CreateFails, Tables, BootTo,
     BootAt, Fault, rows
<1>11. ASSUME NEW r \in Row, Record(r) \/ Prepare(r)
      PROVE  Tables'
  BY <1>11, TypeParts DEF Record, Prepare, Tables, BootTo, BootAt, rows, box, bounds
<1>12. ASSUME NEW r \in Row, Activate(r)
      PROVE  Tables'
  BY <1>12, TypeParts DEF Activate, Tables, BootTo, BootAt, rows, box, bounds
<1>13. ASSUME NEW r \in Row, BootFails(r) \/ Discard(r)
      PROVE  Tables'
  BY <1>13, TypeParts, AgentSandboxesConstants DEF BootFails, Discard, Tables, BootTo,
     BootAt, Fault, rows, box
<1>14. ASSUME NEW r \in Row, Undo(r)
      PROVE  Tables'
  <2>1. st[r] \in {"CREATING", "WARMING"} /\ owner[r] = by[r] => by[r] \in Replica
    BY TypeParts DEF Ownership, Tables, Transitional
  <2> QED
    BY <1>14, <2>1, TypeParts DEF Undo, Destroying, Tables, BootTo, BootAt, box, bounds
<1>15. ASSUME NEW m \in Replica, Crash(m)
      PROVE  Tables'
  BY <1>15, TypeParts, AgentSandboxesConstants DEF Crash, Tables, BootAt, Fault, rows,
     box
<1>16. ASSUME NEW r \in Row,
              Touch(r) \/ DeadlinePasses(r) \/ SandboxDies(r) \/
              KillOrphan(r)
      PROVE  Tables'
  BY <1>16, TypeParts, AgentSandboxesConstants DEF Touch, DeadlinePasses, SandboxDies,
     KillOrphan, Tables, Fault, rows, box, boots, bounds
<1>17. ASSUME NEW m \in Replica, NEW r \in Row, Kill(r, m) \/ KillFails(r, m)
      PROVE  Tables'
  BY <1>17, TypeParts, AgentSandboxesConstants DEF Kill, KillFails, Tables, Fault,
     rows, boots, bounds
<1>18. ASSUME NEW r \in Row, NEW m \in Replica, Delete(r, m)
      PROVE  Tables'
  BY <1>18, TypeParts DEF Delete, Tables, box, boots, bounds
<1>19. ASSUME Patch
      PROVE  Tables'
  BY <1>19, TypeParts, AgentSandboxesConstants DEF Patch, Tables, Version, rows, box,
     boots, bounds
<1>20. ASSUME Next PROVE Tables'
  BY <1>1, <1>2, <1>3, <1>4, <1>5, <1>6, <1>7, <1>8, <1>9, <1>10, <1>11, <1>12, <1>13,
     <1>14, <1>15, <1>16, <1>17, <1>18, <1>19, <1>20 DEF Next, RequestStep,
     MaintainerStep, BootStep
<1>21. ASSUME UNCHANGED vars PROVE Tables'
  BY <1>21 DEF vars, rows, box, boots, actors, bounds, Tables, TypeOK
<1> QED
  BY <1>20, <1>21

\* A row is inserted when none is bound, and no other step makes one bound.
LEMMA BoundStep ==
  ASSUME TypeOK, ActorInv, OneBound, [Next]_vars
  PROVE  OneBound'
<1> USE DEF OneBound, Bound, BOUND_STATES
<1>0. st \in [Row -> States]
  BY TypeParts DEF Ownership
<1>1. CASE UNCHANGED <<st, owner, due>>
  BY <1>1
<1>2. ASSUME NEW a \in Actor, Retire(a) PROVE OneBound'
  BY <1>0, <1>2 DEF Retire
<1>3. ASSUME NEW q \in Request, NEW m \in Replica, Reserve(q, m) PROVE OneBound'
  BY <1>0, <1>3 DEF Reserve, Insert
<1>4. ASSUME NEW m \in Replica, Destroy(m) PROVE OneBound'
  BY <1>0, <1>4 DEF Destroy, Destroying
<1>5. ASSUME NEW m \in Replica, BeginReload(m) \/ EndReload(m) PROVE OneBound'
  BY <1>5 DEF BeginReload, EndReload
<1>6. ASSUME NEW r \in Row, Record(r) PROVE OneBound'
  BY <1>0, <1>6 DEF Record
<1>7. ASSUME NEW r \in Row, Activate(r) PROVE OneBound'
  BY <1>0, <1>7 DEF Activate
<1>8. ASSUME NEW r \in Row, Undo(r) PROVE OneBound'
  BY <1>0, <1>8 DEF Undo, Destroying
<1>9. ASSUME NEW r \in Row, DeadlinePasses(r) PROVE OneBound'
  BY <1>9 DEF DeadlinePasses
<1>10. ASSUME NEW r \in Row, NEW m \in Replica, Delete(r, m) PROVE OneBound'
  BY <1>0, <1>10 DEF Delete
<1> QED
  BY RowSteps, <1>1, <1>2, <1>3, <1>4, <1>5, <1>6, <1>7, <1>8, <1>9, <1>10

\* RowInv is kept by every step.
LEMMA RowStep ==
  ASSUME TypeOK, ActorInv, RowInv, [Next]_vars
  PROVE  RowInv'
<1>1. ASSUME NEW q \in Request, Look(q) \/ Admit(q) \/ GiveUp(q) \/ EndTask(q)
      PROVE  RowInv'
  BY <1>1, TypeParts DEF Look, Admit, GiveUp, EndTask, RowInv, Tables, Ownership,
     rows, box, boots
<1>2. ASSUME NEW q \in Request, Retire(q)
      PROVE  RowInv'
  BY <1>2, TypeParts DEF Retire, RowInv, Tables, Ownership, box, boots
<1>3. ASSUME NEW q \in Request, NEW m \in Replica, Reserve(q, m)
      PROVE  RowInv'
  <2>1. CASE UNCHANGED <<st, boots>>
    BY <1>3, <2>1 DEF Reserve, RowInv, box, boots
  <2>2. ASSUME NEW r \in Row, st[r] = "absent", st' = [st EXCEPT ![r] = "CREATING"],
               boot' = [boot EXCEPT ![r] = "create"], UNCHANGED <<known, cloud, killers>>
        PROVE  RowInv'
    <3>1. r \notin known /\ \A k \in Replica, do \in {"kill", "delete"} : <<r, k, do>> \notin killers
      BY <2>2 DEF RowInv
    <3> QED
      BY <2>2, <3>1, TypeParts DEF RowInv, Tables, Ownership
  <2> QED
    BY <1>3, <2>1, <2>2 DEF Reserve, Insert, box
<1>4. ASSUME NEW m \in Replica,
              Tick(m) \/ List(m) \/ Judge(m) \/ FailTasks(m) \/ Reread(m)
      PROVE  RowInv'
  BY <1>4, TypeParts DEF Tick, List, Judge, FailTasks, Reread, RowInv, Tables,
     Ownership, rows, box, boots
<1>5. ASSUME NEW m \in Replica, NEW r \in Row, FindStuck(m, r) \/ Condemn(m, r)
      PROVE  RowInv'
  BY <1>5, TypeParts DEF FindStuck, Condemn, RowInv, Tables, Ownership, rows, box, boots
<1>6. ASSUME NEW m \in Replica, Destroy(m)
      PROVE  RowInv'
  <2>1. seen[m].row \in Row
    BY <1>6 DEF Destroy, ActorInv
  <2> QED
        BY <1>6, <2>1, TypeParts DEF Destroy, Destroying, RowInv, Tables, Ownership,
       box, boots
<1>7. ASSUME NEW m \in Replica, Retire(m)
      PROVE  RowInv'
  BY <1>7, TypeParts DEF Retire, RowInv, Tables, Ownership, box, boots
<1>8. ASSUME NEW m \in Replica, BeginReload(m) \/ EndReload(m)
      PROVE  RowInv'
  BY <1>8, TypeParts DEF BeginReload, EndReload, RowInv, Tables, Ownership, box, boots
<1>9. ASSUME NEW m \in Replica, WriteFiles(m) \/ Dispose(m)
      PROVE  RowInv'
  BY <1>9, TypeParts DEF WriteFiles, Dispose, RowInv, Tables, Ownership, Reloads,
     rows, boots
<1>10. ASSUME NEW m \in Replica, ReloadFails(m)
      PROVE  RowInv'
  BY <1>10, TypeParts DEF ReloadFails, RowInv, Tables, Ownership, Reloads, rows, boots
<1>11. ASSUME NEW r \in Row, Create(r) \/ CreateFails(r)
      PROVE  RowInv'
  BY <1>11, TypeParts DEF Create, CreateFails, RowInv, Tables, Ownership, BootTo, rows
<1>12. ASSUME NEW r \in Row, Record(r)
      PROVE  RowInv'
  <2>1. CASE st[r] = "CREATING" /\ owner[r] = by[r]
    <3>1. \A k \in Replica, do \in {"kill", "delete"} : <<r, k, do>> \notin killers
      BY <2>1 DEF RowInv
    <3>2. /\ st' = [st EXCEPT ![r] = "WARMING"] /\ boot' = [boot EXCEPT ![r] = "prepare"]
          /\ known' = known \cup {r} /\ UNCHANGED <<cloud, killers>>
      BY <1>12, <2>1 DEF Record, BootTo, box
    <3> QED
      BY <3>1, <3>2, TypeParts DEF RowInv, Tables, Ownership
  <2>2. CASE ~(st[r] = "CREATING" /\ owner[r] = by[r])
    BY <1>12, <2>2, TypeParts DEF Record, RowInv, Tables, BootTo, box
  <2> QED
    BY <2>1, <2>2
<1>13. ASSUME NEW r \in Row, Prepare(r)
      PROVE  RowInv'
  BY <1>13, TypeParts DEF Prepare, RowInv, Tables, Ownership, BootTo, rows
<1>14. ASSUME NEW r \in Row, Activate(r)
      PROVE  RowInv'
  BY <1>14, TypeParts DEF Activate, RowInv, Tables, Ownership, BootTo, box
<1>15. ASSUME NEW r \in Row, BootFails(r)
      PROVE  RowInv'
  BY <1>15, TypeParts DEF BootFails, RowInv, Tables, Ownership, BootTo, rows, box
<1>16. ASSUME NEW r \in Row, Discard(r)
      PROVE  RowInv'
  BY <1>16, TypeParts DEF Discard, RowInv, Tables, Ownership, BootTo, rows
<1>17. ASSUME NEW r \in Row, Undo(r)
      PROVE  RowInv'
  BY <1>17, TypeParts DEF Undo, RowInv, Tables, Ownership, BootTo, Destroying, box
<1>18. ASSUME NEW m \in Replica, Crash(m)
      PROVE  RowInv'
  BY <1>18, TypeParts DEF Crash, RowInv, Tables, Ownership, rows, box
<1>19. ASSUME NEW r \in Row,
              Touch(r) \/ DeadlinePasses(r) \/ SandboxDies(r) \/
              KillOrphan(r)
      PROVE  RowInv'
  BY <1>19, TypeParts DEF Touch, DeadlinePasses, SandboxDies, KillOrphan, RowInv,
     Tables, Ownership, rows, box, boots
<1>20. ASSUME NEW m \in Replica, NEW r \in Row, Kill(r, m) \/ KillFails(r, m)
      PROVE  RowInv'
  BY <1>20, TypeParts DEF Kill, KillFails, RowInv, Tables, Ownership, rows, boots
<1>21. ASSUME NEW r \in Row, NEW m \in Replica, Delete(r, m)
      PROVE  RowInv'
  BY <1>21, TypeParts DEF Delete, RowInv, Tables, Ownership, box, boots
<1>22. ASSUME Patch
      PROVE  RowInv'
  BY <1>22, TypeParts DEF Patch, RowInv, Tables, Ownership, rows, box, boots
<1>23. ASSUME Next PROVE RowInv'
  BY <1>1, <1>2, <1>3, <1>4, <1>5, <1>6, <1>7, <1>8, <1>9, <1>10, <1>11, <1>12, <1>13,
     <1>14, <1>15, <1>16, <1>17, <1>18, <1>19, <1>20, <1>21, <1>22, <1>23 DEF Next,
     RequestStep, MaintainerStep, BootStep
<1>24. ASSUME UNCHANGED vars PROVE RowInv'
  BY <1>24 DEF vars, rows, box, boots, actors, bounds, RowInv
<1> QED
  BY <1>23, <1>24
(* Tasks and old readings.                                                  *)

\* A task begins in a row only by its admission, which writes the row: nobody holds it,
\* and those that have read it before have an old reading.
Admission(r) ==
  /\ Serving(r) /\ ~Held(r)
  /\ fresh' = fresh \cap Others(r)
  /\ UNCHANGED <<st, owner, due>>

\* Without an admission to it, no task begins in a row.
LEMMA TasksBegin ==
  ASSUME TypeOK, ActorInv, NEW x \in Row, ~Admission(x), [Next]_vars
  PROVE  Running(x)' \subseteq Running(x)
<1>1. ASSUME NEW q \in Request, Look(q) \/ GiveUp(q) \/ EndTask(q)
      PROVE  Running(x)' \subseteq Running(x)
  BY <1>1, TypeParts DEF Look, GiveUp, EndTask, Running, Readings, Goto, See, At,
     Leave, Rest, Actor
<1>2. ASSUME NEW q \in Request, Retire(q)
      PROVE  Running(x)' \subseteq Running(x)
  BY <1>2, TypeParts DEF Retire, Running, Readings, Goto, See, At, Rest, Actor
<1>3. ASSUME NEW q \in Request, Admit(q)
      PROVE  Running(x)' \subseteq Running(x)
  <2>1. CASE ~Serving(seen[q].row)
    BY <1>3, <2>1, TypeParts DEF Admit, Leave, Rest, Goto, See, Running, Readings, Actor
  <2>2. CASE Serving(seen[q].row)
    <3>1. /\ ~Held(seen[q].row) /\ Written(seen[q].row) /\ UNCHANGED <<st, owner, due>>
          /\ pc' = [pc EXCEPT ![q] = "RUNNING"]
          /\ seen' = [seen EXCEPT ![q] = Chosen(seen[q].row, 0)]
      BY <1>3, <2>2 DEF Admit, Goto, See, rows
    <3>2. seen[q].row # x
      BY <2>2, <3>1 DEF Admission, Written
    <3>3. Chosen(seen[q].row, 0).row = seen[q].row
      BY DEF Chosen
    <3> QED
      BY <3>1, <3>2, <3>3, TypeParts DEF Running, Readings, Actor
  <2> QED
    BY <2>1, <2>2
<1>4. ASSUME NEW q \in Request, NEW m \in Replica, Reserve(q, m)
      PROVE  Running(x)' \subseteq Running(x)
  BY <1>4, TypeParts DEF Reserve, Running, Readings, Goto, See, At, Actor
<1>5. ASSUME NEW m \in Replica,
              Tick(m) \/ List(m) \/ Judge(m) \/ Reread(m) \/ Destroy(m)
      PROVE  Running(x)' \subseteq Running(x)
  BY <1>5, TypeParts, Two DEF Tick, List, Judge, Reread, Destroy, Running, Readings,
     Goto, See, At, Leave, Rest, Actor
<1>6. ASSUME NEW m \in Replica, FailTasks(m)
      PROVE  Running(x)' \subseteq Running(x)
  <2>1. \A q \in Request : \/ pc'[q] = pc[q] /\ seen'[q] = seen[q]
                          \/ pc'[q] = "done"
    BY <1>6, Two DEF FailTasks, Actor
  <2> QED
    BY <2>1 DEF Running
<1>7. ASSUME NEW m \in Replica,
              Retire(m) \/ BeginReload(m) \/ WriteFiles(m) \/ Dispose(m) \/
              ReloadFails(m) \/ EndReload(m)
      PROVE  Running(x)' \subseteq Running(x)
  BY <1>7, TypeParts, Two DEF Retire, BeginReload, WriteFiles, Dispose, ReloadFails,
     EndReload, Running, Readings, Goto, See, At, Leave, Rest, Actor
<1>8. ASSUME NEW m \in Replica, NEW r \in Row, FindStuck(m, r) \/ Condemn(m, r)
      PROVE  Running(x)' \subseteq Running(x)
  BY <1>8, TypeParts, Two DEF FindStuck, Condemn, Running, Readings, Goto, See, At,
     Actor
<1>9. ASSUME NEW m \in Replica, Crash(m)
      PROVE  Running(x)' \subseteq Running(x)
  BY <1>9, TypeParts, Two DEF Crash, Running, Readings, Leave, Rest, Goto, See, Actor
<1>10. ASSUME NEW r \in Row,
              Create(r) \/ CreateFails(r) \/ Prepare(r) \/ BootFails(r) \/
              Discard(r) \/ Record(r) \/ Undo(r) \/ Activate(r)
      PROVE  Running(x)' \subseteq Running(x)
    BY <1>10 DEF Create, CreateFails, Prepare, BootFails, Discard, Record, Undo,
     Activate, actors, Running
<1>11. ASSUME NEW r \in Row,
              Touch(r) \/ DeadlinePasses(r) \/ SandboxDies(r) \/
              KillOrphan(r)
      PROVE  Running(x)' \subseteq Running(x)
  BY <1>11 DEF Touch, DeadlinePasses, SandboxDies, KillOrphan, actors, Running
<1>12. ASSUME NEW m \in Replica, NEW r \in Row,
              Kill(r, m) \/ KillFails(r, m) \/ Delete(r, m)
      PROVE  Running(x)' \subseteq Running(x)
  BY <1>12 DEF Kill, KillFails, Delete, actors, Running
<1>13. ASSUME Patch
      PROVE  Running(x)' \subseteq Running(x)
  BY <1>13 DEF Patch, actors, Running
<1>14. ASSUME Next PROVE Running(x)' \subseteq Running(x)
  BY <1>1, <1>2, <1>3, <1>4, <1>5, <1>6, <1>7, <1>8, <1>9, <1>10, <1>11, <1>12, <1>13,
     <1>14 DEF Next, RequestStep, MaintainerStep, BootStep
<1>15. ASSUME UNCHANGED vars PROVE Running(x)' \subseteq Running(x)
  BY <1>15 DEF vars, rows, box, boots, actors, bounds, Running
<1> QED
  BY <1>14, <1>15

(* A maintainer whose reading of a serving sandbox is still that of the row when it is *)
(* about to destroy it was so before, or has just made sure that nothing runs.         *)
Ready(m) == m \in fresh /\ pc[m] = "destroy" /\ Serving(seen[m].row)

Kept(m) == Ready(m) /\ seen'[m] = seen[m]

\* One that is about to destroy was so before, or nothing runs.
LEMMA DestroysReady ==
  ASSUME TypeOK, ActorInv, ActorInv', NEW x \in Replica, Ready(x)', [Next]_vars
  PROVE  Kept(x) \/ Running(seen[x].row)' = {}
<1>1. ASSUME NEW q \in Request, Look(q) \/ GiveUp(q) \/ EndTask(q)
      PROVE  Kept(x) \/ Running(seen[x].row)' = {}
  BY <1>1, TypeParts, Two DEF Look, GiveUp, EndTask, Ready, Kept, Readings, Goto, See,
     At, Leave, Rest, Actor, Serving, rows
<1>2. ASSUME NEW q \in Request, Admit(q)
      PROVE  Kept(x) \/ Running(seen[x].row)' = {}
  BY <1>2, TypeParts, Two DEF Admit, Ready, Kept, Readings, Goto, See, At, Leave,
     Rest, Actor, Serving, rows, Written
<1>3. ASSUME NEW q \in Request, Retire(q)
      PROVE  Kept(x) \/ Running(seen[x].row)' = {}
  BY <1>3, TypeParts, Two DEF Retire, Ready, Kept, Readings, Ownership, ActorInv,
     Goto, See, At, Rest, Written, Others, Serving, SERVING, Actor
<1>4. ASSUME NEW q \in Request, NEW m \in Replica, Reserve(q, m)
      PROVE  Kept(x) \/ Running(seen[x].row)' = {}
  BY <1>4, TypeParts, Two DEF Reserve, Ready, Kept, Readings, Goto, See, At, Serving,
     SERVING, Insert, Actor, Ownership, ActorInv
<1>5. ASSUME NEW m \in Replica, Tick(m) \/ List(m) \/ Reread(m)
      PROVE  Kept(x) \/ Running(seen[x].row)' = {}
  BY <1>5, TypeParts, Two DEF Tick, List, Reread, Ready, Kept, Readings, Goto, See,
     At, Leave, Rest, Actor, Serving, rows
<1>6. ASSUME NEW m \in Replica, Judge(m)
      PROVE  Kept(x) \/ Running(seen[x].row)' = {}
  <2>1. CASE x = m
    <3>1. pc'[m] = "destroy" => Running(seen[m].row) = {} /\ seen'[m].row = seen[m].row
      BY <1>6, TypeParts DEF Judge, Goto, See, Leave, Rest, Readings, Actor, Chosen
    <3>2. \A q \in Request : pc'[q] = pc[q] /\ seen'[q] = seen[q]
      BY <1>6, TypeParts, Two DEF Judge, Goto, See, Leave, Rest, Readings, Actor
    <3> QED
      BY <2>1, <3>1, <3>2 DEF Ready, Running
  <2>2. CASE x # m
        BY <1>6, <2>2, TypeParts DEF Judge, Ready, Kept, Readings, Goto, See, Leave,
       Rest, Actor, Serving, rows
  <2> QED
    BY <2>1, <2>2
<1>7. ASSUME NEW m \in Replica, FailTasks(m)
      PROVE  Kept(x) \/ Running(seen[x].row)' = {}
  <2>1. Running(seen[m].row) \subseteq Request
    BY DEF Running
  <2>2. seen'[x] = seen[x] /\ UNCHANGED st /\ (x # m => pc'[x] = pc[x])
    BY <1>7, <2>1, Two DEF FailTasks, Actor, rows
  <2>3. CASE x = m
    <3>1. \A q \in Request : IF q \in Running(seen[m].row) THEN pc'[q] = "done"
                            ELSE pc'[q] = pc[q] /\ seen'[q] = seen[q]
      BY <1>7, <2>1, Two DEF FailTasks, Actor
    <3> QED
      BY <2>2, <2>3, <3>1 DEF Running
  <2>4. CASE x # m
    BY <1>7, <2>2, <2>4 DEF FailTasks, Ready, Kept, Serving
  <2> QED
    BY <2>3, <2>4
<1>8. ASSUME NEW m \in Replica, Destroy(m)
      PROVE  Kept(x) \/ Running(seen[x].row)' = {}
  <2>1. seen[m].row \in Row
    BY <1>8 DEF Destroy, ActorInv
  <2> QED
        BY <1>8, <2>1, TypeParts DEF Destroy, Destroying, Ready, Kept, Readings,
       Ownership, ActorInv, Goto, See, Rest, Written, Others, Actor, Serving, SERVING
<1>9. ASSUME NEW m \in Replica, Retire(m)
      PROVE  Kept(x) \/ Running(seen[x].row)' = {}
  BY <1>9, TypeParts, Two DEF Retire, Ready, Kept, Readings, Ownership, ActorInv,
     Goto, See, At, Rest, Written, Others, Serving, SERVING, Actor
<1>10. ASSUME NEW m \in Replica, BeginReload(m)
      PROVE  Kept(x) \/ Running(seen[x].row)' = {}
  BY <1>10, TypeParts, Two DEF BeginReload, Ready, Kept, Readings, Goto, See, At,
     Leave, Rest, Actor, Written, Serving
<1>11. ASSUME NEW m \in Replica, EndReload(m)
      PROVE  Kept(x) \/ Running(seen[x].row)' = {}
  BY <1>11, TypeParts, Two DEF EndReload, Ready, Kept, Readings, Goto, See, At, Leave,
     Rest, Actor, Serving
<1>12. ASSUME NEW m \in Replica, WriteFiles(m) \/ Dispose(m) \/ ReloadFails(m)
      PROVE  Kept(x) \/ Running(seen[x].row)' = {}
  BY <1>12, TypeParts, Two DEF WriteFiles, Dispose, ReloadFails, Ready, Kept,
     Readings, Goto, See, At, Leave, Rest, Actor, Serving, rows
<1>13. ASSUME NEW m \in Replica, NEW r \in Row, FindStuck(m, r) \/ Condemn(m, r)
      PROVE  Kept(x) \/ Running(seen[x].row)' = {}
  BY <1>13, TypeParts, Two DEF FindStuck, Condemn, Ready, Kept, Readings, Goto, See,
     At, Leave, Rest, Actor, Serving, SERVING, Transitional, Chosen, rows
<1>14. ASSUME NEW m \in Replica, Crash(m)
      PROVE  Kept(x) \/ Running(seen[x].row)' = {}
  BY <1>14, TypeParts, Two DEF Crash, Ready, Kept, Readings, Goto, See, Leave, Rest,
     Serving, rows, Actor
<1>15. ASSUME NEW r \in Row,
              Create(r) \/ CreateFails(r) \/ Prepare(r) \/ BootFails(r) \/
              Discard(r)
      PROVE  Kept(x) \/ Running(seen[x].row)' = {}
    BY <1>15 DEF Create, CreateFails, Prepare, BootFails, Discard, actors, rows, Ready,
     Kept, Serving
<1>16. ASSUME NEW r \in Row, Record(r) \/ Undo(r)
      PROVE  Kept(x) \/ Running(seen[x].row)' = {}
  BY <1>16, TypeParts DEF Record, Undo, Ready, Kept, Serving, SERVING, Written,
     Others, Destroying, Ownership, Readings, ActorInv, Actor
<1>17. ASSUME NEW r \in Row, Activate(r)
      PROVE  Kept(x) \/ Running(seen[x].row)' = {}
  BY <1>17, TypeParts DEF Activate, Ready, Kept, Serving, SERVING, Ownership,
     Readings, ActorInv, Actor
<1>18. ASSUME NEW r \in Row,
              Touch(r) \/ DeadlinePasses(r) \/ SandboxDies(r) \/
              KillOrphan(r)
      PROVE  Kept(x) \/ Running(seen[x].row)' = {}
    BY <1>18 DEF Touch, DeadlinePasses, SandboxDies, KillOrphan, actors, rows, Ready,
     Kept, Serving, Written
<1>19. ASSUME NEW m \in Replica, NEW r \in Row, Kill(r, m) \/ KillFails(r, m)
      PROVE  Kept(x) \/ Running(seen[x].row)' = {}
  BY <1>19 DEF Kill, KillFails, actors, rows, Ready, Kept, Serving
<1>20. ASSUME NEW r \in Row, NEW m \in Replica, Delete(r, m)
      PROVE  Kept(x) \/ Running(seen[x].row)' = {}
  BY <1>20, TypeParts DEF Delete, Ready, Kept, Serving, SERVING, Written, Others,
     Ownership, ActorInv, Actor
<1>21. ASSUME Patch
      PROVE  Kept(x) \/ Running(seen[x].row)' = {}
  BY <1>21 DEF Patch, actors, rows, Ready, Kept, Serving
<1>22. ASSUME Next PROVE Kept(x) \/ Running(seen[x].row)' = {}
  BY <1>1, <1>2, <1>3, <1>4, <1>5, <1>6, <1>7, <1>8, <1>9, <1>10, <1>11, <1>12, <1>13,
     <1>14, <1>15, <1>16, <1>17, <1>18, <1>19, <1>20, <1>21, <1>22 DEF Next,
     RequestStep, MaintainerStep, BootStep
<1>23. ASSUME UNCHANGED vars PROVE Kept(x) \/ Running(seen[x].row)' = {}
  BY <1>23 DEF vars, rows, box, boots, actors, bounds, Ready, Kept, Serving
<1> QED
  BY <1>22, <1>23

\* Spare: what is admitted meanwhile makes the reading an old one.
LEMMA SpareStep ==
  ASSUME TypeOK, ActorInv, ActorInv', Spare, [Next]_vars
  PROVE  Spare'
<1> SUFFICES ASSUME NEW m \in Replica, Ready(m)'
             PROVE  Running(seen[m].row)' = {}
  BY DEF Spare, Ready
<1>1. CASE Kept(m)
  <2>1. PICK r \in Row : r = seen[m].row
    BY <1>1 DEF Kept, Ready, ActorInv
  <2>2. Running(r) = {}
    BY <1>1, <2>1 DEF Kept, Ready, Spare
  <2>3. ~Admission(r)
    BY <1>1, <2>1 DEF Kept, Ready, Admission, Others
  <2>4. Running(r)' \subseteq Running(r)
    BY <2>3, TasksBegin
  <2>5. seen'[m].row = r
    BY <1>1, <2>1 DEF Kept
  <2> QED
    BY <2>2, <2>4, <2>5 DEF Running
<1> QED
  BY <1>1, DestroysReady

(* Reloads.                                                                 *)
Reloading(m) == pc[m] \in {"write", "dispose"}

\* A replica that reloads has begun to, or did so before, with the same reading.
LEMMA ReloadSteps ==
  ASSUME TypeOK, ActorInv, NEW x \in Replica, Reloading(x)', [Next]_vars
  PROVE  BeginReload(x) \/ (Reloading(x) /\ seen'[x] = seen[x])
<1>1. ASSUME NEW q \in Request,
              Look(q) \/ GiveUp(q) \/ EndTask(q) \/ Admit(q) \/ Retire(q)
      PROVE  BeginReload(x) \/ (Reloading(x) /\ seen'[x] = seen[x])
  BY <1>1, TypeParts, Two DEF Look, GiveUp, EndTask, Admit, Retire, Reloading,
     Readings, Goto, See, At, Leave, Rest, Actor
<1>2. ASSUME NEW q \in Request, NEW m \in Replica, Reserve(q, m)
      PROVE  BeginReload(x) \/ (Reloading(x) /\ seen'[x] = seen[x])
  BY <1>2, TypeParts, Two DEF Reserve, Reloading, Readings, Goto, See, At, Leave,
     Rest, Actor
<1>3. ASSUME NEW m \in Replica,
              Tick(m) \/ List(m) \/ Judge(m) \/ Reread(m) \/ Destroy(m) \/
              Retire(m) \/ WriteFiles(m) \/ ReloadFails(m)
      PROVE  BeginReload(x) \/ (Reloading(x) /\ seen'[x] = seen[x])
  BY <1>3, TypeParts DEF Tick, List, Judge, Reread, Destroy, Retire, WriteFiles,
     ReloadFails, Reloading, Readings, Goto, See, At, Leave, Rest, Actor
<1>4. ASSUME NEW m \in Replica, Dispose(m) \/ EndReload(m)
      PROVE  BeginReload(x) \/ (Reloading(x) /\ seen'[x] = seen[x])
  BY <1>4, TypeParts DEF Dispose, EndReload, Reloading, Readings, Goto, See, At,
     Leave, Rest, Actor
<1>5. ASSUME NEW m \in Replica, BeginReload(m)
      PROVE  BeginReload(x) \/ (Reloading(x) /\ seen'[x] = seen[x])
  BY <1>5, TypeParts DEF BeginReload, Reloading, Readings, Goto, See, At, Leave, Rest,
     Actor
<1>6. ASSUME NEW m \in Replica, FailTasks(m)
      PROVE  BeginReload(x) \/ (Reloading(x) /\ seen'[x] = seen[x])
  <2>1. Running(seen[m].row) \subseteq Request
    BY DEF Running
  <2> QED
    BY <1>6, <2>1, TypeParts, Two DEF FailTasks, Reloading, Readings, Actor
<1>7. ASSUME NEW m \in Replica, NEW r \in Row, FindStuck(m, r) \/ Condemn(m, r)
      PROVE  BeginReload(x) \/ (Reloading(x) /\ seen'[x] = seen[x])
  BY <1>7, TypeParts DEF FindStuck, Condemn, Reloading, Readings, Goto, See, At,
     Leave, Rest, Actor
<1>8. ASSUME NEW m \in Replica, Crash(m)
      PROVE  BeginReload(x) \/ (Reloading(x) /\ seen'[x] = seen[x])
  BY <1>8, TypeParts DEF Crash, Reloading, Readings, Goto, See, Leave, Rest, Actor
<1>9. ASSUME NEW r \in Row,
              Create(r) \/ CreateFails(r) \/ Prepare(r) \/ BootFails(r) \/
              Discard(r) \/ Record(r) \/ Undo(r) \/ Activate(r)
      PROVE  BeginReload(x) \/ (Reloading(x) /\ seen'[x] = seen[x])
    BY <1>9 DEF Create, CreateFails, Prepare, BootFails, Discard, Record, Undo,
     Activate, actors, Reloading
<1>10. ASSUME NEW r \in Row,
              Touch(r) \/ DeadlinePasses(r) \/ SandboxDies(r) \/
              KillOrphan(r)
      PROVE  BeginReload(x) \/ (Reloading(x) /\ seen'[x] = seen[x])
  BY <1>10 DEF Touch, DeadlinePasses, SandboxDies, KillOrphan, actors, Reloading
<1>11. ASSUME NEW m \in Replica, NEW r \in Row,
              Kill(r, m) \/ KillFails(r, m) \/ Delete(r, m)
      PROVE  BeginReload(x) \/ (Reloading(x) /\ seen'[x] = seen[x])
  BY <1>11 DEF Kill, KillFails, Delete, actors, Reloading
<1>12. ASSUME Patch
      PROVE  BeginReload(x) \/ (Reloading(x) /\ seen'[x] = seen[x])
  BY <1>12 DEF Patch, actors, Reloading
<1>13. ASSUME Next PROVE BeginReload(x) \/ (Reloading(x) /\ seen'[x] = seen[x])
  BY <1>1, <1>2, <1>3, <1>4, <1>5, <1>6, <1>7, <1>8, <1>9, <1>10, <1>11, <1>12, <1>13
     DEF Next, RequestStep, MaintainerStep, BootStep
<1>14. ASSUME UNCHANGED vars PROVE BeginReload(x) \/ (Reloading(x) /\ seen'[x] = seen[x])
  BY <1>14 DEF vars, rows, box, boots, actors, bounds, Reloading
<1> QED
  BY <1>13, <1>14

\* While replica x reloads the settings of row r, and goes on to, it keeps hold of the row.
Holds(x, r) ==
  /\ st[r] \in {"ACTIVE", "RETIRING", "DESTROYING", "gone"}
  /\ Serving(r) => owner[r] = x /\ r \notin due

\* No step of another takes the row from a replica that reloads it.
LEMMA HoldsStep ==
  ASSUME TypeOK, ActorInv, [Next]_vars, NEW x \in Replica, NEW r \in Row,
         Reloading(x), Reloading(x)', seen[x].row = r, Holds(x, r)
  PROVE  Holds(x, r)' /\ (Serving(r)' => Serving(r))
<1> DEFINE Goal == Holds(x, r)' /\ (Serving(r)' => Serving(r))
<1> USE DEF Holds, Serving, SERVING
<1>0. Ownership
  BY TypeParts
<1>1. CASE UNCHANGED <<st, owner, due>>
  BY <1>1
<1>2. ASSUME NEW a \in Actor, Retire(a) PROVE Goal
  BY <1>0, <1>2 DEF Retire, Ownership
<1>3. ASSUME NEW q \in Request, NEW m \in Replica, Reserve(q, m) PROVE Goal
  BY <1>0, <1>3 DEF Reserve, Insert, Ownership
<1>4. ASSUME NEW m \in Replica, Destroy(m) PROVE Goal
  BY <1>0, <1>4 DEF Destroy, Destroying, Ownership
<1>5. ASSUME NEW m \in Replica, BeginReload(m) PROVE Goal
  <2>1. Serving(r) => Held(r)
    BY AgentSandboxesConstants DEF Held
  <2> QED
    BY <1>0, <1>5, <2>1 DEF BeginReload, Ownership
<1>6. ASSUME NEW m \in Replica, EndReload(m) PROVE Goal
  <2>1. m # x
    BY <1>6 DEF EndReload, Reloading
  <2> QED
    BY <1>0, <1>6, <2>1 DEF EndReload, Ownership
<1>7. ASSUME NEW y \in Row, Record(y) PROVE Goal
  BY <1>0, <1>7 DEF Record, Ownership
<1>8. ASSUME NEW y \in Row, Activate(y) PROVE Goal
  BY <1>0, <1>8 DEF Activate, Ownership
<1>9. ASSUME NEW y \in Row, Undo(y) PROVE Goal
  BY <1>0, <1>9 DEF Undo, Destroying, Ownership
<1>10. ASSUME NEW y \in Row, DeadlinePasses(y) PROVE Goal
  BY <1>0, <1>10 DEF DeadlinePasses, Reloading
<1>11. ASSUME NEW y \in Row, NEW m \in Replica, Delete(y, m) PROVE Goal
  BY <1>0, <1>11 DEF Delete, Ownership
<1> QED
  BY RowSteps, <1>1, <1>2, <1>3, <1>4, <1>5, <1>6, <1>7, <1>8, <1>9, <1>10, <1>11

\* Alone: nobody is admitted to a row that is held.
LEMMA AloneStep ==
  ASSUME TypeOK, ActorInv, Alone, [Next]_vars
  PROVE  Alone'
<1> SUFFICES ASSUME NEW m \in Replica, Reloading(m)'
             PROVE  /\ Holds(m, seen[m].row)'
                    /\ Serving(seen[m].row)' => Running(seen[m].row)' = {}
  BY DEF Alone, Reloading, Holds
<1>1. CASE BeginReload(m)
  <2>1. PICK r \in Row : r = seen[m].row
    BY <1>1 DEF BeginReload, At, ActorInv
  <2>2. Running(r) = {} /\ st[r] = "ACTIVE" /\ owner' = [owner EXCEPT ![r] = m]
        /\ due' = due \ {r} /\ UNCHANGED <<st, seen>> /\ pc' = [pc EXCEPT ![m] = "write"]
        BY <1>1, <2>1, TypeParts DEF BeginReload, Reloading, Leave, Rest, Goto,
       Readings, Actor
  <2>3. Holds(m, r)' /\ seen'[m].row = r
    BY <2>1, <2>2, TypeParts DEF Holds, Ownership
  <2>4. Running(r)' = {}
    BY <2>2, TypeParts, Two DEF Running, Readings, Actor
  <2> QED
    BY <2>3, <2>4 DEF Holds, Running, Serving
<1>2. CASE Reloading(m) /\ seen'[m] = seen[m]
  <2>1. PICK r \in Row : r = seen[m].row
    BY <1>2 DEF Reloading, ActorInv
  <2>2. Holds(m, r) /\ (Serving(r) => Running(r) = {})
    BY <1>2, <2>1 DEF Alone, Reloading, Holds
  <2>3. Holds(m, r)' /\ (Serving(r)' => Serving(r))
    BY <1>2, <2>1, <2>2, HoldsStep
  <2>4. Serving(r) => ~Admission(r)
    BY <2>2, AgentSandboxesConstants DEF Admission, Held, Holds
  <2>5. Serving(r)' => Running(r)' = {}
    BY <2>2, <2>3, <2>4, TasksBegin
  <2>6. seen'[m].row = r
    BY <1>2, <2>1
  <2> QED
    BY <2>3, <2>5, <2>6 DEF Holds, Running, Serving
<1> QED
  BY <1>1, <1>2, ReloadSteps

\* IInv is inductive.
LEMMA Next_IInv == IInv /\ [Next]_vars => IInv'
<1> SUFFICES ASSUME IInv, [Next]_vars PROVE IInv'
  OBVIOUS
<1>1. TypeOK /\ ActorInv /\ OneBound /\ RowInv /\ Spare /\ Alone
  BY DEF IInv
<1>2. TypeOK' /\ ActorInv'
  BY <1>1, OwnershipStep, ReadingsStep, TablesStep, TypePartsNext
<1>3. OneBound' /\ RowInv'
  BY <1>1, BoundStep, RowStep
<1>4. Spare' /\ Alone'
  BY <1>1, <1>2, SpareStep, AloneStep
<1> QED
  BY <1>2, <1>3, <1>4 DEF IInv

-----------------------------------------------------------------------------
\* IInv holds in every state of every behaviour.
THEOREM Invariance == Spec => []IInv
<1> QED
  BY Init_IInv, Next_IInv, PTL DEF Spec

\* Every variable keeps its type, and a row in transition its owner.
THEOREM TypeCorrect == Spec => []TypeOK
<1>1. IInv => TypeOK
  BY DEF IInv
<1> QED
  BY <1>1, Invariance, PTL

\* An agent has one sandbox that is being booted or takes new tasks.
THEOREM OneSandbox == Spec => []OneBound
<1>1. IInv => OneBound
  BY DEF IInv
<1> QED
  BY <1>1, Invariance, PTL

\* The settings of a serving sandbox are reloaded only while no task runs in it.
THEOREM ReloadsAlone == Spec => []ReloadIsAlone
<1>1. IInv => ReloadIsAlone
  BY DEF IInv, Alone, ReloadIsAlone
<1> QED
  BY <1>1, Invariance, PTL

\* The row of a sandbox whose id was known is deleted only when the sandbox is dead.
THEOREM NoneForgotten == Spec => []RecordedIsKilled
<1>1. IInv => RecordedIsKilled
  BY DEF IInv, TypeOK, RowInv, RecordedIsKilled
<1> QED
  BY <1>1, Invariance, PTL

\* A sandbox is taken from service while a task runs in it only if it is ill.
THEOREM TasksAreSpared == Spec => TasksSpared
<1> DEFINE Ill(r) == \E m \in Replica : At(m, "abandon") /\ seen[m].row = r
           Taken(r) == Serving(r) /\ st'[r] = "DESTROYING" /\ Running(r) # {}
<1>1. ASSUME IInv, [Next]_vars, NEW r \in Row, Taken(r) PROVE Ill(r)
  <2>1. ActorInv /\ Spare /\ Ownership
    BY <1>1, TypeParts DEF IInv
  <2>2. st'[r] # st[r]
    BY <1>1 DEF Serving, SERVING
  <2>3. ASSUME NEW a \in Actor, Retire(a) PROVE FALSE
    BY <1>1, <2>1, <2>2, <2>3 DEF Retire, Ownership
  <2>4. ASSUME NEW q \in Request, NEW m \in Replica, Reserve(q, m) PROVE FALSE
    BY <1>1, <2>1, <2>2, <2>4 DEF Reserve, Insert, Ownership
  <2>5. ASSUME NEW m \in Replica, Destroy(m) PROVE Ill(r)
    <3>1. m \in fresh /\ seen[m].row = r /\ pc[m] \in {"destroy", "abandon"}
      BY <1>1, <2>1, <2>2, <2>5 DEF Destroy, Destroying, Ownership
    <3>2. pc[m] # "destroy"
      BY <1>1, <2>1, <3>1 DEF Spare
    <3> QED
      BY <3>1, <3>2 DEF At
  <2>6. ASSUME NEW m \in Replica, BeginReload(m) \/ EndReload(m) PROVE FALSE
    BY <2>2, <2>6 DEF BeginReload, EndReload
  <2>7. ASSUME NEW y \in Row, Record(y) \/ Activate(y) \/ Undo(y) \/ DeadlinePasses(y)
        PROVE  FALSE
    BY <1>1, <2>1, <2>2, <2>7
    DEF Record, Activate, Undo, Destroying, DeadlinePasses, Ownership, Serving, SERVING
  <2>8. ASSUME NEW y \in Row, NEW m \in Replica, Delete(y, m) PROVE FALSE
    BY <1>1, <2>1, <2>2, <2>8 DEF Delete, Ownership
  <2> QED
    BY <1>1, <2>2, <2>3, <2>4, <2>5, <2>6, <2>7, <2>8, RowSteps
<1>2. IInv /\ [Next]_vars => [\A r \in Row : Taken(r) => Ill(r)]_vars
  BY <1>1
<1> QED
  BY <1>2, Invariance, PTL DEF Spec, TasksSpared
=============================================================================
