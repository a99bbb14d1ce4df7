-------------------------- MODULE AgentTasksProofs --------------------------
(* Proofs about AgentTasks, for any replicas, tasks and sessions, and any   *)
(* number of failures.                                                      *)
EXTENDS AgentTasks, TLAPS

\* Where a runner has a session and works on it.
Working == {"prompt", "follow", "begin", "fenced", "aborting", "release", "ended",
            "messages"}

\* A task that does not exist has no trace.
NewInv ==
  \A t \in Task : state[t] = "NEW" =>
    /\ sess[t] = NoSession /\ fence[t] = NoReplica
    /\ \A r \in Replica : pc[<<r, t>>] = "none" /\ <<r, t>> \notin wire

\* What a runner takes for the session of its task is that session, whether the
\* task is still its own or not; one it has yet to record is nobody else's.
SessOf(r, t) ==
  /\ pc[<<r, t>>] \notin {"none", "save", "finish"} /\ loc[<<r, t>>].session # NoSession
       => loc[<<r, t>>].session = sess[t]
  /\ pc[<<r, t>>] \in Working => loc[<<r, t>>].session # NoSession
  /\ pc[<<r, t>>] \in {"session", "save"} /\ Owns(r, t) => sess[t] = NoSession
  /\ pc[<<r, t>>] = "connect" /\ Owns(r, t) => sess[t] = loc[<<r, t>>].session
  /\ pc[<<r, t>>] = "session" => loc[<<r, t>>].session = NoSession
  /\ pc[<<r, t>>] = "save" =>
       loc[<<r, t>>].session # NoSession /\ \A u \in Task : sess[u] # loc[<<r, t>>].session

SessInv ==
  /\ \A r \in Replica, t \in Task : SessOf(r, t)
  /\ \A q, r \in Replica, t, u \in Task :
       /\ pc[<<q, u>>] = "save" /\ pc[<<r, t>>] = "save"
       /\ loc[<<q, u>>].session = loc[<<r, t>>].session
       => q = r /\ t = u

\* A round is in the session of its task.
RoundInv == \A s \in Session : \A t \in rounds[s] : sess[t] = s

\* r has decided to send an abort command for t, or has one under way.
Cmd(r, t) == <<r, t>> \in wire \/ pc[<<r, t>>] \in {"fenced", "aborting"}

\* While a command is on its way, its task has a fence; while it has one, no other
\* task runs in its session; and who may take the fence away is the last to send.
FenceInv ==
  /\ \A r \in Replica, t \in Task : Cmd(r, t) => fence[t] # NoReplica
  /\ \A t, u \in Task :
       fence[t] # NoReplica /\ state[u] = "RUNNING" /\ u # t => sess[u] # sess[t]
  /\ \A t \in Task : fence[t] # NoReplica => sess[t] # NoSession
  /\ \A r, q \in Replica, t \in Task :
       q # r /\ fence[t] = r /\ loc[<<r, t>>].alone
             /\ pc[<<r, t>>] \in {"fenced", "aborting", "release"} => ~Cmd(q, t)
  /\ \A r \in Replica, t \in Task :
       pc[<<r, t>>] = "release" => loc[<<r, t>>].alone /\ <<r, t>> \notin wire

\* Who would stop a task has a reason.
ReasonInv ==
  \A r \in Replica, t \in Task :
    /\ "ABORTED" \in {loc[<<r, t>>].reason, loc[<<r, t>>].outcome} => t \in wish
    /\ "TIMEOUT" \in {loc[<<r, t>>].reason, loc[<<r, t>>].outcome} => t \in late

IInv ==
  TypeOK /\ NewInv /\ SessInv /\ OneTaskPerSession /\ RoundInv /\ FenceInv /\ ReasonInv

\* The part of the types that most steps need.
Rows ==
  /\ state \in [Task -> Ended \cup {"NEW", "RUNNING"}]
  /\ owner \in [Task -> Replica \cup {NoReplica}]
  /\ sess \in [Task -> Session \cup {NoSession}]
  /\ fence \in [Task -> Replica \cup {NoReplica}]
  /\ pc \in [Runner -> Await]
  /\ DOMAIN loc = Runner

LEMMA RowsOf == TypeOK => Rows
BY DEF TypeOK, Rows

(* The runner's variables stay of their type: where it goes, what it knows. *)
LEMMA GotoType ==
  ASSUME TypeOK, NEW r \in Replica, NEW t \in Task, NEW to \in Await, Goto(r, t, to)
  PROVE  pc' \in [Runner -> Await]
BY DEF TypeOK, Goto

LEMMA LetType ==
  ASSUME TypeOK, NEW r \in Replica, NEW t \in Task, NEW l \in Locals, Let(r, t, l)
  PROVE  loc' \in [Runner -> Locals]
BY DEF TypeOK, Let

LEMMA LocOf ==
  ASSUME TypeOK, NEW r \in Replica, NEW t \in Task
  PROVE  loc[<<r, t>>] \in Locals
BY DEF TypeOK, Runner

LEMMA LocalsType ==
  ASSUME NEW l \in Locals
  PROVE  /\ l.session \in Session \cup {NoSession}
         /\ l.from \in Replica \cup {NoReplica}
         /\ l.reason \in {"none", "ABORTED", "TIMEOUT"}
         /\ l.outcome \in Ended
         /\ l.answer \in Task \cup {NoTask}
BY DEF Locals

LEMMA LocalsUpdate ==
  ASSUME NEW l \in Locals
  PROVE  /\ \A s \in Session : [l EXCEPT !.session = s] \in Locals
         /\ \A x \in {"ABORTED", "TIMEOUT"} : [l EXCEPT !.reason = x] \in Locals
         /\ \A b \in BOOLEAN : [l EXCEPT !.alone = b] \in Locals
         /\ [l EXCEPT !.sent = TRUE] \in Locals
         /\ \A e \in Ended, a \in Task \cup {NoTask} :
              [l EXCEPT !.outcome = e, !.answer = a] \in Locals
BY DEF Locals

(* The runners of a replica that dies are gone; no other is disturbed.      *)
LEMMA CrashPc ==
  ASSUME NEW r \in Replica, Crash(r)
  PROVE  \A q \in Replica, t \in Task :
           pc'[<<q, t>>] = IF q = r THEN "none" ELSE pc[<<q, t>>]
BY DEF Crash, Runner

(* The steps of an abort keep the session and what the task will end with.  *)
LEMMA Aborting ==
  ASSUME TypeOK, NEW r \in Replica, NEW t \in Task,
         DecideAbort(r, t) \/ BeginAbort(r, t) \/ AbortAnswered(r, t) \/ AskAgain(r, t)
  PROVE  \A q \in Replica, u \in Task :
           /\ loc'[<<q, u>>].session = loc[<<q, u>>].session
           /\ loc'[<<q, u>>].outcome = loc[<<q, u>>].outcome
<1>1. loc[<<r, t>>] \in Locals
  BY LocOf
<1>2. \A x : /\ [loc[<<r, t>>] EXCEPT !.reason = x].session = loc[<<r, t>>].session
            /\ [loc[<<r, t>>] EXCEPT !.reason = x].outcome = loc[<<r, t>>].outcome
            /\ [loc[<<r, t>>] EXCEPT !.sent = x].session = loc[<<r, t>>].session
            /\ [loc[<<r, t>>] EXCEPT !.sent = x].outcome = loc[<<r, t>>].outcome
            /\ [loc[<<r, t>>] EXCEPT !.alone = x].session = loc[<<r, t>>].session
            /\ [loc[<<r, t>>] EXCEPT !.alone = x].outcome = loc[<<r, t>>].outcome
  BY <1>1 DEF Locals
<1>3. ASSUME NEW l, Let(r, t, l), l.session = loc[<<r, t>>].session,
              l.outcome = loc[<<r, t>>].outcome
      PROVE  \A q \in Replica, u \in Task :
               /\ loc'[<<q, u>>].session = loc[<<q, u>>].session
               /\ loc'[<<q, u>>].outcome = loc[<<q, u>>].outcome
  BY <1>3 DEF Let, TypeOK, Runner
<1>4. CASE DecideAbort(r, t)
  BY <1>2, <1>3, <1>4 DEF DecideAbort
<1>5. CASE BeginAbort(r, t)
  BY <1>2, <1>3, <1>5 DEF BeginAbort, Leave
<1>6. CASE AbortAnswered(r, t)
  BY <1>2, <1>3, <1>6 DEF AbortAnswered
<1>7. CASE AskAgain(r, t)
  BY <1>2, <1>3, <1>7 DEF AskAgain
<1>8. QED
  BY <1>4, <1>5, <1>6, <1>7

(* The steps that decide how a task ends change little else.                *)
LEMMA Deciding ==
  ASSUME TypeOK, NEW r \in Replica, NEW t \in Task,
         RequestFails(r, t) \/ SeeGone(r, t) \/ Messages(r, t)
  PROVE  /\ pc[<<r, t>>] \notin {"none", "listed", "taken"}
         /\ pc' = [pc EXCEPT ![<<r, t>>] = "finish"]
         /\ UNCHANGED <<table, wire, box, down>>
         /\ \A q \in Replica, u \in Task :
              /\ loc'[<<q, u>>].session = loc[<<q, u>>].session
              /\ loc'[<<q, u>>].alone = loc[<<q, u>>].alone
              /\ loc'[<<q, u>>].reason = loc[<<q, u>>].reason
              /\ \/ loc'[<<q, u>>].outcome \in {"FAILED", "SUCCEEDED"}
                 \/ loc'[<<q, u>>].outcome \in {loc[<<q, u>>].reason, loc[<<q, u>>].outcome}
<1>1. /\ pc[<<r, t>>] \notin {"none", "listed", "taken"}
      /\ pc' = [pc EXCEPT ![<<r, t>>] = "finish"]
      /\ UNCHANGED <<table, wire, box, down>>
  BY DEF RequestFails, SeeGone, Messages, Goto
<1>2. PICK e \in {"FAILED", "SUCCEEDED", loc[<<r, t>>].reason} :
        \E a : Let(r, t, [loc[<<r, t>>] EXCEPT !.outcome = e, !.answer = a])
  BY DEF RequestFails, SeeGone, Messages
<1>3. PICK a : Let(r, t, [loc[<<r, t>>] EXCEPT !.outcome = e, !.answer = a])
  BY <1>2
<1> DEFINE l == [loc[<<r, t>>] EXCEPT !.outcome = e, !.answer = a]
<1>4. /\ l.session = loc[<<r, t>>].session
      /\ l.alone = loc[<<r, t>>].alone
      /\ l.reason = loc[<<r, t>>].reason
      /\ l.outcome = e
  BY LocOf DEF Locals
<1>5. Let(r, t, l)
  BY <1>3
<1> HIDE DEF l
<1>6. \A q \in Replica, u \in Task :
        loc'[<<q, u>>] = IF q = r /\ u = t THEN l ELSE loc[<<q, u>>]
  BY <1>5 DEF Let, TypeOK, Runner
<1>7. QED
  BY <1>1, <1>2, <1>4, <1>6

(* A prompt that the engine takes leaves its variables of their type.       *)
LEMMA DeliverType ==
  ASSUME TypeOK, NEW t \in Task, NEW s, Deliver(t, s)
  PROVE  rounds' \in [Session -> SUBSET Task] /\ talk' \in [Session -> Seq(Task)]
<1>1. \A x \in Session : Append(talk[x], t) \in Seq(Task)
  BY DEF TypeOK
<1> QED
  BY <1>1 DEF TypeOK, Deliver

(* Every step preserves the type invariant.                                 *)
LEMMA TypeOKStep ==
  ASSUME TypeOK, SessInv, [Next]_vars
  PROVE  TypeOK'
<1>1. ASSUME NEW r \in Replica, NEW t \in Task, Connect(r, t) PROVE TypeOK'
  BY <1>1, AgentTasksConstants
  DEF Connect, Goto, TypeOK, Await, Locals, Runner, Ended, table, engine, box
<1>2. ASSUME NEW r \in Replica, NEW t \in Task, CreateSession(r, t) PROVE TypeOK'
  <2>1. loc[<<r, t>>] \in Locals
    BY LocOf
  <2>2. loc' \in [Runner -> Locals]
    BY <1>2, <2>1, LocalsUpdate, LetType DEF CreateSession
  <2>3. pc' \in [Runner -> Await]
    BY <1>2, GotoType DEF CreateSession, Await
  <2>4. QED
    BY <1>2, <2>2, <2>3 DEF CreateSession, Fault, TypeOK, Await, Ended, table, engine, box
<1>3. ASSUME NEW r \in Replica, NEW t \in Task, SaveSession(r, t) PROVE TypeOK'
  <2>1. loc[<<r, t>>].session \in Session \cup {NoSession}
    BY LocOf, LocalsType
  <2>2. QED
    BY <1>3, <2>1 DEF SaveSession, Goto, Leave, TypeOK, Await, engine, box
<1>4. ASSUME NEW r \in Replica, NEW t \in Task, Prompt(r, t) PROVE TypeOK'
  <2>1. pc' \in [Runner -> Await]
    BY <1>4, GotoType DEF Prompt, Await
  <2>2. QED
    BY <1>4, <2>1, DeliverType DEF Prompt, TypeOK, table, box
<1>5. ASSUME NEW r \in Replica, NEW t \in Task, RequestFails(r, t) PROVE TypeOK'
  <2>1. loc[<<r, t>>] \in Locals
    BY LocOf
  <2>2. loc' \in [Runner -> Locals]
    BY <1>5, <2>1, LocalsUpdate, LetType, LocalsType DEF RequestFails, Ended
  <2>3. pc' \in [Runner -> Await]
    BY <1>5, GotoType DEF RequestFails, Await
  <2>4. rounds' \in [Session -> SUBSET Task] /\ talk' \in [Session -> Seq(Task)]
    BY <1>5, DeliverType DEF RequestFails, TypeOK, engine
  <2>5. faults' \in 0..MaxFaults
    BY <1>5, AgentTasksConstants DEF RequestFails, Fault, TypeOK
  <2>6. UNCHANGED <<table, wire, box, down>>
    BY <1>5 DEF RequestFails
  <2>7. QED
    BY <2>2, <2>3, <2>4, <2>5, <2>6 DEF TypeOK, table, box
<1>6. ASSUME NEW r \in Replica, NEW t \in Task, Lose(r, t) PROVE TypeOK'
  BY <1>6, AgentTasksConstants
  DEF Lose, Goto, Leave, TypeOK, Await, Locals, Runner, Ended, table, engine, box
<1>7. ASSUME NEW r \in Replica, NEW t \in Task, DecideAbort(r, t) PROVE TypeOK'
  <2>1. loc[<<r, t>>] \in Locals
    BY LocOf
  <2>2. loc' \in [Runner -> Locals]
    BY <1>7, <2>1, LocalsUpdate, LetType DEF DecideAbort
  <2>3. pc' \in [Runner -> Await]
    BY <1>7, GotoType DEF DecideAbort, Await
  <2>4. QED
    BY <1>7, <2>2, <2>3 DEF DecideAbort, Fault, TypeOK, Await, Ended, table, engine, box
<1>8. ASSUME NEW r \in Replica, NEW t \in Task, RetryAbort(r, t) PROVE TypeOK'
  BY <1>8, AgentTasksConstants
  DEF RetryAbort, Goto, TypeOK, Await, Locals, Runner, Ended, table, engine, box
<1>9. ASSUME NEW r \in Replica, NEW t \in Task, BeginAbort(r, t) PROVE TypeOK'
  <2>1. loc[<<r, t>>] \in Locals
    BY LocOf
  <2>2. loc' \in [Runner -> Locals]
    <3>1. CASE Owns(r, t)
      <4>1. [loc[<<r, t>>] EXCEPT !.alone = fence[t] = NoReplica] \in Locals
        BY <2>1, LocalsUpdate
      <4>2. QED
        BY <1>9, <3>1, <4>1, LetType DEF BeginAbort
    <3>2. QED
      BY <1>9, <3>1 DEF BeginAbort, Leave, TypeOK
  <2>3. QED
    BY <1>9, <2>2 DEF BeginAbort, Goto, Leave, TypeOK, Await, engine, box
<1>10. ASSUME NEW r \in Replica, NEW t \in Task, SendAbort(r, t) PROVE TypeOK'
  BY <1>10, AgentTasksConstants
  DEF SendAbort, Goto, TypeOK, Await, Locals, Runner, Ended, table, engine, box
<1>11. ASSUME NEW r \in Replica, NEW t \in Task, AbortAnswered(r, t) PROVE TypeOK'
  <2>1. loc[<<r, t>>] \in Locals
    BY LocOf
  <2>2. loc' \in [Runner -> Locals]
    BY <1>11, <2>1, LocalsUpdate, LetType DEF AbortAnswered
  <2>3. pc' \in [Runner -> Await]
    BY <1>11, GotoType DEF AbortAnswered, Await
  <2>4. QED
    BY <1>11, <2>2, <2>3 DEF AbortAnswered, Fault, TypeOK, Await, Ended, table, engine, box
<1>12. ASSUME NEW r \in Replica, NEW t \in Task, AbortUnanswered(r, t) PROVE TypeOK'
  <2>1. pc' \in [Runner -> Await]
    BY <1>12, GotoType DEF AbortUnanswered, Await
  <2>2. faults' \in 0..MaxFaults
    BY <1>12, AgentTasksConstants DEF AbortUnanswered, Fault, TypeOK
  <2>3. QED
    BY <1>12, <2>1, <2>2 DEF AbortUnanswered, TypeOK, table, engine, box
<1>13. ASSUME NEW r \in Replica, NEW t \in Task, EndAbort(r, t) PROVE TypeOK'
  <2>1. pc' \in [Runner -> Await]
    BY <1>13, GotoType DEF EndAbort, Await
  <2>2. faults' \in 0..MaxFaults
    BY <1>13, AgentTasksConstants DEF EndAbort, Fault, TypeOK
  <2>3. QED
    BY <1>13, <2>1, <2>2 DEF EndAbort, TypeOK, engine, box
<1>14. ASSUME NEW r \in Replica, NEW t \in Task, SeeIdle(r, t) PROVE TypeOK'
  BY <1>14, AgentTasksConstants
  DEF SeeIdle, Goto, TypeOK, Await, Locals, Runner, Ended, table, engine, box
<1>15. ASSUME NEW r \in Replica, NEW t \in Task, SeeGone(r, t) PROVE TypeOK'
  <2>1. loc[<<r, t>>] \in Locals
    BY LocOf
  <2>2. loc' \in [Runner -> Locals]
    BY <1>15, <2>1, LocalsUpdate, LetType, LocalsType DEF SeeGone, Ended
  <2>3. pc' \in [Runner -> Await]
    BY <1>15, GotoType DEF SeeGone, Await
  <2>4. QED
    BY <1>15, <2>2, <2>3 DEF SeeGone, Fault, TypeOK, Await, Ended, table, engine, box
<1>16. ASSUME NEW r \in Replica, NEW t \in Task, AskAgain(r, t) PROVE TypeOK'
  <2>1. loc[<<r, t>>] \in Locals
    BY LocOf
  <2>2. loc' \in [Runner -> Locals]
    BY <1>16, <2>1, LocalsUpdate, LetType DEF AskAgain
  <2>3. pc' \in [Runner -> Await]
    BY <1>16, GotoType DEF AskAgain, Await
  <2>4. QED
    BY <1>16, <2>2, <2>3 DEF AskAgain, Fault, TypeOK, Await, Ended, table, engine, box
<1>17. ASSUME NEW r \in Replica, NEW t \in Task, Messages(r, t) PROVE TypeOK'
  <2>1. loc[<<r, t>>] \in Locals /\ loc[<<r, t>>].reason \in {"none", "ABORTED", "TIMEOUT"}
    BY LocOf, LocalsType
  <2> DEFINE said == talk[loc[<<r, t>>].session]
             answer == IF said = <<>> THEN NoTask ELSE said[Len(said)]
  <2>2. said \in Seq(Task)
    BY <1>17, <2>1, LocalsType DEF Messages, SessInv, SessOf, Working, TypeOK
  <2>3. answer \in Task \cup {NoTask}
    BY <2>2
  <2>4. Messages(r, t) <=>
          /\ pc[<<r, t>>] = "messages"
          /\ alive
          /\ \E final \in IF loc[<<r, t>>].reason = "none" THEN {"SUCCEEDED", "FAILED"}
                           ELSE {loc[<<r, t>>].reason} :
               Let(r, t, [loc[<<r, t>>] EXCEPT !.outcome = final, !.answer = answer])
          /\ Goto(r, t, "finish")
          /\ UNCHANGED <<table, wire, engine, box, down, faults>>
    BY DEF Messages
  <2> HIDE DEF answer
  <2>5. loc' \in [Runner -> Locals]
    BY <1>17, <2>1, <2>3, <2>4, LocalsUpdate, LetType DEF Ended
  <2>6. pc' \in [Runner -> Await]
    BY <1>17, <2>4, GotoType DEF Await
  <2>7. QED
    BY <1>17, <2>4, <2>5, <2>6 DEF TypeOK, table, engine, box
<1>18. ASSUME NEW r \in Replica, NEW t \in Task, Finish(r, t) PROVE TypeOK'
  <2>1. loc[<<r, t>>].outcome \in Ended /\ loc[<<r, t>>].answer \in Task \cup {NoTask}
    BY LocOf, LocalsType
  <2>2. pc' \in [Runner -> Await]
    BY <1>18, GotoType DEF Finish, Leave, Await
  <2>3. QED
    BY <1>18, <2>1, <2>2 DEF Finish, Leave, End, TypeOK, engine, box
<1>19. ASSUME NEW r \in Replica, NEW t \in Task, TakeOver(r, t) PROVE TypeOK'
  <2>1. pc' \in [Runner -> Await]
    BY <1>19, GotoType DEF TakeOver, Leave, Await
  <2>2. QED
    BY <1>19, <2>1 DEF TakeOver, Leave, TypeOK, engine, box
<1>20. ASSUME NEW r \in Replica, NEW t \in Task, Resume(r, t) PROVE TypeOK'
  BY <1>20, AgentTasksConstants
  DEF Resume, Goto, TypeOK, Await, Locals, Runner, Ended, table, engine, box
<1>21. ASSUME NEW r \in Replica, NEW t \in Task, GiveUp(r, t) PROVE TypeOK'
  BY <1>21, AgentTasksConstants
  DEF GiveUp, Goto, Leave, End, TypeOK, Await, Locals, Runner, Ended, table, engine, box
<1>22. ASSUME NEW r \in Replica, NEW t \in Task, Heartbeat(r, t) PROVE TypeOK'
  BY <1>22, AgentTasksConstants
  DEF Heartbeat, TypeOK, Await, Locals, Runner, Ended, table, engine, box
<1>23. ASSUME NEW r \in Replica, NEW t \in Task, AbortArrives(r, t) PROVE TypeOK'
  BY <1>23, AgentTasksConstants
  DEF AbortArrives, TypeOK, Await, Locals, Runner, Ended, table, engine, box
<1>24. ASSUME NEW r \in Replica, NEW t \in Task, FinishFails(r, t) PROVE TypeOK'
  BY <1>24, AgentTasksConstants
  DEF FinishFails, Goto, Leave, Fault, TypeOK, Await, Locals, Runner, Ended, table, engine, box
<1>25. ASSUME NEW r \in Replica, NEW t \in Task, BeginAbortFails(r, t) PROVE TypeOK'
  <2>1. pc' \in [Runner -> Await]
    BY <1>25, GotoType DEF BeginAbortFails, Await
  <2>2. faults' \in 0..MaxFaults
    BY <1>25, AgentTasksConstants DEF BeginAbortFails, Fault, TypeOK
  <2>3. QED
    BY <1>25, <2>1, <2>2 DEF BeginAbortFails, TypeOK, engine, box
<1>26. ASSUME NEW r \in Replica, NEW t \in Task, List(r, t) PROVE TypeOK'
  BY <1>26, AgentTasksConstants
  DEF List, Goto, Let, Fresh, TypeOK, Await, Locals, Runner, Ended, table, engine, box
<1>27. ASSUME NEW r \in Replica, NEW t \in Task, Release(r, t) PROVE TypeOK'
  BY <1>27, AgentTasksConstants
  DEF Release, Goto, Leave, Fault, TypeOK, Await, Locals, Runner, Ended, table, engine, box
<1>28. ASSUME NEW r \in Replica, NEW t \in Task,
             NEW s \in Session \cup {NoSession}, Create(r, t, s) PROVE TypeOK'
  BY <1>28, AgentTasksConstants
  DEF Create, Goto, Let, Fresh, Admissible, Running, TypeOK, Await, Locals, Runner, Ended, table,
    engine, box
<1>29. ASSUME NEW t \in Task, AbortTask(t) PROVE TypeOK'
  BY <1>29, AgentTasksConstants
  DEF AbortTask, TypeOK, Await, Locals, Runner, Ended, table, engine, box
<1>30. ASSUME NEW t \in Task, DeadlinePasses(t) PROVE TypeOK'
  BY <1>30, AgentTasksConstants
  DEF DeadlinePasses, TypeOK, Await, Locals, Runner, Ended, table, engine, box
<1>31. ASSUME NEW t \in Task, GrowOld(t) PROVE TypeOK'
  BY <1>31, AgentTasksConstants
  DEF GrowOld, TypeOK, Await, Locals, Runner, Ended, table, engine, box
<1>32. ASSUME NEW t \in Task, Lapse(t) PROVE TypeOK'
  BY <1>32, AgentTasksConstants
  DEF Lapse, TypeOK, Await, Locals, Runner, Ended, table, engine, box
<1>33. ASSUME NEW t \in Task, FailTask(t) PROVE TypeOK'
  BY <1>33, AgentTasksConstants
  DEF FailTask, End, TypeOK, Await, Locals, Runner, Ended, table, engine, box
<1>34. ASSUME NEW r \in Replica, Crash(r) PROVE TypeOK'
  <2>1. pc' \in [Runner -> Await]
    BY <1>34 DEF Crash, TypeOK, Await
  <2>2. rounds' \in [Session -> SUBSET Task] /\ talk' \in [Session -> Seq(Task)]
    BY <1>34, DeliverType DEF Crash, TypeOK, engine
  <2>3. down' \subseteq Replica /\ faults' \in 0..MaxFaults
    BY <1>34, AgentTasksConstants DEF Crash, Fault, TypeOK
  <2>4. QED
    BY <1>34, <2>1, <2>2, <2>3 DEF Crash, TypeOK, table, box
<1>35. ASSUME NEW s \in Session, RoundEnds(s) PROVE TypeOK'
  BY <1>35, AgentTasksConstants
  DEF RoundEnds, TypeOK, Await, Locals, Runner, Ended, table, engine, box
<1>36. ASSUME SandboxDies PROVE TypeOK'
  <2>1. faults' \in 0..MaxFaults
    BY <1>36, AgentTasksConstants DEF SandboxDies, Fault, TypeOK
  <2>2. QED
    BY <1>36, <2>1 DEF SandboxDies, TypeOK, table, box
<1>37. ASSUME Doom PROVE TypeOK'
  BY <1>37, AgentTasksConstants
  DEF Doom, Fault, TypeOK, Await, Locals, Runner, Ended, table, engine, box
<1>38. ASSUME Destroy PROVE TypeOK'
  BY <1>38, AgentTasksConstants
  DEF Destroy, TypeOK, Await, Locals, Runner, Ended, table, engine, box
<1>39. ASSUME NEW r \in Replica, NEW t \in Task, Step(r, t) PROVE TypeOK'
  BY <1>39, <1>1, <1>2, <1>3, <1>4, <1>5, <1>6, <1>7, <1>8, <1>9, <1>10, <1>11, <1>12, <1>13, <1>14,
    <1>15, <1>16, <1>17, <1>18, <1>19, <1>20, <1>21 DEF Step
<1>40. ASSUME Next PROVE TypeOK'
  BY <1>39, <1>40, <1>22, <1>23, <1>24, <1>25, <1>26, <1>27, <1>28, <1>29, <1>30, <1>31, <1>32,
    <1>33, <1>34, <1>35, <1>36, <1>37, <1>38 DEF Next
<1>41. ASSUME UNCHANGED vars PROVE TypeOK'
  BY <1>41 DEF vars, TypeOK, Await, Locals, Runner, Ended, table, engine, box
<1> QED
  BY <1>40, <1>41

(* Where a runner goes, seen from every runner.                             *)
LEMMA GotoAt ==
  ASSUME Rows, NEW r \in Replica, NEW t \in Task, NEW to, Goto(r, t, to)
  PROVE  \A q \in Replica, u \in Task :
           pc'[<<q, u>>] = IF q = r /\ u = t THEN to ELSE pc[<<q, u>>]
BY DEF Rows, Goto, Runner

(* A task that does not exist leaves no trace.                              *)
LEMMA NewInvStep ==
  ASSUME TypeOK, Rows, NewInv, [Next]_vars
  PROVE  NewInv'
<1>1. ASSUME NEW r \in Replica, NEW t \in Task, Connect(r, t) PROVE NewInv'
  BY <1>1, AgentTasksConstants
  DEF Connect, Goto, Rows, NewInv, Await, Runner, Ended, table, engine, box, Owns
<1>2. ASSUME NEW r \in Replica, NEW t \in Task, CreateSession(r, t) PROVE NewInv'
  BY <1>2, AgentTasksConstants
  DEF CreateSession, Goto, Let, Rows, NewInv, Await, Runner, Ended, table, engine, box, Owns
<1>3. ASSUME NEW r \in Replica, NEW t \in Task, SaveSession(r, t) PROVE NewInv'
  BY <1>3, AgentTasksConstants
  DEF SaveSession, Goto, Leave, Rows, NewInv, Await, Runner, Ended, table, engine, box, Owns
<1>4. ASSUME NEW r \in Replica, NEW t \in Task, Prompt(r, t) PROVE NewInv'
  BY <1>4, AgentTasksConstants
  DEF Prompt, Goto, Deliver, Rows, NewInv, Await, Runner, Ended, table, engine, box, Owns
<1>5. ASSUME NEW r \in Replica, NEW t \in Task, RequestFails(r, t) PROVE NewInv'
  <2>1. /\ pc[<<r, t>>] \notin {"none", "listed", "taken"}
        /\ pc' = [pc EXCEPT ![<<r, t>>] = "finish"]
        /\ UNCHANGED <<table, wire, box, down>>
    BY <1>5, Deciding
  <2>2. QED
    BY <2>1 DEF NewInv, Rows, Runner, table
<1>6. ASSUME NEW r \in Replica, NEW t \in Task, Lose(r, t) PROVE NewInv'
  BY <1>6, AgentTasksConstants
  DEF Lose, Goto, Leave, Rows, NewInv, Await, Runner, Ended, table, engine, box, Owns
<1>7. ASSUME NEW r \in Replica, NEW t \in Task, DecideAbort(r, t) PROVE NewInv'
  BY <1>7, AgentTasksConstants
  DEF DecideAbort, Goto, Let, Rows, NewInv, Await, Runner, Ended, table, engine, box, Owns
<1>8. ASSUME NEW r \in Replica, NEW t \in Task, RetryAbort(r, t) PROVE NewInv'
  BY <1>8, AgentTasksConstants
  DEF RetryAbort, Goto, Rows, NewInv, Await, Runner, Ended, table, engine, box, Owns
<1>9. ASSUME NEW r \in Replica, NEW t \in Task, BeginAbort(r, t) PROVE NewInv'
  BY <1>9, AgentTasksConstants
  DEF BeginAbort, Goto, Let, Leave, Rows, NewInv, Await, Runner, Ended, table, engine, box, Owns
<1>10. ASSUME NEW r \in Replica, NEW t \in Task, SendAbort(r, t) PROVE NewInv'
  BY <1>10, AgentTasksConstants
  DEF SendAbort, Goto, Rows, NewInv, Await, Runner, Ended, table, engine, box, Owns
<1>11. ASSUME NEW r \in Replica, NEW t \in Task, AbortAnswered(r, t) PROVE NewInv'
  BY <1>11, AgentTasksConstants
  DEF AbortAnswered, Goto, Let, Rows, NewInv, Await, Runner, Ended, table, engine, box, Owns
<1>12. ASSUME NEW r \in Replica, NEW t \in Task, AbortUnanswered(r, t) PROVE NewInv'
  BY <1>12, AgentTasksConstants
  DEF AbortUnanswered, Goto, Fault, Rows, NewInv, Await, Runner, Ended, table, engine, box, Owns
<1>13. ASSUME NEW r \in Replica, NEW t \in Task, EndAbort(r, t) PROVE NewInv'
  BY <1>13, AgentTasksConstants
  DEF EndAbort, Goto, Fault, Rows, NewInv, Await, Runner, Ended, table, engine, box, Owns
<1>14. ASSUME NEW r \in Replica, NEW t \in Task, SeeIdle(r, t) PROVE NewInv'
  BY <1>14, AgentTasksConstants
  DEF SeeIdle, Goto, Rows, NewInv, Await, Runner, Ended, table, engine, box, Owns
<1>15. ASSUME NEW r \in Replica, NEW t \in Task, SeeGone(r, t) PROVE NewInv'
  <2>1. /\ pc[<<r, t>>] \notin {"none", "listed", "taken"}
        /\ pc' = [pc EXCEPT ![<<r, t>>] = "finish"]
        /\ UNCHANGED <<table, wire, box, down>>
    BY <1>15, Deciding
  <2>2. QED
    BY <2>1 DEF NewInv, Rows, Runner, table
<1>16. ASSUME NEW r \in Replica, NEW t \in Task, AskAgain(r, t) PROVE NewInv'
  BY <1>16, AgentTasksConstants
  DEF AskAgain, Goto, Let, Rows, NewInv, Await, Runner, Ended, table, engine, box, Owns
<1>17. ASSUME NEW r \in Replica, NEW t \in Task, Messages(r, t) PROVE NewInv'
  <2>1. /\ pc[<<r, t>>] \notin {"none", "listed", "taken"}
        /\ pc' = [pc EXCEPT ![<<r, t>>] = "finish"]
        /\ UNCHANGED <<table, wire, box, down>>
    BY <1>17, Deciding
  <2>2. QED
    BY <2>1 DEF NewInv, Rows, Runner, table
<1>18. ASSUME NEW r \in Replica, NEW t \in Task, Finish(r, t) PROVE NewInv'
  <2>1. loc[<<r, t>>].outcome \in Ended
    BY LocOf, LocalsType
  <2>2. QED
    BY <1>18, <2>1 DEF Finish, Goto, Leave, End, Rows, NewInv, Ended, Owns, Runner
<1>19. ASSUME NEW r \in Replica, NEW t \in Task, TakeOver(r, t) PROVE NewInv'
  BY <1>19, AgentTasksConstants
  DEF TakeOver, Goto, Leave, Rows, NewInv, Await, Runner, Ended, table, engine, box, Owns
<1>20. ASSUME NEW r \in Replica, NEW t \in Task, Resume(r, t) PROVE NewInv'
  BY <1>20, AgentTasksConstants
  DEF Resume, Goto, Rows, NewInv, Await, Runner, Ended, table, engine, box, Owns
<1>21. ASSUME NEW r \in Replica, NEW t \in Task, GiveUp(r, t) PROVE NewInv'
  BY <1>21, AgentTasksConstants
  DEF GiveUp, Goto, Leave, End, Rows, NewInv, Await, Runner, Ended, table, engine, box, Owns
<1>22. ASSUME NEW r \in Replica, NEW t \in Task, Heartbeat(r, t) PROVE NewInv'
  BY <1>22, AgentTasksConstants
  DEF Heartbeat, Rows, NewInv, Await, Runner, Ended, table, engine, box, Owns
<1>23. ASSUME NEW r \in Replica, NEW t \in Task, AbortArrives(r, t) PROVE NewInv'
  BY <1>23, AgentTasksConstants
  DEF AbortArrives, Rows, NewInv, Await, Runner, Ended, table, engine, box, Owns
<1>24. ASSUME NEW r \in Replica, NEW t \in Task, FinishFails(r, t) PROVE NewInv'
  BY <1>24, AgentTasksConstants
  DEF FinishFails, Goto, Leave, Fault, Rows, NewInv, Await, Runner, Ended, table, engine, box, Owns
<1>25. ASSUME NEW r \in Replica, NEW t \in Task, BeginAbortFails(r, t) PROVE NewInv'
  BY <1>25, AgentTasksConstants
  DEF BeginAbortFails, Goto, Fault, Rows, NewInv, Await, Runner, Ended, table, engine, box, Owns
<1>26. ASSUME NEW r \in Replica, NEW t \in Task, List(r, t) PROVE NewInv'
  BY <1>26, AgentTasksConstants
  DEF List, Goto, Let, Fresh, Rows, NewInv, Await, Runner, Ended, table, engine, box, Owns
<1>27. ASSUME NEW r \in Replica, NEW t \in Task, Release(r, t) PROVE NewInv'
  BY <1>27, AgentTasksConstants
  DEF Release, Goto, Leave, Fault, Rows, NewInv, Await, Runner, Ended, table, engine, box, Owns
<1>28. ASSUME NEW r \in Replica, NEW t \in Task,
             NEW s \in Session \cup {NoSession}, Create(r, t, s) PROVE NewInv'
  BY <1>28, AgentTasksConstants
  DEF Create, Goto, Let, Fresh, Admissible, Running, Rows, NewInv, Await, Runner, Ended, table,
    engine, box, Owns
<1>29. ASSUME NEW t \in Task, AbortTask(t) PROVE NewInv'
  BY <1>29, AgentTasksConstants
  DEF AbortTask, Rows, NewInv, Await, Runner, Ended, table, engine, box, Owns
<1>30. ASSUME NEW t \in Task, DeadlinePasses(t) PROVE NewInv'
  BY <1>30, AgentTasksConstants
  DEF DeadlinePasses, Rows, NewInv, Await, Runner, Ended, table, engine, box, Owns
<1>31. ASSUME NEW t \in Task, GrowOld(t) PROVE NewInv'
  BY <1>31, AgentTasksConstants
  DEF GrowOld, Rows, NewInv, Await, Runner, Ended, table, engine, box, Owns
<1>32. ASSUME NEW t \in Task, Lapse(t) PROVE NewInv'
  BY <1>32, AgentTasksConstants
  DEF Lapse, Rows, NewInv, Await, Runner, Ended, table, engine, box, Owns
<1>33. ASSUME NEW t \in Task, FailTask(t) PROVE NewInv'
  BY <1>33, AgentTasksConstants
  DEF FailTask, End, Rows, NewInv, Await, Runner, Ended, table, engine, box, Owns
<1>34. ASSUME NEW r \in Replica, Crash(r) PROVE NewInv'
  <2>1. UNCHANGED <<state, sess, fence, wire>>
    BY <1>34 DEF Crash, table
  <2>2. QED
    BY <1>34, <2>1, CrashPc DEF NewInv
<1>35. ASSUME NEW s \in Session, RoundEnds(s) PROVE NewInv'
  BY <1>35, AgentTasksConstants
  DEF RoundEnds, Rows, NewInv, Await, Runner, Ended, table, engine, box, Owns
<1>36. ASSUME SandboxDies PROVE NewInv'
  BY <1>36, AgentTasksConstants
  DEF SandboxDies, Fault, Rows, NewInv, Await, Runner, Ended, table, engine, box, Owns
<1>37. ASSUME Doom PROVE NewInv'
  BY <1>37, AgentTasksConstants
  DEF Doom, Fault, Rows, NewInv, Await, Runner, Ended, table, engine, box, Owns
<1>38. ASSUME Destroy PROVE NewInv'
  BY <1>38, AgentTasksConstants
  DEF Destroy, Rows, NewInv, Await, Runner, Ended, table, engine, box, Owns
<1>39. ASSUME NEW r \in Replica, NEW t \in Task, Step(r, t) PROVE NewInv'
  BY <1>39, <1>1, <1>2, <1>3, <1>4, <1>5, <1>6, <1>7, <1>8, <1>9, <1>10, <1>11, <1>12, <1>13, <1>14,
    <1>15, <1>16, <1>17, <1>18, <1>19, <1>20, <1>21 DEF Step
<1>40. ASSUME Next PROVE NewInv'
  BY <1>39, <1>40, <1>22, <1>23, <1>24, <1>25, <1>26, <1>27, <1>28, <1>29, <1>30, <1>31, <1>32,
    <1>33, <1>34, <1>35, <1>36, <1>37, <1>38 DEF Next
<1>41. ASSUME UNCHANGED vars PROVE NewInv'
  BY <1>41 DEF vars, Rows, NewInv, Await, Runner, Ended, table, engine, box, Owns
<1> QED
  BY <1>40, <1>41
\* A step that leaves the session of a runner alone, and it where it was or on its way.
KeepsSession(r, t) ==
  /\ loc'[<<r, t>>].session = loc[<<r, t>>].session
  /\ Owns(r, t)' => Owns(r, t)
  /\ \/ pc'[<<r, t>>] \in {pc[<<r, t>>], "none", "finish"}
     \/ pc'[<<r, t>>] \in Working /\ pc[<<r, t>>] \in Working

KeepsSessions ==
  /\ UNCHANGED sess
  /\ \A r \in Replica, t \in Task : KeepsSession(r, t)

LEMMA SessKept ==
  ASSUME SessInv, UNCHANGED sess, NEW r \in Replica, NEW t \in Task, KeepsSession(r, t)
  PROVE  SessOf(r, t)'
BY DEF SessInv, SessOf, KeepsSession, Working

LEMMA SavePairs ==
  ASSUME SessInv, \A r \in Replica, t \in Task : SessOf(r, t)',
         \A r \in Replica, t \in Task :
           pc'[<<r, t>>] = "save" =>
             /\ pc[<<r, t>>] = "save"
             /\ loc'[<<r, t>>].session = loc[<<r, t>>].session
  PROVE  SessInv'
BY DEF SessInv

LEMMA SessFrame ==
  ASSUME SessInv, KeepsSessions
  PROVE  SessInv'
<1>1. \A r \in Replica, t \in Task : SessOf(r, t)'
  BY SessKept DEF KeepsSessions
<1>2. QED
  BY <1>1, SavePairs DEF KeepsSessions, KeepsSession, Working

(* A runner's session stays that of its task.                               *)
LEMMA SessInvStep ==
  ASSUME TypeOK, Rows, NewInv, SessInv, [Next]_vars
  PROVE  SessInv'
<1>1. ASSUME NEW r \in Replica, NEW t \in Task, Connect(r, t) PROVE SessInv'
  <2>1. /\ pc[<<r, t>>] = "connect"
        /\ UNCHANGED <<state, owner, sess, loc>>
        /\ \A q \in Replica, u \in Task :
             pc'[<<q, u>>] = IF q = r /\ u = t THEN IF loc[<<r, t>>].session = NoSession THEN
               "session" ELSE "prompt" ELSE pc[<<q, u>>]
    BY <1>1, GotoAt DEF Connect, table
  <2>2. ASSUME NEW q \in Replica, NEW u \in Task, q # r \/ u # t PROVE SessOf(q, u)'
    <3>1. KeepsSession(q, u)
      BY <2>1, <2>2 DEF KeepsSession, Owns
    <3>2. QED
      BY <2>1, <3>1, SessKept
  <2>3. SessOf(r, t)'
    BY <1>1, <2>1 DEF Connect, SessInv, SessOf, Working, Owns
  <2>4. QED
    BY <2>1, <2>2, <2>3, SavePairs
<1>2. ASSUME NEW r \in Replica, NEW t \in Task, CreateSession(r, t) PROVE SessInv'
  <2>1. PICK s \in Session :
          /\ \A u \in Task : sess[u] # s
          /\ \A c \in Runner : pc[c] = "save" => loc[c].session # s
          /\ Let(r, t, [loc[<<r, t>>] EXCEPT !.session = s])
    BY <1>2 DEF CreateSession
  <2>2. [loc[<<r, t>>] EXCEPT !.session = s].session = s
    BY LocOf DEF Locals
  <2>3. \A q \in Replica, u \in Task :
          loc'[<<q, u>>].session = IF q = r /\ u = t THEN s ELSE loc[<<q, u>>].session
    BY <2>1, <2>2 DEF Let, Rows, Runner
  <2>4. /\ UNCHANGED <<state, owner, sess>>
        /\ pc[<<r, t>>] = "session"
        /\ \A q \in Replica, u \in Task :
             pc'[<<q, u>>] = IF q = r /\ u = t THEN "save" ELSE pc[<<q, u>>]
    BY <1>2, GotoAt DEF CreateSession, table
  <2>5. s # NoSession
    BY AgentTasksConstants
  <2>6. ASSUME NEW q \in Replica, NEW u \in Task PROVE SessOf(q, u)'
    BY <2>1, <2>3, <2>4, <2>5 DEF SessInv, SessOf, Working, Owns
  <2>7. \A q \in Replica, u \in Task :
          pc[<<q, u>>] = "save" => loc[<<q, u>>].session # s
    BY <2>1 DEF Runner
  <2>8. QED
    BY <2>3, <2>4, <2>6, <2>7 DEF SessInv
<1>3. ASSUME NEW r \in Replica, NEW t \in Task, SaveSession(r, t) PROVE SessInv'
  <2>1. CASE Owns(r, t)
    <3>1. /\ UNCHANGED <<state, owner, loc>>
          /\ pc[<<r, t>>] = "save"
          /\ sess' = [sess EXCEPT ![t] = loc[<<r, t>>].session]
          /\ \A q \in Replica, u \in Task :
               pc'[<<q, u>>] = IF q = r /\ u = t THEN "prompt" ELSE pc[<<q, u>>]
      BY <1>3, <2>1, GotoAt DEF SaveSession
    <3>2. sess[t] = NoSession
      BY <2>1, <3>1 DEF SessInv, SessOf
    <3>5. \A u \in Task : sess'[u] = IF u = t THEN loc[<<r, t>>].session ELSE sess[u]
      BY <3>1 DEF Rows
    <3>6. \A q \in Replica : q # r => ~Owns(q, t)
      BY <2>1 DEF Owns
    <3>3. ASSUME NEW q \in Replica, NEW u \in Task PROVE SessOf(q, u)'
      <4>1. CASE u = t
        <5>1. CASE q = r
          BY <3>1, <3>5, <4>1, <5>1 DEF SessInv, SessOf, Working
        <5>2. CASE q # r
          BY <3>1, <3>2, <3>5, <3>6, <4>1, <5>2 DEF SessInv, SessOf, Working, Owns
        <5>3. QED
          BY <5>1, <5>2
      <4>2. CASE u # t
        BY <3>1, <3>5, <4>2 DEF SessInv, SessOf, Owns
      <4>3. QED
        BY <4>1, <4>2
    <3>4. QED
      BY <3>1, <3>3, SavePairs
  <2>2. CASE ~Owns(r, t)
    <3>1. KeepsSessions
      BY <1>3, <2>2 DEF SaveSession, Goto, Leave, KeepsSessions, KeepsSession, Rows, Owns, Runner
    <3>2. QED
      BY <3>1, SessFrame
  <2>3. QED
    BY <2>1, <2>2
<1>4. ASSUME NEW r \in Replica, NEW t \in Task, Prompt(r, t) PROVE SessInv'
  BY <1>4, SessFrame DEF Prompt, Goto, Deliver, Rows, KeepsSessions, KeepsSession, Working, Owns,
    Runner, table, engine, box
<1>5. ASSUME NEW r \in Replica, NEW t \in Task, RequestFails(r, t) PROVE SessInv'
  <2>1. /\ pc[<<r, t>>] \notin {"none", "listed", "taken"}
        /\ pc' = [pc EXCEPT ![<<r, t>>] = "finish"]
        /\ UNCHANGED <<table, wire, box, down>>
        /\ \A q \in Replica, u \in Task :
             loc'[<<q, u>>].session = loc[<<q, u>>].session
             /\ loc'[<<q, u>>].alone = loc[<<q, u>>].alone
    BY <1>5, Deciding
  <2>2. KeepsSessions
    BY <2>1 DEF KeepsSessions, KeepsSession, Rows, Owns, Runner, table
  <2>3. QED
    BY <2>2, SessFrame
<1>6. ASSUME NEW r \in Replica, NEW t \in Task, Lose(r, t) PROVE SessInv'
  BY <1>6, SessFrame DEF Lose, Goto, Leave, Rows, KeepsSessions, KeepsSession, Working, Owns,
    Runner, table, engine, box
<1>7. ASSUME NEW r \in Replica, NEW t \in Task, DecideAbort(r, t) PROVE SessInv'
  <2>1. \A q \in Replica, u \in Task : loc'[<<q, u>>].session = loc[<<q, u>>].session
    BY <1>7, Aborting
  <2>2. UNCHANGED <<state, owner, sess>>
    BY <1>7 DEF DecideAbort, table
  <2>3. \A q \in Replica, u \in Task :
          \/ pc'[<<q, u>>] \in {pc[<<q, u>>], "none"}
          \/ pc'[<<q, u>>] \in Working /\ pc[<<q, u>>] \in Working
    BY <1>7 DEF DecideAbort, Goto, Leave, Rows, Runner, Working
  <2>4. KeepsSessions
    BY <2>1, <2>2, <2>3 DEF KeepsSessions, KeepsSession, Owns
  <2>5. QED
    BY <2>4, SessFrame
<1>8. ASSUME NEW r \in Replica, NEW t \in Task, RetryAbort(r, t) PROVE SessInv'
  BY <1>8, SessFrame DEF RetryAbort, Goto, Rows, KeepsSessions, KeepsSession, Working, Owns, Runner,
    table, engine, box
<1>9. ASSUME NEW r \in Replica, NEW t \in Task, BeginAbort(r, t) PROVE SessInv'
  <2>1. \A q \in Replica, u \in Task : loc'[<<q, u>>].session = loc[<<q, u>>].session
    BY <1>9, Aborting
  <2>2. UNCHANGED <<state, owner, sess>>
    BY <1>9 DEF BeginAbort, table
  <2>3. \A q \in Replica, u \in Task :
          \/ pc'[<<q, u>>] \in {pc[<<q, u>>], "none"}
          \/ pc'[<<q, u>>] \in Working /\ pc[<<q, u>>] \in Working
    BY <1>9 DEF BeginAbort, Goto, Leave, Rows, Runner, Working
  <2>4. KeepsSessions
    BY <2>1, <2>2, <2>3 DEF KeepsSessions, KeepsSession, Owns
  <2>5. QED
    BY <2>4, SessFrame
<1>10. ASSUME NEW r \in Replica, NEW t \in Task, SendAbort(r, t) PROVE SessInv'
  BY <1>10, SessFrame DEF SendAbort, Goto, Rows, KeepsSessions, KeepsSession, Working, Owns, Runner,
    table, engine, box
<1>11. ASSUME NEW r \in Replica, NEW t \in Task, AbortAnswered(r, t) PROVE SessInv'
  <2>1. \A q \in Replica, u \in Task : loc'[<<q, u>>].session = loc[<<q, u>>].session
    BY <1>11, Aborting
  <2>2. UNCHANGED <<state, owner, sess>>
    BY <1>11 DEF AbortAnswered, table
  <2>3. \A q \in Replica, u \in Task :
          \/ pc'[<<q, u>>] \in {pc[<<q, u>>], "none"}
          \/ pc'[<<q, u>>] \in Working /\ pc[<<q, u>>] \in Working
    BY <1>11 DEF AbortAnswered, Goto, Leave, Rows, Runner, Working
  <2>4. KeepsSessions
    BY <2>1, <2>2, <2>3 DEF KeepsSessions, KeepsSession, Owns
  <2>5. QED
    BY <2>4, SessFrame
<1>12. ASSUME NEW r \in Replica, NEW t \in Task, AbortUnanswered(r, t) PROVE SessInv'
  BY <1>12, SessFrame DEF AbortUnanswered, Goto, Fault, Rows, KeepsSessions, KeepsSession, Working,
    Owns, Runner, table, engine, box
<1>13. ASSUME NEW r \in Replica, NEW t \in Task, EndAbort(r, t) PROVE SessInv'
  BY <1>13, SessFrame DEF EndAbort, Goto, Fault, Rows, KeepsSessions, KeepsSession, Working, Owns,
    Runner, table, engine, box
<1>14. ASSUME NEW r \in Replica, NEW t \in Task, SeeIdle(r, t) PROVE SessInv'
  BY <1>14, SessFrame DEF SeeIdle, Goto, Rows, KeepsSessions, KeepsSession, Working, Owns, Runner,
    table, engine, box
<1>15. ASSUME NEW r \in Replica, NEW t \in Task, SeeGone(r, t) PROVE SessInv'
  <2>1. /\ pc[<<r, t>>] \notin {"none", "listed", "taken"}
        /\ pc' = [pc EXCEPT ![<<r, t>>] = "finish"]
        /\ UNCHANGED <<table, wire, box, down>>
        /\ \A q \in Replica, u \in Task :
             loc'[<<q, u>>].session = loc[<<q, u>>].session
             /\ loc'[<<q, u>>].alone = loc[<<q, u>>].alone
    BY <1>15, Deciding
  <2>2. KeepsSessions
    BY <2>1 DEF KeepsSessions, KeepsSession, Rows, Owns, Runner, table
  <2>3. QED
    BY <2>2, SessFrame
<1>16. ASSUME NEW r \in Replica, NEW t \in Task, AskAgain(r, t) PROVE SessInv'
  <2>1. \A q \in Replica, u \in Task : loc'[<<q, u>>].session = loc[<<q, u>>].session
    BY <1>16, Aborting
  <2>2. UNCHANGED <<state, owner, sess>>
    BY <1>16 DEF AskAgain, table
  <2>3. \A q \in Replica, u \in Task :
          \/ pc'[<<q, u>>] \in {pc[<<q, u>>], "none"}
          \/ pc'[<<q, u>>] \in Working /\ pc[<<q, u>>] \in Working
    BY <1>16 DEF AskAgain, Goto, Leave, Rows, Runner, Working
  <2>4. KeepsSessions
    BY <2>1, <2>2, <2>3 DEF KeepsSessions, KeepsSession, Owns
  <2>5. QED
    BY <2>4, SessFrame
<1>17. ASSUME NEW r \in Replica, NEW t \in Task, Messages(r, t) PROVE SessInv'
  <2>1. /\ pc[<<r, t>>] \notin {"none", "listed", "taken"}
        /\ pc' = [pc EXCEPT ![<<r, t>>] = "finish"]
        /\ UNCHANGED <<table, wire, box, down>>
        /\ \A q \in Replica, u \in Task :
             loc'[<<q, u>>].session = loc[<<q, u>>].session
             /\ loc'[<<q, u>>].alone = loc[<<q, u>>].alone
    BY <1>17, Deciding
  <2>2. KeepsSessions
    BY <2>1 DEF KeepsSessions, KeepsSession, Rows, Owns, Runner, table
  <2>3. QED
    BY <2>2, SessFrame
<1>18. ASSUME NEW r \in Replica, NEW t \in Task, Finish(r, t) PROVE SessInv'
  <2>1. loc[<<r, t>>].outcome \in Ended
    BY LocOf, LocalsType
  <2>2. /\ UNCHANGED <<sess, loc>>
        /\ \A q \in Replica, u \in Task :
             pc'[<<q, u>>] = IF q = r /\ u = t THEN "none" ELSE pc[<<q, u>>]
    BY <1>18, GotoAt DEF Finish, Leave
  <2>3. \A q \in Replica, u \in Task : Owns(q, u)' => Owns(q, u)
    BY <1>18, <2>1 DEF Finish, End, Owns, Ended, Rows
  <2>4. KeepsSessions
    BY <2>2, <2>3 DEF KeepsSessions, KeepsSession
  <2>5. QED
    BY <2>4, SessFrame
<1>19. ASSUME NEW r \in Replica, NEW t \in Task, TakeOver(r, t) PROVE SessInv'
  <2>1. CASE Owns(loc[<<r, t>>].from, t) /\ t \in old
    <3>1. /\ pc[<<r, t>>] = "listed"
          /\ UNCHANGED <<state, sess, loc>>
          /\ owner' = [owner EXCEPT ![t] = r]
          /\ \A q \in Replica, u \in Task :
               pc'[<<q, u>>] = IF q = r /\ u = t THEN "taken" ELSE pc[<<q, u>>]
      BY <1>19, <2>1, GotoAt DEF TakeOver
    <3>2. ASSUME NEW q \in Replica, NEW u \in Task, q # r \/ u # t PROVE SessOf(q, u)'
      <4>1. KeepsSession(q, u)
        BY <3>1, <3>2 DEF KeepsSession, Owns, Rows
      <4>2. QED
        BY <3>1, <4>1, SessKept
    <3>3. SessOf(r, t)'
      BY <3>1 DEF SessInv, SessOf, Working
    <3>4. QED
      BY <3>1, <3>2, <3>3, SavePairs
  <2>2. CASE ~(Owns(loc[<<r, t>>].from, t) /\ t \in old)
    <3>1. KeepsSessions
      BY <1>19, <2>2, GotoAt DEF TakeOver, Leave, KeepsSessions, KeepsSession, Owns
    <3>2. QED
      BY <3>1, SessFrame
  <2>3. QED
    BY <2>1, <2>2
<1>20. ASSUME NEW r \in Replica, NEW t \in Task, Resume(r, t) PROVE SessInv'
  <2>1. /\ pc[<<r, t>>] = "taken"
        /\ UNCHANGED <<state, owner, sess, loc>>
        /\ \A q \in Replica, u \in Task :
             pc'[<<q, u>>] = IF q = r /\ u = t THEN "follow" ELSE pc[<<q, u>>]
    BY <1>20, GotoAt DEF Resume, table
  <2>2. ASSUME NEW q \in Replica, NEW u \in Task, q # r \/ u # t PROVE SessOf(q, u)'
    <3>1. KeepsSession(q, u)
      BY <2>1, <2>2 DEF KeepsSession, Owns
    <3>2. QED
      BY <2>1, <3>1, SessKept
  <2>3. SessOf(r, t)'
    BY <1>20, <2>1 DEF Resume, SessInv, SessOf, Working, Owns
  <2>4. QED
    BY <2>1, <2>2, <2>3, SavePairs
<1>21. ASSUME NEW r \in Replica, NEW t \in Task, GiveUp(r, t) PROVE SessInv'
  BY <1>21, SessFrame DEF GiveUp, Goto, Leave, End, Rows, KeepsSessions, KeepsSession, Working,
    Owns, Runner, table, engine, box
<1>22. ASSUME NEW r \in Replica, NEW t \in Task, Heartbeat(r, t) PROVE SessInv'
  BY <1>22, SessFrame DEF Heartbeat, Rows, KeepsSessions, KeepsSession, Working, Owns, Runner,
    table, engine, box
<1>23. ASSUME NEW r \in Replica, NEW t \in Task, AbortArrives(r, t) PROVE SessInv'
  BY <1>23, SessFrame DEF AbortArrives, Rows, KeepsSessions, KeepsSession, Working, Owns, Runner,
    table, engine, box
<1>24. ASSUME NEW r \in Replica, NEW t \in Task, FinishFails(r, t) PROVE SessInv'
  BY <1>24, SessFrame DEF FinishFails, Goto, Leave, Fault, Rows, KeepsSessions, KeepsSession,
    Working, Owns, Runner, table, engine, box
<1>25. ASSUME NEW r \in Replica, NEW t \in Task, BeginAbortFails(r, t) PROVE SessInv'
  BY <1>25, SessFrame DEF BeginAbortFails, Goto, Fault, Rows, KeepsSessions, KeepsSession, Working,
    Owns, Runner, table, engine, box
<1>26. ASSUME NEW r \in Replica, NEW t \in Task, List(r, t) PROVE SessInv'
  <2>1. \A q \in Replica, u \in Task :
          loc'[<<q, u>>].session = IF q = r /\ u = t THEN sess[t] ELSE loc[<<q, u>>].session
    <3>1. [Fresh(sess[t]) EXCEPT !.from = owner[t]].session = sess[t]
      BY DEF Fresh
    <3> DEFINE l == [Fresh(sess[t]) EXCEPT !.from = owner[t]]
    <3>2. Let(r, t, l)
      BY <1>26 DEF List
    <3> HIDE DEF l
    <3>3. l.session = sess[t]
      BY <3>1 DEF l
    <3>4. QED
      BY <3>2, <3>3 DEF Let, Rows, Runner
  <2>2. /\ UNCHANGED <<state, owner, sess>>
        /\ pc' = [pc EXCEPT ![<<r, t>>] = "listed"]
    BY <1>26 DEF List, Goto, table
  <2>8. ASSUME NEW q \in Replica, NEW u \in Task PROVE SessOf(q, u)'
    BY <2>1, <2>2, SMT DEF SessInv, SessOf, Working, Rows, Owns, Runner
  <2>9. QED
    BY <2>8, <2>1, <2>2, SMT DEF SessInv, SessOf, Working, Rows, Owns, Runner
<1>27. ASSUME NEW r \in Replica, NEW t \in Task, Release(r, t) PROVE SessInv'
  BY <1>27, SessFrame DEF Release, Goto, Leave, Fault, Rows, KeepsSessions, KeepsSession, Working,
    Owns, Runner, table, engine, box
<1>28. ASSUME NEW r \in Replica, NEW t \in Task,
             NEW s \in Session \cup {NoSession}, Create(r, t, s) PROVE SessInv'
  <2>1. /\ state[t] = "NEW"
        /\ \A q \in Replica, u \in Task :
             /\ state'[u] = IF u = t THEN "RUNNING" ELSE state[u]
             /\ owner'[u] = IF u = t THEN r ELSE owner[u]
             /\ sess'[u] = IF u = t THEN s ELSE sess[u]
             /\ loc'[<<q, u>>].session = IF q = r /\ u = t THEN s ELSE loc[<<q, u>>].session
             /\ pc'[<<q, u>>] = IF q = r /\ u = t THEN "connect" ELSE pc[<<q, u>>]
    BY <1>28, GotoAt DEF Create, Let, Fresh, Rows, Runner
  <2>2. \A q \in Replica : pc[<<q, t>>] = "none"
    BY <2>1 DEF NewInv
  <2>3. s = NoSession \/ \E u \in Task : sess[u] = s
    BY <1>28 DEF Create
  <2>4. ASSUME NEW q \in Replica, NEW u \in Task PROVE SessOf(q, u)'
    <3>1. CASE u = t
      BY <2>1, <2>2, <3>1 DEF SessOf, Working
    <3>2. CASE u # t
      <4>1. SessOf(q, u)
        BY DEF SessInv
      <4>2. pc[<<q, u>>] = "save" => \A x \in Task : sess'[x] # loc[<<q, u>>].session
        BY <2>1, <2>3, <4>1 DEF SessOf
      <4>3. QED
        BY <2>1, <3>2, <4>1, <4>2 DEF SessOf, Owns
    <3>3. QED
      BY <3>1, <3>2
  <2>5. QED
    BY <2>1, <2>4, SavePairs
<1>29. ASSUME NEW t \in Task, AbortTask(t) PROVE SessInv'
  BY <1>29, SessFrame DEF AbortTask, Rows, KeepsSessions, KeepsSession, Working, Owns, Runner,
    table, engine, box
<1>30. ASSUME NEW t \in Task, DeadlinePasses(t) PROVE SessInv'
  BY <1>30, SessFrame DEF DeadlinePasses, Rows, KeepsSessions, KeepsSession, Working, Owns, Runner,
    table, engine, box
<1>31. ASSUME NEW t \in Task, GrowOld(t) PROVE SessInv'
  BY <1>31, SessFrame DEF GrowOld, Rows, KeepsSessions, KeepsSession, Working, Owns, Runner, table,
    engine, box
<1>32. ASSUME NEW t \in Task, Lapse(t) PROVE SessInv'
  BY <1>32, SessFrame DEF Lapse, Rows, KeepsSessions, KeepsSession, Working, Owns, Runner, table,
    engine, box
<1>33. ASSUME NEW t \in Task, FailTask(t) PROVE SessInv'
  BY <1>33, SessFrame DEF FailTask, End, Rows, KeepsSessions, KeepsSession, Working, Owns, Runner,
    table, engine, box
<1>34. ASSUME NEW r \in Replica, Crash(r) PROVE SessInv'
  BY <1>34, CrashPc, SessFrame DEF Crash, KeepsSessions, KeepsSession, Owns, table
<1>35. ASSUME NEW s \in Session, RoundEnds(s) PROVE SessInv'
  BY <1>35, SessFrame DEF RoundEnds, Rows, KeepsSessions, KeepsSession, Working, Owns, Runner,
    table, engine, box
<1>36. ASSUME SandboxDies PROVE SessInv'
  BY <1>36, SessFrame DEF SandboxDies, Fault, Rows, KeepsSessions, KeepsSession, Working, Owns,
    Runner, table, engine, box
<1>37. ASSUME Doom PROVE SessInv'
  BY <1>37, SessFrame DEF Doom, Fault, Rows, KeepsSessions, KeepsSession, Working, Owns, Runner,
    table, engine, box
<1>38. ASSUME Destroy PROVE SessInv'
  BY <1>38, SessFrame DEF Destroy, Rows, KeepsSessions, KeepsSession, Working, Owns, Runner, table,
    engine, box
<1>39. ASSUME NEW r \in Replica, NEW t \in Task, Step(r, t) PROVE SessInv'
  BY <1>39, <1>1, <1>2, <1>3, <1>4, <1>5, <1>6, <1>7, <1>8, <1>9, <1>10, <1>11, <1>12, <1>13, <1>14,
    <1>15, <1>16, <1>17, <1>18, <1>19, <1>20, <1>21 DEF Step
<1>40. ASSUME Next PROVE SessInv'
  BY <1>39, <1>40, <1>22, <1>23, <1>24, <1>25, <1>26, <1>27, <1>28, <1>29, <1>30, <1>31, <1>32,
    <1>33, <1>34, <1>35, <1>36, <1>37, <1>38 DEF Next
<1>41. ASSUME UNCHANGED vars PROVE SessInv'
  BY <1>41 DEF vars, SessInv, SessOf, Working, Owns
<1> QED
  BY <1>40, <1>41

\* A step by which no task begins to run or gets a session.
StartsNothing ==
  /\ UNCHANGED sess
  /\ \A t \in Task : state'[t] = "RUNNING" => state[t] = "RUNNING"

LEMMA OneTaskFrame ==
  ASSUME OneTaskPerSession, StartsNothing
  PROVE  OneTaskPerSession'
BY DEF OneTaskPerSession, StartsNothing, Running

(* Every step keeps a session to one running task.                          *)
LEMMA OneTaskStep ==
  ASSUME TypeOK, Rows, SessInv, OneTaskPerSession, [Next]_vars
  PROVE  OneTaskPerSession'
<1>1. ASSUME NEW r \in Replica, NEW t \in Task, Connect(r, t) PROVE OneTaskPerSession'
  BY <1>1, OneTaskFrame DEF Connect, StartsNothing, Rows, table
<1>2. ASSUME NEW r \in Replica, NEW t \in Task, CreateSession(r, t) PROVE OneTaskPerSession'
  BY <1>2, OneTaskFrame DEF CreateSession, StartsNothing, Rows, table
<1>3. ASSUME NEW r \in Replica, NEW t \in Task, SaveSession(r, t) PROVE OneTaskPerSession'
  <2>1. CASE Owns(r, t)
    <3>1. /\ UNCHANGED state
          /\ pc[<<r, t>>] = "save"
          /\ \A u \in Task : sess'[u] = IF u = t THEN loc[<<r, t>>].session ELSE sess[u]
      BY <1>3, <2>1 DEF SaveSession, Rows
    <3>2. \A u \in Task : sess[u] # loc[<<r, t>>].session
      BY <3>1 DEF SessInv, SessOf
    <3>3. QED
      BY <3>1, <3>2 DEF OneTaskPerSession, Running
  <2>2. CASE ~Owns(r, t)
    <3>1. StartsNothing
      BY <1>3, <2>2 DEF SaveSession, StartsNothing
    <3>2. QED
      BY <3>1, OneTaskFrame
  <2>3. QED
    BY <2>1, <2>2
<1>4. ASSUME NEW r \in Replica, NEW t \in Task, Prompt(r, t) PROVE OneTaskPerSession'
  BY <1>4, OneTaskFrame DEF Prompt, StartsNothing, Rows, table
<1>5. ASSUME NEW r \in Replica, NEW t \in Task, RequestFails(r, t) PROVE OneTaskPerSession'
  BY <1>5, OneTaskFrame DEF RequestFails, StartsNothing, Rows, table
<1>6. ASSUME NEW r \in Replica, NEW t \in Task, Lose(r, t) PROVE OneTaskPerSession'
  BY <1>6, OneTaskFrame DEF Lose, Leave, StartsNothing, Rows, table
<1>7. ASSUME NEW r \in Replica, NEW t \in Task, DecideAbort(r, t) PROVE OneTaskPerSession'
  BY <1>7, OneTaskFrame DEF DecideAbort, StartsNothing, Rows, table
<1>8. ASSUME NEW r \in Replica, NEW t \in Task, RetryAbort(r, t) PROVE OneTaskPerSession'
  BY <1>8, OneTaskFrame DEF RetryAbort, StartsNothing, Rows, table
<1>9. ASSUME NEW r \in Replica, NEW t \in Task, BeginAbort(r, t) PROVE OneTaskPerSession'
  BY <1>9, OneTaskFrame DEF BeginAbort, Leave, StartsNothing, Rows, table
<1>10. ASSUME NEW r \in Replica, NEW t \in Task, SendAbort(r, t) PROVE OneTaskPerSession'
  BY <1>10, OneTaskFrame DEF SendAbort, StartsNothing, Rows, table
<1>11. ASSUME NEW r \in Replica, NEW t \in Task, AbortAnswered(r, t) PROVE OneTaskPerSession'
  BY <1>11, OneTaskFrame DEF AbortAnswered, StartsNothing, Rows, table
<1>12. ASSUME NEW r \in Replica, NEW t \in Task, AbortUnanswered(r, t) PROVE OneTaskPerSession'
  BY <1>12, OneTaskFrame DEF AbortUnanswered, StartsNothing, Rows, table
<1>13. ASSUME NEW r \in Replica, NEW t \in Task, EndAbort(r, t) PROVE OneTaskPerSession'
  BY <1>13, OneTaskFrame DEF EndAbort, StartsNothing, Rows, table
<1>14. ASSUME NEW r \in Replica, NEW t \in Task, SeeIdle(r, t) PROVE OneTaskPerSession'
  BY <1>14, OneTaskFrame DEF SeeIdle, StartsNothing, Rows, table
<1>15. ASSUME NEW r \in Replica, NEW t \in Task, SeeGone(r, t) PROVE OneTaskPerSession'
  BY <1>15, OneTaskFrame DEF SeeGone, StartsNothing, Rows, table
<1>16. ASSUME NEW r \in Replica, NEW t \in Task, AskAgain(r, t) PROVE OneTaskPerSession'
  BY <1>16, OneTaskFrame DEF AskAgain, StartsNothing, Rows, table
<1>17. ASSUME NEW r \in Replica, NEW t \in Task, Messages(r, t) PROVE OneTaskPerSession'
  BY <1>17, OneTaskFrame DEF Messages, StartsNothing, Rows, table
<1>18. ASSUME NEW r \in Replica, NEW t \in Task, Finish(r, t) PROVE OneTaskPerSession'
  <2>1. loc[<<r, t>>].outcome \in Ended
    BY LocOf, LocalsType
  <2>2. StartsNothing
    BY <1>18, <2>1 DEF Finish, End, StartsNothing, Ended, Rows
  <2>3. QED
    BY <2>2, OneTaskFrame
<1>19. ASSUME NEW r \in Replica, NEW t \in Task, TakeOver(r, t) PROVE OneTaskPerSession'
  BY <1>19, OneTaskFrame DEF TakeOver, Leave, StartsNothing, Rows, table
<1>20. ASSUME NEW r \in Replica, NEW t \in Task, Resume(r, t) PROVE OneTaskPerSession'
  BY <1>20, OneTaskFrame DEF Resume, StartsNothing, Rows, table
<1>21. ASSUME NEW r \in Replica, NEW t \in Task, GiveUp(r, t) PROVE OneTaskPerSession'
  BY <1>21, OneTaskFrame DEF GiveUp, Leave, End, StartsNothing, Rows, table
<1>22. ASSUME NEW r \in Replica, NEW t \in Task, Heartbeat(r, t) PROVE OneTaskPerSession'
  BY <1>22, OneTaskFrame DEF Heartbeat, StartsNothing, Rows, table
<1>23. ASSUME NEW r \in Replica, NEW t \in Task, AbortArrives(r, t) PROVE OneTaskPerSession'
  BY <1>23, OneTaskFrame DEF AbortArrives, StartsNothing, Rows, table
<1>24. ASSUME NEW r \in Replica, NEW t \in Task, FinishFails(r, t) PROVE OneTaskPerSession'
  BY <1>24, OneTaskFrame DEF FinishFails, Leave, StartsNothing, Rows, table
<1>25. ASSUME NEW r \in Replica, NEW t \in Task, BeginAbortFails(r, t) PROVE OneTaskPerSession'
  BY <1>25, OneTaskFrame DEF BeginAbortFails, StartsNothing, Rows, table
<1>26. ASSUME NEW r \in Replica, NEW t \in Task, List(r, t) PROVE OneTaskPerSession'
  BY <1>26, OneTaskFrame DEF List, StartsNothing, Rows, table
<1>27. ASSUME NEW r \in Replica, NEW t \in Task, Release(r, t) PROVE OneTaskPerSession'
  BY <1>27, OneTaskFrame DEF Release, Leave, StartsNothing, Rows, table
<1>28. ASSUME NEW r \in Replica, NEW t \in Task,
             NEW s \in Session \cup {NoSession}, Create(r, t, s) PROVE OneTaskPerSession'
  <2>1. /\ state[t] = "NEW"
        /\ \A u \in Task :
             /\ state'[u] = IF u = t THEN "RUNNING" ELSE state[u]
             /\ sess'[u] = IF u = t THEN s ELSE sess[u]
    BY <1>28 DEF Create, Rows
  <2>2. \A u \in Task : s # NoSession /\ sess[u] = s => state[u] # "RUNNING"
    BY <1>28 DEF Create, Admissible
  <2>3. QED
    BY <2>1, <2>2 DEF OneTaskPerSession, Running
<1>29. ASSUME NEW t \in Task, AbortTask(t) PROVE OneTaskPerSession'
  BY <1>29, OneTaskFrame DEF AbortTask, StartsNothing, Rows, table
<1>30. ASSUME NEW t \in Task, DeadlinePasses(t) PROVE OneTaskPerSession'
  BY <1>30, OneTaskFrame DEF DeadlinePasses, StartsNothing, Rows, table
<1>31. ASSUME NEW t \in Task, GrowOld(t) PROVE OneTaskPerSession'
  BY <1>31, OneTaskFrame DEF GrowOld, StartsNothing, Rows, table
<1>32. ASSUME NEW t \in Task, Lapse(t) PROVE OneTaskPerSession'
  BY <1>32, OneTaskFrame DEF Lapse, StartsNothing, Rows, table
<1>33. ASSUME NEW t \in Task, FailTask(t) PROVE OneTaskPerSession'
  BY <1>33, OneTaskFrame DEF FailTask, End, StartsNothing, Rows, table
<1>34. ASSUME NEW r \in Replica, Crash(r) PROVE OneTaskPerSession'
  BY <1>34, OneTaskFrame DEF Crash, StartsNothing, Rows, table
<1>35. ASSUME NEW s \in Session, RoundEnds(s) PROVE OneTaskPerSession'
  BY <1>35, OneTaskFrame DEF RoundEnds, StartsNothing, Rows, table
<1>36. ASSUME SandboxDies PROVE OneTaskPerSession'
  BY <1>36, OneTaskFrame DEF SandboxDies, StartsNothing, Rows, table
<1>37. ASSUME Doom PROVE OneTaskPerSession'
  BY <1>37, OneTaskFrame DEF Doom, StartsNothing, Rows, table
<1>38. ASSUME Destroy PROVE OneTaskPerSession'
  BY <1>38, OneTaskFrame DEF Destroy, StartsNothing, Rows, table
<1>39. ASSUME NEW r \in Replica, NEW t \in Task, Step(r, t) PROVE OneTaskPerSession'
  BY <1>39, <1>1, <1>2, <1>3, <1>4, <1>5, <1>6, <1>7, <1>8, <1>9, <1>10, <1>11, <1>12, <1>13, <1>14,
    <1>15, <1>16, <1>17, <1>18, <1>19, <1>20, <1>21 DEF Step
<1>40. ASSUME Next PROVE OneTaskPerSession'
  BY <1>39, <1>40, <1>22, <1>23, <1>24, <1>25, <1>26, <1>27, <1>28, <1>29, <1>30, <1>31, <1>32,
    <1>33, <1>34, <1>35, <1>36, <1>37, <1>38 DEF Next
<1>41. ASSUME UNCHANGED vars PROVE OneTaskPerSession'
  BY <1>41 DEF vars, OneTaskPerSession, Running
<1> QED
  BY <1>40, <1>41

\* A step that adds no round and gives no task a session.
AddsNoRound ==
  /\ UNCHANGED sess
  /\ \A s \in Session : rounds'[s] \subseteq rounds[s]

LEMMA RoundFrame ==
  ASSUME RoundInv, AddsNoRound
  PROVE  RoundInv'
BY DEF RoundInv, AddsNoRound

(* A runner that prompts knows the session of its task.                     *)
LEMMA RoundAdded ==
  ASSUME TypeOK, SessInv, RoundInv, UNCHANGED sess, NEW r \in Replica, NEW t \in Task,
         pc[<<r, t>>] = "prompt", Deliver(t, loc[<<r, t>>].session)
  PROVE  RoundInv'
<1>1. loc[<<r, t>>].session = sess[t]
  BY DEF SessInv, SessOf, Working
<1>2. \A s \in Session : rounds'[s] \subseteq IF s = sess[t] THEN rounds[s] \cup {t} ELSE rounds[s]
  BY <1>1 DEF Deliver, TypeOK
<1> QED
  BY <1>1, <1>2 DEF RoundInv

(* Rounds stay in the session of their task.                                *)
LEMMA RoundInvStep ==
  ASSUME TypeOK, Rows, NewInv, SessInv, RoundInv, [Next]_vars
  PROVE  RoundInv'
<1>1. ASSUME NEW r \in Replica, NEW t \in Task, Connect(r, t) PROVE RoundInv'
  BY <1>1, RoundFrame DEF Connect, AddsNoRound, table, engine
<1>2. ASSUME NEW r \in Replica, NEW t \in Task, CreateSession(r, t) PROVE RoundInv'
  BY <1>2, RoundFrame DEF CreateSession, AddsNoRound, table, engine
<1>3. ASSUME NEW r \in Replica, NEW t \in Task, SaveSession(r, t) PROVE RoundInv'
  <2>1. CASE Owns(r, t)
    <3>1. /\ UNCHANGED rounds
          /\ \A u \in Task : sess'[u] = IF u = t THEN loc[<<r, t>>].session ELSE sess[u]
          /\ pc[<<r, t>>] = "save"
      BY <1>3, <2>1 DEF SaveSession, Rows, engine
    <3>2. sess[t] = NoSession
      BY <2>1, <3>1 DEF SessInv, SessOf
    <3>3. QED
      BY <3>1, <3>2, AgentTasksConstants DEF RoundInv, TypeOK
  <2>2. CASE ~Owns(r, t)
    <3>1. AddsNoRound
      BY <1>3, <2>2 DEF SaveSession, AddsNoRound, engine
    <3>2. QED
      BY <3>1, RoundFrame
  <2>3. QED
    BY <2>1, <2>2
<1>4. ASSUME NEW r \in Replica, NEW t \in Task, Prompt(r, t) PROVE RoundInv'
  <2>1. /\ UNCHANGED sess
        /\ pc[<<r, t>>] = "prompt"
        /\ Deliver(t, loc[<<r, t>>].session)
    BY <1>4 DEF Prompt, table
  <2>2. QED
    BY <2>1, RoundAdded
<1>5. ASSUME NEW r \in Replica, NEW t \in Task, RequestFails(r, t) PROVE RoundInv'
  <2>1. UNCHANGED sess
    BY <1>5 DEF RequestFails, table
  <2>2. CASE UNCHANGED engine
    BY <2>1, <2>2, RoundFrame DEF AddsNoRound, engine
  <2>3. CASE pc[<<r, t>>] = "prompt" /\ Deliver(t, loc[<<r, t>>].session)
    BY <2>1, <2>3, RoundAdded
  <2>4. QED
    BY <1>5, <2>2, <2>3 DEF RequestFails
<1>6. ASSUME NEW r \in Replica, NEW t \in Task, Lose(r, t) PROVE RoundInv'
  BY <1>6, RoundFrame DEF Lose, AddsNoRound, table, engine
<1>7. ASSUME NEW r \in Replica, NEW t \in Task, DecideAbort(r, t) PROVE RoundInv'
  BY <1>7, RoundFrame DEF DecideAbort, AddsNoRound, table, engine
<1>8. ASSUME NEW r \in Replica, NEW t \in Task, RetryAbort(r, t) PROVE RoundInv'
  BY <1>8, RoundFrame DEF RetryAbort, AddsNoRound, table, engine
<1>9. ASSUME NEW r \in Replica, NEW t \in Task, BeginAbort(r, t) PROVE RoundInv'
  BY <1>9, RoundFrame DEF BeginAbort, AddsNoRound, table, engine
<1>10. ASSUME NEW r \in Replica, NEW t \in Task, SendAbort(r, t) PROVE RoundInv'
  BY <1>10, RoundFrame DEF SendAbort, AddsNoRound, table, engine
<1>11. ASSUME NEW r \in Replica, NEW t \in Task, AbortAnswered(r, t) PROVE RoundInv'
  BY <1>11, RoundFrame DEF AbortAnswered, AddsNoRound, table, engine
<1>12. ASSUME NEW r \in Replica, NEW t \in Task, AbortUnanswered(r, t) PROVE RoundInv'
  BY <1>12, RoundFrame DEF AbortUnanswered, AddsNoRound, table, engine
<1>13. ASSUME NEW r \in Replica, NEW t \in Task, EndAbort(r, t) PROVE RoundInv'
  BY <1>13, RoundFrame DEF EndAbort, AddsNoRound, table, engine
<1>14. ASSUME NEW r \in Replica, NEW t \in Task, SeeIdle(r, t) PROVE RoundInv'
  BY <1>14, RoundFrame DEF SeeIdle, AddsNoRound, table, engine
<1>15. ASSUME NEW r \in Replica, NEW t \in Task, SeeGone(r, t) PROVE RoundInv'
  BY <1>15, RoundFrame DEF SeeGone, AddsNoRound, table, engine
<1>16. ASSUME NEW r \in Replica, NEW t \in Task, AskAgain(r, t) PROVE RoundInv'
  BY <1>16, RoundFrame DEF AskAgain, AddsNoRound, table, engine
<1>17. ASSUME NEW r \in Replica, NEW t \in Task, Messages(r, t) PROVE RoundInv'
  BY <1>17, RoundFrame DEF Messages, AddsNoRound, table, engine
<1>18. ASSUME NEW r \in Replica, NEW t \in Task, Finish(r, t) PROVE RoundInv'
  BY <1>18, RoundFrame DEF Finish, AddsNoRound, table, engine
<1>19. ASSUME NEW r \in Replica, NEW t \in Task, TakeOver(r, t) PROVE RoundInv'
  BY <1>19, RoundFrame DEF TakeOver, AddsNoRound, table, engine
<1>20. ASSUME NEW r \in Replica, NEW t \in Task, Resume(r, t) PROVE RoundInv'
  BY <1>20, RoundFrame DEF Resume, AddsNoRound, table, engine
<1>21. ASSUME NEW r \in Replica, NEW t \in Task, GiveUp(r, t) PROVE RoundInv'
  BY <1>21, RoundFrame DEF GiveUp, AddsNoRound, table, engine
<1>22. ASSUME NEW r \in Replica, NEW t \in Task, Heartbeat(r, t) PROVE RoundInv'
  BY <1>22, RoundFrame DEF Heartbeat, AddsNoRound, table, engine
<1>23. ASSUME NEW r \in Replica, NEW t \in Task, AbortArrives(r, t) PROVE RoundInv'
  BY <1>23, RoundFrame DEF AbortArrives, AddsNoRound, table, TypeOK
<1>24. ASSUME NEW r \in Replica, NEW t \in Task, FinishFails(r, t) PROVE RoundInv'
  BY <1>24, RoundFrame DEF FinishFails, AddsNoRound, table, engine
<1>25. ASSUME NEW r \in Replica, NEW t \in Task, BeginAbortFails(r, t) PROVE RoundInv'
  BY <1>25, RoundFrame DEF BeginAbortFails, AddsNoRound, table, engine
<1>26. ASSUME NEW r \in Replica, NEW t \in Task, List(r, t) PROVE RoundInv'
  BY <1>26, RoundFrame DEF List, AddsNoRound, table, engine
<1>27. ASSUME NEW r \in Replica, NEW t \in Task, Release(r, t) PROVE RoundInv'
  BY <1>27, RoundFrame DEF Release, AddsNoRound, table, engine
<1>28. ASSUME NEW r \in Replica, NEW t \in Task,
             NEW s \in Session \cup {NoSession}, Create(r, t, s) PROVE RoundInv'
  <2>1. /\ UNCHANGED rounds
        /\ state[t] = "NEW"
        /\ \A u \in Task : sess'[u] = IF u = t THEN s ELSE sess[u]
    BY <1>28 DEF Create, Rows, engine
  <2>2. sess[t] = NoSession
    BY <2>1 DEF NewInv
  <2>3. QED
    BY <2>1, <2>2, AgentTasksConstants DEF RoundInv, TypeOK
<1>29. ASSUME NEW t \in Task, AbortTask(t) PROVE RoundInv'
  BY <1>29, RoundFrame DEF AbortTask, AddsNoRound, table, engine
<1>30. ASSUME NEW t \in Task, DeadlinePasses(t) PROVE RoundInv'
  BY <1>30, RoundFrame DEF DeadlinePasses, AddsNoRound, table, engine
<1>31. ASSUME NEW t \in Task, GrowOld(t) PROVE RoundInv'
  BY <1>31, RoundFrame DEF GrowOld, AddsNoRound, table, engine
<1>32. ASSUME NEW t \in Task, Lapse(t) PROVE RoundInv'
  BY <1>32, RoundFrame DEF Lapse, AddsNoRound, table, engine
<1>33. ASSUME NEW t \in Task, FailTask(t) PROVE RoundInv'
  BY <1>33, RoundFrame DEF FailTask, AddsNoRound, table, engine
<1>34. ASSUME NEW r \in Replica, Crash(r) PROVE RoundInv'
  <2>1. UNCHANGED sess
    BY <1>34 DEF Crash, table
  <2>2. CASE UNCHANGED engine
    BY <2>1, <2>2, RoundFrame DEF AddsNoRound, engine
  <2>3. ASSUME NEW t \in Task, pc[<<r, t>>] = "prompt", Deliver(t, loc[<<r, t>>].session)
        PROVE  RoundInv'
    BY <2>1, <2>3, RoundAdded
  <2>4. QED
    BY <1>34, <2>2, <2>3 DEF Crash
<1>35. ASSUME NEW s \in Session, RoundEnds(s) PROVE RoundInv'
  BY <1>35, RoundFrame DEF RoundEnds, AddsNoRound, table, TypeOK
<1>36. ASSUME SandboxDies PROVE RoundInv'
  BY <1>36, RoundFrame DEF SandboxDies, AddsNoRound, table, TypeOK
<1>37. ASSUME Doom PROVE RoundInv'
  BY <1>37, RoundFrame DEF Doom, AddsNoRound, table, engine
<1>38. ASSUME Destroy PROVE RoundInv'
  BY <1>38, RoundFrame DEF Destroy, AddsNoRound, table, TypeOK
<1>39. ASSUME NEW r \in Replica, NEW t \in Task, Step(r, t) PROVE RoundInv'
  BY <1>39, <1>1, <1>2, <1>3, <1>4, <1>5, <1>6, <1>7, <1>8, <1>9, <1>10, <1>11, <1>12, <1>13, <1>14,
    <1>15, <1>16, <1>17, <1>18, <1>19, <1>20, <1>21 DEF Step
<1>40. ASSUME Next PROVE RoundInv'
  BY <1>39, <1>40, <1>22, <1>23, <1>24, <1>25, <1>26, <1>27, <1>28, <1>29, <1>30, <1>31, <1>32,
    <1>33, <1>34, <1>35, <1>36, <1>37, <1>38 DEF Next
<1>41. ASSUME UNCHANGED vars PROVE RoundInv'
  BY <1>41 DEF vars, RoundInv
<1> QED
  BY <1>40, <1>41

\* A step that leaves fences and commands alone.
KeepsFences ==
  /\ UNCHANGED <<fence, sess>>
  /\ wire' \subseteq wire
  /\ \A t \in Task : state'[t] = "RUNNING" => state[t] = "RUNNING"
  /\ \A r \in Replica, t \in Task :
       pc'[<<r, t>>] \in {"fenced", "aborting", "release"} =>
         /\ pc'[<<r, t>>] = pc[<<r, t>>]
         /\ loc'[<<r, t>>].alone = loc[<<r, t>>].alone

LEMMA FenceFrame ==
  ASSUME FenceInv, KeepsFences
  PROVE  FenceInv'
BY DEF FenceInv, KeepsFences, Cmd

(* What a runner knows changes for that runner only.                        *)
LEMMA LetAt ==
  ASSUME Rows, NEW r \in Replica, NEW t \in Task, NEW l, Let(r, t, l)
  PROVE  \A q \in Replica, u \in Task :
           loc'[<<q, u>>] = IF q = r /\ u = t THEN l ELSE loc[<<q, u>>]
BY DEF Rows, Let, Runner

(* Every step keeps commands behind a fence.                                *)
LEMMA FenceInvStep ==
  ASSUME DbPrompt, TypeOK, Rows, NewInv, SessInv, OneTaskPerSession, FenceInv, [Next]_vars
  PROVE  FenceInv'
<1>1. ASSUME NEW r \in Replica, NEW t \in Task, Connect(r, t) PROVE FenceInv'
  BY <1>1, GotoAt, FenceFrame DEF Connect, Rows, KeepsFences, table
<1>2. ASSUME NEW r \in Replica, NEW t \in Task, CreateSession(r, t) PROVE FenceInv'
  BY <1>2, GotoAt, LetAt, FenceFrame DEF CreateSession, Rows, KeepsFences, table
<1>3. ASSUME NEW r \in Replica, NEW t \in Task, SaveSession(r, t) PROVE FenceInv'
  <2>1. CASE Owns(r, t)
    <3>1. /\ UNCHANGED <<state, fence, wire, loc>>
          /\ pc[<<r, t>>] = "save"
          /\ \A u \in Task : sess'[u] = IF u = t THEN loc[<<r, t>>].session ELSE sess[u]
          /\ \A q \in Replica, u \in Task :
               pc'[<<q, u>>] = IF q = r /\ u = t THEN "prompt" ELSE pc[<<q, u>>]
      BY <1>3, <2>1, GotoAt DEF SaveSession, Rows
    <3>2. /\ sess[t] = NoSession
          /\ \A u \in Task : sess[u] # loc[<<r, t>>].session
      BY <2>1, <3>1 DEF SessInv, SessOf
    <3>3. fence[t] = NoReplica
      BY <3>2 DEF FenceInv
    <3>4. QED
      BY <3>1, <3>2, <3>3 DEF FenceInv, Cmd
  <2>2. CASE ~Owns(r, t)
    <3>1. KeepsFences
      BY <1>3, <2>2, GotoAt DEF SaveSession, Leave, KeepsFences
    <3>2. QED
      BY <3>1, FenceFrame
  <2>3. QED
    BY <2>1, <2>2
<1>4. ASSUME NEW r \in Replica, NEW t \in Task, Prompt(r, t) PROVE FenceInv'
  BY <1>4, GotoAt, FenceFrame DEF Prompt, Rows, KeepsFences, table
<1>5. ASSUME NEW r \in Replica, NEW t \in Task, RequestFails(r, t) PROVE FenceInv'
  <2>1. /\ pc[<<r, t>>] \notin {"none", "listed", "taken"}
        /\ pc' = [pc EXCEPT ![<<r, t>>] = "finish"]
        /\ UNCHANGED <<table, wire, box, down>>
        /\ \A q \in Replica, u \in Task :
             loc'[<<q, u>>].session = loc[<<q, u>>].session
             /\ loc'[<<q, u>>].alone = loc[<<q, u>>].alone
    BY <1>5, Deciding
  <2>2. KeepsFences
    BY <2>1 DEF KeepsFences, Rows, Runner, table
  <2>3. QED
    BY <2>2, FenceFrame
<1>6. ASSUME NEW r \in Replica, NEW t \in Task, Lose(r, t) PROVE FenceInv'
  BY <1>6, GotoAt, FenceFrame DEF Lose, Leave, Rows, KeepsFences, table
<1>7. ASSUME NEW r \in Replica, NEW t \in Task, DecideAbort(r, t) PROVE FenceInv'
  BY <1>7, GotoAt, LetAt, FenceFrame DEF DecideAbort, Rows, KeepsFences, table
<1>8. ASSUME NEW r \in Replica, NEW t \in Task, RetryAbort(r, t) PROVE FenceInv'
  BY <1>8, GotoAt, FenceFrame DEF RetryAbort, Rows, KeepsFences, table
<1>9. ASSUME NEW r \in Replica, NEW t \in Task, BeginAbort(r, t) PROVE FenceInv'
  <2>1. CASE Owns(r, t)
    <3> DEFINE l == [loc[<<r, t>>] EXCEPT !.alone = fence[t] = NoReplica]
    <3>1. Let(r, t, l) /\ Goto(r, t, "fenced")
      BY <1>9, <2>1 DEF BeginAbort
    <3>2. l.alone = (fence[t] = NoReplica)
      BY LocOf DEF Locals
    <3> HIDE DEF l
    <3>3. /\ pc[<<r, t>>] = "begin"
          /\ UNCHANGED <<state, sess, wire>>
          /\ \A u \in Task : fence'[u] = IF u = t THEN r ELSE fence[u]
      BY <1>9, <2>1 DEF BeginAbort, Rows
    <3>4. /\ \A q \in Replica, u \in Task :
               pc'[<<q, u>>] = IF q = r /\ u = t THEN "fenced" ELSE pc[<<q, u>>]
          /\ \A q \in Replica, u \in Task :
               loc'[<<q, u>>] = IF q = r /\ u = t THEN l ELSE loc[<<q, u>>]
      BY <3>1, GotoAt, LetAt
    <3>5. sess[t] # NoSession
      BY <3>3 DEF SessInv, SessOf, Working
    <3>6. \A u \in Task : state[u] = "RUNNING" /\ u # t => sess[u] # sess[t]
      BY <2>1, <3>5 DEF OneTaskPerSession, Running, Owns
    <3>7. r # NoReplica
      BY AgentTasksConstants
    <3>8. fence[t] = NoReplica => \A q \in Replica : ~Cmd(q, t)
      BY DEF FenceInv
    <3>9. \A q \in Replica, u \in Task : Cmd(q, u)' <=> Cmd(q, u) \/ (q = r /\ u = t)
      BY <3>3, <3>4 DEF Cmd
    <3>10. \A q, p \in Replica, u \in Task :
             /\ p # q /\ fence'[u] = q /\ loc'[<<q, u>>].alone
             /\ pc'[<<q, u>>] \in {"fenced", "aborting", "release"}
             => ~Cmd(p, u)'
      <4>1. ASSUME NEW q \in Replica, NEW p \in Replica, p # q, fence'[t] = q,
                   loc'[<<q, t>>].alone
            PROVE  ~Cmd(p, t)'
        BY <4>1, <3>2, <3>3, <3>4, <3>8, <3>9
      <4>2. ASSUME NEW q \in Replica, NEW p \in Replica, NEW u \in Task, u # t, p # q,
                   fence'[u] = q, loc'[<<q, u>>].alone,
                   pc'[<<q, u>>] \in {"fenced", "aborting", "release"}
            PROVE  ~Cmd(p, u)'
        BY <4>2, <3>3, <3>4, <3>9 DEF FenceInv
      <4>3. QED
        BY <4>1, <4>2
    <3>11. QED
      BY <3>3, <3>4, <3>5, <3>6, <3>7, <3>9, <3>10 DEF FenceInv
  <2>2. CASE ~Owns(r, t)
    <3>1. KeepsFences
      BY <1>9, <2>2, GotoAt DEF BeginAbort, Leave, KeepsFences
    <3>2. QED
      BY <3>1, FenceFrame
  <2>3. QED
    BY <2>1, <2>2
<1>10. ASSUME NEW r \in Replica, NEW t \in Task, SendAbort(r, t) PROVE FenceInv'
  <2>1. /\ pc[<<r, t>>] = "fenced"
        /\ UNCHANGED <<state, sess, fence, loc>>
        /\ wire' = wire \cup {<<r, t>>}
        /\ \A q \in Replica, u \in Task :
             pc'[<<q, u>>] = IF q = r /\ u = t THEN "aborting" ELSE pc[<<q, u>>]
    BY <1>10, GotoAt DEF SendAbort, table
  <2>2. QED
    <3>1. \A q \in Replica, u \in Task : Cmd(q, u)' <=> Cmd(q, u)
      BY <2>1 DEF Cmd
    <3>2. \A q \in Replica, u \in Task :
            pc'[<<q, u>>] = "release" =>
              /\ pc[<<q, u>>] = "release"
              /\ <<q, u>> \in wire' => <<q, u>> \in wire
      BY <2>1
    <3>3. QED
      BY <2>1, <3>1, <3>2 DEF FenceInv
<1>11. ASSUME NEW r \in Replica, NEW t \in Task, AbortAnswered(r, t) PROVE FenceInv'
  <2> DEFINE l == [loc[<<r, t>>] EXCEPT !.sent = TRUE]
  <2>1. /\ Let(r, t, l)
        /\ Goto(r, t, IF loc[<<r, t>>].alone THEN "release" ELSE "follow")
    BY <1>11 DEF AbortAnswered
  <2>2. l.alone = loc[<<r, t>>].alone
    BY LocOf DEF Locals
  <2> HIDE DEF l
  <2>3. /\ pc[<<r, t>>] = "aborting"
        /\ <<r, t>> \notin wire
        /\ UNCHANGED <<state, sess, fence, wire>>
    BY <1>11 DEF AbortAnswered, table
  <2>4. /\ \A q \in Replica, u \in Task :
             pc'[<<q, u>>] = IF q = r /\ u = t
                             THEN IF loc[<<r, t>>].alone THEN "release" ELSE "follow"
                             ELSE pc[<<q, u>>]
        /\ \A q \in Replica, u \in Task :
             loc'[<<q, u>>] = IF q = r /\ u = t THEN l ELSE loc[<<q, u>>]
    BY <2>1, GotoAt, LetAt
  <2>5. QED
    BY <2>2, <2>3, <2>4 DEF FenceInv, Cmd
<1>12. ASSUME NEW r \in Replica, NEW t \in Task, AbortUnanswered(r, t) PROVE FenceInv'
  BY <1>12, GotoAt, FenceFrame DEF AbortUnanswered, Rows, KeepsFences, table
<1>13. ASSUME NEW r \in Replica, NEW t \in Task, EndAbort(r, t) PROVE FenceInv'
  <2>1. /\ pc[<<r, t>>] = "release"
        /\ UNCHANGED <<state, sess, wire, loc>>
        /\ \A q \in Replica, u \in Task :
             pc'[<<q, u>>] = IF q = r /\ u = t THEN "follow" ELSE pc[<<q, u>>]
    BY <1>13, GotoAt DEF EndAbort
  <2>2. CASE UNCHANGED fence
    <3>1. KeepsFences
      BY <2>1, <2>2 DEF KeepsFences
    <3>2. QED
      BY <3>1, FenceFrame
  <2>3. CASE fence[t] = r /\ fence' = [fence EXCEPT ![t] = NoReplica]
    <3>1. \A u \in Task : fence'[u] = IF u = t THEN NoReplica ELSE fence[u]
      BY <2>3 DEF Rows
    <3>2. \A q \in Replica : ~Cmd(q, t)'
      BY <2>1, <2>3 DEF FenceInv, Cmd
    <3>3. QED
      BY <2>1, <3>1, <3>2, AgentTasksConstants DEF FenceInv, Cmd
  <2>4. QED
    BY <1>13, <2>2, <2>3 DEF EndAbort
<1>14. ASSUME NEW r \in Replica, NEW t \in Task, SeeIdle(r, t) PROVE FenceInv'
  BY <1>14, GotoAt, FenceFrame DEF SeeIdle, Rows, KeepsFences, table
<1>15. ASSUME NEW r \in Replica, NEW t \in Task, SeeGone(r, t) PROVE FenceInv'
  <2>1. /\ pc[<<r, t>>] \notin {"none", "listed", "taken"}
        /\ pc' = [pc EXCEPT ![<<r, t>>] = "finish"]
        /\ UNCHANGED <<table, wire, box, down>>
        /\ \A q \in Replica, u \in Task :
             loc'[<<q, u>>].session = loc[<<q, u>>].session
             /\ loc'[<<q, u>>].alone = loc[<<q, u>>].alone
    BY <1>15, Deciding
  <2>2. KeepsFences
    BY <2>1 DEF KeepsFences, Rows, Runner, table
  <2>3. QED
    BY <2>2, FenceFrame
<1>16. ASSUME NEW r \in Replica, NEW t \in Task, AskAgain(r, t) PROVE FenceInv'
  BY <1>16, GotoAt, LetAt, FenceFrame DEF AskAgain, Rows, KeepsFences, table
<1>17. ASSUME NEW r \in Replica, NEW t \in Task, Messages(r, t) PROVE FenceInv'
  <2>1. /\ pc[<<r, t>>] \notin {"none", "listed", "taken"}
        /\ pc' = [pc EXCEPT ![<<r, t>>] = "finish"]
        /\ UNCHANGED <<table, wire, box, down>>
        /\ \A q \in Replica, u \in Task :
             loc'[<<q, u>>].session = loc[<<q, u>>].session
             /\ loc'[<<q, u>>].alone = loc[<<q, u>>].alone
    BY <1>17, Deciding
  <2>2. KeepsFences
    BY <2>1 DEF KeepsFences, Rows, Runner, table
  <2>3. QED
    BY <2>2, FenceFrame
<1>18. ASSUME NEW r \in Replica, NEW t \in Task, Finish(r, t) PROVE FenceInv'
  <2>1. loc[<<r, t>>].outcome \in Ended
    BY LocOf, LocalsType
  <2>2. /\ UNCHANGED <<fence, sess, wire, loc>>
        /\ \A q \in Replica, u \in Task :
             pc'[<<q, u>>] = IF q = r /\ u = t THEN "none" ELSE pc[<<q, u>>]
    BY <1>18, GotoAt DEF Finish, Leave
  <2>3. \A u \in Task : state'[u] = "RUNNING" => state[u] = "RUNNING"
    BY <1>18, <2>1 DEF Finish, End, Ended, Rows
  <2>4. KeepsFences
    BY <2>2, <2>3 DEF KeepsFences
  <2>5. QED
    BY <2>4, FenceFrame
<1>19. ASSUME NEW r \in Replica, NEW t \in Task, TakeOver(r, t) PROVE FenceInv'
  BY <1>19, GotoAt, FenceFrame DEF TakeOver, Leave, Rows, KeepsFences, table
<1>20. ASSUME NEW r \in Replica, NEW t \in Task, Resume(r, t) PROVE FenceInv'
  BY <1>20, GotoAt, FenceFrame DEF Resume, Rows, KeepsFences, table
<1>21. ASSUME NEW r \in Replica, NEW t \in Task, GiveUp(r, t) PROVE FenceInv'
  BY <1>21, GotoAt, FenceFrame DEF GiveUp, Leave, End, Rows, KeepsFences, table
<1>22. ASSUME NEW r \in Replica, NEW t \in Task, Heartbeat(r, t) PROVE FenceInv'
  BY <1>22, FenceFrame DEF Heartbeat, Rows, KeepsFences, table
<1>23. ASSUME NEW r \in Replica, NEW t \in Task, AbortArrives(r, t) PROVE FenceInv'
  BY <1>23, FenceFrame DEF AbortArrives, Rows, KeepsFences, table
<1>24. ASSUME NEW r \in Replica, NEW t \in Task, FinishFails(r, t) PROVE FenceInv'
  BY <1>24, GotoAt, FenceFrame DEF FinishFails, Leave, Rows, KeepsFences, table
<1>25. ASSUME NEW r \in Replica, NEW t \in Task, BeginAbortFails(r, t) PROVE FenceInv'
  <2>1. /\ pc[<<r, t>>] = "begin"
        /\ UNCHANGED <<state, sess, wire, loc>>
        /\ \A q \in Replica, u \in Task :
             pc'[<<q, u>>] = IF q = r /\ u = t THEN "follow" ELSE pc[<<q, u>>]
    BY <1>25, GotoAt DEF BeginAbortFails
  <2>2. CASE UNCHANGED fence
    <3>1. KeepsFences
      BY <2>1, <2>2 DEF KeepsFences
    <3>2. QED
      BY <3>1, FenceFrame
  <2>3. CASE Owns(r, t) /\ fence' = [fence EXCEPT ![t] = r]
    <3>1. \A u \in Task : fence'[u] = IF u = t THEN r ELSE fence[u]
      BY <2>3 DEF Rows
    <3>2. sess[t] # NoSession
      BY <2>1 DEF SessInv, SessOf, Working
    <3>3. \A u \in Task : state[u] = "RUNNING" /\ u # t => sess[u] # sess[t]
      BY <2>3, <3>2 DEF OneTaskPerSession, Running, Owns
    <3>4. r # NoReplica
      BY AgentTasksConstants
    <3>5. QED
      BY <2>1, <3>1, <3>2, <3>3, <3>4 DEF FenceInv, Cmd
  <2>4. QED
    BY <1>25, <2>2, <2>3 DEF BeginAbortFails
<1>26. ASSUME NEW r \in Replica, NEW t \in Task, List(r, t) PROVE FenceInv'
  BY <1>26, GotoAt, LetAt, FenceFrame DEF List, Fresh, Rows, KeepsFences, table
<1>27. ASSUME NEW r \in Replica, NEW t \in Task, Release(r, t) PROVE FenceInv'
  BY <1>27, GotoAt, FenceFrame DEF Release, Leave, Rows, KeepsFences, table
<1>28. ASSUME NEW r \in Replica, NEW t \in Task,
             NEW s \in Session \cup {NoSession}, Create(r, t, s) PROVE FenceInv'
  <2>1. /\ state[t] = "NEW"
        /\ UNCHANGED <<fence, wire>>
        /\ \A u \in Task :
             /\ state'[u] = IF u = t THEN "RUNNING" ELSE state[u]
             /\ sess'[u] = IF u = t THEN s ELSE sess[u]
        /\ \A q \in Replica, u \in Task :
             pc'[<<q, u>>] = IF q = r /\ u = t THEN "connect" ELSE pc[<<q, u>>]
        /\ \A q \in Replica, u \in Task :
             q # r \/ u # t => loc'[<<q, u>>] = loc[<<q, u>>]
    BY <1>28, GotoAt, LetAt DEF Create, Rows
  <2>2. \A u \in Task : s # NoSession /\ sess[u] = s => fence[u] = NoReplica
    BY <1>28 DEF Create, Admissible
  <2>3. fence[t] = NoReplica /\ \A q \in Replica : ~Cmd(q, t)
    BY <2>1 DEF NewInv, Cmd
  <2>4. QED
    BY <2>1, <2>2, <2>3 DEF FenceInv, Cmd
<1>29. ASSUME NEW t \in Task, AbortTask(t) PROVE FenceInv'
  BY <1>29, FenceFrame DEF AbortTask, Rows, KeepsFences, table
<1>30. ASSUME NEW t \in Task, DeadlinePasses(t) PROVE FenceInv'
  BY <1>30, FenceFrame DEF DeadlinePasses, Rows, KeepsFences, table
<1>31. ASSUME NEW t \in Task, GrowOld(t) PROVE FenceInv'
  BY <1>31, FenceFrame DEF GrowOld, Rows, KeepsFences, table
<1>32. ASSUME NEW t \in Task, Lapse(t) PROVE FenceInv'
  <2>1. /\ UNCHANGED <<state, sess, wire, loc, pc>>
        /\ \A u \in Task : fence'[u] = IF u = t THEN NoReplica ELSE fence[u]
        /\ \A q \in Replica : ~Cmd(q, t)
    BY <1>32 DEF Lapse, Rows, Cmd
  <2>2. QED
    BY <2>1, AgentTasksConstants DEF FenceInv, Cmd
<1>33. ASSUME NEW t \in Task, FailTask(t) PROVE FenceInv'
  BY <1>33, FenceFrame DEF FailTask, End, Rows, KeepsFences, table
<1>34. ASSUME NEW r \in Replica, Crash(r) PROVE FenceInv'
  <2>1. KeepsFences
    BY <1>34, CrashPc DEF Crash, KeepsFences, table
  <2>2. QED
    BY <2>1, FenceFrame
<1>35. ASSUME NEW s \in Session, RoundEnds(s) PROVE FenceInv'
  BY <1>35, FenceFrame DEF RoundEnds, Rows, KeepsFences, table
<1>36. ASSUME SandboxDies PROVE FenceInv'
  BY <1>36, FenceFrame DEF SandboxDies, Rows, KeepsFences, table
<1>37. ASSUME Doom PROVE FenceInv'
  BY <1>37, FenceFrame DEF Doom, Rows, KeepsFences, table
<1>38. ASSUME Destroy PROVE FenceInv'
  BY <1>38, FenceFrame DEF Destroy, Rows, KeepsFences, table
<1>39. ASSUME NEW r \in Replica, NEW t \in Task, Step(r, t) PROVE FenceInv'
  BY <1>39, <1>1, <1>2, <1>3, <1>4, <1>5, <1>6, <1>7, <1>8, <1>9, <1>10, <1>11, <1>12, <1>13, <1>14,
    <1>15, <1>16, <1>17, <1>18, <1>19, <1>20, <1>21 DEF Step
<1>40. ASSUME Next PROVE FenceInv'
  BY <1>39, <1>40, <1>22, <1>23, <1>24, <1>25, <1>26, <1>27, <1>28, <1>29, <1>30, <1>31, <1>32,
    <1>33, <1>34, <1>35, <1>36, <1>37, <1>38 DEF Next
<1>41. ASSUME UNCHANGED vars PROVE FenceInv'
  BY <1>41 DEF vars, FenceInv, Cmd
<1> QED
  BY <1>40, <1>41

\* Who would stop t, or record it as stopped, has a reason.
Justified(l, t) ==
  /\ "ABORTED" \in {l.reason, l.outcome} => t \in wish
  /\ "TIMEOUT" \in {l.reason, l.outcome} => t \in late

LEMMA ReasonSame ==
  ASSUME ReasonInv, UNCHANGED loc, wish \subseteq wish', late \subseteq late'
  PROVE  ReasonInv'
BY DEF ReasonInv

LEMMA ReasonLet ==
  ASSUME Rows, ReasonInv, UNCHANGED <<wish, late>>, NEW r \in Replica, NEW t \in Task,
         NEW l, Let(r, t, l), Justified(l, t)
  PROVE  ReasonInv'
<1>1. \A q \in Replica, u \in Task :
        loc'[<<q, u>>] = IF q = r /\ u = t THEN l ELSE loc[<<q, u>>]
  BY DEF Rows, Let, Runner
<1>2. QED
  BY <1>1 DEF ReasonInv, Justified

(* Every step that would stop a task has a reason.                          *)
LEMMA ReasonInvStep ==
  ASSUME TypeOK, Rows, ReasonInv, [Next]_vars
  PROVE  ReasonInv'
<1>1. ASSUME NEW r \in Replica, NEW t \in Task, Connect(r, t) PROVE ReasonInv'
  BY <1>1, ReasonSame DEF Connect, table
<1>2. ASSUME NEW r \in Replica, NEW t \in Task, CreateSession(r, t) PROVE ReasonInv'
  <2>1. PICK s \in Session : Let(r, t, [loc[<<r, t>>] EXCEPT !.session = s])
    BY <1>2 DEF CreateSession
  <2> DEFINE l == [loc[<<r, t>>] EXCEPT !.session = s]
  <2>2. Justified(l, t)
    BY LocOf DEF Locals, Justified, ReasonInv
  <2>3. Let(r, t, l) /\ UNCHANGED <<wish, late>>
    BY <1>2, <2>1 DEF CreateSession, table
  <2> HIDE DEF l
  <2>4. QED
    BY <2>2, <2>3, ReasonLet
<1>3. ASSUME NEW r \in Replica, NEW t \in Task, SaveSession(r, t) PROVE ReasonInv'
  BY <1>3, ReasonSame DEF SaveSession, Leave, table
<1>4. ASSUME NEW r \in Replica, NEW t \in Task, Prompt(r, t) PROVE ReasonInv'
  BY <1>4, ReasonSame DEF Prompt, table
<1>5. ASSUME NEW r \in Replica, NEW t \in Task, RequestFails(r, t) PROVE ReasonInv'
  <2>1. /\ UNCHANGED <<wish, late>>
        /\ \A q \in Replica, u \in Task :
             /\ loc'[<<q, u>>].reason = loc[<<q, u>>].reason
             /\ \/ loc'[<<q, u>>].outcome \in {"FAILED", "SUCCEEDED"}
                \/ loc'[<<q, u>>].outcome \in {loc[<<q, u>>].reason, loc[<<q, u>>].outcome}
    BY <1>5, Deciding DEF table
  <2>2. QED
    BY <2>1 DEF ReasonInv
<1>6. ASSUME NEW r \in Replica, NEW t \in Task, Lose(r, t) PROVE ReasonInv'
  BY <1>6, ReasonSame DEF Lose, Leave, table
<1>7. ASSUME NEW r \in Replica, NEW t \in Task, DecideAbort(r, t) PROVE ReasonInv'
  <2> DEFINE l == [loc[<<r, t>>] EXCEPT !.reason = IF t \in late THEN "TIMEOUT" ELSE "ABORTED"]
  <2>1. Let(r, t, l) /\ UNCHANGED <<wish, late>>
    BY <1>7 DEF DecideAbort, table
  <2>2. Justified(l, t)
    BY <1>7, LocOf DEF DecideAbort, Locals, Justified, ReasonInv
  <2> HIDE DEF l
  <2>3. QED
    BY <2>1, <2>2, ReasonLet
<1>8. ASSUME NEW r \in Replica, NEW t \in Task, RetryAbort(r, t) PROVE ReasonInv'
  BY <1>8, ReasonSame DEF RetryAbort, table
<1>9. ASSUME NEW r \in Replica, NEW t \in Task, BeginAbort(r, t) PROVE ReasonInv'
  <2>1. CASE Owns(r, t)
    <3> DEFINE l == [loc[<<r, t>>] EXCEPT !.alone = fence[t] = NoReplica]
    <3>1. Let(r, t, l) /\ UNCHANGED <<wish, late>>
      BY <1>9, <2>1 DEF BeginAbort
    <3>2. Justified(l, t)
      BY LocOf DEF Locals, Justified, ReasonInv
    <3> HIDE DEF l
    <3>3. QED
      BY <3>1, <3>2, ReasonLet
  <2>2. CASE ~Owns(r, t)
    BY <1>9, <2>2, ReasonSame DEF BeginAbort, Leave
  <2>3. QED
    BY <2>1, <2>2
<1>10. ASSUME NEW r \in Replica, NEW t \in Task, SendAbort(r, t) PROVE ReasonInv'
  BY <1>10, ReasonSame DEF SendAbort, table
<1>11. ASSUME NEW r \in Replica, NEW t \in Task, AbortAnswered(r, t) PROVE ReasonInv'
  <2> DEFINE l == [loc[<<r, t>>] EXCEPT !.sent = TRUE]
  <2>1. Let(r, t, l) /\ UNCHANGED <<wish, late>>
    BY <1>11 DEF AbortAnswered, table
  <2>2. Justified(l, t)
    BY LocOf DEF Locals, Justified, ReasonInv
  <2> HIDE DEF l
  <2>3. QED
    BY <2>1, <2>2, ReasonLet
<1>12. ASSUME NEW r \in Replica, NEW t \in Task, AbortUnanswered(r, t) PROVE ReasonInv'
  BY <1>12, ReasonSame DEF AbortUnanswered, table
<1>13. ASSUME NEW r \in Replica, NEW t \in Task, EndAbort(r, t) PROVE ReasonInv'
  BY <1>13, ReasonSame DEF EndAbort, table
<1>14. ASSUME NEW r \in Replica, NEW t \in Task, SeeIdle(r, t) PROVE ReasonInv'
  BY <1>14, ReasonSame DEF SeeIdle, table
<1>15. ASSUME NEW r \in Replica, NEW t \in Task, SeeGone(r, t) PROVE ReasonInv'
  <2>1. /\ UNCHANGED <<wish, late>>
        /\ \A q \in Replica, u \in Task :
             /\ loc'[<<q, u>>].reason = loc[<<q, u>>].reason
             /\ \/ loc'[<<q, u>>].outcome \in {"FAILED", "SUCCEEDED"}
                \/ loc'[<<q, u>>].outcome \in {loc[<<q, u>>].reason, loc[<<q, u>>].outcome}
    BY <1>15, Deciding DEF table
  <2>2. QED
    BY <2>1 DEF ReasonInv
<1>16. ASSUME NEW r \in Replica, NEW t \in Task, AskAgain(r, t) PROVE ReasonInv'
  <2>1. UNCHANGED <<wish, late>>
    BY <1>16 DEF AskAgain, table
  <2>2. CASE loc[<<r, t>>].reason = "none" /\ t \in wish
    <3> DEFINE l == [loc[<<r, t>>] EXCEPT !.reason = "ABORTED"]
    <3>1. Let(r, t, l)
      BY <1>16, <2>2 DEF AskAgain
    <3>2. Justified(l, t)
      BY <2>2, LocOf DEF Locals, Justified, ReasonInv
    <3> HIDE DEF l
    <3>3. QED
      BY <2>1, <3>1, <3>2, ReasonLet
  <2>3. CASE ~(loc[<<r, t>>].reason = "none" /\ t \in wish)
    <3>1. Let(r, t, loc[<<r, t>>])
      BY <1>16, <2>3 DEF AskAgain
    <3>2. Justified(loc[<<r, t>>], t)
      BY DEF Justified, ReasonInv
    <3>3. QED
      BY <2>1, <3>1, <3>2, ReasonLet
  <2>4. QED
    BY <2>2, <2>3
<1>17. ASSUME NEW r \in Replica, NEW t \in Task, Messages(r, t) PROVE ReasonInv'
  <2>1. /\ UNCHANGED <<wish, late>>
        /\ \A q \in Replica, u \in Task :
             /\ loc'[<<q, u>>].reason = loc[<<q, u>>].reason
             /\ \/ loc'[<<q, u>>].outcome \in {"FAILED", "SUCCEEDED"}
                \/ loc'[<<q, u>>].outcome \in {loc[<<q, u>>].reason, loc[<<q, u>>].outcome}
    BY <1>17, Deciding DEF table
  <2>2. QED
    BY <2>1 DEF ReasonInv
<1>18. ASSUME NEW r \in Replica, NEW t \in Task, Finish(r, t) PROVE ReasonInv'
  BY <1>18, ReasonSame DEF Finish, Leave, table
<1>19. ASSUME NEW r \in Replica, NEW t \in Task, TakeOver(r, t) PROVE ReasonInv'
  BY <1>19, ReasonSame DEF TakeOver, Leave, table
<1>20. ASSUME NEW r \in Replica, NEW t \in Task, Resume(r, t) PROVE ReasonInv'
  BY <1>20, ReasonSame DEF Resume, table
<1>21. ASSUME NEW r \in Replica, NEW t \in Task, GiveUp(r, t) PROVE ReasonInv'
  BY <1>21, ReasonSame DEF GiveUp, Leave, table
<1>22. ASSUME NEW r \in Replica, NEW t \in Task, Heartbeat(r, t) PROVE ReasonInv'
  BY <1>22, ReasonSame DEF Heartbeat, table
<1>23. ASSUME NEW r \in Replica, NEW t \in Task, AbortArrives(r, t) PROVE ReasonInv'
  BY <1>23, ReasonSame DEF AbortArrives, table
<1>24. ASSUME NEW r \in Replica, NEW t \in Task, FinishFails(r, t) PROVE ReasonInv'
  BY <1>24, ReasonSame DEF FinishFails, Leave, table
<1>25. ASSUME NEW r \in Replica, NEW t \in Task, BeginAbortFails(r, t) PROVE ReasonInv'
  BY <1>25, ReasonSame DEF BeginAbortFails, table
<1>26. ASSUME NEW r \in Replica, NEW t \in Task, List(r, t) PROVE ReasonInv'
  <2> DEFINE l == [Fresh(sess[t]) EXCEPT !.from = owner[t]]
  <2>1. Let(r, t, l) /\ UNCHANGED <<wish, late>>
    BY <1>26 DEF List, table
  <2>2. l.reason = "none" /\ l.outcome = "FAILED"
    BY DEF Fresh
  <2> HIDE DEF l
  <2>3. QED
    BY <2>1, <2>2, ReasonLet DEF Justified
<1>27. ASSUME NEW r \in Replica, NEW t \in Task, Release(r, t) PROVE ReasonInv'
  BY <1>27, ReasonSame DEF Release, Leave, table
<1>28. ASSUME NEW r \in Replica, NEW t \in Task,
             NEW s \in Session \cup {NoSession}, Create(r, t, s) PROVE ReasonInv'
  <2>1. Let(r, t, Fresh(s)) /\ UNCHANGED <<wish, late>>
    BY <1>28 DEF Create
  <2>2. Justified(Fresh(s), t)
    BY DEF Fresh, Justified
  <2>3. QED
    BY <2>1, <2>2, ReasonLet
<1>29. ASSUME NEW t \in Task, AbortTask(t) PROVE ReasonInv'
  BY <1>29, ReasonSame DEF AbortTask, table
<1>30. ASSUME NEW t \in Task, DeadlinePasses(t) PROVE ReasonInv'
  BY <1>30, ReasonSame DEF DeadlinePasses, table
<1>31. ASSUME NEW t \in Task, GrowOld(t) PROVE ReasonInv'
  BY <1>31, ReasonSame DEF GrowOld, table
<1>32. ASSUME NEW t \in Task, Lapse(t) PROVE ReasonInv'
  BY <1>32, ReasonSame DEF Lapse, table
<1>33. ASSUME NEW t \in Task, FailTask(t) PROVE ReasonInv'
  BY <1>33, ReasonSame DEF FailTask, table
<1>34. ASSUME NEW r \in Replica, Crash(r) PROVE ReasonInv'
  BY <1>34, ReasonSame DEF Crash, table
<1>35. ASSUME NEW s \in Session, RoundEnds(s) PROVE ReasonInv'
  BY <1>35, ReasonSame DEF RoundEnds, table
<1>36. ASSUME SandboxDies PROVE ReasonInv'
  BY <1>36, ReasonSame DEF SandboxDies, table
<1>37. ASSUME Doom PROVE ReasonInv'
  BY <1>37, ReasonSame DEF Doom, table
<1>38. ASSUME Destroy PROVE ReasonInv'
  BY <1>38, ReasonSame DEF Destroy, table
<1>39. ASSUME NEW r \in Replica, NEW t \in Task, Step(r, t) PROVE ReasonInv'
  BY <1>39, <1>1, <1>2, <1>3, <1>4, <1>5, <1>6, <1>7, <1>8, <1>9, <1>10, <1>11, <1>12, <1>13, <1>14,
    <1>15, <1>16, <1>17, <1>18, <1>19, <1>20, <1>21 DEF Step
<1>40. ASSUME Next PROVE ReasonInv'
  BY <1>39, <1>40, <1>22, <1>23, <1>24, <1>25, <1>26, <1>27, <1>28, <1>29, <1>30, <1>31, <1>32,
    <1>33, <1>34, <1>35, <1>36, <1>37, <1>38 DEF Next
<1>41. ASSUME UNCHANGED vars PROVE ReasonInv'
  BY <1>41 DEF vars, ReasonInv, table
<1> QED
  BY <1>40, <1>41
LEMMA LifeStutter ==
  ASSUME UNCHANGED <<state, wish, late>>
  PROVE  [Life!Next]_(Life!vars)
BY DEF Life!vars

LEMMA LifeEnd ==
  ASSUME TypeOK, NEW t \in Task, state[t] = "RUNNING", NEW final \in Ended,
         final = "ABORTED" => t \in wish, final = "TIMEOUT" => t \in late,
         state' = [state EXCEPT ![t] = final], UNCHANGED <<wish, late>>
  PROVE  [Life!Next]_(Life!vars)
BY DEF Life!Next, Life!End, Ended

(* Every step of a task is one that TaskLife allows, or none.                *)
LEMMA LifeStep ==
  ASSUME TypeOK, ReasonInv, [Next]_vars
  PROVE  [Life!Next]_(Life!vars)
<1>1. ASSUME NEW r \in Replica, NEW t \in Task, Connect(r, t) PROVE [Life!Next]_(Life!vars)
  BY <1>1, LifeStutter DEF Connect, table
<1>2. ASSUME NEW r \in Replica, NEW t \in Task, CreateSession(r, t) PROVE [Life!Next]_(Life!vars)
  BY <1>2, LifeStutter DEF CreateSession, table
<1>3. ASSUME NEW r \in Replica, NEW t \in Task, SaveSession(r, t) PROVE [Life!Next]_(Life!vars)
  BY <1>3, LifeStutter DEF SaveSession, table
<1>4. ASSUME NEW r \in Replica, NEW t \in Task, Prompt(r, t) PROVE [Life!Next]_(Life!vars)
  BY <1>4, LifeStutter DEF Prompt, table
<1>5. ASSUME NEW r \in Replica, NEW t \in Task, RequestFails(r, t) PROVE [Life!Next]_(Life!vars)
  BY <1>5, LifeStutter DEF RequestFails, table
<1>6. ASSUME NEW r \in Replica, NEW t \in Task, Lose(r, t) PROVE [Life!Next]_(Life!vars)
  BY <1>6, LifeStutter DEF Lose, table
<1>7. ASSUME NEW r \in Replica, NEW t \in Task, DecideAbort(r, t) PROVE [Life!Next]_(Life!vars)
  BY <1>7, LifeStutter DEF DecideAbort, table
<1>8. ASSUME NEW r \in Replica, NEW t \in Task, RetryAbort(r, t) PROVE [Life!Next]_(Life!vars)
  BY <1>8, LifeStutter DEF RetryAbort, table
<1>9. ASSUME NEW r \in Replica, NEW t \in Task, BeginAbort(r, t) PROVE [Life!Next]_(Life!vars)
  BY <1>9, LifeStutter DEF BeginAbort, table
<1>10. ASSUME NEW r \in Replica, NEW t \in Task, SendAbort(r, t) PROVE [Life!Next]_(Life!vars)
  BY <1>10, LifeStutter DEF SendAbort, table
<1>11. ASSUME NEW r \in Replica, NEW t \in Task, AbortAnswered(r, t) PROVE [Life!Next]_(Life!vars)
  BY <1>11, LifeStutter DEF AbortAnswered, table
<1>12. ASSUME NEW r \in Replica, NEW t \in Task, AbortUnanswered(r, t) PROVE [Life!Next]_(Life!vars)
  BY <1>12, LifeStutter DEF AbortUnanswered, table
<1>13. ASSUME NEW r \in Replica, NEW t \in Task, EndAbort(r, t) PROVE [Life!Next]_(Life!vars)
  BY <1>13, LifeStutter DEF EndAbort, table
<1>14. ASSUME NEW r \in Replica, NEW t \in Task, SeeIdle(r, t) PROVE [Life!Next]_(Life!vars)
  BY <1>14, LifeStutter DEF SeeIdle, table
<1>15. ASSUME NEW r \in Replica, NEW t \in Task, SeeGone(r, t) PROVE [Life!Next]_(Life!vars)
  BY <1>15, LifeStutter DEF SeeGone, table
<1>16. ASSUME NEW r \in Replica, NEW t \in Task, AskAgain(r, t) PROVE [Life!Next]_(Life!vars)
  BY <1>16, LifeStutter DEF AskAgain, table
<1>17. ASSUME NEW r \in Replica, NEW t \in Task, Messages(r, t) PROVE [Life!Next]_(Life!vars)
  BY <1>17, LifeStutter DEF Messages, table
<1>18. ASSUME NEW r \in Replica, NEW t \in Task, Finish(r, t) PROVE [Life!Next]_(Life!vars)
  <2>1. CASE Owns(r, t)
    <3> DEFINE final == loc[<<r, t>>].outcome
    <3>1. /\ final \in Ended
          /\ final = "ABORTED" => t \in wish
          /\ final = "TIMEOUT" => t \in late
      BY LocOf, LocalsType DEF ReasonInv
    <3>2. /\ state[t] = "RUNNING"
          /\ state' = [state EXCEPT ![t] = final]
          /\ UNCHANGED <<wish, late>>
      BY <1>18, <2>1 DEF Finish, End, Owns
    <3> HIDE DEF final
    <3>3. QED
      BY <3>1, <3>2, LifeEnd
  <2>2. CASE ~Owns(r, t)
    <3>1. UNCHANGED <<state, wish, late>>
      BY <1>18, <2>2 DEF Finish
    <3>2. QED
      BY <3>1, LifeStutter
  <2>3. QED
    BY <2>1, <2>2
<1>19. ASSUME NEW r \in Replica, NEW t \in Task, TakeOver(r, t) PROVE [Life!Next]_(Life!vars)
  BY <1>19, LifeStutter DEF TakeOver, table
<1>20. ASSUME NEW r \in Replica, NEW t \in Task, Resume(r, t) PROVE [Life!Next]_(Life!vars)
  BY <1>20, LifeStutter DEF Resume, table
<1>21. ASSUME NEW r \in Replica, NEW t \in Task, GiveUp(r, t) PROVE [Life!Next]_(Life!vars)
  <2>1. CASE Owns(r, t)
    <3>1. /\ state[t] = "RUNNING"
          /\ state' = [state EXCEPT ![t] = "FAILED"]
          /\ UNCHANGED <<wish, late>>
      BY <1>21, <2>1 DEF GiveUp, End, Owns
    <3>2. QED
      BY <3>1, LifeEnd DEF Ended
  <2>2. CASE ~Owns(r, t)
    <3>1. UNCHANGED <<state, wish, late>>
      BY <1>21, <2>2 DEF GiveUp
    <3>2. QED
      BY <3>1, LifeStutter
  <2>3. QED
    BY <2>1, <2>2
<1>22. ASSUME NEW r \in Replica, NEW t \in Task, Heartbeat(r, t) PROVE [Life!Next]_(Life!vars)
  BY <1>22, LifeStutter DEF Heartbeat, table
<1>23. ASSUME NEW r \in Replica, NEW t \in Task, AbortArrives(r, t) PROVE [Life!Next]_(Life!vars)
  BY <1>23, LifeStutter DEF AbortArrives, table
<1>24. ASSUME NEW r \in Replica, NEW t \in Task, FinishFails(r, t) PROVE [Life!Next]_(Life!vars)
  BY <1>24, LifeStutter DEF FinishFails, table
<1>25. ASSUME NEW r \in Replica, NEW t \in Task, BeginAbortFails(r, t) PROVE [Life!Next]_(Life!vars)
  BY <1>25, LifeStutter DEF BeginAbortFails, table
<1>26. ASSUME NEW r \in Replica, NEW t \in Task, List(r, t) PROVE [Life!Next]_(Life!vars)
  BY <1>26, LifeStutter DEF List, table
<1>27. ASSUME NEW r \in Replica, NEW t \in Task, Release(r, t) PROVE [Life!Next]_(Life!vars)
  BY <1>27, LifeStutter DEF Release, table
<1>28. ASSUME NEW r \in Replica, NEW t \in Task,
             NEW s \in Session \cup {NoSession}, Create(r, t, s) PROVE [Life!Next]_(Life!vars)
  BY <1>28 DEF Create, Life!Next, Life!Start
<1>29. ASSUME NEW t \in Task, AbortTask(t) PROVE [Life!Next]_(Life!vars)
  BY <1>29 DEF AbortTask, Life!Next, Life!Ask
<1>30. ASSUME NEW t \in Task, DeadlinePasses(t) PROVE [Life!Next]_(Life!vars)
  BY <1>30 DEF DeadlinePasses, Life!Next, Life!Expire
<1>31. ASSUME NEW t \in Task, GrowOld(t) PROVE [Life!Next]_(Life!vars)
  BY <1>31, LifeStutter DEF GrowOld, table
<1>32. ASSUME NEW t \in Task, Lapse(t) PROVE [Life!Next]_(Life!vars)
  BY <1>32, LifeStutter DEF Lapse, table
<1>33. ASSUME NEW t \in Task, FailTask(t) PROVE [Life!Next]_(Life!vars)
  BY <1>33, LifeEnd DEF FailTask, End, Ended
<1>34. ASSUME NEW r \in Replica, Crash(r) PROVE [Life!Next]_(Life!vars)
  BY <1>34, LifeStutter DEF Crash, table
<1>35. ASSUME NEW s \in Session, RoundEnds(s) PROVE [Life!Next]_(Life!vars)
  BY <1>35, LifeStutter DEF RoundEnds, table
<1>36. ASSUME SandboxDies PROVE [Life!Next]_(Life!vars)
  BY <1>36, LifeStutter DEF SandboxDies, table
<1>37. ASSUME Doom PROVE [Life!Next]_(Life!vars)
  BY <1>37, LifeStutter DEF Doom, table
<1>38. ASSUME Destroy PROVE [Life!Next]_(Life!vars)
  BY <1>38, LifeStutter DEF Destroy, table
<1>39. ASSUME NEW r \in Replica, NEW t \in Task, Step(r, t) PROVE [Life!Next]_(Life!vars)
  BY <1>39, <1>1, <1>2, <1>3, <1>4, <1>5, <1>6, <1>7, <1>8, <1>9, <1>10, <1>11, <1>12, <1>13, <1>14,
    <1>15, <1>16, <1>17, <1>18, <1>19, <1>20, <1>21 DEF Step
<1>40. ASSUME Next PROVE [Life!Next]_(Life!vars)
  BY <1>39, <1>40, <1>22, <1>23, <1>24, <1>25, <1>26, <1>27, <1>28, <1>29, <1>30, <1>31, <1>32,
    <1>33, <1>34, <1>35, <1>36, <1>37, <1>38 DEF Next
<1>41. ASSUME UNCHANGED vars PROVE [Life!Next]_(Life!vars)
  BY <1>41 DEF vars, Life!vars
<1> QED
  BY <1>40, <1>41

-----------------------------------------------------------------------------
(* What the steps add up to.                                                *)

LEMMA InitIInv == Init => IInv
<1> SUFFICES ASSUME Init PROVE IInv
  OBVIOUS
<1>1. \A c \in Runner : /\ loc[c] = Fresh(NoSession)
                        /\ pc[c] = "none"
  BY DEF Init
<1>2. Fresh(NoSession) \in Locals
  BY DEF Fresh, Locals, Ended
<1>3. TypeOK
  <2>1. loc \in [Runner -> Locals]
    BY <1>2 DEF Init
  <2>2. pc \in [Runner -> Await]
    BY DEF Init, Await
  <2>3. faults \in 0..MaxFaults
    BY AgentTasksConstants DEF Init
  <2>4. talk \in [Session -> Seq(Task)] /\ rounds \in [Session -> SUBSET Task]
    BY DEF Init
  <2>5. QED
    BY <2>1, <2>2, <2>3, <2>4 DEF Init, TypeOK
<1>4. NewInv /\ SessInv /\ RoundInv /\ FenceInv
  BY DEF Init, NewInv, SessInv, SessOf, Working, Owns, RoundInv, FenceInv, Cmd, Runner
<1>5. OneTaskPerSession
  BY DEF Init, OneTaskPerSession, Running
<1>6. ReasonInv
  BY <1>1 DEF ReasonInv, Fresh, Runner
<1>7. QED
  BY <1>3, <1>4, <1>5, <1>6 DEF IInv

LEMMA IInvStep ==
  ASSUME DbPrompt
  PROVE  IInv /\ [Next]_vars => IInv'
<1> SUFFICES ASSUME IInv, [Next]_vars PROVE IInv'
  OBVIOUS
<1>1. Rows
  BY RowsOf DEF IInv
<1>2. TypeOK'
  BY TypeOKStep DEF IInv
<1>3. NewInv'
  BY <1>1, NewInvStep DEF IInv
<1>4. SessInv'
  BY <1>1, SessInvStep DEF IInv
<1>5. OneTaskPerSession'
  BY <1>1, OneTaskStep DEF IInv
<1>6. RoundInv'
  BY <1>1, RoundInvStep DEF IInv
<1>7. FenceInv'
  BY <1>1, FenceInvStep DEF IInv
<1>8. ReasonInv'
  BY <1>1, ReasonInvStep DEF IInv
<1>9. QED
  BY <1>2, <1>3, <1>4, <1>5, <1>6, <1>7, <1>8 DEF IInv

\* What holds whether or not the database is prompt.
Core == TypeOK /\ NewInv /\ SessInv /\ OneTaskPerSession /\ RoundInv /\ ReasonInv

LEMMA CoreStep == Core /\ [Next]_vars => Core'
<1> SUFFICES ASSUME Core, [Next]_vars PROVE Core'
  OBVIOUS
<1>1. Rows
  BY RowsOf DEF Core
<1>2. TypeOK'
  BY TypeOKStep DEF Core
<1>3. NewInv'
  BY <1>1, NewInvStep DEF Core
<1>4. SessInv'
  BY <1>1, SessInvStep DEF Core
<1>5. OneTaskPerSession'
  BY <1>1, OneTaskStep DEF Core
<1>6. RoundInv'
  BY <1>1, RoundInvStep DEF Core
<1>7. ReasonInv'
  BY <1>1, ReasonInvStep DEF Core
<1>8. QED
  BY <1>2, <1>3, <1>4, <1>5, <1>6, <1>7 DEF Core

(* The inductive invariant, except for the fences, which need a prompt      *)
(* database.                                                                *)
THEOREM CoreInvariance == Spec => []Core
<1>1. Init => Core
  BY InitIInv DEF IInv, Core
<1>2. QED
  BY <1>1, CoreStep, PTL DEF Spec

(* Every variable keeps its type (rows of `tasks`, runners, engine).        *)
THEOREM TypeCorrect == Spec => []TypeOK
<1>1. Core => TypeOK
  BY DEF Core
<1>2. QED
  BY <1>1, CoreInvariance, PTL

(* A session never has two running tasks: create_task admits none beside a  *)
(* running one, _execute records only a session it has just created, and    *)
(* neither take-over nor resumption starts a task.                          *)
THEOREM OneTask == Spec => []OneTaskPerSession
<1>1. Core => OneTaskPerSession
  BY DEF Core
<1>2. QED
  BY <1>1, CoreInvariance, PTL

(* Only the arrival of a command takes it off the wire.                     *)
LEMMA WireStep ==
  ASSUME [Next]_vars, NEW c \in wire, c \notin wire', wire \subseteq Runner
  PROVE  /\ rounds' = [rounds EXCEPT ![sess[c[2]]] = {}] \/ UNCHANGED rounds
         /\ UNCHANGED <<state, sess>>
         /\ \E r \in Replica, t \in Task : c = <<r, t>>
<1>1. ASSUME NEW r \in Replica, NEW t \in Task, Step(r, t) PROVE c \in wire'
  BY <1>1 DEF Step, Connect, CreateSession, SaveSession, Prompt, RequestFails, Lose,
       DecideAbort, RetryAbort, BeginAbort, SendAbort, AbortAnswered, AbortUnanswered,
       EndAbort, SeeIdle, SeeGone, AskAgain, Messages, Finish, TakeOver, Resume, GiveUp
<1>2. ASSUME NEW r \in Replica, NEW t \in Task,
             \/ \E s \in Session \cup {NoSession} : Create(r, t, s)
             \/ Heartbeat(r, t) \/ FinishFails(r, t) \/ BeginAbortFails(r, t)
             \/ List(r, t) \/ Release(r, t)
      PROVE  c \in wire'
  BY <1>2 DEF Create, Heartbeat, FinishFails, BeginAbortFails, List, Release
<1>3. ASSUME NEW t \in Task,
             \/ AbortTask(t) \/ DeadlinePasses(t) \/ GrowOld(t) \/ Lapse(t) \/ FailTask(t)
      PROVE  c \in wire'
  BY <1>3 DEF AbortTask, DeadlinePasses, GrowOld, Lapse, FailTask
<1>4. ASSUME \/ \E r \in Replica : Crash(r)
             \/ \E s \in Session : RoundEnds(s)
             \/ SandboxDies \/ Doom \/ Destroy
      PROVE  c \in wire'
  BY <1>4 DEF Crash, RoundEnds, SandboxDies, Doom, Destroy
<1>5. ~ UNCHANGED vars
  BY DEF vars
<1>6. Next
  BY <1>5
<1>7. \E r \in Replica, t \in Task : AbortArrives(r, t)
  BY <1>1, <1>2, <1>3, <1>4, <1>6 DEF Next
<1>8. PICK r \in Replica, t \in Task : AbortArrives(r, t)
  BY <1>7
<1>9. c = <<r, t>>
  BY <1>8 DEF AbortArrives
<1>10. QED
  BY <1>8, <1>9 DEF AbortArrives, table

(* An abort command ends no round of another running task: while it is      *)
(* under way its task has a fence (begin_abort, end_abort), and while it    *)
(* has one no other task runs in its session (create_task).  This needs     *)
(* the fence to outlast the command, so a database that answers             *)
(* begin_abort before the fence it sets is half over.                       *)
THEOREM AbortHits ==
  ASSUME DbPrompt
  PROVE  Spec => AbortHitsItsTask
<1>1. ASSUME IInv, [Next]_vars, NEW c \in wire \ wire', NEW u \in Running \ {c[2]},
             u \in rounds[sess[c[2]]]
      PROVE  u \in rounds'[sess[c[2]]]
  <2>1. wire \subseteq Runner
    BY <1>1 DEF IInv, TypeOK
  <2>2. PICK r \in Replica, t \in Task : c = <<r, t>>
    BY <1>1, <2>1, WireStep
  <2>3. Cmd(r, t) /\ c[2] = t
    BY <1>1, <2>2 DEF Cmd
  <2>4. fence[t] # NoReplica
    BY <1>1, <2>3 DEF IInv, FenceInv
  <2>5. sess[u] # sess[t] /\ sess[t] # NoSession
    BY <1>1, <2>3, <2>4 DEF IInv, FenceInv, Running
  <2>6. sess[t] \in Session
    BY <1>1, <2>5 DEF IInv, TypeOK
  <2>7. sess[u] = sess[t]
    BY <1>1, <2>3, <2>6 DEF IInv, RoundInv
  <2>8. QED
    BY <2>5, <2>7
<1>2. IInv /\ [Next]_vars =>
        [\A c \in wire \ wire' : \A u \in Running \ {c[2]} :
           u \in rounds[sess[c[2]]] => u \in rounds'[sess[c[2]]]]_vars
  BY <1>1
<1>3. QED
  BY <1>2, InitIInv, IInvStep, PTL DEF Spec, AbortHitsItsTask

(* A task ends once, as ABORTED only if abort_task marked it and as TIMEOUT *)
(* only if its deadline had passed, whichever runner ended it (_finish).    *)
THEOREM Implements == Spec => ImplementsTaskLife
<1>1. Init => Life!Init
  BY DEF Init, Life!Init
<1>2. Core /\ [Next]_vars => [Life!Next]_(Life!vars)
  BY LifeStep DEF Core
<1>3. QED
  BY <1>1, <1>2, CoreInvariance, PTL DEF Spec, ImplementsTaskLife, Life!Spec

-----------------------------------------------------------------------------
(* How a task is told, answered and ended, if runners are punctual.         *)

Early == {"connect", "session", "save", "prompt"}

\* Nobody takes a task over before it is prompted: its creator is alone with it,
\* and nobody ends it but who destroys its sandbox.
EarlyInv ==
  /\ \A t \in Task : state[t] = "NEW" => t \notin old
  /\ \A r \in Replica, t \in Task : pc[<<r, t>>] \in Early =>
       /\ \/ state[t] = "RUNNING" /\ owner[t] = r /\ t \notin old
          \/ state[t] = "FAILED" /\ doomed
       /\ \A q \in Replica : q # r => pc[<<q, t>>] = "none"

\* Who has seen the session idle knows that the round of its task is over.
Idle(r, t) ==
  \/ pc[<<r, t>>] \in {"ended", "messages"}
  \/ pc[<<r, t>>] = "finish" /\ loc[<<r, t>>].outcome # "FAILED"

IdleInv == \A r \in Replica, t \in Task : Idle(r, t) => \A s \in Session : t \notin rounds[s]

Told(s, t) == \E i \in DOMAIN talk[s] : talk[s][i] = t

\* A task is told in its session, and nothing else is while it runs.
TalkInv ==
  \A t \in Task, s \in Session : Told(s, t) =>
    /\ sess[t] = s
    /\ state[t] = "RUNNING" => doomed \/ talk[s][Len(talk[s])] = t

\* What a runner is about to record as a result.
Answered(r, t) == pc[<<r, t>>] = "finish" /\ loc[<<r, t>>].outcome = "SUCCEEDED"

AnswerInv ==
  \A r \in Replica, t \in Task : Answered(r, t) =>
    /\ sess[t] \in Session
    /\ state[t] = "RUNNING" /\ Told(sess[t], t) => doomed \/ loc[<<r, t>>].answer = t

DoneInv == \A t \in Task : state[t] = "SUCCEEDED" => sess[t] \in Session

EndInv ==
  EarlyInv /\ IdleInv /\ EndedIsStopped /\ TalkInv /\ AnswerInv /\ DoneInv /\ OwnAnswer

(* What happens to the row of a task.                                       *)
LEMMA RowMoves ==
  ASSUME TypeOK, NewInv, SessInv, [Next]_vars, NEW t \in Task
  PROVE  /\ sess'[t] = sess[t] \/ sess[t] = NoSession
         /\ doomed => doomed'
         /\ \/ state'[t] = state[t] /\ result'[t] = result[t]
            \/ state[t] = "NEW" /\ state'[t] = "RUNNING"
            \/ \E r \in Replica : Finish(r, t) /\ Owns(r, t)
            \/ state[t] = "RUNNING" /\ state'[t] = "FAILED"
<1> DEFINE Moves == /\ sess'[t] = sess[t] \/ sess[t] = NoSession
                    /\ doomed => doomed'
                    /\ \/ state'[t] = state[t] /\ result'[t] = result[t]
                       \/ state[t] = "NEW" /\ state'[t] = "RUNNING"
                       \/ \E r \in Replica : Finish(r, t) /\ Owns(r, t)
                       \/ state[t] = "RUNNING" /\ state'[t] = "FAILED"
<1>0. Rows /\ result \in [Task -> Task \cup {NoTask}]
  BY RowsOf DEF TypeOK
<1>1. ASSUME NEW r \in Replica, NEW u \in Task, NEW s, Create(r, u, s) PROVE Moves
  <2>1. sess[u] = NoSession
    BY <1>1 DEF Create, NewInv
  <2>2. QED
    BY <1>0, <1>1, <2>1 DEF Create, Rows, box
<1>2. ASSUME NEW r \in Replica, NEW u \in Task, SaveSession(r, u) PROVE Moves
  <2>1. Owns(r, u) => sess[u] = NoSession
    BY <1>2 DEF SaveSession, SessInv, SessOf
  <2>2. QED
    BY <1>0, <1>2, <2>1 DEF SaveSession, Rows, box
<1>3. ASSUME NEW r \in Replica, NEW u \in Task, Finish(r, u) PROVE Moves
  BY <1>0, <1>3 DEF Finish, End, Rows, box
<1>4. ASSUME NEW r \in Replica, NEW u \in Task, GiveUp(r, u) PROVE Moves
  BY <1>0, <1>4 DEF GiveUp, End, Owns, Rows, box
<1>5. ASSUME NEW u \in Task, FailTask(u) PROVE Moves
  BY <1>0, <1>5 DEF FailTask, End, Rows, box
<1>6. ASSUME NEW r \in Replica, NEW u \in Task, Step(r, u),
             ~SaveSession(r, u), ~Finish(r, u), ~GiveUp(r, u)
      PROVE  UNCHANGED <<state, sess, result, doomed>>
  BY <1>6 DEF Step, Connect, CreateSession, Prompt, RequestFails, Lose,
       DecideAbort, RetryAbort, BeginAbort, SendAbort, AbortAnswered, AbortUnanswered,
       EndAbort, SeeIdle, SeeGone, AskAgain, Messages, TakeOver, Resume, table, box
<1>7. ASSUME NEW r \in Replica, NEW u \in Task,
             \/ Heartbeat(r, u) \/ AbortArrives(r, u) \/ FinishFails(r, u)
             \/ BeginAbortFails(r, u) \/ List(r, u) \/ Release(r, u)
      PROVE  UNCHANGED <<state, sess, result, doomed>>
  BY <1>7 DEF Heartbeat, AbortArrives, FinishFails, BeginAbortFails, List, Release, table, box
<1>8. ASSUME NEW u \in Task,
             AbortTask(u) \/ DeadlinePasses(u) \/ GrowOld(u) \/ Lapse(u)
      PROVE  UNCHANGED <<state, sess, result, doomed>>
  BY <1>8 DEF AbortTask, DeadlinePasses, GrowOld, Lapse, box
<1>9. ASSUME NEW r \in Replica, Crash(r) PROVE UNCHANGED <<state, sess, result, doomed>>
  BY <1>9 DEF Crash, table, box
<1>10. ASSUME \/ \E s \in Session : RoundEnds(s)
              \/ SandboxDies \/ Doom \/ Destroy
       PROVE  UNCHANGED <<state, sess, result>> /\ (doomed => doomed')
  BY <1>10 DEF RoundEnds, SandboxDies, Doom, Destroy, table, box
<1>11. CASE UNCHANGED vars
  BY <1>11 DEF vars
<1> QED
  BY <1>1, <1>2, <1>3, <1>4, <1>5, <1>6, <1>7, <1>8, <1>9, <1>10, <1>11 DEF Next

(* What happens in the engine: only a prompt that a runner has sent begins  *)
(* a round.                                                                 *)
LEMMA EngineMoves ==
  ASSUME TypeOK, [Next]_vars
  PROVE  \/ UNCHANGED talk /\ \A s \in Session : rounds'[s] \subseteq rounds[s]
         \/ /\ \E r \in Replica, t \in Task :
                 pc[<<r, t>>] = "prompt" /\ Deliver(t, loc[<<r, t>>].session)
            /\ UNCHANGED <<table, doomed>>
<1> DEFINE Moves ==
      \/ UNCHANGED talk /\ \A s \in Session : rounds'[s] \subseteq rounds[s]
      \/ /\ \E r \in Replica, t \in Task :
              pc[<<r, t>>] = "prompt" /\ Deliver(t, loc[<<r, t>>].session)
         /\ UNCHANGED <<table, doomed>>
<1>0. rounds \in [Session -> SUBSET Task]
  BY DEF TypeOK
<1>1. ASSUME NEW r \in Replica, NEW t \in Task, Prompt(r, t) PROVE Moves
  BY <1>1 DEF Prompt, box
<1>2. ASSUME NEW r \in Replica, NEW t \in Task, RequestFails(r, t) PROVE Moves
  BY <1>2 DEF RequestFails, box, engine
<1>3. ASSUME NEW r \in Replica, Crash(r) PROVE Moves
  BY <1>3 DEF Crash, box, engine
<1>4. ASSUME NEW r \in Replica, NEW t \in Task, AbortArrives(r, t) PROVE Moves
  BY <1>0, <1>4 DEF AbortArrives
<1>5. ASSUME NEW s \in Session, RoundEnds(s) PROVE Moves
  BY <1>0, <1>5 DEF RoundEnds
<1>6. CASE SandboxDies \/ Destroy
  BY <1>0, <1>6 DEF SandboxDies, Destroy
<1>7. ASSUME NEW r \in Replica, NEW t \in Task, Step(r, t), ~Prompt(r, t), ~RequestFails(r, t)
      PROVE  UNCHANGED engine
  BY <1>7 DEF Step, Connect, CreateSession, SaveSession, Lose,
       DecideAbort, RetryAbort, BeginAbort, SendAbort, AbortAnswered, AbortUnanswered,
       EndAbort, SeeIdle, SeeGone, AskAgain, Messages, Finish, TakeOver, Resume, GiveUp
<1>8. ASSUME NEW r \in Replica, NEW t \in Task,
             \/ \E s \in Session \cup {NoSession} : Create(r, t, s)
             \/ Heartbeat(r, t) \/ FinishFails(r, t)
             \/ BeginAbortFails(r, t) \/ List(r, t) \/ Release(r, t)
      PROVE  UNCHANGED engine
  BY <1>8 DEF Create, Heartbeat, FinishFails, BeginAbortFails, List, Release
<1>9. ASSUME \/ \E t \in Task :
                  \/ AbortTask(t) \/ DeadlinePasses(t) \/ GrowOld(t) \/ Lapse(t)
                  \/ FailTask(t)
             \/ Doom
      PROVE  UNCHANGED engine
  BY <1>9 DEF AbortTask, DeadlinePasses, GrowOld, Lapse, FailTask, Doom
<1>10. UNCHANGED engine => Moves
  BY DEF engine
<1>11. CASE UNCHANGED vars
  BY <1>10, <1>11 DEF vars, engine
<1> QED
  BY <1>1, <1>2, <1>3, <1>4, <1>5, <1>6, <1>7, <1>8, <1>9, <1>10, <1>11 DEF Next

(* How a runner comes to know that a round is over, and what it answers.    *)
LEMMA EndMoves ==
  ASSUME TypeOK, [Next]_vars, NEW r \in Replica, NEW t \in Task,
         pc'[<<r, t>>] \in {"ended", "messages", "finish"}
  PROVE  \/ /\ pc'[<<r, t>>] = pc[<<r, t>>]
            /\ loc'[<<r, t>>].outcome = loc[<<r, t>>].outcome
            /\ loc'[<<r, t>>].answer = loc[<<r, t>>].answer
         \/ SeeIdle(r, t)
         \/ pc[<<r, t>>] = "ended" /\ pc'[<<r, t>>] = "messages"
         \/ Messages(r, t)
         \/ pc'[<<r, t>>] = "finish" /\ loc'[<<r, t>>].outcome = "FAILED"
<1> DEFINE Same == /\ pc'[<<r, t>>] = pc[<<r, t>>]
                   /\ loc'[<<r, t>>].outcome = loc[<<r, t>>].outcome
                   /\ loc'[<<r, t>>].answer = loc[<<r, t>>].answer
           Moves == \/ Same
                    \/ SeeIdle(r, t)
                    \/ pc[<<r, t>>] = "ended" /\ pc'[<<r, t>>] = "messages"
                    \/ Messages(r, t)
                    \/ pc'[<<r, t>>] = "finish" /\ loc'[<<r, t>>].outcome = "FAILED"
<1>0. Rows
  BY RowsOf
<1>a. ASSUME NEW q \in Replica, NEW u \in Task, NEW to, Goto(q, u, to),
             to \notin {"ended", "messages", "finish"},
             UNCHANGED loc \/ \E l : Let(q, u, l)
      PROVE  Same
  BY <1>0, <1>a, GotoAt, LetAt
<1>b. ASSUME NEW q \in Replica, NEW u \in Task, NEW to, Goto(q, u, to),
             q # r \/ u # t, UNCHANGED loc \/ \E l : Let(q, u, l)
      PROVE  Same
  BY <1>0, <1>b, GotoAt, LetAt
<1>1. ASSUME NEW q \in Replica, NEW u \in Task,
             \/ Connect(q, u) \/ CreateSession(q, u) \/ SaveSession(q, u) \/ Prompt(q, u)
             \/ Lose(q, u) \/ DecideAbort(q, u) \/ RetryAbort(q, u)
      PROVE  Same
  BY <1>1, <1>a DEF Connect, CreateSession, SaveSession, Prompt, Lose, DecideAbort,
       RetryAbort, Leave
<1>2. ASSUME NEW q \in Replica, NEW u \in Task,
             \/ BeginAbort(q, u) \/ SendAbort(q, u) \/ AbortAnswered(q, u)
             \/ AbortUnanswered(q, u) \/ EndAbort(q, u) \/ BeginAbortFails(q, u)
      PROVE  Same
  BY <1>2, <1>a DEF BeginAbort, SendAbort, AbortAnswered, AbortUnanswered, EndAbort,
       BeginAbortFails, Leave
<1>3. ASSUME NEW q \in Replica, NEW u \in Task,
             \/ Finish(q, u) \/ TakeOver(q, u) \/ Resume(q, u) \/ GiveUp(q, u)
             \/ FinishFails(q, u) \/ List(q, u) \/ Release(q, u)
             \/ \E s \in Session \cup {NoSession} : Create(q, u, s)
      PROVE  Same
  BY <1>3, <1>a DEF Finish, TakeOver, Resume, GiveUp, FinishFails, List, Release, Create,
       Leave
<1>4. ASSUME NEW q \in Replica, NEW u \in Task, SeeIdle(q, u) PROVE Moves
  BY <1>4, <1>b DEF SeeIdle
<1>5. ASSUME NEW q \in Replica, NEW u \in Task, Messages(q, u) PROVE Moves
  <2>1. CASE q = r /\ u = t
    BY <1>5, <2>1
  <2>2. CASE q # r \/ u # t
    <3>1. \E l : Let(q, u, l)
      BY <1>5 DEF Messages
    <3>2. Goto(q, u, "finish")
      BY <1>5 DEF Messages
    <3>3. QED
      BY <1>b, <2>2, <3>1, <3>2
  <2>3. QED
    BY <2>1, <2>2
<1>6. ASSUME NEW q \in Replica, NEW u \in Task, RequestFails(q, u) \/ SeeGone(q, u)
      PROVE  Moves
  <2> DEFINE l == [loc[<<q, u>>] EXCEPT !.outcome = "FAILED", !.answer = NoTask]
  <2>1. Let(q, u, l) /\ Goto(q, u, "finish")
    BY <1>6 DEF RequestFails, SeeGone
  <2>2. l.outcome = "FAILED"
    BY LocOf DEF Locals
  <2> HIDE DEF l
  <2>3. CASE q = r /\ u = t
    BY <1>0, <2>1, <2>2, <2>3, GotoAt, LetAt
  <2>4. CASE q # r \/ u # t
    BY <1>b, <2>1, <2>4
  <2>5. QED
    BY <2>3, <2>4
<1>7. ASSUME NEW q \in Replica, NEW u \in Task, AskAgain(q, u) PROVE Moves
  <2>1. pc[<<q, u>>] = "ended" /\ Goto(q, u, "messages") /\ \E l : Let(q, u, l)
    BY <1>7 DEF AskAgain
  <2>2. CASE q = r /\ u = t
    BY <1>0, <2>1, <2>2, GotoAt
  <2>3. CASE q # r \/ u # t
    BY <1>b, <2>1, <2>3
  <2>4. QED
    BY <2>2, <2>3
<1>8. ASSUME NEW q \in Replica, NEW u \in Task, Heartbeat(q, u) \/ AbortArrives(q, u)
      PROVE  Same
  BY <1>8 DEF Heartbeat, AbortArrives
<1>9. ASSUME NEW u \in Task,
             \/ AbortTask(u) \/ DeadlinePasses(u) \/ GrowOld(u) \/ Lapse(u)
             \/ FailTask(u)
      PROVE  Same
  BY <1>9 DEF AbortTask, DeadlinePasses, GrowOld, Lapse, FailTask
<1>10. ASSUME \/ \E s \in Session : RoundEnds(s)
              \/ SandboxDies \/ Doom \/ Destroy
       PROVE  Same
  BY <1>10 DEF RoundEnds, SandboxDies, Doom, Destroy
<1>11. ASSUME NEW q \in Replica, Crash(q) PROVE Same
  BY <1>11, CrashPc DEF Crash
<1>12. ASSUME UNCHANGED vars PROVE Same
  BY <1>12 DEF vars
<1> HIDE DEF Same
<1>13. ASSUME NEW q \in Replica, NEW u \in Task, Step(q, u) PROVE Moves
  BY <1>13, <1>1, <1>2, <1>3, <1>4, <1>5, <1>6, <1>7 DEF Step
<1>14. ASSUME NEW q \in Replica, NEW u \in Task,
              \/ \E s \in Session \cup {NoSession} : Create(q, u, s)
              \/ Step(q, u) \/ Heartbeat(q, u) \/ AbortArrives(q, u) \/ FinishFails(q, u)
              \/ BeginAbortFails(q, u)
              \/ List(q, u) \/ Release(q, u)
       PROVE  Moves
  BY <1>14, <1>13, <1>2, <1>3, <1>8
<1>15. Same => Moves
  OBVIOUS
<1> HIDE DEF Moves
<1>16. Moves
  BY <1>14, <1>9, <1>11, <1>12, <1>15, <1>10 DEF Next
<1> QED
  BY <1>16 DEF Moves, Same

(* A runner that goes on with its task leaves who prompts undisturbed.      *)
LEMMA EarlyGoto ==
  ASSUME Rows, EarlyInv, NEW r \in Replica, NEW t \in Task, NEW to, Goto(r, t, to),
         pc[<<r, t>>] # "none", to \in Early => pc[<<r, t>>] \in Early,
         UNCHANGED <<state, owner, doomed>>, \A u \in Task : u \in old' => u \in old
  PROVE  EarlyInv'
BY GotoAt DEF EarlyInv, Early

(* What is not done to a runner or its task leaves it undisturbed, too.     *)
LEMMA EarlyFrame ==
  ASSUME EarlyInv, UNCHANGED <<state, owner, pc>>, doomed => doomed',
         \A u \in Task : u \in old' => u \in old
  PROVE  EarlyInv'
BY DEF EarlyInv

(* Until a task is prompted, its creator is alone with it.                 *)
LEMMA EarlyInvStep ==
  ASSUME Punctual, TypeOK, Rows, NewInv, EarlyInv, [Next]_vars
  PROVE  EarlyInv'
<1>1. ASSUME NEW r \in Replica, NEW t \in Task,
             \/ Connect(r, t) \/ CreateSession(r, t) \/ SaveSession(r, t) \/ Prompt(r, t)
             \/ RequestFails(r, t) \/ Lose(r, t) \/ DecideAbort(r, t) \/ RetryAbort(r, t)
      PROVE  EarlyInv'
  BY <1>1, EarlyGoto DEF Connect, CreateSession, SaveSession, Prompt, RequestFails,
       Lose, DecideAbort, RetryAbort, Leave, Early, table, box
<1>2. ASSUME NEW r \in Replica, NEW t \in Task,
             \/ BeginAbort(r, t) \/ SendAbort(r, t) \/ AbortAnswered(r, t)
             \/ AbortUnanswered(r, t) \/ EndAbort(r, t) \/ BeginAbortFails(r, t)
      PROVE  EarlyInv'
  BY <1>2, EarlyGoto DEF BeginAbort, SendAbort, AbortAnswered, AbortUnanswered,
       EndAbort, BeginAbortFails, Leave, Early, table, box
<1>3. ASSUME NEW r \in Replica, NEW t \in Task,
             \/ SeeIdle(r, t) \/ SeeGone(r, t) \/ AskAgain(r, t) \/ Messages(r, t)
             \/ Resume(r, t) \/ FinishFails(r, t)
      PROVE  EarlyInv'
  BY <1>3, EarlyGoto DEF SeeIdle, SeeGone, AskAgain, Messages, Resume, FinishFails,
       Leave, Early, table, box
<1>4. ASSUME NEW r \in Replica, NEW t \in Task,
             Finish(r, t) \/ GiveUp(r, t) \/ Release(r, t) \/ TakeOver(r, t)
      PROVE  EarlyInv'
  <2>1. pc[<<r, t>>] \notin Early \cup {"none"}
    BY <1>4 DEF Finish, GiveUp, Release, TakeOver, Early
  <2>2. \A q \in Replica : pc[<<q, t>>] \notin Early
    BY <2>1 DEF EarlyInv
  <2>3. \A q \in Replica, u \in Task :
          \/ pc'[<<q, u>>] = pc[<<q, u>>]
          \/ u = t /\ pc'[<<q, u>>] \notin Early
    <3>1. \E to \in {"none", "taken"} : Goto(r, t, to)
      BY <1>4 DEF Finish, GiveUp, Release, TakeOver, Leave
    <3>2. QED
      BY <3>1 DEF Rows, Goto, Runner, Early
  <2>4. /\ UNCHANGED doomed
        /\ \A u \in Task \ {t} : /\ state'[u] = state[u] /\ owner'[u] = owner[u]
                                 /\ u \in old' => u \in old
    BY <1>4 DEF Finish, GiveUp, Release, TakeOver, End, Leave, Rows, box
  <2>5. state'[t] # "NEW"
    <3>1. state[t] # "NEW" /\ loc[<<r, t>>].outcome # "NEW"
      BY <2>1, LocOf, LocalsType DEF NewInv, Ended
    <3>2. QED
      BY <1>4, <3>1 DEF Finish, GiveUp, Release, TakeOver, End, Rows
  <2>6. QED
    BY <2>2, <2>3, <2>4, <2>5 DEF EarlyInv
<1>5. ASSUME NEW r \in Replica, NEW t \in Task, List(r, t) PROVE EarlyInv'
  <2>1. \A q \in Replica : pc[<<q, t>>] \notin Early
    BY <1>5 DEF List, EarlyInv
  <2>2. \A q \in Replica, u \in Task :
          pc'[<<q, u>>] = IF q = r /\ u = t THEN "listed" ELSE pc[<<q, u>>]
    <3>1. Goto(r, t, "listed")
      BY <1>5 DEF List
    <3>2. QED
      BY <3>1 DEF Rows, Goto, Runner
  <2>3. UNCHANGED <<state, owner, old, doomed>>
    BY <1>5 DEF List, table, box
  <2>4. QED
    BY <2>1, <2>2, <2>3 DEF EarlyInv, Early
<1>6. ASSUME NEW r \in Replica, NEW t \in Task, NEW s, Create(r, t, s) PROVE EarlyInv'
  <2>1. \A q \in Replica : pc[<<q, t>>] = "none"
    BY <1>6 DEF Create, NewInv
  <2>2. \A q \in Replica, u \in Task :
          pc'[<<q, u>>] = IF q = r /\ u = t THEN "connect" ELSE pc[<<q, u>>]
    <3>1. Goto(r, t, "connect")
      BY <1>6 DEF Create
    <3>2. QED
      BY <3>1 DEF Rows, Goto, Runner
  <2>3. /\ state'[t] = "RUNNING" /\ owner'[t] = r
        /\ UNCHANGED <<old, doomed>>
        /\ \A u \in Task \ {t} : state'[u] = state[u] /\ owner'[u] = owner[u]
    BY <1>6 DEF Create, Rows, box
  <2>4. t \notin old
    BY <1>6 DEF Create, EarlyInv
  <2>5. QED
    BY <2>1, <2>2, <2>3, <2>4 DEF EarlyInv, Early
<1>7. ASSUME NEW t \in Task, FailTask(t) PROVE EarlyInv'
  <2>1. /\ UNCHANGED <<pc, doomed>> /\ doomed
        /\ state'[t] = "FAILED"
        /\ \A u \in Task \ {t} : /\ state'[u] = state[u] /\ owner'[u] = owner[u]
                                 /\ u \in old' => u \in old
    BY <1>7 DEF FailTask, End, Rows, box
  <2>2. QED
    BY <2>1 DEF EarlyInv
<1>8. ASSUME NEW t \in Task, GrowOld(t) PROVE EarlyInv'
  <2>1. \A r \in Replica : pc[<<r, t>>] \notin Early
    BY <1>8 DEF GrowOld, EarlyInv, Early
  <2>2. /\ state[t] = "RUNNING"
        /\ UNCHANGED <<state, owner, pc, doomed>>
        /\ old' = old \cup {t}
    BY <1>8 DEF GrowOld, box
  <2>3. QED
    BY <2>1, <2>2 DEF EarlyInv
<1>9. ASSUME NEW r \in Replica, NEW t \in Task, Heartbeat(r, t) \/ AbortArrives(r, t)
      PROVE  EarlyInv'
  BY <1>9, EarlyFrame DEF Heartbeat, AbortArrives, table, box
<1>10. ASSUME NEW t \in Task, AbortTask(t) \/ DeadlinePasses(t) \/ Lapse(t)
       PROVE  EarlyInv'
  BY <1>10, EarlyFrame DEF AbortTask, DeadlinePasses, Lapse, box
<1>11. ASSUME \/ \E s \in Session : RoundEnds(s)
              \/ SandboxDies \/ Doom \/ Destroy
       PROVE  EarlyInv'
  BY <1>11, EarlyFrame DEF RoundEnds, SandboxDies, Doom, Destroy, table, box
<1>12. ASSUME NEW r \in Replica, Crash(r) PROVE EarlyInv'
  <2>1. UNCHANGED <<state, owner, old, doomed>>
    BY <1>12 DEF Crash, table, box
  <2>2. QED
    BY <1>12, <2>1, CrashPc DEF EarlyInv, Early
<1>13. CASE UNCHANGED vars
  BY <1>13, EarlyFrame DEF vars
<1>14. ASSUME NEW r \in Replica, NEW t \in Task, Step(r, t) PROVE EarlyInv'
  BY <1>14, <1>1, <1>2, <1>3, <1>4 DEF Step
<1> QED
  BY <1>14, <1>2, <1>3, <1>4, <1>5, <1>6, <1>7, <1>8, <1>9, <1>10, <1>11, <1>12, <1>13
  DEF Next

(* A task is told while its creator prompts it, and never again.            *)
LEMMA Prompted ==
  ASSUME Core, EarlyInv, NEW r \in Replica, NEW t \in Task, pc[<<r, t>>] = "prompt"
  PROVE  /\ loc[<<r, t>>].session = sess[t] /\ sess[t] \in Session
         /\ \/ state[t] = "RUNNING"
            \/ state[t] = "FAILED" /\ doomed
         /\ \A q \in Replica : pc[<<q, t>>] \in {"none", "prompt"}
<1>1. loc[<<r, t>>].session = sess[t] /\ loc[<<r, t>>].session # NoSession
  BY DEF Core, SessInv, SessOf, Working
<1>2. sess[t] \in Session \cup {NoSession}
  BY DEF Core, TypeOK
<1>3. /\ \/ state[t] = "RUNNING"
         \/ state[t] = "FAILED" /\ doomed
      /\ \A q \in Replica : q # r => pc[<<q, t>>] = "none"
  BY DEF EarlyInv, Early
<1> QED
  BY <1>1, <1>2, <1>3

(* A round of a task whose runner saw it over, or that has ended, does not  *)
(* begin again.                                                             *)
LEMMA NoNewRound ==
  ASSUME Core, EarlyInv, [Next]_vars, NEW t \in Task, NEW s \in Session,
         t \notin rounds[s],
         \/ state[t] \in {"SUCCEEDED", "ABORTED", "TIMEOUT"}
         \/ \E r \in Replica : pc[<<r, t>>] \in {"follow", "ended", "messages", "finish"}
  PROVE  t \notin rounds'[s]
<1>1. TypeOK
  BY DEF Core
<1>2. \A r \in Replica : pc[<<r, t>>] # "prompt"
  BY Prompted
<1>3. ASSUME NEW r \in Replica, NEW u \in Task, pc[<<r, u>>] = "prompt",
             Deliver(u, loc[<<r, u>>].session)
      PROVE  t \notin rounds'[s]
  <2>1. u # t
    BY <1>2, <1>3
  <2>2. QED
    BY <1>1, <1>3, <2>1 DEF Deliver, TypeOK
<1> QED
  BY <1>1, <1>3, EngineMoves

(* Only a session seen idle makes a runner believe that a round is over.    *)
LEMMA IdleInvStep ==
  ASSUME Core, EarlyInv, IdleInv, [Next]_vars
  PROVE  IdleInv'
<1> SUFFICES ASSUME NEW r \in Replica, NEW t \in Task, Idle(r, t)', NEW s \in Session
             PROVE  t \notin rounds'[s]
  BY DEF IdleInv
<1>1. pc'[<<r, t>>] \in {"ended", "messages", "finish"}
  BY DEF Idle
<1>2. TypeOK
  BY DEF Core
<1>3. CASE Idle(r, t)
  BY <1>3, NoNewRound DEF IdleInv, Idle
<1>4. CASE SeeIdle(r, t)
  <2>1. pc[<<r, t>>] = "follow" /\ rounds[loc[<<r, t>>].session] = {} /\ rounds' = rounds
    BY <1>4 DEF SeeIdle, engine
  <2>2. loc[<<r, t>>].session = sess[t]
    BY <2>1 DEF Core, SessInv, SessOf, Working
  <2>3. t \in rounds[s] => sess[t] = s
    BY DEF Core, RoundInv
  <2>4. QED
    BY <2>1, <2>2, <2>3
<1>5. Idle(r, t) \/ SeeIdle(r, t)
  <2>1. \/ /\ pc'[<<r, t>>] = pc[<<r, t>>]
           /\ loc'[<<r, t>>].outcome = loc[<<r, t>>].outcome
        \/ SeeIdle(r, t)
        \/ pc[<<r, t>>] \in {"ended", "messages"}
        \/ pc'[<<r, t>>] = "finish" /\ loc'[<<r, t>>].outcome = "FAILED"
    BY <1>1, <1>2, EndMoves DEF Messages
  <2>2. QED
    BY <2>1 DEF Idle
<1> QED
  BY <1>3, <1>4, <1>5

(* An end other than a failure is recorded when the round is over.          *)
LEMMA EndedStep ==
  ASSUME Core, EarlyInv, IdleInv, EndedIsStopped, [Next]_vars
  PROVE  EndedIsStopped'
<1> SUFFICES ASSUME NEW t \in Task, state'[t] \in {"SUCCEEDED", "ABORTED", "TIMEOUT"},
                    NEW s \in Session
             PROVE  t \notin rounds'[s]
  BY DEF EndedIsStopped
<1>1. state'[t] = state[t] \/ \E r \in Replica : Finish(r, t) /\ Owns(r, t)
  BY RowMoves DEF Core
<1>2. CASE state'[t] = state[t]
  BY <1>2, NoNewRound DEF EndedIsStopped
<1>3. ASSUME NEW r \in Replica, Finish(r, t), Owns(r, t) PROVE t \notin rounds'[s]
  <2>1. pc[<<r, t>>] = "finish" /\ state'[t] = loc[<<r, t>>].outcome
    BY <1>3 DEF Finish, End, Core, TypeOK
  <2>2. Idle(r, t)
    BY <2>1 DEF Idle
  <2>3. QED
    BY <2>1, <2>2, NoNewRound DEF IdleInv
<1> QED
  BY <1>1, <1>2, <1>3

(* What is said in the sessions grows by one prompt at a time.              *)
LEMMA TalkMoves ==
  ASSUME TypeOK, NEW t \in Task, NEW s \in Session, Deliver(t, s)
  PROVE  /\ \A x \in Session \ {s} : talk'[x] = talk[x]
         /\ talk'[s][Len(talk'[s])] = t
         /\ \A u \in Task : Told(s, u)' => u = t \/ Told(s, u)
<1>1. talk[s] \in Seq(Task) /\ talk' = [talk EXCEPT ![s] = Append(talk[s], t)]
  BY DEF TypeOK, Deliver
<1>2. talk'[s] = Append(talk[s], t) /\ \A x \in Session \ {s} : talk'[x] = talk[x]
  BY <1>1 DEF TypeOK
<1>3. talk'[s][Len(talk'[s])] = t
  BY <1>1, <1>2
<1>4. ASSUME NEW u \in Task, Told(s, u)' PROVE u = t \/ Told(s, u)
  <2>1. PICK i \in DOMAIN talk'[s] : talk'[s][i] = u
    BY <1>4 DEF Told
  <2>2. i \in 1 .. Len(talk[s]) + 1
    BY <1>1, <1>2, <2>1
  <2>3. QED
    BY <1>1, <1>2, <2>1, <2>2 DEF Told
<1> QED
  BY <1>2, <1>3, <1>4

(* In a sandbox that is kept, what a running task is told is the last thing *)
(* said; and what is not prompted is not told.                              *)
LEMMA ToldMoves ==
  ASSUME Core, EarlyInv, [Next]_vars, NEW t \in Task, NEW s \in Session, Told(s, t)'
  PROVE  \/ \E r \in Replica : /\ pc[<<r, t>>] = "prompt" /\ sess[t] = s
                               /\ talk'[s][Len(talk'[s])] = t
                               /\ UNCHANGED <<table, doomed>>
         \/ /\ Told(s, t)
            /\ \/ talk'[s] = talk[s]
               \/ \E u \in Task \ {t} : /\ sess[u] = s /\ UNCHANGED <<table, doomed>>
                                        /\ state[u] = "RUNNING" \/ doomed
<1>1. TypeOK
  BY DEF Core
<1>2. CASE UNCHANGED talk
  BY <1>2 DEF Told
<1>3. ASSUME NEW r \in Replica, NEW u \in Task, pc[<<r, u>>] = "prompt",
             Deliver(u, loc[<<r, u>>].session), UNCHANGED <<table, doomed>>
      PROVE  \/ \E q \in Replica : /\ pc[<<q, t>>] = "prompt" /\ sess[t] = s
                                   /\ talk'[s][Len(talk'[s])] = t
                                   /\ UNCHANGED <<table, doomed>>
             \/ /\ Told(s, t)
                /\ \/ talk'[s] = talk[s]
                   \/ \E v \in Task \ {t} : /\ sess[v] = s /\ UNCHANGED <<table, doomed>>
                                            /\ state[v] = "RUNNING" \/ doomed
  <2>1. Deliver(u, sess[u]) /\ sess[u] \in Session /\ (state[u] = "RUNNING" \/ doomed)
    BY <1>3, Prompted
  <2>2. CASE sess[u] # s
    <3>1. talk'[s] = talk[s]
      BY <1>1, <2>1, <2>2, TalkMoves
    <3>2. Told(s, t)
      BY <3>1 DEF Told
    <3>3. QED
      BY <3>1, <3>2
  <2>3. CASE sess[u] = s
    <3>1. talk'[s][Len(talk'[s])] = u /\ (u = t \/ Told(s, t))
      BY <1>1, <2>1, <2>3, TalkMoves
    <3>2. QED
      BY <1>3, <2>1, <2>3, <3>1
  <2>4. QED
    BY <2>2, <2>3
<1> QED
  BY <1>1, <1>2, <1>3, EngineMoves

(* A task that has a session and runs was running before.                   *)
LEMMA StillRunning ==
  ASSUME Core, [Next]_vars, NEW t \in Task, sess[t] # NoSession, state'[t] = "RUNNING"
  PROVE  state[t] = "RUNNING"
<1>1. state[t] # "NEW"
  BY DEF Core, NewInv
<1>2. ASSUME NEW r \in Replica, Finish(r, t), Owns(r, t) PROVE state'[t] # "RUNNING"
  <2>1. state'[t] = loc[<<r, t>>].outcome
    BY <1>2 DEF Finish, End, Core, TypeOK
  <2>2. loc[<<r, t>>].outcome \in Ended
    BY LocOf, LocalsType DEF Core
  <2>3. QED
    BY <2>1, <2>2 DEF Ended
<1> QED
  BY <1>1, <1>2, RowMoves DEF Core

(* While a task runs, its prompt stays the last thing said in its session.  *)
LEMMA TalkInvStep ==
  ASSUME Core, EarlyInv, TalkInv, [Next]_vars
  PROVE  TalkInv'
<1> SUFFICES ASSUME NEW t \in Task, NEW s \in Session, Told(s, t)'
             PROVE  /\ sess'[t] = s
                    /\ state'[t] = "RUNNING" => doomed' \/ talk'[s][Len(talk'[s])] = t
  BY DEF TalkInv
<1>0. \/ /\ sess[t] = s
         /\ talk'[s][Len(talk'[s])] = t
         /\ UNCHANGED <<table, doomed>>
      \/ /\ Told(s, t)
         /\ \/ talk'[s] = talk[s]
            \/ \E u \in Task \ {t} : /\ sess[u] = s /\ UNCHANGED <<table, doomed>>
                                     /\ state[u] = "RUNNING" \/ doomed
  BY ToldMoves
<1>1. CASE /\ sess[t] = s
           /\ talk'[s][Len(talk'[s])] = t
           /\ UNCHANGED <<table, doomed>>
  BY <1>1 DEF table
<1>2. CASE Told(s, t)
  <2>1. /\ sess[t] = s /\ s # NoSession
        /\ state[t] = "RUNNING" => doomed \/ talk[s][Len(talk[s])] = t
    BY <1>2, AgentTasksConstants DEF TalkInv
  <2>2. sess'[t] = s /\ (doomed => doomed')
    BY <2>1, RowMoves DEF Core
  <2>3. state'[t] = "RUNNING" => state[t] = "RUNNING"
    BY <2>1, StillRunning
  <2>4. CASE talk'[s] = talk[s]
    BY <2>1, <2>2, <2>3, <2>4
  <2>5. CASE \E u \in Task \ {t} : /\ sess[u] = s /\ UNCHANGED <<table, doomed>>
                                   /\ state[u] = "RUNNING" \/ doomed
    <3>1. state[t] = "RUNNING" => doomed
      BY <2>1, <2>5 DEF Core, OneTaskPerSession, Running
    <3>2. QED
      BY <2>2, <2>3, <3>1
  <2>6. QED
    BY <1>0, <1>1, <2>4, <2>5
<1>3. QED
  BY <1>0, <1>1, <1>2

(* What a runner has read is the answer to its task.                        *)
LEMMA AnswerInvStep ==
  ASSUME Core, EarlyInv, TalkInv, AnswerInv, [Next]_vars
  PROVE  AnswerInv'
<1> SUFFICES ASSUME NEW r \in Replica, NEW t \in Task, Answered(r, t)'
             PROVE  /\ sess'[t] \in Session
                    /\ state'[t] = "RUNNING" /\ Told(sess[t], t)'
                         => doomed' \/ loc'[<<r, t>>].answer = t
  BY DEF AnswerInv
<1>1. pc'[<<r, t>>] = "finish" /\ loc'[<<r, t>>].outcome = "SUCCEEDED"
  BY DEF Answered
<1>2. TypeOK /\ Rows
  BY RowsOf DEF Core
<1>3. \/ /\ Answered(r, t)
         /\ loc'[<<r, t>>].answer = loc[<<r, t>>].answer
      \/ Messages(r, t)
  <2>1. ~SeeIdle(r, t)
    BY <1>1, <1>2 DEF SeeIdle, Goto, Rows, Runner
  <2>2. QED
    BY <1>1, <1>2, <2>1, EndMoves DEF Answered
<1>4. CASE Answered(r, t) /\ loc'[<<r, t>>].answer = loc[<<r, t>>].answer
  <2>1. /\ sess[t] \in Session /\ pc[<<r, t>>] = "finish"
        /\ state[t] = "RUNNING" /\ Told(sess[t], t) => doomed \/ loc[<<r, t>>].answer = t
    BY <1>4 DEF AnswerInv, Answered
  <2>2. sess'[t] = sess[t] /\ (doomed => doomed')
    BY <2>1, RowMoves, AgentTasksConstants DEF Core
  <2>3. state'[t] = "RUNNING" => state[t] = "RUNNING"
    BY <2>1, StillRunning, AgentTasksConstants
  <2>4. \A q \in Replica : pc[<<q, t>>] # "prompt"
    BY <2>1, Prompted
  <2>5. Told(sess[t], t)' => Told(sess[t], t)
    <3>1. ASSUME NEW s \in Session, Told(s, t)' PROVE Told(s, t)
      BY <2>4, <3>1, ToldMoves
    <3>2. QED
      BY <2>1, <2>2, <3>1
  <2>6. QED
    BY <1>4, <2>1, <2>2, <2>3, <2>5
<1>5. CASE Messages(r, t)
  <2> DEFINE said == talk[loc[<<r, t>>].session]
  <2>1. /\ pc[<<r, t>>] = "messages"
        /\ UNCHANGED <<state, sess, talk, doomed>>
    BY <1>5 DEF Messages, table, engine, box
  <2>2. loc[<<r, t>>].session = sess[t] /\ sess[t] \in Session
    <3>1. loc[<<r, t>>].session = sess[t] /\ loc[<<r, t>>].session # NoSession
      BY <2>1 DEF Core, SessInv, SessOf, Working
    <3>2. QED
      BY <1>2, <3>1 DEF Rows
  <2>3. loc'[<<r, t>>].answer = IF said = <<>> THEN NoTask ELSE said[Len(said)]
    <3> DEFINE answer == IF said = <<>> THEN NoTask ELSE said[Len(said)]
    <3>1. PICK final : Let(r, t, [loc[<<r, t>>] EXCEPT !.outcome = final, !.answer = answer])
      BY <1>5 DEF Messages
    <3> DEFINE l == [loc[<<r, t>>] EXCEPT !.outcome = final, !.answer = answer]
    <3>2. l.answer = answer
      BY <1>2, LocOf DEF Locals
    <3>3. Let(r, t, l)
      BY <3>1
    <3> HIDE DEF l
    <3>4. loc'[<<r, t>>] = l
      BY <1>2, <3>3, LetAt
    <3> QED
      BY <3>2, <3>4
  <2>4. ASSUME state[t] = "RUNNING", Told(sess[t], t), ~doomed
        PROVE  loc'[<<r, t>>].answer = t
    <3>1. said[Len(said)] = t
      BY <2>2, <2>4 DEF TalkInv
    <3>2. said # <<>>
      BY <2>2, <2>4 DEF Told
    <3>3. QED
      BY <2>3, <3>1, <3>2
  <2>5. Told(sess[t], t)' => Told(sess[t], t)
    BY <2>1 DEF Told
  <2>6. QED
    BY <2>1, <2>2, <2>4, <2>5
<1> QED
  BY <1>3, <1>4, <1>5

(* What is recorded is what was read, and stays.                            *)
LEMMA DoneStep ==
  ASSUME Core, EarlyInv, AnswerInv, DoneInv, OwnAnswer, [Next]_vars
  PROVE  DoneInv' /\ OwnAnswer'
<1> SUFFICES ASSUME NEW t \in Task, state'[t] = "SUCCEEDED"
             PROVE  /\ sess'[t] \in Session
                    /\ Told(sess[t], t)' => doomed' \/ result'[t] = t
  BY DEF DoneInv, OwnAnswer, Told
<1>1. doomed => doomed'
  BY RowMoves DEF Core
<1>2. sess[t] \in Session => sess'[t] = sess[t]
  BY RowMoves, AgentTasksConstants DEF Core
<1>3. \/ state[t] = "SUCCEEDED" /\ result'[t] = result[t]
      \/ \E r \in Replica : Finish(r, t) /\ Owns(r, t)
  BY RowMoves DEF Core
<1>4. CASE state[t] = "SUCCEEDED" /\ result'[t] = result[t]
  <2>1. sess[t] \in Session
    BY <1>4 DEF DoneInv
  <2>2. Told(sess[t], t) => doomed \/ result[t] = t
    BY <1>4 DEF OwnAnswer, Told
  <2>3. \A q \in Replica : pc[<<q, t>>] # "prompt"
    BY <1>4, Prompted
  <2>4. ASSUME NEW s \in Session, Told(s, t)' PROVE Told(s, t)
    BY <2>3, <2>4, ToldMoves
  <2>5. Told(sess[t], t)' => Told(sess[t], t)
    BY <1>2, <2>1, <2>4
  <2>6. QED
    BY <1>1, <1>2, <1>4, <2>1, <2>2, <2>5
<1>5. ASSUME NEW r \in Replica, Finish(r, t), Owns(r, t)
      PROVE  /\ sess'[t] \in Session
             /\ Told(sess[t], t)' => doomed' \/ result'[t] = t
  <2>1. /\ pc[<<r, t>>] = "finish" /\ state[t] = "RUNNING"
        /\ state'[t] = loc[<<r, t>>].outcome /\ result'[t] = loc[<<r, t>>].answer
        /\ UNCHANGED <<sess, talk, doomed>>
    BY <1>5 DEF Finish, End, Owns, Core, TypeOK, engine, box
  <2>2. Answered(r, t)
    BY <2>1 DEF Answered
  <2>3. /\ sess[t] \in Session
        /\ Told(sess[t], t) => doomed \/ loc[<<r, t>>].answer = t
    BY <2>1, <2>2 DEF AnswerInv
  <2>4. Told(sess[t], t)' => Told(sess[t], t)
    BY <2>1 DEF Told
  <2>5. QED
    BY <2>1, <2>3, <2>4
<1> QED
  BY <1>3, <1>4, <1>5

(* The invariant of how tasks end.  It needs punctual runners: a task whose *)
(* runner is only late could be prompted after another has ended it.        *)
LEMMA EndInvariance ==
  ASSUME Punctual
  PROVE  Spec => [](Core /\ EndInv)
<1>1. Init => EndInv
  <2> SUFFICES ASSUME Init PROVE EndInv
    OBVIOUS
  <2>1. /\ \A r \in Replica, t \in Task : pc[<<r, t>>] = "none"
        /\ \A t \in Task : state[t] = "NEW" /\ t \notin old
        /\ \A s \in Session : talk[s] = <<>>
    BY DEF Init, Runner
  <2>2. \A s \in Session, t \in Task : ~Told(s, t)
    BY <2>1 DEF Told
  <2>3. EarlyInv /\ IdleInv /\ AnswerInv
    BY <2>1 DEF EarlyInv, Early, IdleInv, Idle, AnswerInv, Answered
  <2>4. EndedIsStopped /\ DoneInv /\ OwnAnswer
    BY <2>1 DEF EndedIsStopped, DoneInv, OwnAnswer
  <2>5. TalkInv
    BY <2>2 DEF TalkInv
  <2>6. QED
    BY <2>3, <2>4, <2>5 DEF EndInv
<1>2. Core /\ EndInv /\ [Next]_vars => EndInv'
  <2> SUFFICES ASSUME Core, EndInv, [Next]_vars PROVE EndInv'
    OBVIOUS
  <2>1. TypeOK /\ NewInv /\ Rows
    BY RowsOf DEF Core
  <2>2. EarlyInv /\ IdleInv /\ EndedIsStopped /\ TalkInv /\ AnswerInv /\ DoneInv /\ OwnAnswer
    BY DEF EndInv
  <2>3. EarlyInv'
    BY <2>1, <2>2, EarlyInvStep
  <2>4. IdleInv' /\ EndedIsStopped'
    BY <2>2, IdleInvStep, EndedStep
  <2>5. TalkInv' /\ AnswerInv' /\ DoneInv' /\ OwnAnswer'
    BY <2>2, TalkInvStep, AnswerInvStep, DoneStep
  <2>6. QED
    BY <2>3, <2>4, <2>5 DEF EndInv
<1>3. QED
  BY <1>1, <1>2, CoreInvariance, PTL DEF Spec

(* No round of a task that is recorded as ended is still being worked on:   *)
(* a runner writes such an end only after it has seen the session idle, and *)
(* no one prompts the task after that (_finish, _execute).                  *)
THEOREM EndedStopped ==
  ASSUME Punctual
  PROVE  Spec => []EndedIsStopped
<1>1. EndInv => EndedIsStopped
  BY DEF EndInv
<1>2. QED
  BY <1>1, EndInvariance, PTL

(* A result is the answer to the task's own prompt: while a task runs, the  *)
(* last thing said in its session is its prompt, because create_task lets   *)
(* no other task into it, and _finish records what was read while it ran.   *)
THEOREM AnswersOwn ==
  ASSUME Punctual
  PROVE  Spec => []OwnAnswer
<1>1. EndInv => OwnAnswer
  BY DEF EndInv
<1>2. QED
  BY <1>1, EndInvariance, PTL
=============================================================================
