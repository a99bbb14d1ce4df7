--------------------------- MODULE WaitQueueProofs ---------------------------
(* Proofs about WaitQueue, for any requests, sandboxes and bounds.          *)
EXTENDS WaitQueue, FiniteSetTheorems, TLAPS

\* Where a request has leased a sandbox and its waiter, if any, is GRANTED.
Granted == {"setTimeout", "endLease", "revert", "hand", "answered"}

\* What a request still holds is what it is working on.
HoldInv ==
  /\ \A s \in Sandbox :
       /\ holder[s] = NoRequest <=> sandbox[s] \notin {"RESUMING", "LEASED"}
       /\ sandbox[s] = "LEASED" =>
            pc[holder[s]] \in {"setTimeout", "endLease", "hand", "answered", "dead"}
       /\ sandbox[s] = "RESUMING" => pc[holder[s]] \in {"resume", "finish", "dead"}
  /\ \A s, t \in Sandbox : holder[s] = holder[t] /\ holder[s] # NoRequest => s = t

\* A waiter is GRANTED exactly while its request has the sandbox.
WaiterInv ==
  \A q \in Request :
    /\ seq[q] = 0 => waiter[q] = "NONE"
    /\ pc[q] \in Granted /\ seq[q] # 0 => waiter[q] = "GRANTED"
    /\ pc[q] \notin Granted \cup Final => waiter[q] \in {"NONE", "WAITING", "TIMEOUT"}
    /\ seq[q] # 0 => waiter[q] # "NONE"
    /\ pc[q] \in {"idle", "arrived", "count", "enqueue"} => seq[q] = 0
    /\ pc[q] \in {"loop", "position", "turn", "noTurn", "revert"} => seq[q] # 0
    /\ pc[q] = "refused" => waiter[q] # "GRANTED" \/ q \in gone
    /\ pc[q] = "cas" /\ cand[q] # NoSandbox => sandbox[cand[q]] \in {"READY", "PAUSED"}

IInv == TypeOK /\ HoldInv /\ WaiterInv

(* The next waiters.seq is a positive number.                               *)
LEMMA NextSeq == 1 + Cardinality({p \in Request : seq[p] # 0}) \in Nat \ {0}
<1>1. IsFiniteSet({p \in Request : seq[p] # 0})
  BY WaitQueueConstants, FS_Subset
<1> QED
  BY <1>1, FS_CardinalityType

(* Every step preserves the type invariant.                                 *)
LEMMA TypeOKStep ==
  ASSUME TypeOK, [Next]_vars
  PROVE  TypeOK'
<1>1. ASSUME NEW q \in Request, Arrive(q) PROVE TypeOK'
  BY <1>1, WaitQueueConstants DEF Arrive, Goto, TypeOK, Final, request, clocks, pool
<1>2. ASSUME NEW q \in Request, Admit(q) PROVE TypeOK'
  BY <1>2, WaitQueueConstants DEF Admit, Goto, TypeOK, Final, request, clocks, pool
<1>3. ASSUME NEW q \in Request, Count(q) PROVE TypeOK'
  BY <1>3, WaitQueueConstants DEF Count, Goto, TypeOK, Final, request, clocks, pool
<1>4. ASSUME NEW q \in Request, Enqueue(q) PROVE TypeOK'
  BY <1>4, NextSeq DEF Enqueue, Goto, EnqueueUncounted, TypeOK, Final, request, clocks, pool
<1>5. ASSUME NEW q \in Request, GiveUp(q) PROVE TypeOK'
  BY <1>5, WaitQueueConstants DEF GiveUp, Goto, CasWaiter, TypeOK, Final, request, clocks, pool
<1>6. ASSUME NEW q \in Request, Proceed(q) PROVE TypeOK'
  BY <1>6, WaitQueueConstants DEF Proceed, Goto, TypeOK, Final, request, clocks, pool
<1>7. ASSUME NEW q \in Request, Position(q) PROVE TypeOK'
  BY <1>7, WaitQueueConstants DEF Position, Goto, TypeOK, Final, request, clocks, pool
<1>8. ASSUME NEW q \in Request, Turn(q) PROVE TypeOK'
  BY <1>8, WaitQueueConstants DEF Turn, Goto, CasWaiter, TypeOK, Final, request, clocks, pool
<1>9. ASSUME NEW q \in Request, List(q) PROVE TypeOK'
  BY <1>9, WaitQueueConstants DEF List, Goto, NoGrant, Candidates, TypeOK, Final, request,
     clocks, pool
<1>10. ASSUME NEW q \in Request, LoseRace(q) PROVE TypeOK'
  BY <1>10, WaitQueueConstants DEF LoseRace, Goto, NextAttempt, NoGrant, TypeOK, Final,
     request, clocks, pool
<1>11. ASSUME NEW q \in Request, ClaimReady(q) PROVE TypeOK'
  BY <1>11, WaitQueueConstants DEF ClaimReady, Goto, Move, GrantWaiter, TypeOK, Final, request,
     clocks, pool
<1>12. ASSUME NEW q \in Request, ClaimPaused(q) PROVE TypeOK'
  BY <1>12, WaitQueueConstants DEF ClaimPaused, Goto, Move, TypeOK, Final, request, clocks, pool
<1>13. ASSUME NEW q \in Request, SetTimeout(q) PROVE TypeOK'
  BY <1>13, WaitQueueConstants DEF SetTimeout, Goto, Fault, TypeOK, Final, request, clocks, pool
<1>14. ASSUME NEW q \in Request, EndFailed(q) PROVE TypeOK'
  BY <1>14, WaitQueueConstants DEF EndFailed, Goto, Move, NextAttempt, NoGrant, TypeOK, Final,
     request, clocks, pool
<1>15. ASSUME NEW q \in Request, Revert(q) PROVE TypeOK'
  BY <1>15, WaitQueueConstants DEF Revert, Goto, CasWaiter, NextAttempt, NoGrant, TypeOK,
     Final, request, clocks, pool
<1>16. ASSUME NEW q \in Request, Resume(q) PROVE TypeOK'
  BY <1>16, WaitQueueConstants DEF Resume, Goto, Fault, Move, NextAttempt, NoGrant, TypeOK,
     Final, request, clocks, pool
<1>17. ASSUME NEW q \in Request, Finish(q) PROVE TypeOK'
  BY <1>17, WaitQueueConstants DEF Finish, Goto, Move, GrantWaiter, NextAttempt, NoGrant,
     TypeOK, Final, request, clocks, pool
<1>18. ASSUME NEW q \in Request, Hand(q) PROVE TypeOK'
  BY <1>18, WaitQueueConstants DEF Hand, Goto, Move, TypeOK, Final, request, clocks, pool
<1>19. ASSUME NEW q \in Request, Heartbeat(q) PROVE TypeOK'
  BY <1>19, WaitQueueConstants DEF Heartbeat, Queued, TypeOK, Final, request, clocks, pool
<1>20. ASSUME NEW q \in Request, GoStale(q) PROVE TypeOK'
  BY <1>20, WaitQueueConstants DEF GoStale, TypeOK, Final, request, clocks, pool
<1>21. ASSUME NEW q \in Request, DeadlinePasses(q) PROVE TypeOK'
  BY <1>21, WaitQueueConstants DEF DeadlinePasses, Queued, TypeOK, Final, request, clocks, pool
<1>22. ASSUME NEW q \in Request, Disconnect(q) PROVE TypeOK'
  BY <1>22, WaitQueueConstants DEF Disconnect, TypeOK, Final, request, clocks, pool
<1>23. ASSUME NEW q \in Request, Stop(q) PROVE TypeOK'
  BY <1>23, WaitQueueConstants DEF Stop, Goto, Fault, Queued, CasWaiter, TypeOK, Final,
     request, clocks, pool
<1>24. ASSUME ExpireWaiters PROVE TypeOK'
  BY <1>24, WaitQueueConstants DEF ExpireWaiters, TypeOK, Final, request, clocks, pool
<1>25. ASSUME CountBeforePausing PROVE TypeOK'
  BY <1>25, WaitQueueConstants DEF CountBeforePausing, TypeOK, Final, request, clocks, pool
<1>26. ASSUME NEW s \in Sandbox, Pause(s) PROVE TypeOK'
  BY <1>26, WaitQueueConstants DEF Pause, Move, TypeOK, Final, request, clocks, pool
<1>27. ASSUME NEW s \in Sandbox, Replenish(s) PROVE TypeOK'
  BY <1>27, WaitQueueConstants DEF Replenish, Move, TypeOK, Final, request, clocks, pool
<1>28. ASSUME NEW s \in Sandbox, LeaseEnds(s) PROVE TypeOK'
  BY <1>28, WaitQueueConstants DEF LeaseEnds, Move, TypeOK, Final, request, clocks, pool
<1>29. ASSUME NEW s \in Sandbox, Disturb(s) PROVE TypeOK'
  BY <1>29, WaitQueueConstants DEF Disturb, Fault, Move, TypeOK, Final, request, clocks, pool
<1>30. ASSUME NEW s \in Sandbox, Recover(s) PROVE TypeOK'
  BY <1>30, WaitQueueConstants DEF Recover, Move, TypeOK, Final, request, clocks, pool
<1>31. ASSUME Drain PROVE TypeOK'
  BY <1>31, WaitQueueConstants DEF Drain, TypeOK, Final, request, clocks, pool
<1>32. ASSUME NEW s \in Sandbox, DrainIdle(s) PROVE TypeOK'
  BY <1>32, WaitQueueConstants DEF DrainIdle, Move, TypeOK, Final, request, clocks, pool
<1>33. ASSUME NEW q \in Request, Step(q) PROVE TypeOK'
  BY <1>33, <1>2, <1>3, <1>4, <1>5, <1>6, <1>7, <1>8, <1>9, <1>10, <1>11, <1>12, <1>13, <1>14,
     <1>15, <1>16, <1>17, <1>18 DEF Step
<1>34. ASSUME Next PROVE TypeOK'
  BY <1>33, <1>34, <1>1, <1>19, <1>20, <1>21, <1>22, <1>23, <1>24, <1>25, <1>26, <1>27, <1>28,
     <1>29, <1>30, <1>31, <1>32 DEF Next
<1>35. ASSUME UNCHANGED vars PROVE TypeOK'
  BY <1>35 DEF vars, TypeOK
<1> QED BY <1>34, <1>35

(* A sandbox is held by at most one request, which is where it works on it. *)
LEMMA HoldInvStep ==
  ASSUME TypeOK, HoldInv, [Next]_vars
  PROVE  HoldInv'
<1>1. ASSUME NEW q \in Request, Arrive(q) PROVE HoldInv'
  BY <1>1, WaitQueueConstants DEF Arrive, Goto, TypeOK, HoldInv, Final, request, clocks, pool
<1>2. ASSUME NEW q \in Request, Admit(q) PROVE HoldInv'
  BY <1>2, WaitQueueConstants DEF Admit, Goto, TypeOK, HoldInv, Final, request, clocks, pool
<1>3. ASSUME NEW q \in Request, Count(q) PROVE HoldInv'
  BY <1>3, WaitQueueConstants DEF Count, Goto, TypeOK, HoldInv, Final, request, clocks, pool
<1>4. ASSUME NEW q \in Request, Enqueue(q) PROVE HoldInv'
  BY <1>4, NextSeq DEF Enqueue, Goto, EnqueueUncounted, TypeOK, HoldInv, Final, request,
     clocks, pool
<1>5. ASSUME NEW q \in Request, GiveUp(q) PROVE HoldInv'
  BY <1>5, WaitQueueConstants DEF GiveUp, Goto, CasWaiter, TypeOK, HoldInv, Final, request,
     clocks, pool
<1>6. ASSUME NEW q \in Request, Proceed(q) PROVE HoldInv'
  BY <1>6, WaitQueueConstants DEF Proceed, Goto, TypeOK, HoldInv, Final, request, clocks, pool
<1>7. ASSUME NEW q \in Request, Position(q) PROVE HoldInv'
  BY <1>7, WaitQueueConstants DEF Position, Goto, TypeOK, HoldInv, Final, request, clocks, pool
<1>8. ASSUME NEW q \in Request, Turn(q) PROVE HoldInv'
  BY <1>8, WaitQueueConstants DEF Turn, Goto, CasWaiter, TypeOK, HoldInv, Final, request,
     clocks, pool
<1>9. ASSUME NEW q \in Request, List(q) PROVE HoldInv'
  BY <1>9, WaitQueueConstants DEF List, Goto, NoGrant, Candidates, TypeOK, HoldInv, Final,
     request, clocks, pool
<1>10. ASSUME NEW q \in Request, LoseRace(q) PROVE HoldInv'
  BY <1>10, WaitQueueConstants DEF LoseRace, Goto, NextAttempt, NoGrant, TypeOK, HoldInv,
     Final, request, clocks, pool
<1>11. ASSUME NEW q \in Request, ClaimReady(q) PROVE HoldInv'
  BY <1>11, WaitQueueConstants DEF ClaimReady, Goto, Move, GrantWaiter, TypeOK, HoldInv, Final,
     request, clocks, pool
<1>12. ASSUME NEW q \in Request, ClaimPaused(q) PROVE HoldInv'
  BY <1>12, WaitQueueConstants DEF ClaimPaused, Goto, Move, TypeOK, HoldInv, Final, request,
     clocks, pool
<1>13. ASSUME NEW q \in Request, SetTimeout(q) PROVE HoldInv'
  BY <1>13, WaitQueueConstants DEF SetTimeout, Goto, Fault, TypeOK, HoldInv, Final, request,
     clocks, pool
<1>14. ASSUME NEW q \in Request, EndFailed(q) PROVE HoldInv'
  BY <1>14, WaitQueueConstants DEF EndFailed, Goto, Move, NextAttempt, NoGrant, TypeOK,
     HoldInv, Final, request, clocks, pool
<1>15. ASSUME NEW q \in Request, Revert(q) PROVE HoldInv'
  BY <1>15, WaitQueueConstants DEF Revert, Goto, CasWaiter, NextAttempt, NoGrant, TypeOK,
     HoldInv, Final, request, clocks, pool
<1>16. ASSUME NEW q \in Request, Resume(q) PROVE HoldInv'
  BY <1>16, WaitQueueConstants DEF Resume, Goto, Fault, Move, NextAttempt, NoGrant, TypeOK,
     HoldInv, Final, request, clocks, pool
<1>17. ASSUME NEW q \in Request, Finish(q) PROVE HoldInv'
  BY <1>17, WaitQueueConstants DEF Finish, Goto, Move, GrantWaiter, NextAttempt, NoGrant,
     TypeOK, HoldInv, Final, request, clocks, pool
<1>18. ASSUME NEW q \in Request, Hand(q) PROVE HoldInv'
  BY <1>18, WaitQueueConstants DEF Hand, Goto, Move, TypeOK, HoldInv, Final, request, clocks, pool
<1>19. ASSUME NEW q \in Request, Heartbeat(q) PROVE HoldInv'
  BY <1>19, WaitQueueConstants DEF Heartbeat, Queued, TypeOK, HoldInv, Final, request, clocks,
     pool
<1>20. ASSUME NEW q \in Request, GoStale(q) PROVE HoldInv'
  BY <1>20, WaitQueueConstants DEF GoStale, TypeOK, HoldInv, Final, request, clocks, pool
<1>21. ASSUME NEW q \in Request, DeadlinePasses(q) PROVE HoldInv'
  BY <1>21, WaitQueueConstants DEF DeadlinePasses, Queued, TypeOK, HoldInv, Final, request,
     clocks, pool
<1>22. ASSUME NEW q \in Request, Disconnect(q) PROVE HoldInv'
  BY <1>22, WaitQueueConstants DEF Disconnect, TypeOK, HoldInv, Final, request, clocks, pool
<1>23. ASSUME NEW q \in Request, Stop(q) PROVE HoldInv'
  BY <1>23, WaitQueueConstants DEF Stop, Goto, Fault, Queued, CasWaiter, TypeOK, HoldInv,
     Final, request, clocks, pool
<1>24. ASSUME ExpireWaiters PROVE HoldInv'
  BY <1>24, WaitQueueConstants DEF ExpireWaiters, TypeOK, HoldInv, Final, request, clocks, pool
<1>25. ASSUME CountBeforePausing PROVE HoldInv'
  BY <1>25, WaitQueueConstants DEF CountBeforePausing, TypeOK, HoldInv, Final, request, clocks,
     pool
<1>26. ASSUME NEW s \in Sandbox, Pause(s) PROVE HoldInv'
  BY <1>26, WaitQueueConstants DEF Pause, Move, TypeOK, HoldInv, Final, request, clocks, pool
<1>27. ASSUME NEW s \in Sandbox, Replenish(s) PROVE HoldInv'
  BY <1>27, WaitQueueConstants DEF Replenish, Move, TypeOK, HoldInv, Final, request, clocks, pool
<1>28. ASSUME NEW s \in Sandbox, LeaseEnds(s) PROVE HoldInv'
  BY <1>28, WaitQueueConstants DEF LeaseEnds, Move, TypeOK, HoldInv, Final, request, clocks, pool
<1>29. ASSUME NEW s \in Sandbox, Disturb(s) PROVE HoldInv'
  BY <1>29, WaitQueueConstants DEF Disturb, Fault, Move, TypeOK, HoldInv, Final, request,
     clocks, pool
<1>30. ASSUME NEW s \in Sandbox, Recover(s) PROVE HoldInv'
  BY <1>30, WaitQueueConstants DEF Recover, Move, TypeOK, HoldInv, Final, request, clocks, pool
<1>31. ASSUME Drain PROVE HoldInv'
  BY <1>31, WaitQueueConstants DEF Drain, TypeOK, HoldInv, Final, request, clocks, pool
<1>32. ASSUME NEW s \in Sandbox, DrainIdle(s) PROVE HoldInv'
  BY <1>32, WaitQueueConstants DEF DrainIdle, Move, TypeOK, HoldInv, Final, request, clocks, pool
<1>33. ASSUME NEW q \in Request, Step(q) PROVE HoldInv'
  BY <1>33, <1>2, <1>3, <1>4, <1>5, <1>6, <1>7, <1>8, <1>9, <1>10, <1>11, <1>12, <1>13, <1>14,
     <1>15, <1>16, <1>17, <1>18 DEF Step
<1>34. ASSUME Next PROVE HoldInv'
  BY <1>33, <1>34, <1>1, <1>19, <1>20, <1>21, <1>22, <1>23, <1>24, <1>25, <1>26, <1>27, <1>28,
     <1>29, <1>30, <1>31, <1>32 DEF Next
<1>35. ASSUME UNCHANGED vars PROVE HoldInv'
  BY <1>35 DEF vars, TypeOK, HoldInv
<1> QED BY <1>34, <1>35

(* The state of a waiter follows the steps of its request.                  *)
LEMMA WaiterInvStep ==
  ASSUME TypeOK, WaiterInv, [Next]_vars
  PROVE  WaiterInv'
<1>1. ASSUME NEW q \in Request, Arrive(q) PROVE WaiterInv'
  BY <1>1, WaitQueueConstants DEF Arrive, Goto, TypeOK, WaiterInv, Granted, Final, request,
     clocks, pool
<1>2. ASSUME NEW q \in Request, Admit(q) PROVE WaiterInv'
  BY <1>2, WaitQueueConstants DEF Admit, Goto, TypeOK, WaiterInv, Granted, Final, request,
     clocks, pool
<1>3. ASSUME NEW q \in Request, Count(q) PROVE WaiterInv'
  BY <1>3, WaitQueueConstants DEF Count, Goto, TypeOK, WaiterInv, Granted, Final, request,
     clocks, pool
<1>4. ASSUME NEW q \in Request, Enqueue(q) PROVE WaiterInv'
  BY <1>4, NextSeq DEF Enqueue, Goto, EnqueueUncounted, TypeOK, WaiterInv, Granted, Final,
     request, clocks, pool
<1>5. ASSUME NEW q \in Request, GiveUp(q) PROVE WaiterInv'
  BY <1>5, WaitQueueConstants DEF GiveUp, Goto, CasWaiter, TypeOK, WaiterInv, Granted, Final,
     request, clocks, pool
<1>6. ASSUME NEW q \in Request, Proceed(q) PROVE WaiterInv'
  BY <1>6, WaitQueueConstants DEF Proceed, Goto, TypeOK, WaiterInv, Granted, Final, request,
     clocks, pool
<1>7. ASSUME NEW q \in Request, Position(q) PROVE WaiterInv'
  BY <1>7, WaitQueueConstants DEF Position, Goto, TypeOK, WaiterInv, Granted, Final, request,
     clocks, pool
<1>8. ASSUME NEW q \in Request, Turn(q) PROVE WaiterInv'
  BY <1>8, WaitQueueConstants DEF Turn, Goto, CasWaiter, TypeOK, WaiterInv, Granted, Final,
     request, clocks, pool
<1>9. ASSUME NEW q \in Request, List(q) PROVE WaiterInv'
  BY <1>9, WaitQueueConstants DEF List, Goto, NoGrant, Candidates, TypeOK, WaiterInv, Granted,
     Final, request, clocks, pool
<1>10. ASSUME NEW q \in Request, LoseRace(q) PROVE WaiterInv'
  BY <1>10, WaitQueueConstants DEF LoseRace, Goto, NextAttempt, NoGrant, TypeOK, WaiterInv,
     Granted, Final, request, clocks, pool
<1>11. ASSUME NEW q \in Request, ClaimReady(q) PROVE WaiterInv'
  BY <1>11, WaitQueueConstants DEF ClaimReady, Goto, Move, GrantWaiter, TypeOK, WaiterInv,
     Granted, Final, request, clocks, pool
<1>12. ASSUME NEW q \in Request, ClaimPaused(q) PROVE WaiterInv'
  BY <1>12, WaitQueueConstants DEF ClaimPaused, Goto, Move, TypeOK, WaiterInv, Granted, Final,
     request, clocks, pool
<1>13. ASSUME NEW q \in Request, SetTimeout(q) PROVE WaiterInv'
  BY <1>13, WaitQueueConstants DEF SetTimeout, Goto, Fault, TypeOK, WaiterInv, Granted, Final,
     request, clocks, pool
<1>14. ASSUME NEW q \in Request, EndFailed(q) PROVE WaiterInv'
  BY <1>14, WaitQueueConstants DEF EndFailed, Goto, Move, NextAttempt, NoGrant, TypeOK,
     WaiterInv, Granted, Final, request, clocks, pool
<1>15. ASSUME NEW q \in Request, Revert(q) PROVE WaiterInv'
  BY <1>15, WaitQueueConstants DEF Revert, Goto, CasWaiter, NextAttempt, NoGrant, TypeOK,
     WaiterInv, Granted, Final, request, clocks, pool
<1>16. ASSUME NEW q \in Request, Resume(q) PROVE WaiterInv'
  BY <1>16, WaitQueueConstants DEF Resume, Goto, Fault, Move, NextAttempt, NoGrant, TypeOK,
     WaiterInv, Granted, Final, request, clocks, pool
<1>17. ASSUME NEW q \in Request, Finish(q) PROVE WaiterInv'
  BY <1>17, WaitQueueConstants DEF Finish, Goto, Move, GrantWaiter, NextAttempt, NoGrant,
     TypeOK, WaiterInv, Granted, Final, request, clocks, pool
<1>18. ASSUME NEW q \in Request, Hand(q) PROVE WaiterInv'
  BY <1>18, WaitQueueConstants DEF Hand, Goto, Move, TypeOK, WaiterInv, Granted, Final,
     request, clocks, pool
<1>19. ASSUME NEW q \in Request, Heartbeat(q) PROVE WaiterInv'
  BY <1>19, WaitQueueConstants DEF Heartbeat, Queued, TypeOK, WaiterInv, Granted, Final,
     request, clocks, pool
<1>20. ASSUME NEW q \in Request, GoStale(q) PROVE WaiterInv'
  BY <1>20, WaitQueueConstants DEF GoStale, TypeOK, WaiterInv, Granted, Final, request, clocks,
     pool
<1>21. ASSUME NEW q \in Request, DeadlinePasses(q) PROVE WaiterInv'
  BY <1>21, WaitQueueConstants DEF DeadlinePasses, Queued, TypeOK, WaiterInv, Granted, Final,
     request, clocks, pool
<1>22. ASSUME NEW q \in Request, Disconnect(q) PROVE WaiterInv'
  BY <1>22, WaitQueueConstants DEF Disconnect, TypeOK, WaiterInv, Granted, Final, request,
     clocks, pool
<1>23. ASSUME NEW q \in Request, Stop(q) PROVE WaiterInv'
  BY <1>23, WaitQueueConstants DEF Stop, Goto, Fault, Queued, CasWaiter, TypeOK, WaiterInv,
     Granted, Final, request, clocks, pool
<1>24. ASSUME ExpireWaiters PROVE WaiterInv'
  BY <1>24, WaitQueueConstants DEF ExpireWaiters, Waiting, TypeOK, WaiterInv, Granted, Final,
     request, clocks, pool
<1>25. ASSUME CountBeforePausing PROVE WaiterInv'
  BY <1>25, WaitQueueConstants DEF CountBeforePausing, TypeOK, WaiterInv, Granted, Final,
     request, clocks, pool
<1>26. ASSUME NEW s \in Sandbox, Pause(s) PROVE WaiterInv'
  BY <1>26, WaitQueueConstants DEF Pause, Move, TypeOK, WaiterInv, Granted, Final, request,
     clocks, pool
<1>27. ASSUME NEW s \in Sandbox, Replenish(s) PROVE WaiterInv'
  BY <1>27, WaitQueueConstants DEF Replenish, Move, TypeOK, WaiterInv, Granted, Final, request,
     clocks, pool
<1>28. ASSUME NEW s \in Sandbox, LeaseEnds(s) PROVE WaiterInv'
  BY <1>28, WaitQueueConstants DEF LeaseEnds, Move, TypeOK, WaiterInv, Granted, Final, request,
     clocks, pool
<1>29. ASSUME NEW s \in Sandbox, Disturb(s) PROVE WaiterInv'
  BY <1>29, WaitQueueConstants DEF Disturb, Fault, Move, TypeOK, WaiterInv, Granted, Final,
     request, clocks, pool
<1>30. ASSUME NEW s \in Sandbox, Recover(s) PROVE WaiterInv'
  BY <1>30, WaitQueueConstants DEF Recover, Move, TypeOK, WaiterInv, Granted, Final, request,
     clocks, pool
<1>31. ASSUME Drain PROVE WaiterInv'
  BY <1>31, WaitQueueConstants DEF Drain, TypeOK, WaiterInv, Granted, Final, request, clocks, pool
<1>32. ASSUME NEW s \in Sandbox, DrainIdle(s) PROVE WaiterInv'
  BY <1>32, WaitQueueConstants DEF DrainIdle, Move, TypeOK, WaiterInv, Granted, Final, request,
     clocks, pool
<1>33. ASSUME NEW q \in Request, Step(q) PROVE WaiterInv'
  BY <1>33, <1>2, <1>3, <1>4, <1>5, <1>6, <1>7, <1>8, <1>9, <1>10, <1>11, <1>12, <1>13, <1>14,
     <1>15, <1>16, <1>17, <1>18 DEF Step
<1>34. ASSUME Next PROVE WaiterInv'
  BY <1>33, <1>34, <1>1, <1>19, <1>20, <1>21, <1>22, <1>23, <1>24, <1>25, <1>26, <1>27, <1>28,
     <1>29, <1>30, <1>31, <1>32 DEF Next
<1>35. ASSUME UNCHANGED vars PROVE WaiterInv'
  BY <1>35 DEF vars, TypeOK, WaiterInv
<1> QED BY <1>34, <1>35

(* The inductive invariant holds in every state.                            *)
THEOREM Invariance == Spec => []IInv
<1>1. Init => IInv
  <2> SUFFICES ASSUME Init PROVE IInv
    OBVIOUS
  <2>1. TypeOK
    <3>1. /\ sandbox \in [Sandbox -> {"NONE", "READY", "PAUSING", "PAUSED", "RESUMING", "LEASED"}]
          /\ holder \in [Sandbox -> Request \cup {NoRequest}]
          /\ tries \in [Request -> 0..MaxAttempts]
          /\ faults \in 0..MaxFaults
      BY WaitQueueConstants DEF Init
    <3> QED
      BY <3>1 DEF Init, TypeOK
  <2>2. HoldInv
    BY WaitQueueConstants DEF Init, HoldInv
  <2>3. WaiterInv
    BY DEF Init, WaiterInv, Granted, Final
  <2> QED
    BY <2>1, <2>2, <2>3 DEF IInv
<1>2. IInv /\ [Next]_vars => IInv'
  BY TypeOKStep, HoldInvStep, WaiterInvStep DEF IInv
<1> QED
  BY <1>1, <1>2, PTL DEF Spec

(* Type correctness.                                                        *)
THEOREM TypeCorrect == Spec => []TypeOK
<1>1. IInv => TypeOK
  BY DEF IInv
<1> QED
  BY <1>1, Invariance, PTL

(* acquire never has two sandboxes at once, and a refused call leaves none  *)
(* behind, after any number of failures, lost races and take-overs.         *)
THEOREM NoneLeft == Spec => []NothingLeftBehind
<1>1. IInv => NothingLeftBehind
  <2> SUFFICES ASSUME IInv, NEW q \in Request
               PROVE  /\ Cardinality(Held(q)) <= 1
                      /\ pc[q] = "refused" => Held(q) = {}
    BY DEF NothingLeftBehind
  <2>1. q # NoRequest
    BY WaitQueueConstants
  <2>2. Held(q) = {} \/ \E s \in Sandbox : Held(q) = {s}
    BY <2>1 DEF Held, IInv, HoldInv
  <2>3. Cardinality(Held(q)) <= 1
    <3>1. \A s \in Sandbox : Cardinality({s}) = 1
      BY FS_Singleton
    <3> QED
      BY <2>2, <3>1, FS_EmptySet
  <2>4. pc[q] = "refused" => Held(q) = {}
    BY <2>1 DEF Held, IInv, HoldInv, TypeOK
  <2> QED
    BY <2>3, <2>4
<1> QED
  BY <1>1, Invariance, PTL

(* _grant_waiter: an answered request is GRANTED, also if another replica   *)
(* had timed it out while it was claiming.                                  *)
THEOREM GrantsKept == Spec => []AnsweredIsGranted
<1>1. IInv => AnsweredIsGranted
  BY DEF IInv, WaiterInv, AnsweredIsGranted, Granted
<1> QED
  BY <1>1, Invariance, PTL

-----------------------------------------------------------------------------
(* The bound of the queue, as long as nothing fails.                        *)

NothingFails == ~StrictFifo /\ MaxFaults = 0

Bounded ==
  /\ \A q \in Request : pc[q] \notin {"endLease", "revert"}
  /\ Cardinality(Waiting) <= QueueMax

(* Only enqueue makes somebody wait who did not.                            *)
LEMMA WhoWaits ==
  ASSUME TypeOK, Next, \A q \in Request : pc[q] # "revert"
  PROVE  \/ Waiting' \subseteq Waiting
         \/ \E q \in Request : /\ Cardinality(Waiting) < QueueMax + IF StrictFifo THEN Cardinality(Available) ELSE 0
                              /\ Waiting' \subseteq Waiting \cup {q}
<1>1. ASSUME NEW q \in Request, Step(q), ~Enqueue(q) PROVE Waiting' \subseteq Waiting
  BY <1>1 DEF Step, Waiting, TypeOK, Admit, Count, GiveUp, Proceed, Position, Turn,
     List, LoseRace, ClaimReady, ClaimPaused, SetTimeout, EndFailed, Revert, Resume,
     Finish, Hand, CasWaiter, GrantWaiter
<1>2. ASSUME NEW q \in Request, Enqueue(q)
      PROVE  \/ Waiting' \subseteq Waiting
             \/ /\ Cardinality(Waiting) < QueueMax + IF StrictFifo THEN Cardinality(Available) ELSE 0
                /\ Waiting' \subseteq Waiting \cup {q}
  <2>1. CASE pc[q] = "enqueue" /\ EnqueueUncounted(q)
    BY <1>2, <2>1 DEF Enqueue, EnqueueUncounted, Waiting, TypeOK
  <2> QED
    BY <1>2, <2>1 DEF Enqueue, EnqueueUncounted, Waiting, TypeOK
<1>3. ASSUME NEW q \in Request,
             \/ Arrive(q) \/ Heartbeat(q) \/ GoStale(q) \/ DeadlinePasses(q)
             \/ Disconnect(q) \/ Stop(q)
      PROVE  Waiting' \subseteq Waiting
  BY <1>3 DEF Arrive, Heartbeat, GoStale, DeadlinePasses, Disconnect, Stop, CasWaiter,
     Waiting, TypeOK, request
<1>4. ASSUME NEW s \in Sandbox,
             \/ Pause(s) \/ Replenish(s) \/ LeaseEnds(s) \/ Disturb(s) \/ Recover(s)
             \/ DrainIdle(s)
      PROVE  Waiting' \subseteq Waiting
  BY <1>4 DEF Pause, Replenish, LeaseEnds, Disturb, Recover, DrainIdle, Waiting
<1>5. ASSUME ExpireWaiters \/ CountBeforePausing \/ Drain PROVE Waiting' \subseteq Waiting
  BY <1>5 DEF ExpireWaiters, CountBeforePausing, Drain, Waiting, request
<1> QED
  BY <1>1, <1>2, <1>3, <1>4, <1>5 DEF Next

(* Nothing fails, so no waiter goes back to the queue.                      *)
LEMMA NoReverts ==
  ASSUME TypeOK, MaxFaults = 0, [Next]_vars,
         \A q \in Request : pc[q] \notin {"endLease", "revert"}
  PROVE  \A q \in Request : pc'[q] \notin {"endLease", "revert"}
<1>0. ~Fault
  BY DEF Fault, TypeOK
<1>1. ASSUME NEW q \in Request, Step(q)
      PROVE  \A p \in Request : pc'[p] \notin {"endLease", "revert"}
  BY <1>0, <1>1 DEF Step, TypeOK, Admit, Count, Enqueue, EnqueueUncounted, GiveUp, Proceed,
     Position, Turn, List, LoseRace, ClaimReady, ClaimPaused, SetTimeout, EndFailed, Revert,
     Resume, Finish, Hand, NextAttempt, NoGrant, Goto
<1>2. ASSUME NEW q \in Request,
             \/ Arrive(q) \/ Heartbeat(q) \/ GoStale(q) \/ DeadlinePasses(q)
             \/ Disconnect(q) \/ Stop(q)
      PROVE  \A p \in Request : pc'[p] \notin {"endLease", "revert"}
  BY <1>0, <1>2 DEF Arrive, Heartbeat, GoStale, DeadlinePasses, Disconnect, Stop, Goto,
     TypeOK, request
<1>3. ASSUME NEW s \in Sandbox,
             \/ Pause(s) \/ Replenish(s) \/ LeaseEnds(s) \/ Disturb(s) \/ Recover(s)
             \/ DrainIdle(s)
      PROVE  pc' = pc
  BY <1>3 DEF Pause, Replenish, LeaseEnds, Disturb, Recover, DrainIdle
<1>4. ASSUME ExpireWaiters \/ CountBeforePausing \/ Drain PROVE pc' = pc
  BY <1>4 DEF ExpireWaiters, CountBeforePausing, Drain, request
<1>5. ASSUME UNCHANGED vars PROVE pc' = pc
  BY <1>5 DEF vars
<1> QED
  BY <1>1, <1>2, <1>3, <1>4, <1>5 DEF Next

(* Without a failure of the platform the queue keeps to queue_max: the count *)
(* and the insert of enqueue are one transaction under the pool's lock, and *)
(* nobody else adds a waiter.  (A failure returns one, when its place may    *)
(* have been taken.)                                                        *)
THEOREM BoundKept == NothingFails /\ Spec => []QueueBound
<1> SUFFICES ASSUME NothingFails PROVE Spec => []QueueBound
  OBVIOUS
<1>0. \A S \in SUBSET Request : IsFiniteSet(S) /\ Cardinality(S) \in Nat
  BY WaitQueueConstants, FS_Subset, FS_CardinalityType
<1>1. Init => Bounded
  <2> SUFFICES ASSUME Init PROVE Bounded
    OBVIOUS
  <2>1. Waiting = {}
    BY DEF Init, Waiting
  <2> QED
    BY <2>1, FS_EmptySet, WaitQueueConstants DEF Init, Bounded
<1>2. IInv /\ Bounded /\ [Next]_vars => Bounded'
  <2> SUFFICES ASSUME IInv, Bounded, [Next]_vars PROVE Bounded'
    OBVIOUS
  <2>1. \A q \in Request : pc'[q] \notin {"endLease", "revert"}
    BY NoReverts DEF IInv, Bounded, NothingFails
  <2>2. Waiting \in SUBSET Request /\ Waiting' \in SUBSET Request
    BY DEF Waiting
  <2>3. ASSUME Waiting' \subseteq Waiting PROVE Cardinality(Waiting') <= QueueMax
    <3>1. Cardinality(Waiting') <= Cardinality(Waiting)
      BY <1>0, <2>2, <2>3, FS_Subset
    <3> QED
      BY <3>1, <1>0, <2>2, WaitQueueConstants DEF Bounded
  <2>4. ASSUME NEW q \in Request, Cardinality(Waiting) < QueueMax,
               Waiting' \subseteq Waiting \cup {q}
        PROVE  Cardinality(Waiting') <= QueueMax
    <3>1. IsFiniteSet(Waiting \cup {q}) /\ Cardinality(Waiting \cup {q}) <= Cardinality(Waiting) + 1
      BY <1>0, <2>2, FS_AddElement
    <3>2. Cardinality(Waiting') <= Cardinality(Waiting \cup {q})
      BY <2>4, <3>1, FS_Subset
    <3>3. Waiting \cup {q} \in SUBSET Request
      BY <2>2
    <3> QED
      BY <3>1, <3>2, <3>3, <1>0, <2>2, <2>4, WaitQueueConstants
  <2>5. CASE Next
    <3>1. \/ Waiting' \subseteq Waiting
          \/ \E q \in Request : Cardinality(Waiting) < QueueMax /\ Waiting' \subseteq Waiting \cup {q}
      BY <2>5, WhoWaits, WaitQueueConstants DEF IInv, Bounded, NothingFails
    <3> QED
      BY <2>1, <2>3, <2>4, <3>1 DEF Bounded
  <2>6. CASE UNCHANGED vars
    <3>1. Waiting' = Waiting
      BY <2>6 DEF vars, Waiting
    <3> QED
      BY <2>1, <3>1 DEF Bounded
  <2> QED
    BY <2>5, <2>6
<1>3. Bounded => QueueBound
  BY WaitQueueConstants DEF Bounded, QueueBound, NothingFails
<1> QED
  BY <1>1, <1>2, <1>3, Invariance, PTL DEF Spec

-----------------------------------------------------------------------------
(* Order and bound in strict mode, as long as nothing fails, no deadline    *)
(* passes and no sandbox is paused: first come, first served.               *)

Calm == StrictFifo /\ ~PauseEnabled /\ MaxFaults = 0 /\ Patient /\ Punctual

(* Where a queued request has neither been served nor given up; and where   *)
(* it is its turn.                                                          *)
InTurn == {"turn", "list", "cas", "resume", "finish"}
InQueue == {"loop", "position", "noTurn"} \cup InTurn

CalmInv ==
  /\ \A q \in Request :
       /\ pc[q] \notin {"count", "endLease", "revert", "dead"}
       /\ pc[q] \in InQueue => seq[q] # 0 /\ waiter[q] = "WAITING"
       /\ q \in stale => pc[q] \in Final
  /\ late = {} /\ ~quiet

Enqueued == {q \in Request : seq[q] # 0}
SeqInv ==
  /\ \A p \in Request : seq[p] <= Cardinality(Enqueued)
  /\ \A p, q \in Request : seq[p] = seq[q] /\ seq[p] # 0 => p = q

(* Whose turn it is finds a sandbox for everybody in front of it, and one   *)
(* for itself.                                                              *)
TurnInv ==
  draining \/ \A q \in Request : pc[q] \in InTurn =>
                Cardinality(Ahead(q)) < Cardinality(Available)

LEMMA CalmStep ==
  ASSUME Calm, IInv, CalmInv, [Next]_vars
  PROVE  CalmInv'
<1>0. ~Fault /\ TypeOK /\ WaiterInv
  BY DEF Fault, TypeOK, IInv, Calm
<1>1. ASSUME NEW q \in Request,
             \/ Arrive(q) \/ Admit(q) \/ Enqueue(q) \/ GiveUp(q) \/ Proceed(q) \/ Position(q)
             \/ Turn(q)
      PROVE  CalmInv'
  BY <1>0, <1>1, NextSeq DEF Calm, CalmInv, TypeOK, InTurn, InQueue, Final, Arrive, Admit,
     Enqueue,
     EnqueueUncounted, GiveUp, Proceed, Position, Turn, CasWaiter, Goto, clocks, pool
<1>2. ASSUME NEW q \in Request,
             \/ List(q) \/ LoseRace(q) \/ ClaimReady(q) \/ ClaimPaused(q)
             \/ SetTimeout(q) \/ Resume(q) \/ Finish(q) \/ Hand(q)
      PROVE  CalmInv'
  BY <1>0, <1>2 DEF CalmInv, TypeOK, InTurn, InQueue, Final, List, LoseRace, ClaimReady,
     ClaimPaused, SetTimeout, Resume, Finish, Hand, NextAttempt, NoGrant, GrantWaiter, Goto,
     clocks, pool
<1>3. ASSUME NEW q \in Request, Heartbeat(q) \/ GoStale(q) \/ Disconnect(q)
      PROVE  CalmInv'
  BY <1>3 DEF Calm, CalmInv, InTurn, InQueue, Final, Heartbeat, GoStale, Disconnect, request, pool
<1>4. ASSUME NEW q \in Request, Count(q) \/ EndFailed(q) \/ Revert(q) \/ DeadlinePasses(q) \/ Stop(q)
      PROVE  FALSE
  BY <1>0, <1>4 DEF Calm, CalmInv, Count, EndFailed, Revert, DeadlinePasses, Stop
<1>5. ASSUME NEW s \in Sandbox,
             \/ Pause(s) \/ Replenish(s) \/ LeaseEnds(s) \/ Disturb(s) \/ Recover(s)
             \/ DrainIdle(s)
      PROVE  CalmInv'
  BY <1>5 DEF CalmInv, Pause, Replenish, LeaseEnds, Disturb, Recover, DrainIdle, clocks
<1>6. CASE ExpireWaiters
  <2>1. \A q \in Request : pc[q] \in InQueue => q \notin stale
    BY DEF CalmInv, InQueue, InTurn, Final
  <2> QED
    BY <1>0, <1>6, <2>1 DEF CalmInv, TypeOK, ExpireWaiters, clocks, pool
<1>7. CASE CountBeforePausing
  BY <1>7 DEF Calm, CountBeforePausing
<1>8. CASE Drain
  BY <1>8 DEF CalmInv, Drain, request, clocks
<1>9. CASE UNCHANGED vars
  BY <1>9 DEF CalmInv, vars
<1> QED
  BY <1>1, <1>2, <1>3, <1>4, <1>5, <1>6, <1>7, <1>8, <1>9 DEF Next, Step

(* How a step looks to the queue.                                           *)
Onwards ==
  /\ seq' = seq /\ Waiting' \subseteq Waiting /\ Available \subseteq Available'
  /\ \A q \in Request : pc'[q] \in InTurn =>
       pc[q] \in InTurn \/ Cardinality(Ahead(q)) < Cardinality(Available)
Serves(q, s) ==
  /\ q \in Waiting /\ pc[q] \in InTurn /\ s \in Available
  /\ seq' = seq /\ Waiting' = Waiting \ {q} /\ Available' = Available \ {s}
  /\ \A p \in Request : pc'[p] \in InTurn => p # q /\ pc[p] \in InTurn
Joins(q) ==
  /\ Cardinality(Waiting) < QueueMax + Cardinality(Available)
  /\ seq[q] = 0 /\ q \notin Waiting
  /\ seq' = [seq EXCEPT ![q] = 1 + Cardinality(Enqueued)]
  /\ Waiting' = Waiting \cup {q} /\ Available' = Available
  /\ \A p \in Request : pc'[p] \in InTurn => p # q /\ pc[p] \in InTurn

LEMMA QueueMoves ==
  ASSUME Calm, IInv, CalmInv, [Next]_vars
  PROVE  \/ draining'
         \/ Onwards
         \/ \E q \in Request, s \in Sandbox : Serves(q, s)
         \/ \E q \in Request : Joins(q)
<1>0. ~Fault /\ TypeOK /\ WaiterInv /\ HoldInv
  BY DEF Fault, TypeOK, IInv, Calm
<1>1. ASSUME NEW q \in Request,
             Arrive(q) \/ Admit(q) \/ GiveUp(q) \/ Proceed(q) \/ Position(q) \/ Turn(q)
      PROVE  Onwards
  <2>1. seq' = seq /\ Waiting' \subseteq Waiting /\ Available' = Available
    BY <1>0, <1>1 DEF Arrive, Admit, GiveUp, Proceed, Position, Turn, CasWaiter, Waiting,
       Available, TypeOK, pool
  <2>2. \A p \in Request : pc'[p] \in InTurn =>
          pc[p] \in InTurn \/ Cardinality(Ahead(p)) < Cardinality(Available)
    BY <1>0, <1>1 DEF Arrive, Admit, GiveUp, Proceed, Position, Turn, Goto, InTurn, TypeOK, Calm
  <2> QED
    BY <2>1, <2>2 DEF Onwards
<1>2. ASSUME NEW q \in Request, List(q) \/ LoseRace(q) \/ SetTimeout(q) \/ Resume(q)
      PROVE  Onwards
  <2>1. seq' = seq /\ Waiting' = Waiting /\ Available' = Available
    BY <1>0, <1>2 DEF List, LoseRace, SetTimeout, Resume, Waiting, Available, pool
  <2>2. \A p \in Request : pc'[p] \in InTurn => pc[p] \in InTurn
    BY <1>0, <1>2 DEF List, LoseRace, SetTimeout, Resume, NextAttempt, NoGrant, Goto, InTurn,
       TypeOK
  <2> QED
    BY <2>1, <2>2 DEF Onwards
<1>3. ASSUME NEW q \in Request, ClaimPaused(q) PROVE Onwards
  <2>1. cand[q] \in Sandbox
    BY <1>0, <1>3 DEF ClaimPaused, TypeOK
  <2>2. seq' = seq /\ Waiting' = Waiting /\ Available' = Available
    BY <1>0, <1>3, <2>1 DEF ClaimPaused, Move, Waiting, Available, TypeOK
  <2>3. \A p \in Request : pc'[p] \in InTurn => pc[p] \in InTurn
    BY <1>0, <1>3 DEF ClaimPaused, Goto, InTurn, TypeOK
  <2> QED
    BY <2>2, <2>3 DEF Onwards
<1>4. ASSUME NEW q \in Request, ClaimReady(q) PROVE \E s \in Sandbox : Serves(q, s)
  <2>1. cand[q] \in Sandbox /\ cand[q] \in Available /\ pc[q] \in InTurn /\ waiter[q] = "WAITING"
    BY <1>0, <1>4 DEF ClaimReady, TypeOK, Available, CalmInv, InTurn, InQueue
  <2>2. seq' = seq /\ Waiting' = Waiting \ {q} /\ Available' = Available \ {cand[q]}
    BY <1>0, <1>4, <2>1 DEF ClaimReady, GrantWaiter, Move, Waiting, Available, TypeOK
  <2>3. \A p \in Request : pc'[p] \in InTurn => p # q /\ pc[p] \in InTurn
    BY <1>0, <1>4 DEF ClaimReady, Goto, InTurn, TypeOK
  <2> QED
    BY <2>1, <2>2, <2>3 DEF Serves, Waiting
<1>5. ASSUME NEW q \in Request, Finish(q) PROVE Onwards \/ \E s \in Sandbox : Serves(q, s)
  <2>1. pc[q] = "finish" /\ pc[q] \in InTurn /\ waiter[q] = "WAITING"
    BY <1>5 DEF Finish, CalmInv, InTurn, InQueue
  <2>2. CASE NextAttempt(q) /\ UNCHANGED <<waiter, sandbox, holder, cand>>
    <3>1. seq' = seq /\ Waiting' = Waiting /\ Available' = Available
      BY <1>5, <2>2 DEF Finish, Waiting, Available
    <3>2. \A p \in Request : pc'[p] \in InTurn => pc[p] \in InTurn
      BY <1>0, <2>1, <2>2 DEF NextAttempt, NoGrant, Goto, InTurn, TypeOK
    <3> QED
      BY <3>1, <3>2 DEF Onwards
  <2>3. ASSUME NEW s \in Sandbox, holder[s] = q, Move(s, "LEASED", q), GrantWaiter(q), Goto(q, "hand")
        PROVE  Serves(q, s)
    <3>1. sandbox[s] = "RESUMING"
      BY <1>0, <2>1, <2>3, WaitQueueConstants DEF HoldInv
    <3>2. seq' = seq /\ Waiting' = Waiting \ {q} /\ Available' = Available \ {s}
      BY <1>0, <1>5, <2>1, <2>3, <3>1 DEF Finish, GrantWaiter, Move, Waiting, Available, TypeOK
    <3>3. \A p \in Request : pc'[p] \in InTurn => p # q /\ pc[p] \in InTurn
      BY <1>0, <2>3 DEF Goto, InTurn, TypeOK
    <3> QED
      BY <2>1, <3>1, <3>2, <3>3 DEF Serves, Waiting, Available
  <2> QED
    BY <1>5, <2>2, <2>3 DEF Finish
<1>6. ASSUME NEW q \in Request, Hand(q) PROVE Onwards
  <2>1. \A s \in Sandbox : holder[s] = q => sandbox[s] = "LEASED"
    BY <1>0, <1>6, WaitQueueConstants DEF Hand, HoldInv
  <2>2. seq' = seq /\ Waiting' = Waiting /\ Available' = Available
    BY <1>0, <1>6, <2>1 DEF Hand, Move, Waiting, Available, TypeOK
  <2>3. \A p \in Request : pc'[p] \in InTurn => pc[p] \in InTurn
    BY <1>0, <1>6 DEF Hand, Goto, InTurn, TypeOK
  <2> QED
    BY <2>2, <2>3 DEF Onwards
<1>7. ASSUME NEW q \in Request, Enqueue(q) PROVE Onwards \/ Joins(q)
  <2>1. CASE EnqueueUncounted(q) /\ Cardinality(Waiting) < QueueMax + Cardinality(Available)
    <3>1. seq[q] = 0 /\ waiter[q] = "NONE"
      BY <1>0, <2>1 DEF EnqueueUncounted, WaiterInv
    <3>2. seq' = [seq EXCEPT ![q] = 1 + Cardinality(Enqueued)] /\ Waiting' = Waiting \cup {q}
          /\ Available' = Available
      BY <1>0, <2>1 DEF EnqueueUncounted, Enqueued, Waiting, Available, TypeOK, pool
    <3>3. \A p \in Request : pc'[p] \in InTurn => p # q /\ pc[p] \in InTurn
      BY <1>0, <2>1 DEF EnqueueUncounted, Goto, InTurn, TypeOK
    <3> QED
      BY <2>1, <3>1, <3>2, <3>3 DEF Joins, Waiting
  <2>2. CASE Goto(q, "refused") /\ UNCHANGED <<seq, waiter, tries, cand, clocks, pool>>
    <3>1. seq' = seq /\ Waiting' = Waiting /\ Available' = Available
      BY <2>2 DEF Waiting, Available, pool
    <3>2. \A p \in Request : pc'[p] \in InTurn => pc[p] \in InTurn
      BY <1>0, <2>2 DEF Goto, InTurn, TypeOK
    <3> QED
      BY <3>1, <3>2 DEF Onwards
  <2> QED
    BY <1>7, <2>1, <2>2, WaitQueueConstants DEF Enqueue, Calm
<1>8. ASSUME NEW q \in Request, Heartbeat(q) \/ GoStale(q) \/ Disconnect(q)
      PROVE  Onwards
  <2>1. seq' = seq /\ pc' = pc /\ Waiting' = Waiting /\ Available' = Available
    BY <1>8 DEF Heartbeat, GoStale, Disconnect, Waiting, Available, request, pool
  <2> QED
    BY <2>1 DEF Onwards
<1>9. ASSUME NEW q \in Request, Count(q) \/ EndFailed(q) \/ Revert(q) \/ DeadlinePasses(q) \/ Stop(q)
      PROVE  FALSE
  BY <1>0, <1>9 DEF Calm, CalmInv, Count, EndFailed, Revert, DeadlinePasses, Stop
<1>10. ASSUME NEW s \in Sandbox, Pause(s) \/ Replenish(s) \/ LeaseEnds(s)
       PROVE  Onwards
  <2>1. seq' = seq /\ pc' = pc /\ Waiting' = Waiting
    BY <1>10 DEF Pause, Replenish, LeaseEnds, Waiting
  <2>2. Available \subseteq Available'
    BY <1>0, <1>10 DEF Pause, Replenish, LeaseEnds, Move, Available, TypeOK, CalmInv
  <2> QED
    BY <2>1, <2>2 DEF Onwards
<1>11. ASSUME NEW s \in Sandbox, Disturb(s) \/ Recover(s) PROVE FALSE
  <2>1. sandbox[s] = "RESUMING" => holder[s] \in Request
    BY <1>0 DEF HoldInv, TypeOK
  <2> QED
    BY <1>0, <1>11, <2>1 DEF Disturb, Recover, CalmInv
<1>12. ASSUME NEW s \in Sandbox, DrainIdle(s) PROVE draining'
  BY <1>12 DEF DrainIdle
<1>13. CASE ExpireWaiters
  <2>1. seq' = seq /\ pc' = pc /\ Waiting' \subseteq Waiting /\ Available' = Available
    BY <1>0, <1>13 DEF ExpireWaiters, Waiting, Available, TypeOK, pool
  <2> QED
    BY <2>1 DEF Onwards
<1>14. CASE CountBeforePausing
  BY <1>14 DEF Calm, CountBeforePausing
<1>15. CASE Drain
  BY <1>15 DEF Drain
<1>16. CASE UNCHANGED vars
  <2>1. seq' = seq /\ pc' = pc /\ Waiting' = Waiting /\ Available' = Available
    BY <1>16 DEF vars, Waiting, Available
  <2> QED
    BY <2>1 DEF Onwards
<1> QED
  BY <1>1, <1>2, <1>3, <1>4, <1>5, <1>6, <1>7, <1>8, <1>9, <1>10, <1>11, <1>12, <1>13, <1>14,
     <1>15, <1>16 DEF Next, Step

(* Every set of requests, or of sandboxes, is finite.                       *)
LEMMA Counts ==
  /\ \A S \in SUBSET Request : IsFiniteSet(S) /\ Cardinality(S) \in Nat
  /\ \A S \in SUBSET Sandbox : IsFiniteSet(S) /\ Cardinality(S) \in Nat
BY WaitQueueConstants, FS_Subset, FS_CardinalityType

LEMMA Fewer ==
  ASSUME NEW S, NEW T \in SUBSET S, IsFiniteSet(S)
  PROVE  Cardinality(T) <= Cardinality(S)
BY FS_Subset

(* One less, or one more.                                                   *)
LEMMA OneLess ==
  ASSUME NEW S, NEW x \in S, IsFiniteSet(S)
  PROVE  Cardinality(S \ {x}) = Cardinality(S) - 1
BY FS_RemoveElement

LEMMA OneMore ==
  ASSUME NEW S, NEW x, x \notin S, IsFiniteSet(S)
  PROVE  Cardinality(S \cup {x}) = Cardinality(S) + 1
BY FS_AddElement

(* Sequence numbers grow, and nobody has another's.                         *)
LEMMA SeqStep ==
  ASSUME TypeOK, WaiterInv, SeqInv, [Next]_vars
  PROVE  SeqInv'
<1>1. CASE seq' = seq
  BY <1>1 DEF SeqInv, Enqueued
<1>2. ASSUME NEW q \in Request, seq[q] = 0, seq' = [seq EXCEPT ![q] = 1 + Cardinality(Enqueued)]
      PROVE  SeqInv'
  <2>1. PICK n \in Nat : n = Cardinality(Enqueued)
    BY Counts DEF Enqueued
  <2>2. \A p \in Request : seq'[p] = IF p = q THEN n + 1 ELSE seq[p]
    BY <1>2, <2>1 DEF TypeOK
  <2>3. Enqueued' = Enqueued \cup {q} /\ q \notin Enqueued /\ Enqueued \in SUBSET Request
    BY <1>2, <2>2 DEF Enqueued
  <2>4. Cardinality(Enqueued') = n + 1
    BY <2>1, <2>3, Counts, OneMore
  <2>5. \A p \in Request : seq[p] <= n /\ seq[p] \in Nat
    BY <2>1 DEF SeqInv, TypeOK
  <2> QED
    BY <2>2, <2>4, <2>5 DEF SeqInv
<1>3. ASSUME NEW q \in Request, EnqueueUncounted(q) PROVE SeqInv'
  BY <1>2, <1>3 DEF EnqueueUncounted, Enqueued, WaiterInv
<1> QED
  BY <1>1, <1>3 DEF Next, vars, Step, Arrive, Admit, Count, Enqueue, GiveUp, Proceed, Position,
     Turn, List, LoseRace, ClaimReady, ClaimPaused, SetTimeout, EndFailed, Revert, Resume, Finish,
     Hand, Heartbeat, GoStale, DeadlinePasses, Disconnect, Stop, Pause, Replenish, LeaseEnds,
     Disturb, Recover, DrainIdle, ExpireWaiters, CountBeforePausing, Drain, request

(* Who is served leaves a sandbox for each in front of it, and one waiter   *)
(* less for those behind.                                                   *)
LEMMA ServedInTurn ==
  ASSUME TypeOK, SeqInv, ~draining, TurnInv, NEW q \in Request, NEW s \in Sandbox, Serves(q, s),
         NEW p \in Request, pc'[p] \in InTurn, p \in Waiting, seq[p] # 0
  PROVE  Cardinality(Ahead(p)') < Cardinality(Available')
<1>1. PICK a \in Nat : a = Cardinality(Available)
  BY Counts DEF Available
<1>2. Cardinality(Available') = a - 1
  BY <1>1, Counts, OneLess DEF Serves, Available
<1>3. Ahead(q) \in SUBSET Request /\ Ahead(p) \in SUBSET Request /\ Ahead(p)' = Ahead(p) \ {q}
  BY DEF Ahead, Serves, Waiting
<1>4. PICK m, n \in Nat : m = Cardinality(Ahead(p)) /\ n = Cardinality(Ahead(q))
  BY <1>3, Counts
<1>5. m < a /\ n < a
  BY <1>1, <1>4 DEF Serves, TurnInv
<1>6. CASE q \in Ahead(p)
  <2>1. Cardinality(Ahead(p) \ {q}) = m - 1
    BY <1>3, <1>4, <1>6, Counts, OneLess
  <2> QED
    BY <1>2, <1>3, <1>5, <2>1
<1>7. CASE q \notin Ahead(p)
  <2>1. seq[p] < seq[q]
    BY <1>7 DEF Ahead, Serves, SeqInv, TypeOK, Waiting
  <2>2. Ahead(p) \cup {p} \in SUBSET Ahead(q) /\ p \notin Ahead(p)
    BY <2>1 DEF Ahead, Serves, TypeOK, Waiting
  <2>3. Cardinality(Ahead(p) \cup {p}) = m + 1 /\ m + 1 <= n
    BY <1>3, <1>4, <2>2, Counts, OneMore, Fewer
  <2>4. Ahead(p)' = Ahead(p)
    BY <1>3, <1>7
  <2> QED
    BY <1>2, <1>4, <1>5, <2>3, <2>4
<1> QED
  BY <1>6, <1>7

LEMMA TurnStep ==
  ASSUME Calm, IInv, CalmInv, SeqInv, TurnInv, [Next]_vars
  PROVE  TurnInv'
<1> SUFFICES ASSUME ~draining', NEW p \in Request, pc'[p] \in InTurn
             PROVE  Cardinality(Ahead(p)') < Cardinality(Available')
  BY DEF TurnInv
<1>0. TypeOK /\ Ahead(p) \in SUBSET Request /\ Available \in SUBSET Sandbox
      /\ Available' \in SUBSET Sandbox /\ Waiting \in SUBSET Request
  BY DEF IInv, Ahead, Waiting, Available
<1>1. ~draining
  BY DEF Next, vars, Step, Arrive, Admit, Count, Enqueue, EnqueueUncounted, GiveUp, Proceed,
     Position, Turn, List, LoseRace, ClaimReady, ClaimPaused, SetTimeout, EndFailed, Revert,
     Resume, Finish, Hand, Heartbeat, GoStale, DeadlinePasses, Disconnect, Stop, Pause, Replenish,
     LeaseEnds, Disturb, Recover, DrainIdle, ExpireWaiters, CountBeforePausing, Drain, request,
     pool
<1>2. CASE Onwards
  <2>1. Cardinality(Ahead(p)) < Cardinality(Available)
    BY <1>1, <1>2 DEF Onwards, TurnInv
  <2>2. Ahead(p)' \in SUBSET Ahead(p) /\ Available \in SUBSET Available'
    BY <1>2 DEF Onwards, Ahead
  <2>3. Cardinality(Ahead(p)') <= Cardinality(Ahead(p))
        /\ Cardinality(Available) <= Cardinality(Available')
    BY <1>0, <2>2, Counts, Fewer
  <2>4. Ahead(p)' \in SUBSET Request
    BY <1>0, <2>2
  <2> QED
    BY <1>0, <2>1, <2>3, <2>4, Counts
<1>3. ASSUME NEW q \in Request, NEW s \in Sandbox, Serves(q, s)
      PROVE  Cardinality(Ahead(p)') < Cardinality(Available')
  <2>1. seq[p] # 0 /\ p \in Waiting
    BY <1>3 DEF Serves, CalmInv, InQueue, Waiting
  <2> QED
    BY <1>0, <1>1, <1>3, <2>1, ServedInTurn
<1>4. ASSUME NEW q \in Request, Joins(q)
      PROVE  Cardinality(Ahead(p)') < Cardinality(Available')
  <2>1. PICK n \in Nat : n = Cardinality(Enqueued)
    BY Counts DEF Enqueued
  <2>2. \A r \in Request : seq'[r] = IF r = q THEN n + 1 ELSE seq[r]
    BY <1>0, <1>4, <2>1 DEF Joins, TypeOK
  <2>3. \A r \in Request : seq[r] <= n /\ seq[r] \in Nat
    BY <1>0, <2>1 DEF SeqInv, TypeOK
  <2>4. p # q /\ pc[p] \in InTurn
    BY <1>4 DEF Joins
  <2>5. Ahead(p)' = Ahead(p)
    BY <1>0, <1>4, <2>2, <2>3, <2>4 DEF Ahead, Joins
  <2> QED
    BY <1>1, <1>4, <2>4, <2>5 DEF Joins, TurnInv
<1> QED
  BY <1>2, <1>3, <1>4, QueueMoves

(* Whoever is given its sandbox was in turn.                                *)
LEMMA ServedIsInTurn ==
  ASSUME Calm, IInv, CalmInv, [Next]_vars, NEW q \in Request,
         waiter[q] = "WAITING", waiter'[q] = "GRANTED"
  PROVE  pc[q] \in InTurn
<1>0. TypeOK /\ ~Fault
  BY DEF IInv, Fault, TypeOK, Calm
<1>1. ASSUME NEW p \in Request, ClaimReady(p) PROVE pc[q] \in InTurn
  BY <1>0, <1>1 DEF ClaimReady, GrantWaiter, TypeOK, InTurn
<1>2. ASSUME NEW p \in Request, Finish(p) PROVE pc[q] \in InTurn
  BY <1>0, <1>2 DEF Finish, GrantWaiter, TypeOK, InTurn
<1>3. ASSUME NEW p \in Request,
             \/ Step(p) /\ ~ClaimReady(p) /\ ~Finish(p)
             \/ Arrive(p) \/ Heartbeat(p) \/ GoStale(p) \/ DeadlinePasses(p) \/ Disconnect(p)
             \/ Stop(p)
      PROVE  FALSE
  BY <1>0, <1>3 DEF Step, Arrive, Admit, Count, Enqueue, EnqueueUncounted, GiveUp, Proceed,
     Position, Turn,
     List, LoseRace, ClaimPaused, SetTimeout, EndFailed, Revert, Resume, Hand, Heartbeat, GoStale,
     DeadlinePasses, Disconnect, Stop, CasWaiter, request, TypeOK
<1>4. ASSUME NEW s \in Sandbox,
             \/ Pause(s) \/ Replenish(s) \/ LeaseEnds(s) \/ Disturb(s) \/ Recover(s)
             \/ DrainIdle(s)
      PROVE  FALSE
  BY <1>4 DEF Pause, Replenish, LeaseEnds, Disturb, Recover, DrainIdle
<1>5. ASSUME ExpireWaiters \/ CountBeforePausing \/ Drain \/ UNCHANGED vars PROVE FALSE
  BY <1>0, <1>5 DEF ExpireWaiters, CountBeforePausing, Drain, request, vars, TypeOK
<1> QED
  BY <1>1, <1>2, <1>3, <1>4, <1>5 DEF Next

(* As long as nothing fails the sets keep their sizes in step.              *)
StrictBound == draining \/ Cardinality(Waiting) <= QueueMax + Cardinality(Available)

LEMMA StrictBoundStep ==
  ASSUME Calm, IInv, CalmInv, StrictBound, [Next]_vars
  PROVE  StrictBound'
<1> SUFFICES ASSUME ~draining' PROVE Cardinality(Waiting') <= QueueMax + Cardinality(Available')
  BY DEF StrictBound
<1>0. /\ Waiting \in SUBSET Request /\ Available \in SUBSET Sandbox
      /\ Waiting' \in SUBSET Request /\ Available' \in SUBSET Sandbox
  BY DEF Waiting, Available
<1>1. ~draining
  BY DEF Next, vars, Step, Arrive, Admit, Count, Enqueue, EnqueueUncounted, GiveUp, Proceed,
     Position, Turn, List, LoseRace, ClaimReady, ClaimPaused, SetTimeout, EndFailed, Revert,
     Resume, Finish, Hand, Heartbeat, GoStale, DeadlinePasses, Disconnect, Stop, Pause, Replenish,
     LeaseEnds, Disturb, Recover, DrainIdle, ExpireWaiters, CountBeforePausing, Drain, request,
     pool
<1>2. PICK w, a \in Nat : w = Cardinality(Waiting) /\ a = Cardinality(Available)
  BY <1>0, Counts
<1>3. PICK v, b \in Nat : v = Cardinality(Waiting') /\ b = Cardinality(Available')
  BY <1>0, Counts
<1>4. w <= QueueMax + a /\ QueueMax \in Nat
  BY <1>1, <1>2, WaitQueueConstants DEF StrictBound
<1>5. CASE Onwards
  <2>1. v <= w /\ a <= b
    BY <1>0, <1>2, <1>3, <1>5, Counts, Fewer DEF Onwards
  <2> QED
    BY <1>3, <1>4, <2>1
<1>6. ASSUME NEW q \in Request, NEW s \in Sandbox, Serves(q, s) PROVE v <= QueueMax + b
  <2>1. v = w - 1 /\ b = a - 1
    BY <1>0, <1>2, <1>3, <1>6, Counts, OneLess DEF Serves
  <2> QED
    BY <1>4, <2>1
<1>7. ASSUME NEW q \in Request, Joins(q) PROVE v <= QueueMax + b
  <2>1. v = w + 1 /\ b = a /\ w < QueueMax + a
    BY <1>0, <1>2, <1>3, <1>7, Counts, OneMore DEF Joins
  <2> QED
    BY <1>4, <2>1
<1> QED
  BY <1>3, <1>5, <1>6, <1>7, QueueMoves

LEMMA CalmBegins ==
  ASSUME Calm, Init
  PROVE  CalmInv /\ SeqInv /\ TurnInv /\ StrictBound
<1>1. CalmInv /\ TurnInv
  BY DEF Init, CalmInv, TurnInv, InTurn, InQueue
<1>2. SeqInv
  BY Counts DEF Init, SeqInv, Enqueued
<1>3. Waiting = {} /\ Available \in SUBSET Sandbox
  BY DEF Init, Waiting, Available
<1>4. StrictBound
  BY <1>3, Counts, FS_EmptySet, WaitQueueConstants DEF StrictBound
<1> QED
  BY <1>1, <1>2, <1>4

CalmOnes == IInv /\ CalmInv /\ SeqInv /\ TurnInv /\ StrictBound

LEMMA CalmInvariance == Calm => (Spec => []CalmOnes)
<1> SUFFICES ASSUME Calm PROVE Spec => []CalmOnes
  OBVIOUS
<1> DEFINE J == CalmInv /\ SeqInv /\ TurnInv /\ StrictBound
<1>1. Init => J
  BY CalmBegins
<1>2. IInv /\ J /\ [Next]_vars => J'
  BY CalmStep, SeqStep, TurnStep, StrictBoundStep DEF IInv
<1>3. IInv /\ J => CalmOnes
  BY DEF CalmOnes
<1> HIDE DEF J
<1> QED
  BY <1>1, <1>2, <1>3, Invariance, PTL DEF Spec

(* In strict mode, too, the queue keeps to its bound: queue_max requests,   *)
(* and one for each sandbox that is available.                              *)
THEOREM StrictBoundKept == Calm /\ Spec => []QueueBound
<1> SUFFICES ASSUME Calm PROVE Spec => []QueueBound
  OBVIOUS
<1>1. CalmOnes => QueueBound
  BY DEF CalmOnes, StrictBound, QueueBound, Calm
<1> QED
  BY <1>1, CalmInvariance, PTL

(* First come, first served: a queued request gets its sandbox only when    *)
(* one is left for each that waits in front of it.                          *)
THEOREM InOrder == Calm /\ Spec => FirstCome
<1> SUFFICES ASSUME Calm PROVE Spec => FirstCome
  OBVIOUS
<1> DEFINE Fair ==
      \A q \in Request : waiter[q] = "WAITING" /\ waiter'[q] = "GRANTED" /\ ~draining
                           => Cardinality(Ahead(q)) < Cardinality(Available)
<1>1. CalmOnes /\ [Next]_vars => Fair
  BY ServedIsInTurn DEF CalmOnes, TurnInv
<1>2. CalmOnes /\ [Next]_vars => [Fair]_vars
  BY <1>1
<1> QED
  BY <1>2, CalmInvariance, PTL DEF Spec, FirstCome
=============================================================================
