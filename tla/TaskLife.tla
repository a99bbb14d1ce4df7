------------------------------- MODULE TaskLife -------------------------------
(***************************************************************************)
(* What a task promises to who looks at it in the database: it runs, may   *)
(* be asked to stop, may pass its deadline, and ends once.                 *)
(***************************************************************************)
CONSTANT Task
VARIABLES state, wish, late

vars == <<state, wish, late>>

Init ==
  /\ state = [t \in Task |-> "NEW"]
  /\ wish = {} /\ late = {}

Start(t) ==
  /\ state[t] = "NEW"
  /\ state' = [state EXCEPT ![t] = "RUNNING"]
  /\ UNCHANGED <<wish, late>>

Ask(t) ==
  /\ state[t] = "RUNNING"
  /\ wish' = wish \cup {t}
  /\ UNCHANGED <<state, late>>

Expire(t) ==
  /\ state[t] = "RUNNING"
  /\ late' = late \cup {t}
  /\ UNCHANGED <<state, wish>>

End(t) ==
  /\ state[t] = "RUNNING"
  /\ \E final \in {"SUCCEEDED", "FAILED", "ABORTED", "TIMEOUT"} :
       /\ final = "ABORTED" => t \in wish
       /\ final = "TIMEOUT" => t \in late
       /\ state' = [state EXCEPT ![t] = final]
  /\ UNCHANGED <<wish, late>>

Next == \E t \in Task : Start(t) \/ Ask(t) \/ Expire(t) \/ End(t)

Spec == Init /\ [][Next]_vars
=============================================================================
