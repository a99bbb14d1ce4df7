---------------------------- MODULE PiBridgeProofs ----------------------------
(* Proofs about PiBridge, for any sessions and calls and any number of        *)
(* processes, runs and failures.                                              *)
EXTENDS PiBridge, TLAPS

\* A session's process is its own, and every process that works is that of a session.
ProcInv ==
  /\ proc \in [Session -> Proc \cup {NoProc}]
  /\ life \in [Proc -> {"unused", "up", "dead", "gone"}]
  /\ home \in [Proc -> Session \cup {NoSession}]
  /\ \A s \in Session : proc[s] # NoProc =>
       home[proc[s]] = s /\ life[proc[s]] \in {"up", "dead"}
  /\ \A p \in Proc : life[p] = "up" => home[p] \in Session /\ proc[home[p]] = p

\* A process is started, dies, or is gone; nothing else concerns proc, life and home.
LEMMA ProcSteps ==
  ASSUME [Next]_vars
  PROVE  \/ UNCHANGED <<proc, life, home>>
         \/ \E s \in Session : Spawn(s)
         \/ \E p \in Proc : Dies(p) \/ Gone(p)
<1>1. ASSUME NEW c \in Call, Proceed(c) \/ TimesOut(c) PROVE UNCHANGED <<proc, life, home>>
  BY <1>1 DEF Proceed, TimesOut, procs
<1>2. ASSUME NEW c \in Call, NEW s \in Session,
             Create(c, s) \/ Prompt(c, s) \/ Read(c, s) \/ Abort(c, s)
      PROVE  UNCHANGED <<proc, life, home>>
  BY <1>2 DEF Create, Prompt, Read, Abort, procs
<1>3. ASSUME NEW s \in Session, StartTimesOut(s) \/ Reap(s)
      PROVE  UNCHANGED <<proc, life, home>>
  BY <1>3 DEF StartTimesOut, Reap, bridge
<1>4. ASSUME NEW p \in Proc,
             \/ Response(p) \/ AgentStart(p) \/ AgentSettled(p)
             \/ Serve(p) \/ Finish(p) \/ Extension(p)
      PROVE  UNCHANGED <<proc, life, home>>
  BY <1>4 DEF Response, AgentStart, AgentSettled, Serve, Finish, Extension, bridge, procs
<1>5. CASE Dispose
  BY <1>5 DEF Dispose
<1>6. CASE UNCHANGED vars
  BY <1>6 DEF vars, bridge, procs
<1> QED
  BY <1>1, <1>2, <1>3, <1>4, <1>5, <1>6 DEF Next

\* ProcInv is inductive: a start waits until the old process is gone.
LEMMA ProcStep == ProcInv /\ [Next]_vars => ProcInv'
<1> SUFFICES ASSUME ProcInv, [Next]_vars PROVE ProcInv'
  OBVIOUS
<1> USE DEF ProcInv
<1>1. CASE UNCHANGED <<proc, life, home>>
  BY <1>1
<1>2. ASSUME NEW s \in Session, Spawn(s) PROVE ProcInv'
  <2>1. CASE UNCHANGED <<proc, procs>>
    BY <2>1 DEF procs
  <2>2. ASSUME NEW p \in Proc, life[p] = "unused", life' = [life EXCEPT ![p] = "up"],
               home' = [home EXCEPT ![p] = s], proc' = [proc EXCEPT ![s] = p]
        PROVE  ProcInv'
    <3>1. \A q \in Proc : life[q] = "up" => home[q] # s
      <4>1. proc[s] # NoProc => life[proc[s]] = "dead"
        BY <1>2 DEF Spawn, OldIsGone
      <4> QED
        BY <4>1 DEF Proc, NoProc
    <3>2. \A t \in Session : proc[t] # p
      BY <2>2 DEF Proc, NoProc
    <3> QED
      BY <2>2, <3>1, <3>2 DEF Proc, NoProc
  <2> QED
    BY <1>2, <2>1, <2>2 DEF Spawn
<1>3. ASSUME NEW p \in Proc, Dies(p) PROVE ProcInv'
  BY <1>3 DEF Dies, bridge
<1>4. ASSUME NEW p \in Proc, Gone(p) PROVE ProcInv'
  <2>1. /\ life[p] = "dead" /\ life' = [life EXCEPT ![p] = "gone"] /\ UNCHANGED home
        /\ proc' = [proc EXCEPT ![home[p]] = IF proc[home[p]] = p THEN NoProc ELSE @]
    BY <1>4 DEF Gone
  <2>2. p # NoProc
    BY DEF Proc, NoProc
  <2>3. \A t \in Session : IF proc[t] = p THEN proc'[t] = NoProc ELSE proc'[t] = proc[t]
    BY <2>1, <2>2
  <2>4. \A q \in Proc : life'[q] = IF q = p THEN "gone" ELSE life[q]
    BY <2>1
  <2>5. proc' \in [Session -> Proc \cup {NoProc}]
    BY <2>1
  <2>6. ASSUME NEW t \in Session, proc'[t] # NoProc
        PROVE  home[proc'[t]] = t /\ life'[proc'[t]] \in {"up", "dead"}
    BY <2>3, <2>4, <2>6
  <2>7. ASSUME NEW q \in Proc, life'[q] = "up"
        PROVE  home[q] \in Session /\ proc'[home[q]] = q
    BY <2>1, <2>3, <2>4, <2>7
  <2> QED
    BY <2>1, <2>5, <2>6, <2>7
<1> QED
  BY ProcSteps, <1>1, <1>2, <1>3, <1>4

LEMMA ProcInit == Init => ProcInv
BY DEF Init, ProcInv

\* A call has a session when it is at work.
CallsWho ==
  /\ call = [c \in Call |-> call[c]]
  /\ \A c \in Call : call[c].at # "idle" => call[c].s \in Session

\* Sessions are sessions: those that calls and processes name, and those that are busy.
WhoInv ==
  /\ busy \subseteq Session
  /\ stdout = [p \in Proc |-> stdout[p]]
  /\ CallsWho
  /\ \A p \in Proc : life[p] # "unused" => home[p] \in Session
  /\ \A p \in Proc : stdout[p] # <<>> => life[p] # "unused"

LEMMA WhoInit == Init => WhoInv
BY DEF Init, WhoInv, CallsWho, Idle

(* What the parts of the steps do to the calls and to what is busy.            *)
LEMMA BeginWho ==
  ASSUME WhoInv, NEW c \in Call, NEW k, NEW s \in Session, NEW r, NEW at,
         Begin(c, k, s, at) \/ Sent(c, k, s, r)
  PROVE  CallsWho'
BY DEF WhoInv, CallsWho, Begin, Sent

LEMMA AnsweredWho ==
  ASSUME WhoInv, NEW C, Answered(C)
  PROVE  CallsWho'
BY DEF WhoInv, CallsWho, Answered, Idle

LEMMA StartsWho ==
  ASSUME WhoInv, NEW s \in Session, NEW r, Starts(s, r)
  PROVE  busy' \subseteq Session
BY DEF WhoInv, Starts

LEMMA SettleWho ==
  ASSUME WhoInv, NEW s, NEW as, NEW p, Settle(s, as, p) \/ NoRunEnds
  PROVE  busy' \subseteq Session
BY DEF WhoInv, Settle, NoRunEnds

\* WhoInv is inductive, given ProcInv.
LEMMA WhoStep == ProcInv /\ WhoInv /\ [Next]_vars => WhoInv'
<1> SUFFICES ASSUME ProcInv, WhoInv, [Next]_vars PROVE WhoInv'
  OBVIOUS
<1>1. ASSUME NEW c \in Call, NEW s \in Session, Create(c, s) \/ Read(c, s) \/ Abort(c, s)
      PROVE  WhoInv'
  BY <1>1, BeginWho, AnsweredWho DEF Create, Read, Abort, Join, Send, procs, WhoInv
<1>2. ASSUME NEW c \in Call, NEW s \in Session, Prompt(c, s) PROVE WhoInv'
  BY <1>2, BeginWho, AnsweredWho, StartsWho DEF Prompt, Join, SendPrompt, procs, WhoInv
<1>3. ASSUME NEW c \in Call, Proceed(c) PROVE WhoInv'
  <2>1. call[c].s \in Session
    BY <1>3 DEF Proceed, At, WhoInv, CallsWho
  <2> QED
    BY <1>3, <2>1, BeginWho, AnsweredWho, StartsWho
    DEF Proceed, Send, SendPrompt, procs, WhoInv
<1>4. ASSUME NEW c \in Call, TimesOut(c) PROVE WhoInv'
  BY <1>4, AnsweredWho, SettleWho DEF TimesOut, Failed, WhoInv, pi
<1>5. ASSUME NEW s \in Session, StartTimesOut(s) \/ Reap(s) PROVE WhoInv'
  BY <1>5, AnsweredWho DEF StartTimesOut, Reap, Failed, WhoInv, CallsWho, pi, bridge
<1>6. ASSUME NEW s \in Session, Spawn(s) PROVE WhoInv'
  BY <1>6, AnsweredWho DEF Spawn, Failed, WhoInv, CallsWho, procs, ProcInv
<1>7. ASSUME NEW p \in Proc, Gone(p) PROVE WhoInv'
  <2>1. busy' \subseteq Session
    BY <1>7, SettleWho DEF Gone
  <2>2. CallsWho'
    BY <1>7, AnsweredWho DEF Gone, Failed
  <2> QED
    BY <1>7, <2>1, <2>2 DEF Gone, WhoInv, pi, ProcInv
<1>8. ASSUME NEW p \in Proc, Response(p) PROVE WhoInv'
  <2>1. busy' \subseteq Session
    BY <1>8, SettleWho DEF Response
  <2>2. CallsWho'
    BY <1>8, AnsweredWho DEF Response, WhoInv, CallsWho
  <2> QED
    BY <1>8, <2>1, <2>2 DEF Response, Reads, WhoInv
<1>9. ASSUME NEW p \in Proc, AgentStart(p) PROVE WhoInv'
  <2>1. home[p] \in Session
    BY <1>9 DEF AgentStart, Reads, WhoInv
  <2> QED
    BY <1>9, <2>1, StartsWho DEF AgentStart, Reads, WhoInv, CallsWho, procs
<1>10. ASSUME NEW p \in Proc, AgentSettled(p) PROVE WhoInv'
  BY <1>10, SettleWho DEF AgentSettled, Reads, WhoInv, CallsWho
<1>11. ASSUME NEW p \in Proc, Serve(p) \/ Finish(p) \/ Extension(p) PROVE WhoInv'
  BY <1>11 DEF Serve, Finish, Extension, Says, WhoInv, CallsWho, bridge, procs
<1>12. ASSUME NEW p \in Proc, Dies(p) PROVE WhoInv'
  BY <1>12 DEF Dies, WhoInv, CallsWho, bridge, ProcInv
<1>13. CASE Dispose
  BY <1>13 DEF Dispose, WhoInv, CallsWho, pi
<1>14. CASE UNCHANGED vars
  BY <1>14 DEF vars, bridge, procs, pi, WhoInv, CallsWho
<1> QED
  BY <1>1, <1>2, <1>3, <1>4, <1>5, <1>6, <1>7, <1>8, <1>9, <1>10, <1>11, <1>12, <1>13,
     <1>14 DEF Next

-----------------------------------------------------------------------------
(* What a handler stops.                                                       *)
Spared(s) ==
  s \in busy /\ s \in busy' /\ s \notin odd' /\ proc'[s] = proc[s]
    => (proc[s] \in stopping' => proc[s] \in stopping)

\* The end of a run stops its own process only.
LEMMA SettleSpares ==
  ASSUME ProcInv, WhoInv, NEW s \in Session, NEW t, NEW as, NEW p,
         Settle(t, as, p) \/ NoRunEnds,
         t \in Session => p \in {NoProc, proc[t]}
  PROVE  Spared(s)
<1>1. CASE UNCHANGED stopping
  BY <1>1 DEF Spared
<1>2. CASE /\ t \in busy /\ busy' = busy \ {t}
           /\ stopping' \subseteq stopping \cup ({p} \ {NoProc})
  <2>1. t \in Session
    BY <1>2 DEF WhoInv
  <2>2. t # s /\ proc[s] # NoProc => proc[s] # proc[t]
    BY <2>1 DEF ProcInv
  <2> QED
    BY <1>2, <2>1, <2>2 DEF Spared
<1> QED
  BY <1>1, <1>2 DEF Settle, NoRunEnds, Stop

\* Every step spares every session that stays busy.
LEMMA StepSpares ==
  ASSUME ProcInv, WhoInv, [Next]_vars, NEW s \in Session
  PROVE  Spared(s)
<1>0. CASE UNCHANGED stopping
  BY <1>0 DEF Spared
<1>1. ASSUME NEW c \in Call, TimesOut(c) PROVE Spared(s)
  <2>1. call[c].s \in Session /\ odd' = odd \cup {call[c].s} /\ UNCHANGED proc
    BY <1>1 DEF TimesOut, At, WhoInv, CallsWho, Oddly
  <2>2. CASE Settle(call[c].s, "lost", proc[call[c].s])
    BY <2>1, <2>2, SettleSpares
  <2>3. CASE stopping' \subseteq stopping \cup ({proc[call[c].s]} \ {NoProc})
    <3>1. call[c].s # s /\ proc[s] # NoProc => proc[s] # proc[call[c].s]
      BY <2>1 DEF ProcInv
    <3> QED
      BY <2>1, <2>3, <3>1 DEF Spared
  <2> QED
    BY <1>1, <2>2, <2>3 DEF TimesOut, Stop
<1>2. ASSUME NEW t \in Session, Spawn(t) PROVE Spared(s)
  <2>1. CASE UNCHANGED stopping
    BY <2>1 DEF Spared
  <2>2. ASSUME NEW v \in Victims, Stop({proc[v]}), UNCHANGED busy PROVE Spared(s)
    <3>1. v \in Session /\ v \notin busy
      BY DEF Victims, Taken
    <3>2. v # s /\ proc[s] # NoProc => proc[s] # proc[v]
      BY <3>1 DEF ProcInv
    <3> QED
      BY <2>2, <3>1, <3>2 DEF Spared, Stop
  <2> QED
    BY <1>2, <2>1, <2>2 DEF Spawn, procs
<1>3. ASSUME NEW t \in Session, StartTimesOut(t) PROVE Spared(s)
  <2>1. odd' = odd \cup {t} /\ stopping' = stopping \cup ({proc[t]} \ {NoProc})
    BY <1>3 DEF StartTimesOut, Oddly, Stop
  <2>2. t # s /\ proc[s] # NoProc => proc[s] # proc[t]
    BY DEF ProcInv
  <2> QED
    BY <2>1, <2>2 DEF Spared
<1>4. ASSUME NEW t \in Session, Reap(t) PROVE Spared(s)
  <2>1. t \notin busy /\ stopping' = stopping \cup ({proc[t]} \ {NoProc})
    BY <1>4 DEF Reap, Stop
  <2>2. t # s /\ proc[s] # NoProc => proc[s] # proc[t]
    BY DEF ProcInv
  <2> QED
    BY <2>1, <2>2 DEF Spared
<1>5. CASE Dispose
  <2>1. stopping' = stopping \cup ({proc[t] : t \in Session \ busy} \ {NoProc})
    BY <1>5 DEF Dispose, Stop
  <2>2. \A t \in Session : t # s /\ proc[s] # NoProc => proc[s] # proc[t]
    BY DEF ProcInv
  <2> QED
    BY <2>1, <2>2 DEF Spared
<1>6. ASSUME NEW p \in Proc, Gone(p) PROVE Spared(s)
  <2>1. proc' = [proc EXCEPT ![home[p]] = IF proc[home[p]] = p THEN NoProc ELSE @]
        /\ (Settle(home[p], "lost", proc'[home[p]]) \/ NoRunEnds)
    BY <1>6 DEF Gone
  <2>2. home[p] \in Session => proc'[home[p]] \in {NoProc, proc[home[p]]}
    BY <2>1 DEF ProcInv
  <2> QED
    BY <2>1, <2>2, SettleSpares
<1>7. ASSUME NEW p \in Proc, Response(p) PROVE Spared(s)
  <2>1. \E as \in {"lost", "settled"} : Settle(home[p], as, proc[home[p]]) \/ NoRunEnds
    BY <1>7 DEF Response
  <2> QED
    BY <2>1, SettleSpares
<1>8. ASSUME NEW p \in Proc, AgentSettled(p) PROVE Spared(s)
  BY <1>8, SettleSpares DEF AgentSettled
<1>9. ASSUME NEW p \in Proc,
             AgentStart(p) \/ Serve(p) \/ Finish(p) \/ Extension(p) \/ Dies(p)
      PROVE  UNCHANGED stopping
  BY <1>9 DEF AgentStart, Serve, Finish, Extension, Dies, procs
<1>10. ASSUME NEW c \in Call, Proceed(c) PROVE UNCHANGED stopping
  BY <1>10 DEF Proceed, procs
<1>11. ASSUME NEW c \in Call, NEW t \in Session,
              Create(c, t) \/ Prompt(c, t) \/ Read(c, t) \/ Abort(c, t)
       PROVE  UNCHANGED stopping
  BY <1>11 DEF Create, Prompt, Read, Abort, procs
<1>12. CASE UNCHANGED vars
  BY <1>0, <1>12 DEF vars, procs
<1> QED
  BY <1>0, <1>1, <1>2, <1>3, <1>4, <1>5, <1>6, <1>7, <1>8, <1>9, <1>10, <1>11,
     <1>12 DEF Next

-----------------------------------------------------------------------------
\* Two processes never work on the file of one session, for any number of sessions,
\* calls, starts and crashes.
THEOREM WritersAlone == Spec => []OneWriter
<1>1. ProcInv => OneWriter
  BY DEF ProcInv, OneWriter
<1> QED
  BY <1>1, ProcInit, ProcStep, PTL DEF Spec

\* The bridge never closes the stdin of a process while its session is busy, whatever
\* it starts, evicts, reloads and reaps for other sessions.
THEOREM BusyAreSpared == Spec => SparesBusy
<1>1. ProcInv /\ WhoInv /\ [Next]_vars => ProcInv' /\ WhoInv'
  BY ProcStep, WhoStep
<1>2. ProcInv /\ WhoInv /\ [Next]_vars =>
        [\A s \in Session :
           s \in busy /\ s \in busy' /\ s \notin odd' /\ proc'[s] = proc[s]
             => (proc[s] \in stopping' => proc[s] \in stopping)]_vars
  BY StepSpares DEF Spared
<1> QED
  BY <1>1, <1>2, ProcInit, WhoInit, PTL DEF Spec, SparesBusy

-----------------------------------------------------------------------------
(* The invariant behind RunsAreTrue and EventsOfRun.  A queue holds what is   *)
(* said before it is heard, so the run of a session is in one of a few places *)
(* at a time: as a prompt in stdin, at work, as the line that it is over, as a*)
(* refusal; or it died with its process, or its prompt was never taken.       *)

\* What waits in the queues of p: the places of prompts, of events, of refusals, of the
\* commands of call c and of the answers to it.
Prompts(p) == {i \in DOMAIN stdin[p] : stdin[p][i].type = "prompt"}
Events(p) == {i \in DOMAIN stdout[p] : stdout[p][i].type # "response"}
Refusals(p) ==
  {i \in DOMAIN stdout[p] : stdout[p][i].type = "response" /\ stdout[p][i].ok # "yes"}
CommandsOf(c, p) == {i \in DOMAIN stdin[p] : stdin[p][i].by = c}
RepliesTo(c, p) ==
  {i \in DOMAIN stdout[p] : stdout[p][i].type = "response" /\ stdout[p][i].by = c}

\* What is in the queues of a process is of what it is.
LifeInv ==
  \A p \in Proc :
    /\ life[p] # "up" => stdin[p] = <<>> /\ work[p] = NoRun
    /\ life[p] \in {"unused", "gone"} => stdout[p] = <<>>
    /\ life[p] = "unused" => p \notin stopping

\* A call that waits for a start, or for an answer, has something to wait for; only a
\* prompt has a run.
CallInv ==
  \A c \in Call :
    /\ At(c, "idle") => call[c] = Idle
    /\ At(c, "start") =>
         /\ call[c].s \in Session /\ call[c].run = NoRun
         /\ starting[call[c].s] = "no" => proc[call[c].s] # NoProc
    /\ At(c, "sent") =>
         /\ call[c].p \in Proc /\ home[call[c].p] = call[c].s
         /\ life[call[c].p] \in {"up", "dead"}
         /\ call[c].run \in Run <=> call[c].kind = "prompt"
    /\ call[c].run \in Run => runs[call[c].run] # "none"

\* Of call c nothing is on its way in p; or its command or the answer is, once.
Silent(c, p) == CommandsOf(c, p) = {} /\ RepliesTo(c, p) = {}
Once(c, p) ==
  \/ /\ RepliesTo(c, p) = {}
     /\ \E i \in DOMAIN stdin[p] :
          /\ CommandsOf(c, p) = {i}
          /\ stdin[p][i].type = "prompt" <=> call[c].kind = "prompt"
          /\ stdin[p][i].run = call[c].run
  \/ /\ CommandsOf(c, p) = {}
     /\ \E i \in DOMAIN stdout[p] : RepliesTo(c, p) = {i}
\* What is on its way for a call is where the call waits.
MsgOf(c) ==
  /\ At(c, "start") => \A p \in Proc : Silent(c, p)
  /\ At(c, "sent") => \A p \in Proc : Silent(c, p) \/ (p = call[c].p /\ Once(c, p))
MsgInv == \A c \in Call : MsgOf(c)

\* What is busy has a run that is recorded as running, of its own.
RunIds ==
  /\ \A s \in Session : runId[s] \in Run => runs[runId[s]] # "none"
  /\ \A s \in busy : runId[s] \in Run /\ runs[runId[s]] = "running"
  /\ \A s, t \in busy : s # t => runId[s] # runId[t]

\* startProc waits for the old process only where none can be used.
StartInv == \A s \in Session : starting[s] = "old" => ~Usable(s)

\* Nothing of a run is in p.
Quiet(p) == Prompts(p) = {} /\ work[p] = NoRun /\ Events(p) = {} /\ Refusals(p) = {}

\* c waits for the answer to the prompt that has begun the run of s, in p.
Asks(c, s, p) ==
  /\ c \in Call /\ At(c, "sent") /\ call[c].kind = "prompt"
  /\ call[c].s = s /\ call[c].p = p /\ call[c].run = runId[s]

\* Prompt m waits alone, refusal l is the only one; all events are starts of r; the last
\* one says that r is over.
OnePrompt(p, m) == \E i \in DOMAIN stdin[p] : Prompts(p) = {i} /\ stdin[p][i] = m
OneRefusal(p, l) == \E i \in DOMAIN stdout[p] : Refusals(p) = {i} /\ stdout[p][i] = l
OnlyStarts(p, r) == \A i \in Events(p) : stdout[p][i] = Event("agent_start", r)
Settles(p, r) ==
  \E i \in Events(p) :
    /\ stdout[p][i] = Event("agent_settled", r)
    /\ \A j \in Events(p) \ {i} : j < i /\ stdout[p][j] = Event("agent_start", r)

\* The places of the run of s in its process p.
InStdin(p, s) ==
  /\ work[p] = NoRun /\ Events(p) = {} /\ Refusals(p) = {}
  /\ \E m \in Commands : OnePrompt(p, m) /\ m.run = runId[s] /\ Asks(m.by, s, p)
Working(p, s) ==
  /\ Prompts(p) = {} /\ Refusals(p) = {} /\ work[p] = runId[s]
  /\ OnlyStarts(p, runId[s])
Finished(p, s) ==
  /\ Prompts(p) = {} /\ Refusals(p) = {} /\ work[p] = NoRun
  /\ Settles(p, runId[s])
Declined(p, s) ==
  /\ Prompts(p) = {} /\ Events(p) = {} /\ work[p] = NoRun
  /\ \E l \in Lines : OneRefusal(p, l) /\ Asks(l.by, s, p)
Crashed(p, s) ==
  /\ life[p] = "dead"
  /\ Refusals(p) = {}
  /\ OnlyStarts(p, runId[s])

\* s has no run, has one whose prompt was written where nobody reads it, or has one in
\* its process.
Resting(s) == s \notin busy /\ \A p \in Proc : home[p] = s => Quiet(p)
Lost(s) ==
  /\ s \in busy /\ \A p \in Proc : home[p] = s => Quiet(p)
  /\ \E c \in Call : Asks(c, s, call[c].p) /\ call[c].p \in stopping
                     /\ RepliesTo(c, call[c].p) = {}
Active(s) ==
  /\ s \in busy /\ Usable(s)
  /\ \A p \in Proc \ {proc[s]} : home[p] = s => Quiet(p)
  /\ \A c \in Call : At(c, "sent") /\ call[c].run = runId[s] => call[c].p = proc[s]
  /\ \/ InStdin(proc[s], s) \/ Working(proc[s], s) \/ Finished(proc[s], s)
     \/ Declined(proc[s], s) \/ Crashed(proc[s], s)

RunOf(s) == Resting(s) \/ Lost(s) \/ Active(s)
RunInv == \A s \in Session : Ordinary(s) => RunOf(s)

(* Queues.                                                                   *)

\* What reading the head of a queue, and adding to its end, do to its elements.
LEMMA TailIs ==
  ASSUME NEW S, NEW q \in Seq(S), q # <<>>
  PROVE  /\ Tail(q) \in Seq(S) /\ Head(q) = q[1] /\ 1 \in DOMAIN q /\ q[1] \in S
         /\ \A i \in DOMAIN q : i \in Nat /\ i >= 1 /\ q[i] \in S
         /\ \A i \in DOMAIN Tail(q) : i + 1 \in DOMAIN q /\ i \in Nat /\ i >= 1
                                      /\ Tail(q)[i] = q[i + 1]
         /\ \A i \in DOMAIN q : i # 1 => i - 1 \in DOMAIN Tail(q) /\ Tail(q)[i - 1] = q[i]
BY SMT

LEMMA AppendIs ==
  ASSUME NEW S, NEW q \in Seq(S), NEW m \in S
  PROVE  /\ Append(q, m) \in Seq(S)
         /\ Len(q) + 1 \notin DOMAIN q
         /\ DOMAIN Append(q, m) = DOMAIN q \cup {Len(q) + 1}
         /\ \A i \in DOMAIN q : Append(q, m)[i] = q[i] /\ i < Len(q) + 1
         /\ Append(q, m)[Len(q) + 1] = m
BY SMT

LEMMA ConcatIs ==
  ASSUME NEW S, NEW q \in Seq(S), NEW m \in S
  PROVE  /\ q \o <<m>> = Append(q, m)
         /\ \A n \in S : q \o <<m, n>> = Append(Append(q, m), n)
BY SMT

-----------------------------------------------------------------------------
(* Types.                                                                    *)

\* TypeOK by parts; a prompt that waits has a run.
QueueTypes ==
  /\ stdin \in [Proc -> Seq(Commands)] /\ stdout \in [Proc -> Seq(Lines)]
  /\ work \in [Proc -> Run \cup {NoRun, Own}]
  /\ \A p \in Proc : \A i \in Prompts(p) : stdin[p][i].run \in Run
RunTypes ==
  /\ busy \subseteq Session /\ reload \subseteq busy
  /\ runId \in [Session -> Run \cup {NoRun}]
  /\ runs \in [Run -> {"none", "running", "settled", "lost"}]
RestTypes ==
  /\ known \subseteq Session
  /\ starting \in [Session -> {"no", "old", "answer"}]
  /\ stopping \subseteq Proc /\ odd \subseteq Session
  /\ faults \in 0..MaxFaults
CallTypes == call \in [Call -> Calls]
Types == QueueTypes /\ RunTypes /\ CallTypes /\ RestTypes

\* What the parts of the steps do to the types.
LEMMA BeginTypes ==
  ASSUME CallTypes, NEW c \in Call, NEW s \in Session,
         NEW k \in {"new", "create", "prompt", "abort", "read"},
         Begin(c, k, s, "start")
  PROVE  CallTypes'
BY DEF CallTypes, Calls, Begin

LEMMA SentTypes ==
  ASSUME CallTypes, ProcInv, NEW c \in Call, NEW s \in Session,
         NEW k \in {"new", "create", "prompt", "abort", "read"},
         NEW r \in Run \cup {NoRun}, Sent(c, k, s, r)
  PROVE  CallTypes'
BY DEF CallTypes, Calls, Sent, ProcInv

LEMMA AnsweredTypes ==
  ASSUME CallTypes, NEW C, Answered(C)
  PROVE  CallTypes'
BY DEF CallTypes, Calls, Answered, Idle

LEMMA StartsTypes ==
  ASSUME RunTypes, NEW s \in Session, NEW r \in Run, Starts(s, r), reload' = reload
  PROVE  RunTypes'
BY DEF RunTypes, Starts

LEMMA SettleTypes ==
  ASSUME RunTypes, stopping \subseteq Proc, NEW s, NEW as \in {"lost", "settled"},
         NEW p \in Proc \cup {NoProc},
         Settle(s, as, p) \/ NoRunEnds, runId' = runId
  PROVE  RunTypes' /\ stopping' \subseteq Proc
BY DEF RunTypes, Settle, NoRunEnds, Stop

LEMMA WriteTypes ==
  ASSUME QueueTypes, NEW p \in Proc, NEW c \in Asker, NEW r \in Run \cup {NoRun},
         NEW k \in {"prompt", "abort", "other"}, k = "prompt" => r \in Run,
         Write(p, k, c, r), UNCHANGED <<stdout, work>>
  PROVE  QueueTypes'
<1> DEFINE m == [type |-> k, by |-> c, run |-> r]
<1>1. m \in Commands
  BY DEF Commands
<1>2. stdin' = stdin \/ stdin' = [stdin EXCEPT ![p] = Append(stdin[p], m)]
  BY DEF Write
<1>3. /\ Append(stdin[p], m) \in Seq(Commands)
      /\ DOMAIN Append(stdin[p], m) = DOMAIN stdin[p] \cup {Len(stdin[p]) + 1}
      /\ \A i \in DOMAIN stdin[p] : Append(stdin[p], m)[i] = stdin[p][i]
      /\ Append(stdin[p], m)[Len(stdin[p]) + 1] = m
  BY <1>1, AppendIs DEF QueueTypes
<1> HIDE DEF m
<1>4. \A q \in Proc : stdin'[q] = stdin[q] \/ (q = p /\ stdin'[q] = Append(stdin[p], m))
  BY <1>2 DEF QueueTypes
<1>5. m.type = "prompt" => m.run \in Run
  BY DEF m
<1>6. stdin' \in [Proc -> Seq(Commands)]
  BY <1>2, <1>3 DEF QueueTypes
<1>7. ASSUME NEW q \in Proc, NEW i \in Prompts(q)' PROVE stdin'[q][i].run \in Run
  BY <1>3, <1>4, <1>5 DEF QueueTypes, Prompts
<1> QED
  BY <1>6, <1>7 DEF QueueTypes

LEMMA ReadsTypes ==
  ASSUME QueueTypes, NEW p \in Proc, NEW k, Reads(p, k), UNCHANGED <<stdin, work>>
  PROVE  QueueTypes' /\ Line(p) \in Lines /\ Line(p) = stdout[p][1]
BY TailIs DEF QueueTypes, Reads, Prompts, Line

\* One line or two are said.
LEMMA SaysTypes ==
  ASSUME QueueTypes, NEW p \in Proc, NEW l \in Lines, NEW n \in Lines,
         Says(p, <<l>>) \/ Says(p, <<l, n>>),
         work' \in [Proc -> Run \cup {NoRun, Own}],
         \/ stdin' = stdin
         \/ stdin[p] # <<>> /\ stdin' = [stdin EXCEPT ![p] = Tail(@)]
  PROVE  QueueTypes'
<1>1. stdout' \in [Proc -> Seq(Lines)]
  <2>1. stdout[p] \in Seq(Lines)
    BY DEF QueueTypes
  <2>2. stdout[p] \o <<l>> \in Seq(Lines) /\ stdout[p] \o <<l, n>> \in Seq(Lines)
    BY <2>1
  <2> QED
    BY <2>2 DEF QueueTypes, Says
<1>2. stdin' \in [Proc -> Seq(Commands)]
  <2>1. stdin[p] \in Seq(Commands)
    BY DEF QueueTypes
  <2>2. stdin[p] # <<>> => Tail(stdin[p]) \in Seq(Commands)
    BY <2>1
  <2> QED
    BY <2>2 DEF QueueTypes
<1>3. ASSUME NEW q \in Proc, NEW i \in Prompts(q)' PROVE stdin'[q][i].run \in Run
  <2>1. CASE stdin'[q] = stdin[q]
    BY <2>1, <1>3 DEF QueueTypes, Prompts
  <2>2. CASE q = p /\ stdin[p] # <<>> /\ stdin'[p] = Tail(stdin[p])
    <3>1. i + 1 \in Prompts(p) /\ stdin'[p][i] = stdin[p][i + 1]
      BY <2>2, <1>3, TailIs DEF QueueTypes, Prompts
    <3> QED
      BY <2>2, <3>1 DEF QueueTypes
  <2> QED
    BY <2>1, <2>2 DEF QueueTypes
<1> QED
  BY <1>1, <1>2, <1>3 DEF QueueTypes

\* There are no more faults than may be.
LEMMA FaultTypes ==
  ASSUME MaxFaults \in Nat, faults \in 0..MaxFaults, Fault
  PROVE  faults' \in 0..MaxFaults
BY DEF Fault

\* Whatever a step does, queues, calls and runs are of their types.
LEMMA TypesStep == Types /\ ProcInv /\ WhoInv /\ CallInv /\ [Next]_vars => Types'
<1> SUFFICES ASSUME Types, ProcInv, WhoInv, CallInv, [Next]_vars PROVE Types'
  OBVIOUS
<1> USE DEF Types
<1>a. NoProc \notin Proc /\ (\A s \in Session : proc[s] # NoProc => proc[s] \in Proc)
  BY DEF ProcInv, NoProc, Proc
<1>1. ASSUME NEW c \in Call, NEW s \in Session, Create(c, s) PROVE Types'
  <2>1. CallTypes'
    BY <1>1, BeginTypes DEF Create, Join
  <2>2. RestTypes'
    BY <1>1 DEF Create, Join, RestTypes, procs
  <2>3. QueueTypes' /\ RunTypes'
    BY <1>1 DEF Create, Join, QueueTypes, RunTypes, Prompts, procs
  <2> QED
    BY <2>1, <2>2, <2>3
<1>2. ASSUME NEW c \in Call, NEW s \in Session, NEW k \in {"create", "prompt", "read"},
             Join(c, k, s), UNCHANGED <<known, reload, stopping, stdout, work, odd, faults>>
      PROVE  Types'
  <2>1. CallTypes'
    BY <1>2, BeginTypes DEF Join
  <2>2. RestTypes'
    BY <1>2 DEF Join, RestTypes
  <2>3. QueueTypes' /\ RunTypes'
    BY <1>2 DEF Join, QueueTypes, RunTypes, Prompts
  <2> QED
    BY <2>1, <2>2, <2>3
<1>3. ASSUME NEW c \in Call, NEW s \in Session, proc[s] \in Proc, SendPrompt(c, s),
             UNCHANGED <<known, reload, stopping, stdout, work, odd, faults>>
      PROVE  Types'
  <2>1. PICK r \in Run : Starts(s, r) /\ Write(proc[s], "prompt", c, r)
                         /\ Sent(c, "prompt", s, r)
    BY <1>3 DEF SendPrompt
  <2>2. starting' = starting
    BY <1>3 DEF SendPrompt
  <2> QED
    BY <1>3, <2>1, <2>2, StartsTypes, WriteTypes, SentTypes DEF RestTypes, Asker
<1>4. ASSUME NEW c \in Call, NEW s \in Session, proc[s] \in Proc,
             NEW k \in {"new", "create", "prompt", "abort", "read"}, NEW m \in {"other", "abort"},
             Write(proc[s], m, c, NoRun), Sent(c, k, s, NoRun),
             UNCHANGED <<known, reload, stopping, stdout, work, odd, faults, starting, busy,
                         runId, runs>>
      PROVE  Types'
  BY <1>4, WriteTypes, SentTypes DEF RestTypes, Asker, RunTypes
<1>5. ASSUME NEW C, Answered(C), UNCHANGED <<busy, runId, runs, starting, stdin,
             known, reload, stopping, stdout, work, odd, faults>>
      PROVE  Types'
  BY <1>5, AnsweredTypes DEF RestTypes, RunTypes, QueueTypes, Prompts
<1>6. ASSUME NEW c \in Call, NEW s \in Session, Prompt(c, s) PROVE Types'
  BY <1>6, <1>2, <1>3, <1>5, <1>a DEF Prompt, procs, Usable
<1>7. ASSUME NEW c \in Call, NEW s \in Session, Read(c, s) PROVE Types'
  BY <1>7, <1>2, <1>4, <1>a DEF Read, procs, Usable, Send
<1>8. ASSUME NEW c \in Call, NEW s \in Session, Abort(c, s) PROVE Types'
  BY <1>8, <1>5, <1>4, <1>a DEF Abort, procs
<1>9. ASSUME NEW c \in Call, Proceed(c) PROVE Types'
  <2>1. call[c].s \in Session /\ proc[call[c].s] \in Proc
    BY <1>9, <1>a DEF Proceed, WhoInv, CallsWho, At, CallInv
  <2>2. call[c].kind \in {"new", "create", "prompt", "abort", "read"}
    BY DEF CallTypes, Calls
  <2> QED
    BY <1>9, <1>5, <1>3, <1>4, <2>1, <2>2 DEF Proceed, procs, Send
<1>10. ASSUME NEW C, Failed(C) PROVE CallTypes' /\ known' \subseteq Session
  BY <1>10, AnsweredTypes DEF Failed, RestTypes
<1>11. ASSUME NEW s \in Session, Oddly(s)
       PROVE  faults' \in 0..MaxFaults /\ odd' \subseteq Session
  BY <1>11, FaultTypes, PiBridgeConstants DEF Oddly, RestTypes
<1>12. ASSUME NEW P \in SUBSET (Proc \cup {NoProc}), Stop(P) PROVE stopping' \subseteq Proc
  BY <1>12 DEF Stop, RestTypes
<1>13. ASSUME UNCHANGED pi PROVE QueueTypes'
  BY <1>13 DEF pi, QueueTypes, Prompts
<1>14. ASSUME NEW c \in Call, TimesOut(c) PROVE Types'
  <2>1. call[c].s \in Session
    BY <1>14 DEF TimesOut, WhoInv, CallsWho, At
  <2>2. CallTypes' /\ known' \subseteq Session /\ QueueTypes'
        /\ faults' \in 0..MaxFaults /\ odd' \subseteq Session
        /\ UNCHANGED <<starting, runId>>
    BY <1>14, <1>10, <1>11, <1>13, <2>1 DEF TimesOut
  <2>3. RunTypes' /\ stopping' \subseteq Proc
    <3>1. CASE Settle(call[c].s, "lost", proc[call[c].s])
      BY <1>14, <2>1, <2>2, <3>1, SettleTypes, <1>a DEF TimesOut, RestTypes, ProcInv
    <3>2. CASE /\ Stop(IF call[c].kind = "create" THEN {proc[call[c].s]} ELSE {})
               /\ UNCHANGED <<busy, runs, reload>>
      <4>1. proc[call[c].s] \in Proc \cup {NoProc}
        BY <2>1 DEF ProcInv
      <4> QED
        BY <2>2, <3>2, <4>1, <1>12 DEF RunTypes
    <3> QED
      BY <1>14, <3>1, <3>2 DEF TimesOut
  <2> QED
    BY <2>2, <2>3 DEF RestTypes
<1>15. ASSUME NEW s \in Session, Spawn(s) PROVE Types'
  <2>1. UNCHANGED <<busy, runId, reload, runs, stdout, work, odd, faults>>
    BY <1>15 DEF Spawn
  <2>2. CallTypes' /\ known' \subseteq Session
    BY <1>15, <1>10 DEF Spawn, RestTypes, CallTypes
  <2>3. starting' \in [Session -> {"no", "old", "answer"}]
    BY <1>15 DEF Spawn, RestTypes
  <2>4. stopping' \subseteq Proc
    <3>1. \A v \in Victims : {proc[v]} \in SUBSET (Proc \cup {NoProc})
      BY DEF Victims, Taken, ProcInv
    <3> QED
      BY <1>15, <3>1, <1>12 DEF Spawn, procs, RestTypes
  <2>5. QueueTypes'
    <3>1. CASE stdin' = stdin
      BY <2>1, <3>1 DEF QueueTypes, Prompts
    <3>2. ASSUME NEW p \in Proc,
                 stdin' = [stdin EXCEPT ![p] = <<[type |-> "other", by |-> Starter,
                                                  run |-> NoRun]>>]
          PROVE  QueueTypes'
      <4>1. [type |-> "other", by |-> Starter, run |-> NoRun] \in Commands
        BY DEF Commands, Asker
      <4>2. stdin' \in [Proc -> Seq(Commands)]
        BY <3>2, <4>1 DEF QueueTypes
      <4>3. \A q \in Proc : \A i \in Prompts(q)' : q # p /\ i \in Prompts(q)
        BY <3>2 DEF QueueTypes, Prompts
      <4> QED
        BY <2>1, <3>2, <4>2, <4>3 DEF QueueTypes
    <3> QED
      BY <1>15, <3>1, <3>2 DEF Spawn
  <2> QED
    BY <2>1, <2>2, <2>3, <2>4, <2>5 DEF RestTypes, RunTypes
<1>16. ASSUME NEW s \in Session, StartTimesOut(s) PROVE Types'
  <2>1. CallTypes' /\ known' \subseteq Session /\ QueueTypes'
        /\ faults' \in 0..MaxFaults /\ odd' \subseteq Session
    BY <1>16, <1>10, <1>11, <1>13 DEF StartTimesOut
  <2>2. stopping' \subseteq Proc
    BY <1>16, <1>12 DEF StartTimesOut, ProcInv
  <2>3. starting' \in [Session -> {"no", "old", "answer"}] /\ RunTypes'
    BY <1>16 DEF StartTimesOut, RestTypes, RunTypes
  <2> QED
    BY <2>1, <2>2, <2>3 DEF RestTypes
<1>17. CASE Dispose
  <2>1. stopping' \subseteq Proc
    <3>1. {proc[s] : s \in Session \ busy} \in SUBSET (Proc \cup {NoProc})
      BY DEF ProcInv
    <3> QED
      BY <1>17, <3>1, <1>12 DEF Dispose
  <2> QED
    BY <1>17, <2>1, <1>13 DEF Dispose, RestTypes, RunTypes, CallTypes
<1>18. ASSUME NEW s \in Session, Reap(s) PROVE Types'
  <2>1. stopping' \subseteq Proc
    BY <1>18, <1>12 DEF Reap, ProcInv
  <2> QED
    BY <1>18, <2>1, <1>13 DEF Reap, bridge, RestTypes, RunTypes, CallTypes
<1>19. ASSUME NEW p \in Proc, Gone(p) PROVE Types'
  <2>1. home[p] \in Session
    BY <1>19 DEF Gone, WhoInv
  <2>2. CallTypes' /\ known' \subseteq Session /\ QueueTypes'
        /\ UNCHANGED <<runId, odd, faults>>
    BY <1>19, <1>10, <1>13 DEF Gone
  <2>3. starting' \in [Session -> {"no", "old", "answer"}]
    BY <1>19 DEF Gone, RestTypes
  <2>4. proc'[home[p]] \in Proc \cup {NoProc}
    BY <1>19, <2>1 DEF Gone, ProcInv
  <2>5. RunTypes' /\ stopping' \subseteq Proc
    BY <1>19, <2>2, <2>4, SettleTypes DEF Gone, RestTypes
  <2> QED
    BY <2>2, <2>3, <2>5 DEF RestTypes
<1>20. ASSUME NEW p \in Proc, Response(p) PROVE Types'
  <2>1. home[p] \in Session /\ proc[home[p]] \in Proc \cup {NoProc}
    BY <1>20 DEF Response, Reads, WhoInv, ProcInv
  <2>2. QueueTypes' /\ UNCHANGED <<known, runId, odd, faults>>
    BY <1>20, ReadsTypes DEF Response
  <2>3. CallTypes'
    BY <1>20, AnsweredTypes DEF Response, CallTypes
  <2>4. starting' \in [Session -> {"no", "old", "answer"}]
    BY <1>20 DEF Response, RestTypes
  <2>5. RunTypes' /\ stopping' \subseteq Proc
    BY <1>20, <2>1, <2>2, SettleTypes DEF Response, RestTypes
  <2> QED
    BY <2>2, <2>3, <2>4, <2>5 DEF RestTypes
<1>21. ASSUME NEW p \in Proc, AgentStart(p) PROVE Types'
  <2>1. home[p] \in Session
    BY <1>21 DEF AgentStart, Reads, WhoInv
  <2>2. QueueTypes'
    BY <1>21, ReadsTypes DEF AgentStart
  <2>3. RunTypes'
    BY <1>21, <2>1, StartsTypes DEF AgentStart, RunTypes
  <2> QED
    BY <1>21, <2>2, <2>3 DEF AgentStart, RestTypes, CallTypes, procs
<1>22. ASSUME NEW p \in Proc, AgentSettled(p) PROVE Types'
  <2>1. home[p] \in Session /\ proc[home[p]] \in Proc \cup {NoProc}
    BY <1>22 DEF AgentSettled, Reads, WhoInv, ProcInv
  <2>2. QueueTypes' /\ UNCHANGED <<known, runId, odd, faults, call, starting>>
    BY <1>22, ReadsTypes DEF AgentSettled
  <2>3. RunTypes' /\ stopping' \subseteq Proc
    BY <1>22, <2>1, <2>2, SettleTypes DEF AgentSettled, RestTypes
  <2> QED
    BY <2>2, <2>3 DEF RestTypes, CallTypes
<1>23. ASSUME NEW p \in Proc, Serve(p) PROVE Types'
  <2> DEFINE m == Head(stdin[p])
  <2>1. m \in Commands /\ m = stdin[p][1] /\ (m.type = "prompt" => m.run \in Run)
    BY <1>23, TailIs DEF Serve, QueueTypes, Prompts
  <2>2. /\ \A ok \in {"yes", "no", "handled"} : Reply(m.by, ok) \in Lines
        /\ \A r \in Run \cup {Own} : /\ Event("agent_start", r) \in Lines
                                     /\ Event("agent_settled", r) \in Lines
    BY <2>1 DEF Reply, Event, Lines, Commands
  <2>3. work[p] \in Run \cup {NoRun, Own}
    BY DEF QueueTypes
  <2>4. /\ \E l, n \in Lines : Says(p, <<l>>) \/ Says(p, <<l, n>>)
        /\ work' \in [Proc -> Run \cup {NoRun, Own}]
    <3> HIDE DEF m
    <3>1. CASE m.type = "other" /\ Says(p, <<Reply(m.by, "yes")>>) /\ UNCHANGED work
      BY <2>2, <3>1 DEF QueueTypes
    <3>2. CASE /\ Says(p, IF work[p] = NoRun THEN <<Reply(m.by, "yes")>>
                          ELSE <<Event("agent_settled", work[p]), Reply(m.by, "yes")>>)
               /\ work' = [work EXCEPT ![p] = NoRun]
      BY <2>2, <2>3, <3>2 DEF QueueTypes
    <3>3. CASE /\ m.type = "prompt"
               /\ \E first \in BOOLEAN :
                    Says(p, IF first THEN <<Reply(m.by, "yes"), Event("agent_start", m.run)>>
                            ELSE <<Event("agent_start", m.run), Reply(m.by, "yes")>>)
               /\ work' = [work EXCEPT ![p] = m.run]
      BY <2>1, <2>2, <3>3 DEF QueueTypes
    <3>4. CASE /\ \E ok \in {"no", "handled"} : Says(p, <<Reply(m.by, ok)>>)
               /\ UNCHANGED work
      BY <2>2, <3>4 DEF QueueTypes
    <3> QED
      BY <1>23, <3>1, <3>2, <3>3, <3>4 DEF Serve, m
  <2>5. QueueTypes'
    BY <1>23, <2>4, SaysTypes DEF Serve
  <2> QED
    BY <1>23, <2>5 DEF Serve, bridge, procs, RestTypes, RunTypes, CallTypes
<1>24. ASSUME NEW p \in Proc, Finish(p) \/ Extension(p) PROVE Types'
  <2>1. QueueTypes'
    <3>1. /\ \A r \in Run \cup {Own} : /\ Event("agent_start", r) \in Lines
                                       /\ Event("agent_settled", r) \in Lines
      BY DEF Event, Lines
    <3>2. \E l \in Lines : Says(p, <<l>>)
      BY <1>24, <3>1 DEF Finish, Extension, QueueTypes
    <3>3. work' \in [Proc -> Run \cup {NoRun, Own}] /\ stdin' = stdin
      BY <1>24 DEF Finish, Extension, QueueTypes
    <3> QED
      BY <3>2, <3>3, SaysTypes
  <2>2. odd' \subseteq Session /\ faults' \in 0..MaxFaults
    BY <1>24, <1>11 DEF Finish, Extension, RestTypes, ProcInv
  <2> QED
    BY <1>24, <2>1, <2>2 DEF Finish, Extension, bridge, procs, RestTypes, RunTypes, CallTypes
<1>25. ASSUME NEW p \in Proc, Dies(p) PROVE Types'
  <2>1. QueueTypes'
    BY <1>25 DEF Dies, QueueTypes, Prompts
  <2>2. faults' \in 0..MaxFaults
    BY <1>25, FaultTypes, PiBridgeConstants DEF Dies, RestTypes
  <2> QED
    BY <1>25, <2>1, <2>2 DEF Dies, bridge, RestTypes, RunTypes, CallTypes
<1>26. CASE UNCHANGED vars
  BY <1>26, <1>13 DEF vars, bridge, procs, RestTypes, RunTypes, CallTypes
<1> QED
  BY <1>1, <1>6, <1>7, <1>8, <1>9, <1>14, <1>15, <1>16, <1>17, <1>18, <1>19, <1>20,
     <1>21, <1>22, <1>23, <1>24, <1>25, <1>26 DEF Next

\* Nothing of what RunInv says of the queues of p changes.
Alike(p) ==
  /\ work'[p] = work[p]
  /\ Prompts(p) = {} => Prompts(p)' = {}
  /\ Events(p) = {} => Events(p)' = {}
  /\ Refusals(p) = {} => Refusals(p)' = {}
  /\ \A m \in Commands : OnePrompt(p, m) => OnePrompt(p, m)'
  /\ \A l \in Lines : OneRefusal(p, l) => OneRefusal(p, l)'
  /\ \A r \in Run : /\ OnlyStarts(p, r) => OnlyStarts(p, r)'
                    /\ Settles(p, r) => Settles(p, r)'

\* What is quiet stays so, and nobody is answered who has not asked.
Mild(p) ==
  /\ Quiet(p) => Quiet(p)'
  /\ \A c \in Call : Silent(c, p) => RepliesTo(c, p)' = {}

\* The two go together where nobody is answered.
LEMMA AlikeIsMild ==
  ASSUME NEW p, Alike(p), \A c \in Call : Silent(c, p) => RepliesTo(c, p)' = {}
  PROVE  Mild(p)
BY DEF Alike, Mild, Quiet

\* What does not move stays.
LEMMA SameIsAlike ==
  ASSUME NEW p \in Proc, stdin'[p] = stdin[p], stdout'[p] = stdout[p], work'[p] = work[p]
  PROVE  Alike(p) /\ Mild(p)
BY DEF Alike, Mild, Quiet, Prompts, Events, Refusals, OnePrompt, OneRefusal, OnlyStarts,
       Settles, RepliesTo, Silent

\* A command that is not a prompt comes into the queue.
LEMMA AddIsAlike ==
  ASSUME QueueTypes, NEW p \in Proc, NEW m \in Commands, m.type # "prompt",
         stdin'[p] = Append(stdin[p], m), stdout'[p] = stdout[p], work'[p] = work[p]
  PROVE  Alike(p) /\ Mild(p)
<1>1. Prompts(p)' = Prompts(p)
      /\ \A i \in Prompts(p) : stdin'[p][i] = stdin[p][i] /\ i \in DOMAIN stdin'[p]
  BY AppendIs DEF QueueTypes, Prompts
<1>2. \A n \in Commands : OnePrompt(p, n) => OnePrompt(p, n)'
  BY <1>1 DEF OnePrompt
<1> QED
  BY <1>1, <1>2 DEF Alike, Mild, Quiet, Events, Refusals, OneRefusal, OnlyStarts,
       Settles, RepliesTo, Silent

\* The queues without their heads.
LEMMA StdinTail ==
  ASSUME QueueTypes, NEW p \in Proc, stdin[p] # <<>>, stdin'[p] = Tail(stdin[p])
  PROVE  /\ \A i \in DOMAIN stdin[p] : i \in Nat /\ i >= 1
         /\ \A i \in DOMAIN stdin'[p] : /\ i \in Nat /\ i >= 1 /\ i + 1 \in DOMAIN stdin[p]
                                        /\ stdin'[p][i] = stdin[p][i + 1]
         /\ \A i \in DOMAIN stdin[p] : i # 1 => /\ i - 1 \in DOMAIN stdin'[p]
                                                /\ stdin'[p][i - 1] = stdin[p][i]
         /\ 1 \in DOMAIN stdin[p] /\ Head(stdin[p]) = stdin[p][1]
BY TailIs DEF QueueTypes

LEMMA StdoutTail ==
  ASSUME QueueTypes, NEW p \in Proc, stdout[p] # <<>>, stdout'[p] = Tail(stdout[p])
  PROVE  /\ \A i \in DOMAIN stdout[p] : i \in Nat /\ i >= 1
         /\ \A i \in DOMAIN stdout'[p] : /\ i \in Nat /\ i >= 1 /\ i + 1 \in DOMAIN stdout[p]
                                         /\ stdout'[p][i] = stdout[p][i + 1]
         /\ \A i \in DOMAIN stdout[p] : i # 1 => /\ i - 1 \in DOMAIN stdout'[p]
                                                 /\ stdout'[p][i - 1] = stdout[p][i]
         /\ 1 \in DOMAIN stdout[p] /\ Line(p) = stdout[p][1]
BY TailIs DEF QueueTypes, Line

\* An answer that is not a refusal, or the start of a run, is read.
LEMMA ReadIsAlike ==
  ASSUME QueueTypes, NEW p \in Proc, stdout[p] # <<>>, stdout'[p] = Tail(stdout[p]),
         stdin'[p] = stdin[p], work'[p] = work[p],
         \/ Line(p).type = "response" /\ Line(p).ok = "yes"
         \/ Line(p).type = "agent_start"
  PROVE  Alike(p) /\ Mild(p)
<1> USE StdoutTail
<1>1. /\ \A i \in Events(p)' : i + 1 \in Events(p)
      /\ \A i \in Refusals(p)' : i + 1 \in Refusals(p)
      /\ \A c \in Call : \A i \in RepliesTo(c, p)' : i + 1 \in RepliesTo(c, p)
  BY DEF Events, Refusals, RepliesTo
<1>2. 1 \notin Refusals(p)
  BY DEF Refusals
<1>3. \A l \in Lines : OneRefusal(p, l) => OneRefusal(p, l)'
  <2> SUFFICES ASSUME NEW l \in Lines, NEW i \in DOMAIN stdout[p],
                      Refusals(p) = {i}, stdout[p][i] = l
               PROVE  OneRefusal(p, l)'
    BY DEF OneRefusal
  <2>1. i # 1 /\ i - 1 \in DOMAIN stdout'[p] /\ stdout'[p][i - 1] = l
    BY <1>2
  <2>2. i - 1 \in Refusals(p)'
    BY <2>1 DEF Refusals
  <2>3. \A j \in Refusals(p)' : j = i - 1
    <3> SUFFICES ASSUME NEW j \in Refusals(p)' PROVE j = i - 1
      OBVIOUS
    <3>1. j + 1 = i /\ j \in Nat
      BY <1>1 DEF Refusals
    <3> QED
      BY <3>1
  <2> QED
    BY <2>1, <2>2, <2>3 DEF OneRefusal
<1>4. \A r \in Run : OnlyStarts(p, r) => OnlyStarts(p, r)'
  BY <1>1 DEF OnlyStarts, Events
<1>5. ASSUME NEW r \in Run, Settles(p, r) PROVE Settles(p, r)'
  <2>1. PICK i \in Events(p) :
          /\ stdout[p][i] = Event("agent_settled", r)
          /\ \A j \in Events(p) \ {i} : j < i /\ stdout[p][j] = Event("agent_start", r)
    BY <1>5 DEF Settles
  <2>2. i # 1
    BY <2>1 DEF Event
  <2>3. i - 1 \in Events(p)' /\ stdout'[p][i - 1] = Event("agent_settled", r)
    BY <2>1, <2>2 DEF Events
  <2>4. ASSUME NEW j \in Events(p)', j # i - 1
        PROVE  j < i - 1 /\ stdout'[p][j] = Event("agent_start", r)
    <3>1. j \in Nat /\ i \in Nat /\ j + 1 # i /\ stdout'[p][j] = stdout[p][j + 1]
      BY <2>4 DEF Events
    <3>2. j + 1 < i /\ stdout[p][j + 1] = Event("agent_start", r)
      BY <1>1, <2>1, <3>1
    <3>3. j < i - 1
      BY <3>1, <3>2
    <3> QED
      BY <3>1, <3>2, <3>3
  <2> QED
    BY <2>3, <2>4 DEF Settles
<1>6. \A m \in Commands : OnePrompt(p, m) => OnePrompt(p, m)'
  BY DEF OnePrompt, Prompts
<1>7. Alike(p)
  <2>1. Prompts(p)' = Prompts(p)
    BY DEF Prompts
  <2>2. (Events(p) = {} => Events(p)' = {}) /\ (Refusals(p) = {} => Refusals(p)' = {})
    BY <1>1
  <2> QED
    BY <1>3, <1>4, <1>5, <1>6, <2>1, <2>2 DEF Alike
<1>8. \A c \in Call : Silent(c, p) => RepliesTo(c, p)' = {}
  BY <1>1 DEF Silent
<1> QED
  BY <1>7, <1>8, AlikeIsMild

\* A line comes into the queue.
LEMMA StdoutAdd ==
  ASSUME QueueTypes, NEW p \in Proc, NEW l \in Lines, stdout'[p] = Append(stdout[p], l)
  PROVE  /\ Len(stdout[p]) + 1 \notin DOMAIN stdout[p]
         /\ DOMAIN stdout'[p] = DOMAIN stdout[p] \cup {Len(stdout[p]) + 1}
         /\ \A i \in DOMAIN stdout[p] : stdout'[p][i] = stdout[p][i] /\ i < Len(stdout[p]) + 1
         /\ stdout'[p][Len(stdout[p]) + 1] = l
BY AppendIs DEF QueueTypes

\* What the other end of stdin does with the head of the queue.
LEMMA TakenPrompts ==
  ASSUME QueueTypes, NEW p \in Proc, stdin[p] # <<>>, stdin'[p] = Tail(stdin[p])
  PROVE  /\ \A i \in Prompts(p)' : i + 1 \in Prompts(p)
         /\ Head(stdin[p]).type # "prompt" =>
              \A m \in Commands : OnePrompt(p, m) => OnePrompt(p, m)'
<1> USE StdinTail
<1>1. \A i \in Prompts(p)' : i + 1 \in Prompts(p)
  BY DEF Prompts
<1>2. ASSUME Head(stdin[p]).type # "prompt", NEW m \in Commands, OnePrompt(p, m)
      PROVE  OnePrompt(p, m)'
  <2>1. PICK i \in DOMAIN stdin[p] : Prompts(p) = {i} /\ stdin[p][i] = m
    BY <1>2 DEF OnePrompt
  <2>2. i # 1 /\ i - 1 \in DOMAIN stdin'[p] /\ stdin'[p][i - 1] = m
    <3>1. i \in Prompts(p)
      BY <2>1
    <3>2. stdin[p][i].type = "prompt"
      BY <3>1 DEF Prompts
    <3>3. i # 1
      BY <1>2, <3>2
    <3> QED
      BY <2>1, <3>3
  <2>3. i - 1 \in Prompts(p)'
    BY <2>1, <2>2 DEF Prompts
  <2>4. ASSUME NEW j \in Prompts(p)' PROVE j = i - 1
    <3>1. j + 1 = i /\ j \in Nat
      BY <1>1, <2>1 DEF Prompts
    <3> QED
      BY <3>1
  <2> QED
    BY <2>2, <2>3, <2>4 DEF OnePrompt
<1> QED
  BY <1>1, <1>2

\* A command that is not a prompt is answered, and nothing else happens.
LEMMA AnswerIsAlike ==
  ASSUME QueueTypes, NEW p \in Proc, NEW c \in Asker, stdin[p] # <<>>,
         stdin'[p] = Tail(stdin[p]), stdout'[p] = Append(stdout[p], Reply(c, "yes")),
         work'[p] = work[p], Head(stdin[p]).type # "prompt", c = Head(stdin[p]).by
  PROVE  Alike(p) /\ Mild(p)
<1> DEFINE n == Len(stdout[p]) + 1
<1>1. Reply(c, "yes") \in Lines
  BY DEF Reply, Lines
<1>2. /\ n \notin DOMAIN stdout[p] /\ DOMAIN stdout'[p] = DOMAIN stdout[p] \cup {n}
      /\ \A i \in DOMAIN stdout[p] : stdout'[p][i] = stdout[p][i]
      /\ stdout'[p][n] = Reply(c, "yes")
  BY <1>1, StdoutAdd
<1> HIDE DEF n
<1>3. Events(p)' = Events(p) /\ Refusals(p)' = Refusals(p)
  BY <1>2 DEF Events, Refusals, Reply
<1>4. \A d \in Call : d # c => RepliesTo(d, p)' = RepliesTo(d, p)
  BY <1>2 DEF RepliesTo, Reply
<1>5. Alike(p)
  <2>1. \A i \in Events(p) \cup Refusals(p) :
          i \in DOMAIN stdout'[p] /\ stdout'[p][i] = stdout[p][i]
    BY <1>2 DEF Events, Refusals
  <2>2. \A l \in Lines : OneRefusal(p, l) => OneRefusal(p, l)'
    BY <1>2, <1>3 DEF OneRefusal
  <2>3. \A r \in Run : /\ OnlyStarts(p, r) => OnlyStarts(p, r)'
                       /\ Settles(p, r) => Settles(p, r)'
    BY <1>3, <2>1 DEF OnlyStarts, Settles
  <2> QED
    BY <1>3, <2>2, <2>3, TakenPrompts DEF Alike
<1>6. \A d \in Call : Silent(d, p) => d # c
  BY StdinTail DEF Silent, CommandsOf
<1> QED
  BY <1>4, <1>5, <1>6, AlikeIsMild DEF Silent

\* Two lines come into the queue.
LEMMA StdoutAddTwo ==
  ASSUME QueueTypes, NEW p \in Proc, NEW l \in Lines, NEW m \in Lines,
         Says(p, <<l, m>>)
  PROVE  \E n, k \in DOMAIN stdout'[p] \ DOMAIN stdout[p] :
           /\ n # k /\ \A i \in DOMAIN stdout'[p] : i \in DOMAIN stdout[p] \/ i = n \/ i = k
           /\ \A i \in DOMAIN stdout[p] : /\ i \in DOMAIN stdout'[p] /\ i < n
                                         /\ stdout'[p][i] = stdout[p][i]
           /\ stdout'[p][n] = l /\ stdout'[p][k] = m
<1> DEFINE q == Append(stdout[p], l)
<1>1. stdout[p] \in Seq(Lines)
  BY DEF QueueTypes
<1>2. q \in Seq(Lines) /\ Len(q) = Len(stdout[p]) + 1 /\ stdout'[p] = Append(q, m)
  <2>1. stdout'[p] = stdout[p] \o <<l, m>>
    BY DEF Says, QueueTypes
  <2> QED
    BY <1>1, <2>1, ConcatIs
<1>3. /\ DOMAIN q = DOMAIN stdout[p] \cup {Len(q)} /\ Len(q) \notin DOMAIN stdout[p]
      /\ \A i \in DOMAIN stdout[p] : q[i] = stdout[p][i] /\ i < Len(q)
      /\ q[Len(q)] = l
  BY <1>1, <1>2, AppendIs
<1> HIDE DEF q
<1>4. /\ DOMAIN stdout'[p] = DOMAIN q \cup {Len(q) + 1} /\ Len(q) + 1 \notin DOMAIN q
      /\ \A i \in DOMAIN q : stdout'[p][i] = q[i]
      /\ stdout'[p][Len(q) + 1] = m
  <2>1. /\ Len(q) + 1 \notin DOMAIN q
        /\ DOMAIN Append(q, m) = DOMAIN q \cup {Len(q) + 1}
        /\ \A i \in DOMAIN q : Append(q, m)[i] = q[i]
        /\ Append(q, m)[Len(q) + 1] = m
    BY <1>2, AppendIs
  <2> QED
    BY <1>2, <2>1
<1>5. Len(q) \in Nat /\ Len(q) # Len(q) + 1
  BY <1>2
<1> QED
  BY <1>3, <1>4, <1>5

\* c is answered in p, and nobody else.
Answers(p, c, ok) ==
  \E n \in DOMAIN stdout'[p] \ DOMAIN stdout[p] :
    /\ stdout'[p][n] = Reply(c, ok)
    /\ \A i \in DOMAIN stdout[p] : i \in DOMAIN stdout'[p] /\ stdout'[p][i] = stdout[p][i]
    /\ \A i \in DOMAIN stdout'[p] \ DOMAIN stdout[p] :
         i = n \/ stdout'[p][i].type # "response"
\* Nobody is.
Tells(p) ==
  /\ \A i \in DOMAIN stdout[p] : i \in DOMAIN stdout'[p] /\ stdout'[p][i] = stdout[p][i]
  /\ \A i \in DOMAIN stdout'[p] \ DOMAIN stdout[p] : stdout'[p][i].type # "response"

\* How Serve answers.
LEMMA AnswersWith ==
  ASSUME QueueTypes, NEW p \in Proc, NEW c \in Asker, NEW ok \in {"yes", "no", "handled"},
         NEW l \in Lines, l.type # "response",
         \/ Says(p, <<Reply(c, ok)>>)
         \/ Says(p, <<Reply(c, ok), l>>)
         \/ Says(p, <<l, Reply(c, ok)>>)
  PROVE  Answers(p, c, ok)
<1> DEFINE r == Reply(c, ok)
<1>1. r \in Lines
  BY DEF Reply, Lines
<1> HIDE DEF r
<1>2. CASE Says(p, <<r>>)
  <2>1. stdout'[p] = Append(stdout[p], r)
    BY <1>1, <1>2, ConcatIs DEF Says, QueueTypes
  <2> QED
    BY <1>1, <2>1, StdoutAdd DEF Answers, r
<1>3. CASE Says(p, <<r, l>>)
  <2>2. PICK n, k \in DOMAIN stdout'[p] \ DOMAIN stdout[p] :
           /\ n # k /\ \A i \in DOMAIN stdout'[p] : i \in DOMAIN stdout[p] \/ i = n \/ i = k
           /\ \A i \in DOMAIN stdout[p] : /\ i \in DOMAIN stdout'[p] /\ i < n
                                         /\ stdout'[p][i] = stdout[p][i]
           /\ stdout'[p][n] = r /\ stdout'[p][k] = l
    BY <1>1, <1>3, StdoutAddTwo
  <2> QED
    BY <2>2 DEF Answers, r
<1>4. CASE Says(p, <<l, r>>)
  <2>2. PICK n, k \in DOMAIN stdout'[p] \ DOMAIN stdout[p] :
           /\ n # k /\ \A i \in DOMAIN stdout'[p] : i \in DOMAIN stdout[p] \/ i = n \/ i = k
           /\ \A i \in DOMAIN stdout[p] : /\ i \in DOMAIN stdout'[p] /\ i < n
                                         /\ stdout'[p][i] = stdout[p][i]
           /\ stdout'[p][n] = l /\ stdout'[p][k] = r
    BY <1>1, <1>4, StdoutAddTwo
  <2> QED
    BY <2>2 DEF Answers, r
<1> QED
  BY <1>2, <1>3, <1>4 DEF r

\* Of the messages of call c in p: none comes up, one goes on its way.
Carried(c, p) ==
  /\ Silent(c, p) => Silent(c, p)'
  /\ Once(c, p) => Once(c, p)' \/ Silent(c, p)'

\* Nothing moves; the process dies; another command comes in.
LEMMA SameCarries ==
  ASSUME NEW p \in Proc, NEW c \in Call, stdin'[p] = stdin[p], stdout'[p] = stdout[p],
         call'[c] = call[c]
  PROVE  Carried(c, p)
BY DEF Carried, Silent, Once, CommandsOf, RepliesTo

LEMMA EmptyCarries ==
  ASSUME NEW p \in Proc, NEW c \in Call, stdin'[p] = <<>>, stdout'[p] = stdout[p],
         call'[c] = call[c]
  PROVE  Carried(c, p)
<1>1. CommandsOf(c, p)' = {}
  BY DEF CommandsOf
<1>2. RepliesTo(c, p)' = RepliesTo(c, p)
  BY DEF RepliesTo
<1> QED
  BY <1>1, <1>2 DEF Carried, Silent, Once

LEMMA AddCarries ==
  ASSUME QueueTypes, NEW p \in Proc, NEW c \in Call, NEW m \in Commands, m.by # c,
         stdin'[p] = Append(stdin[p], m), stdout'[p] = stdout[p], call'[c] = call[c]
  PROVE  Carried(c, p)
<1>1. /\ CommandsOf(c, p)' = CommandsOf(c, p)
      /\ \A i \in CommandsOf(c, p) : stdin'[p][i] = stdin[p][i] /\ i \in DOMAIN stdin'[p]
  BY AppendIs DEF QueueTypes, CommandsOf
<1>2. RepliesTo(c, p)' = RepliesTo(c, p)
  BY DEF RepliesTo
<1> QED
  BY <1>1, <1>2 DEF Carried, Silent, Once

\* An event comes out; a line is read; a command is served.
LEMMA TellCarries ==
  ASSUME NEW p \in Proc, NEW c \in Call, Tells(p), stdin'[p] = stdin[p], call'[c] = call[c]
  PROVE  Carried(c, p)
<1>1. RepliesTo(c, p)' = RepliesTo(c, p)
  BY DEF Tells, RepliesTo
<1>2. \A i \in RepliesTo(c, p) : i \in DOMAIN stdout'[p]
  BY DEF Tells, RepliesTo
<1>3. CommandsOf(c, p)' = CommandsOf(c, p)
  BY DEF CommandsOf
<1> QED
  BY <1>1, <1>2, <1>3 DEF Carried, Silent, Once

LEMMA ReadCarries ==
  ASSUME QueueTypes, NEW p \in Proc, NEW c \in Call, stdout[p] # <<>>,
         stdout'[p] = Tail(stdout[p]), stdin'[p] = stdin[p], call'[c] = call[c]
  PROVE  Carried(c, p)
<1> USE StdoutTail
<1>1. /\ \A i \in RepliesTo(c, p)' : i + 1 \in RepliesTo(c, p)
      /\ \A i \in RepliesTo(c, p) : i # 1 => i - 1 \in RepliesTo(c, p)'
  BY DEF RepliesTo
<1>2. CommandsOf(c, p)' = CommandsOf(c, p)
  BY DEF CommandsOf
<1>3. RepliesTo(c, p) = {} => RepliesTo(c, p)' = {}
  BY <1>1
<1>4. ASSUME NEW i \in DOMAIN stdout[p], RepliesTo(c, p) = {i}
      PROVE  RepliesTo(c, p)' = {} \/ \E j \in DOMAIN stdout'[p] : RepliesTo(c, p)' = {j}
  <2>1. \A j \in RepliesTo(c, p)' : j + 1 = i /\ j \in Nat /\ j \in DOMAIN stdout'[p]
    BY <1>1, <1>4 DEF RepliesTo
  <2>2. \A j \in RepliesTo(c, p)' : j = i - 1
    BY <2>1
  <2> QED
    BY <2>1, <2>2
<1> QED
  BY <1>2, <1>3, <1>4 DEF Carried, Silent, Once

LEMMA ServeCarries ==
  ASSUME QueueTypes, NEW p \in Proc, NEW c \in Call, stdin[p] # <<>>,
         stdin'[p] = Tail(stdin[p]), NEW ok, Answers(p, Head(stdin[p]).by, ok),
         call'[c] = call[c]
  PROVE  Carried(c, p)
<1> DEFINE d == Head(stdin[p]).by
<1>1. PICK n \in DOMAIN stdout'[p] \ DOMAIN stdout[p] :
        /\ stdout'[p][n] = Reply(d, ok)
        /\ \A i \in DOMAIN stdout[p] : i \in DOMAIN stdout'[p] /\ stdout'[p][i] = stdout[p][i]
        /\ \A i \in DOMAIN stdout'[p] \ DOMAIN stdout[p] :
             i = n \/ stdout'[p][i].type # "response"
  BY DEF Answers
<1>2. /\ \A i \in CommandsOf(c, p)' : i + 1 \in CommandsOf(c, p)
      /\ \A i \in CommandsOf(c, p) : i # 1 => i - 1 \in CommandsOf(c, p)'
      /\ d = c <=> 1 \in CommandsOf(c, p)
  BY StdinTail DEF CommandsOf
<1> HIDE DEF d
<1>3. RepliesTo(c, p)' = RepliesTo(c, p) \cup (IF d = c THEN {n} ELSE {})
  BY <1>1 DEF RepliesTo, Reply
<1>4. Silent(c, p) => Silent(c, p)'
  BY <1>2, <1>3 DEF Silent
<1>5. ASSUME CommandsOf(c, p) = {}, Once(c, p) PROVE Once(c, p)'
  <2>1. CommandsOf(c, p)' = {} /\ RepliesTo(c, p)' = RepliesTo(c, p)
    BY <1>2, <1>3, <1>5
  <2>2. PICK i \in DOMAIN stdout[p] : RepliesTo(c, p) = {i}
    BY <1>5 DEF Once
  <2>3. i \in DOMAIN stdout'[p] /\ RepliesTo(c, p)' = {i}
    BY <1>1, <2>1, <2>2
  <2> QED
    BY <2>1, <2>3 DEF Once
<1>6. ASSUME NEW i \in DOMAIN stdin[p], CommandsOf(c, p) = {i}, Once(c, p)
      PROVE  Once(c, p)'
  <2>1. /\ RepliesTo(c, p) = {}
        /\ stdin[p][i].type = "prompt" <=> call[c].kind = "prompt"
        /\ stdin[p][i].run = call[c].run
    BY <1>6 DEF Once
  <2>2. CASE i = 1
    <3>1. CommandsOf(c, p)' = {}
      <4>1. \A j \in CommandsOf(c, p)' : j + 1 = 1 /\ j \in Nat /\ j >= 1
        BY <1>2, <1>6, <2>2, StdinTail DEF CommandsOf
      <4> QED
        BY <4>1
    <3>2. RepliesTo(c, p)' = {n}
      BY <1>2, <1>3, <1>6, <2>1, <2>2
    <3> QED
      BY <3>1, <3>2, <1>1 DEF Once
  <2>3. CASE i # 1
    <3>1. i - 1 \in DOMAIN stdin'[p] /\ stdin'[p][i - 1] = stdin[p][i]
      BY <2>3, StdinTail
    <3>2. CommandsOf(c, p)' = {i - 1}
      <4>1. \A j \in CommandsOf(c, p)' : j + 1 = i /\ j \in Nat
        BY <1>2, <1>6, StdinTail DEF CommandsOf
      <4>2. \A j \in CommandsOf(c, p)' : j = i - 1
        BY <4>1
      <4>3. i - 1 \in CommandsOf(c, p)'
        BY <1>2, <1>6, <2>3
      <4> QED
        BY <4>2, <4>3
    <3>3. RepliesTo(c, p)' = {}
      BY <1>2, <1>3, <1>6, <2>1, <2>3
    <3> QED
      BY <2>1, <3>1, <3>2, <3>3 DEF Once
  <2> QED
    BY <2>2, <2>3
<1> QED
  BY <1>4, <1>5, <1>6 DEF Carried, Once

\* What the bridge writes or stops belongs to processes that have begun.
LEMMA StopsBegun ==
  ASSUME ProcInv, NEW s \in Session
  PROVE  proc[s] # NoProc => proc[s] \in Proc /\ life[proc[s]] \in {"up", "dead"}
BY DEF ProcInv

\* Whatever a step does, the queues of a process are of what it is.
LEMMA LifeStep == Types /\ ProcInv /\ WhoInv /\ CallInv /\ LifeInv /\ [Next]_vars => LifeInv'
<1> SUFFICES ASSUME Types, ProcInv, WhoInv, CallInv, LifeInv, [Next]_vars PROVE LifeInv'
  OBVIOUS
<1> USE DEF LifeInv, Types
<1>a. NoProc \notin Proc
  BY DEF NoProc, Proc
\* The bridge, without a process that begins or is gone.
<1>1. ASSUME NEW P, \A p \in P \cap Proc : life[p] \in {"up", "dead"},
             Stop(P) \/ UNCHANGED stopping,
             UNCHANGED <<life, pi>>
      PROVE  LifeInv'
  BY <1>1 DEF Stop, pi
<1>2. ASSUME NEW p \in Proc, NEW k, NEW c, NEW r, Write(p, k, c, r) \/ UNCHANGED stdin,
             UNCHANGED <<life, stopping, stdout, work>>
      PROVE  LifeInv'
  BY <1>2 DEF Write, QueueTypes
<1>3. ASSUME NEW p \in Proc, life[p] = "up", UNCHANGED <<life, stopping>>,
             \A q \in Proc \ {p} : /\ stdin'[q] = stdin[q] /\ stdout'[q] = stdout[q]
                                   /\ work'[q] = work[q]
      PROVE  LifeInv'
  BY <1>3
<1>4. ASSUME NEW s \in Session, NEW as, NEW p \in Proc, life[p] \in {"up", "dead"},
             Settle(s, as, proc[s]) \/ NoRunEnds, UNCHANGED <<life, stdin, work>>,
             \A q \in Proc \ {p} : stdout'[q] = stdout[q]
      PROVE  LifeInv'
  BY <1>4, StopsBegun DEF Settle, NoRunEnds, Stop
<1>5. ASSUME NEW c \in Call, NEW s \in Session, Create(c, s) \/ Prompt(c, s) \/ Read(c, s)
      PROVE  LifeInv'
  BY <1>5, <1>a, <1>2, StopsBegun
     DEF Create, Prompt, Read, Join, SendPrompt, Send, Usable, procs
<1>6. ASSUME NEW c \in Call, NEW s \in Session, Abort(c, s) PROVE LifeInv'
  BY <1>6, <1>a, <1>2, StopsBegun DEF Abort, procs
<1>7. ASSUME NEW c \in Call, Proceed(c) PROVE LifeInv'
  <2>1. call[c].s \in Session /\ proc[call[c].s] \in Proc
    BY <1>7, StopsBegun DEF Proceed, CallInv, ProcInv, At
  <2> QED
    BY <1>7, <2>1, <1>2 DEF Proceed, SendPrompt, Send, procs
<1>8. ASSUME NEW c \in Call, TimesOut(c) PROVE LifeInv'
  <2>1. call[c].s \in Session
    BY <1>8 DEF TimesOut, WhoInv, CallsWho, At
  <2>2. \E P \in SUBSET {proc[call[c].s]} : Stop(P) \/ UNCHANGED stopping
    BY <1>8 DEF TimesOut, Settle
  <2> QED
    BY <1>8, <2>1, <2>2, <1>1, StopsBegun, <1>a DEF TimesOut
<1>9. ASSUME NEW s \in Session, StartTimesOut(s) \/ Reap(s) PROVE LifeInv'
  <2>1. \A p \in {proc[s]} \cap Proc : life[p] \in {"up", "dead"}
    BY StopsBegun, <1>a
  <2> QED
    BY <1>9, <2>1, <1>1 DEF StartTimesOut, Reap, bridge
<1>10. CASE Dispose
  <2>1. \A p \in {proc[s] : s \in Session \ busy} \cap Proc : life[p] \in {"up", "dead"}
    BY StopsBegun, <1>a
  <2> QED
    BY <1>10, <2>1, <1>1 DEF Dispose
<1>11. ASSUME NEW s \in Session, Spawn(s) PROVE LifeInv'
  <2>1. CASE UNCHANGED <<procs, stdin>>
    BY <1>11, <2>1, <1>1 DEF Spawn, procs, pi
  <2>2. ASSUME NEW p \in Proc, life[p] = "unused", life' = [life EXCEPT ![p] = "up"],
               UNCHANGED stopping \/ \E v \in Victims : Stop({proc[v]}),
               stdin' = [stdin EXCEPT ![p] = <<[type |-> "other", by |-> Starter,
                                                run |-> NoRun]>>]
        PROVE  LifeInv'
    <3>1. \A q \in Proc : q # p => stdin'[q] = stdin[q] /\ life'[q] = life[q]
      BY <2>2 DEF QueueTypes, ProcInv
    <3>2. life'[p] = "up"
      BY <2>2 DEF ProcInv
    <3>3. \A v \in Victims : v \in Session /\ proc[v] # NoProc
      BY DEF Victims, Taken, Usable
    <3>4. stopping' \subseteq stopping \cup {q \in Proc : life[q] \in {"up", "dead"}}
      BY <2>2, <3>3, StopsBegun DEF Stop
    <3> QED
      BY <1>11, <3>1, <3>2, <3>4 DEF Spawn
  <2> QED
    BY <1>11, <2>1, <2>2 DEF Spawn
<1>12. ASSUME NEW p \in Proc, Gone(p) PROVE LifeInv'
  <2>1. life[p] = "dead" /\ stdout[p] = <<>> /\ life' = [life EXCEPT ![p] = "gone"]
        /\ UNCHANGED pi /\ home[p] \in Session
    BY <1>12 DEF Gone, WhoInv
  <2>2. stopping' \subseteq stopping \cup {q \in Proc : life[q] \in {"up", "dead"}}
    <3>1. proc'[home[p]] \in {NoProc, proc[home[p]]}
      BY <1>12, <2>1 DEF Gone, ProcInv
    <3> QED
      BY <1>12, <2>1, <3>1, StopsBegun, <1>a DEF Gone, Settle, NoRunEnds, Stop
  <2>3. \A q \in Proc : life'[q] = IF q = p THEN "gone" ELSE life[q]
    BY <2>1 DEF ProcInv
  <2> QED
    BY <2>1, <2>2, <2>3 DEF pi
<1>13. ASSUME NEW p \in Proc, NEW k, Reads(p, k)
       PROVE  /\ life[p] \in {"up", "dead"} /\ home[p] \in Session
              /\ \A q \in Proc \ {p} : stdout'[q] = stdout[q]
  BY <1>13 DEF Reads, QueueTypes, ProcInv, WhoInv
<1>14. ASSUME NEW p \in Proc, Response(p) PROVE LifeInv'
  <2>1. Reads(p, "response") /\ UNCHANGED <<life, stdin, work>>
        /\ \E as : Settle(home[p], as, proc[home[p]]) \/ NoRunEnds
    BY <1>14 DEF Response
  <2> QED
    BY <2>1, <1>13, <1>4
<1>15. ASSUME NEW p \in Proc, AgentSettled(p) PROVE LifeInv'
  <2>1. Reads(p, "agent_settled") /\ UNCHANGED <<life, stdin, work>>
        /\ Settle(home[p], "settled", proc[home[p]])
    BY <1>15 DEF AgentSettled
  <2> QED
    BY <2>1, <1>13, <1>4
<1>16. ASSUME NEW p \in Proc, AgentStart(p) PROVE LifeInv'
  <2>1. Reads(p, "agent_start") /\ UNCHANGED <<life, stdin, work, stopping>>
    BY <1>16 DEF AgentStart, procs
  <2> QED
    BY <2>1, <1>13
<1>17. ASSUME NEW p \in Proc, Serve(p) \/ Finish(p) \/ Extension(p) PROVE LifeInv'
  <2>1. /\ life[p] = "up" /\ UNCHANGED <<life, stopping>>
        /\ \A q \in Proc \ {p} : /\ stdin'[q] = stdin[q] /\ stdout'[q] = stdout[q]
                                 /\ work'[q] = work[q]
    BY <1>17 DEF Serve, Finish, Extension, Says, procs, QueueTypes
  <2> QED
    BY <2>1, <1>3
<1>18. ASSUME NEW p \in Proc, Dies(p) PROVE LifeInv'
  <2>1. \A q \in Proc : IF q = p THEN life'[q] = "dead" /\ stdin'[q] = <<>> /\ work'[q] = NoRun
                        ELSE life'[q] = life[q] /\ stdin'[q] = stdin[q] /\ work'[q] = work[q]
    BY <1>18 DEF Dies, QueueTypes, ProcInv
  <2>2. UNCHANGED <<stopping, stdout>>
    BY <1>18 DEF Dies
  <2> QED
    BY <2>1, <2>2
<1>19. CASE UNCHANGED vars
  BY <1>19 DEF vars, procs, pi
<1> QED
  BY <1>5, <1>6, <1>7, <1>8, <1>9, <1>10, <1>11, <1>12, <1>14, <1>15, <1>16, <1>17, <1>18,
     <1>19 DEF Next

-----------------------------------------------------------------------------
(* Runs.                                                                     *)

\* A run begins; a run ends.
LEMMA StartsRuns ==
  ASSUME RunTypes, RunIds, NEW s \in Session, NEW r \in Run, Starts(s, r)
  PROVE  RunIds' /\ \A q \in Run : runs[q] # "none" => runs'[q] # "none"
<1>1. /\ runs'[r] = "running" /\ \A q \in Run \ {r} : runs'[q] = runs[q]
      /\ runId'[s] = r /\ \A t \in Session \ {s} : runId'[t] = runId[t]
      /\ busy' = busy \cup {s}
  BY DEF Starts, RunTypes
<1>2. runs[r] = "none" /\ \A t \in busy : runId[t] # r
  BY DEF Starts, RunIds
<1> QED
  BY <1>1, <1>2 DEF RunIds, RunTypes

LEMMA SettleRuns ==
  ASSUME RunTypes, RunIds, NEW s, NEW as \in {"lost", "settled"}, NEW p,
         Settle(s, as, p) \/ NoRunEnds, runId' = runId
  PROVE  RunIds' /\ \A q \in Run : runs[q] # "none" => runs'[q] # "none"
<1>1. CASE UNCHANGED <<busy, runs>>
  BY <1>1 DEF RunIds
<1>2. CASE s \in busy /\ busy' = busy \ {s} /\ runs' = [runs EXCEPT ![runId[s]] = as]
  <2>1. \A q \in Run : runs'[q] = runs[q] \/ (q = runId[s] /\ runs'[q] = as)
    BY <1>2 DEF RunTypes
  <2> QED
    BY <1>2, <2>1 DEF RunIds, RunTypes
<1> QED
  BY <1>1, <1>2 DEF Settle, NoRunEnds

\* Whatever a step does, it leaves RunIds, and a run that has been is not new again.
LEMMA RunStep ==
  Types /\ ProcInv /\ WhoInv /\ CallInv /\ RunIds /\ [Next]_vars
    => RunIds' /\ \A q \in Run : runs[q] # "none" => runs'[q] # "none"
<1> DEFINE Goal == RunIds' /\ \A q \in Run : runs[q] # "none" => runs'[q] # "none"
<1> SUFFICES ASSUME Types, ProcInv, WhoInv, CallInv, RunIds, [Next]_vars PROVE Goal
  OBVIOUS
<1>0. RunTypes
  BY DEF Types
<1>1. CASE UNCHANGED <<busy, runId, runs>>
  BY <1>1 DEF RunIds
<1> HIDE DEF Goal
<1>2. ASSUME NEW c \in Call, NEW s \in Session, SendPrompt(c, s) PROVE Goal
  BY <1>0, <1>2, StartsRuns DEF SendPrompt, Goal
<1>3. ASSUME NEW c \in Call, NEW s \in Session, Prompt(c, s) PROVE Goal
  BY <1>1, <1>2, <1>3 DEF Prompt, Join
<1>4. ASSUME NEW c \in Call, Proceed(c) PROVE Goal
  <2>1. call[c].s \in Session
    BY <1>4 DEF Proceed, CallInv
  <2> QED
    BY <1>1, <1>2, <1>4, <2>1 DEF Proceed, Send
<1>5. ASSUME NEW s, NEW as \in {"lost", "settled"}, NEW p,
             Settle(s, as, p) \/ NoRunEnds, runId' = runId
      PROVE  Goal
  BY <1>0, <1>5, SettleRuns DEF Goal
<1>6. ASSUME NEW c \in Call, TimesOut(c) PROVE Goal
  BY <1>1, <1>5, <1>6 DEF TimesOut
<1>7. ASSUME NEW p \in Proc, Gone(p) \/ Response(p) \/ AgentSettled(p) PROVE Goal
  BY <1>5, <1>7 DEF Gone, Response, AgentSettled
<1>8. ASSUME NEW p \in Proc, AgentStart(p) PROVE Goal
  <2>1. home[p] \in Session
    BY <1>8 DEF AgentStart, Reads, WhoInv
  <2> QED
    BY <1>0, <1>1, <1>8, <2>1, StartsRuns DEF AgentStart, Goal
<1>9. ASSUME NEW c \in Call, NEW s \in Session, Create(c, s) \/ Read(c, s) \/ Abort(c, s)
      PROVE  UNCHANGED <<busy, runId, runs>>
  BY <1>9 DEF Create, Read, Abort, Join, Send
<1>10. ASSUME NEW s \in Session, Spawn(s) \/ StartTimesOut(s) \/ Reap(s)
       PROVE  UNCHANGED <<busy, runId, runs>>
  BY <1>10 DEF Spawn, StartTimesOut, Reap, bridge
<1>11. ASSUME NEW p \in Proc, Serve(p) \/ Finish(p) \/ Extension(p) \/ Dies(p)
       PROVE  UNCHANGED <<busy, runId, runs>>
  BY <1>11 DEF Serve, Finish, Extension, Dies, bridge
<1>12. CASE Dispose \/ UNCHANGED vars
  BY <1>1, <1>12 DEF Dispose, vars, bridge
<1> QED
  BY <1>1, <1>3, <1>4, <1>6, <1>7, <1>8, <1>9, <1>10, <1>11, <1>12 DEF Next

-----------------------------------------------------------------------------
(* Starts.                                                                   *)

\* Whatever a step does, startProc does not wait for a process that can be used.
LEMMA StartStep ==
  Types /\ ProcInv /\ WhoInv /\ CallInv /\ StartInv /\ [Next]_vars => StartInv'
<1> SUFFICES ASSUME Types, ProcInv, WhoInv, CallInv, StartInv, [Next]_vars,
                    NEW s \in Session, starting'[s] = "old"
             PROVE  ~Usable(s)'
  BY DEF StartInv
<1>0. RestTypes /\ proc \in [Session -> Proc \cup {NoProc}]
  BY DEF Types, ProcInv
<1>1. CASE /\ starting'[s] = starting[s] /\ (proc'[s] = proc[s] \/ proc'[s] = NoProc)
           /\ stopping \subseteq stopping'
  BY <1>1 DEF StartInv, Usable
<1>2. ASSUME NEW c \in Call, NEW t \in Session, NEW k, Join(c, k, t), ~Usable(t),
             UNCHANGED <<proc, stopping>>
      PROVE  ~Usable(s)'
  BY <1>0, <1>1, <1>2 DEF Join, Usable, RestTypes
<1>3. ASSUME NEW c \in Call, NEW t \in Session,
             Create(c, t) \/ Prompt(c, t) \/ Read(c, t) \/ Abort(c, t)
      PROVE  ~Usable(s)'
  <2>1. (\A p \in Proc : home[p] # t) => ~Usable(t)
    BY <1>0 DEF Usable, ProcInv
  <2> QED
    BY <1>1, <1>2, <1>3, <2>1 DEF Create, Prompt, Read, Abort, SendPrompt, Send, procs
<1>4. ASSUME NEW c \in Call, Proceed(c) \/ TimesOut(c) PROVE ~Usable(s)'
  BY <1>1, <1>4
     DEF Proceed, TimesOut, SendPrompt, Send, procs, Settle, NoRunEnds, Stop
<1>5. ASSUME NEW t \in Session, Spawn(t) PROVE ~Usable(s)'
  <2>1. starting' = [starting EXCEPT ![t] = "answer"] \/ starting' = [starting EXCEPT ![t] = "no"]
    BY <1>5 DEF Spawn
  <2>2. s # t /\ starting'[s] = starting[s]
    BY <1>0, <2>1 DEF RestTypes
  <2>3. proc'[s] = proc[s] /\ stopping \subseteq stopping'
    BY <1>0, <1>5, <2>2 DEF Spawn, procs, Stop
  <2> QED
    BY <1>1, <2>2, <2>3
<1>6. ASSUME NEW t \in Session, StartTimesOut(t) \/ Reap(t) PROVE ~Usable(s)'
  BY <1>0, <1>1, <1>6 DEF StartTimesOut, Reap, bridge, Stop, RestTypes
<1>7. ASSUME NEW p \in Proc, Gone(p) PROVE ~Usable(s)'
  <2>1. home[p] \in Session
    BY <1>7 DEF Gone, WhoInv
  <2>2. starting'[s] = starting[s] /\ (proc'[s] = proc[s] \/ proc'[s] = NoProc)
    BY <1>0, <1>7, <2>1 DEF Gone, RestTypes
  <2>3. stopping \subseteq stopping'
    BY <1>7 DEF Gone, Settle, NoRunEnds, Stop
  <2> QED
    BY <1>1, <2>2, <2>3
<1>8. ASSUME NEW p \in Proc, Response(p) PROVE ~Usable(s)'
  <2>1. starting'[s] = starting[s] /\ UNCHANGED proc
    BY <1>0, <1>8 DEF Response, RestTypes
  <2>2. stopping \subseteq stopping'
    BY <1>8 DEF Response, Settle, NoRunEnds, Stop
  <2> QED
    BY <1>1, <2>1, <2>2
<1>9. ASSUME NEW p \in Proc, AgentStart(p) \/ AgentSettled(p) PROVE ~Usable(s)'
  BY <1>1, <1>9 DEF AgentStart, AgentSettled, Settle, NoRunEnds, Stop, procs
<1>10. ASSUME NEW p \in Proc, Serve(p) \/ Finish(p) \/ Extension(p) \/ Dies(p)
       PROVE ~Usable(s)'
  BY <1>1, <1>10 DEF Serve, Finish, Extension, Dies, bridge, procs
<1>11. CASE Dispose \/ UNCHANGED vars
  BY <1>1, <1>11 DEF Dispose, vars, bridge, procs, Stop
<1> QED
  BY <1>3, <1>4, <1>5, <1>6, <1>7, <1>8, <1>9, <1>10, <1>11 DEF Next

-----------------------------------------------------------------------------
(* Calls.                                                                    *)

\* Calls go on as they are, or are answered.
LEMMA AnsweredCalls ==
  ASSUME CallTypes, CallInv, NEW C, Answered(C),
         \A q \in Run : runs[q] # "none" => runs'[q] # "none",
         \A c \in Call \ C :
           /\ At(c, "start") /\ starting'[call[c].s] = "no" => proc'[call[c].s] # NoProc
           /\ At(c, "sent") => /\ home'[call[c].p] = call[c].s
                               /\ life'[call[c].p] \in {"up", "dead"}
  PROVE  CallInv'
<1>1. \A c \in Call : call'[c] = IF c \in C THEN Idle ELSE call[c]
  BY DEF Answered
<1>2. ASSUME NEW c \in C \cap Call
      PROVE  At(c, "idle")' /\ call'[c] = Idle /\ call'[c].run \notin Run
  BY <1>1, <1>2 DEF At, Idle, Run, NoRun
<1> QED
  BY <1>1, <1>2 DEF CallInv, At, CallTypes, Calls

\* One call goes on.
LEMMA OthersStay ==
  ASSUME CallTypes, CallInv, NEW d \in Call, NEW new, call' = [call EXCEPT ![d] = new],
         \A q \in Run : runs[q] # "none" => runs'[q] # "none",
         UNCHANGED <<proc, life, home>>,
         \A s \in Session : starting'[s] = "no" => starting[s] = "no",
         /\ new.at = "start" => /\ new.s \in Session /\ new.run = NoRun
                                /\ starting'[new.s] = "no" => proc[new.s] # NoProc
         /\ new.at = "sent" => /\ new.p \in Proc /\ home[new.p] = new.s
                               /\ life[new.p] \in {"up", "dead"}
                               /\ new.run \in Run <=> new.kind = "prompt"
         /\ new.at # "idle"
         /\ new.run \in Run => runs'[new.run] # "none"
  PROVE  CallInv'
<1>1. \A c \in Call : call'[c] = IF c = d THEN new ELSE call[c]
  BY DEF CallTypes
<1>2. \A c \in Call : call[c].run \in Run \cup {NoRun}
  BY DEF CallTypes, Calls
<1> QED
  BY <1>1, <1>2 DEF CallInv, At

\* Whatever a step does, what waits has something to wait for.
LEMMA CallStep ==
  Types /\ ProcInv /\ WhoInv /\ LifeInv /\ CallInv /\ RunIds /\ [Next]_vars => CallInv'
<1> SUFFICES ASSUME Types, ProcInv, WhoInv, LifeInv, CallInv, RunIds, [Next]_vars PROVE CallInv'
  OBVIOUS
<1>0. CallTypes /\ RestTypes /\ NoRun \notin Run /\ NoProc \notin Proc
  BY DEF Types, NoRun, Run, NoProc, Proc
<1>1. \A q \in Run : runs[q] # "none" => runs'[q] # "none"
  BY RunStep
<1>2. ASSUME NEW C, Answered(C),
         \A c \in Call \ C :
           /\ At(c, "start") /\ starting'[call[c].s] = "no" => proc'[call[c].s] # NoProc
           /\ At(c, "sent") => /\ home'[call[c].p] = call[c].s
                               /\ life'[call[c].p] \in {"up", "dead"}
      PROVE  CallInv'
  BY <1>0, <1>1, <1>2, AnsweredCalls
<1>3. ASSUME NEW C, Answered(C), UNCHANGED <<starting, proc, life, home>> PROVE CallInv'
  BY <1>2, <1>3 DEF CallInv
<1>4. ASSUME NEW c \in Call, NEW s \in Session, NEW k, Join(c, k, s),
             UNCHANGED <<proc, life, home>>
      PROVE  CallInv'
  <2>1. starting'[s] # "no" /\ \A t \in Session : starting'[t] = "no" => starting[t] = "no"
    BY <1>0, <1>4 DEF Join, RestTypes
  <2> DEFINE new == [kind |-> k, at |-> "start", s |-> s, p |-> NoProc, run |-> NoRun]
  <2>2. call' = [call EXCEPT ![c] = new] /\ new.at = "start" /\ new.s = s /\ new.run = NoRun
    BY <1>4 DEF Join, Begin
  <2> HIDE DEF new
  <2> QED
    BY <1>0, <1>1, <1>4, <2>1, <2>2, OthersStay
<1>5. ASSUME NEW c \in Call, NEW s \in Session, NEW k, NEW r, Sent(c, k, s, r),
             r \in Run <=> k = "prompt", r \in Run => runs'[r] # "none",
             proc[s] \in Proc, UNCHANGED <<proc, life, home, starting>>
      PROVE  CallInv'
  <2> DEFINE new == [kind |-> k, at |-> "sent", s |-> s, p |-> proc[s], run |-> r]
  <2>1. home[proc[s]] = s /\ life[proc[s]] \in {"up", "dead"}
    BY <1>0, <1>5 DEF ProcInv
  <2>2. /\ call' = [call EXCEPT ![c] = new] /\ new.at = "sent" /\ new.s = s /\ new.run = r
        /\ new.p = proc[s] /\ new.kind = k
    BY <1>5 DEF Sent
  <2> HIDE DEF new
  <2> QED
    BY <1>0, <1>1, <1>5, <2>1, <2>2, OthersStay
<1>6. ASSUME NEW c \in Call, NEW s \in Session, SendPrompt(c, s), proc[s] \in Proc,
             UNCHANGED <<proc, life, home>>
      PROVE  CallInv'
  <2>1. PICK r \in Run : Starts(s, r) /\ Sent(c, "prompt", s, r)
    BY <1>6 DEF SendPrompt
  <2>2. runs'[r] # "none"
    BY <2>1 DEF Starts, Types, RunTypes
  <2> QED
    BY <1>5, <1>6, <2>1, <2>2 DEF SendPrompt
<1>7. ASSUME NEW c \in Call, NEW s \in Session, Create(c, s) \/ Prompt(c, s) \/ Read(c, s)
      PROVE  CallInv'
  BY <1>0, <1>3, <1>4, <1>5, <1>6, <1>7 DEF Create, Prompt, Read, Send, procs, Usable, ProcInv
<1>8. ASSUME NEW c \in Call, NEW s \in Session, Abort(c, s) PROVE CallInv'
  <2>1. CASE s \in busy /\ proc[s] # NoProc
    BY <1>0, <1>5, <1>8, <2>1 DEF Abort, procs, ProcInv
  <2>2. CASE ~(s \in busy /\ proc[s] # NoProc)
    BY <1>3, <1>8, <2>2 DEF Abort, procs
  <2> QED
    BY <2>1, <2>2
<1>9. ASSUME NEW c \in Call, Proceed(c) PROVE CallInv'
  <2>1. call[c].s \in Session /\ proc[call[c].s] \in Proc
    BY <1>9 DEF Proceed, CallInv, ProcInv
  <2> QED
    BY <1>0, <1>3, <1>5, <1>6, <1>9, <2>1 DEF Proceed, Send, procs
<1>10. ASSUME NEW c \in Call, TimesOut(c) PROVE CallInv'
  BY <1>3, <1>10 DEF TimesOut, Failed
<1>11. ASSUME NEW s \in Session, StartTimesOut(s) PROVE CallInv'
  <2>1. /\ Answered(Joined(s)) /\ UNCHANGED <<proc, life, home>>
        /\ \A t \in Session \ {s} : starting'[t] = starting[t]
    BY <1>0, <1>11 DEF StartTimesOut, Failed, RestTypes
  <2> QED
    BY <1>2, <2>1 DEF CallInv, Joined
<1>12. ASSUME NEW s \in Session, Spawn(s) PROVE CallInv'
  <2>1. CASE starting' = [starting EXCEPT ![s] = "no"] /\ Failed(Joined(s))
             /\ UNCHANGED <<proc, procs>>
    <3>1. /\ Answered(Joined(s)) /\ UNCHANGED <<proc, life, home>>
          /\ \A t \in Session \ {s} : starting'[t] = starting[t]
      BY <1>0, <2>1 DEF Failed, RestTypes, procs
    <3> QED
      BY <1>2, <3>1 DEF CallInv, Joined
  <2>2. ASSUME NEW p \in Proc, life[p] = "unused", life' = [life EXCEPT ![p] = "up"],
               home' = [home EXCEPT ![p] = s], proc' = [proc EXCEPT ![s] = p],
               starting' = [starting EXCEPT ![s] = "answer"], call' = call
        PROVE  CallInv'
    <3>1. Answered({})
      BY <1>0, <2>2 DEF Answered, CallTypes
    <3>2. /\ starting'[s] # "no" /\ \A t \in Session \ {s} : starting'[t] = starting[t]
          /\ \A t \in Session \ {s} : proc'[t] = proc[t]
          /\ \A q \in Proc \ {p} : life'[q] = life[q] /\ home'[q] = home[q]
      BY <1>0, <2>2 DEF RestTypes, ProcInv
    <3> QED
      BY <1>2, <2>2, <3>1, <3>2 DEF CallInv
  <2> QED
    BY <1>12, <2>1, <2>2 DEF Spawn
<1>13. ASSUME NEW p \in Proc, Gone(p) PROVE CallInv'
  <2> DEFINE s == home[p]
             D == {c \in Call : At(c, "sent") /\ call[c].p = p}
                  \cup (IF proc[s] = p /\ starting[s] # "old" THEN Joined(s) ELSE {})
  <2>1. /\ s \in Session /\ Answered(D) /\ home' = home
        /\ life' = [life EXCEPT ![p] = "gone"]
        /\ proc' = [proc EXCEPT ![s] = IF proc[s] = p THEN NoProc ELSE @]
        /\ starting' = [starting EXCEPT ![s] = IF proc[s] = p /\ @ = "answer" THEN "no" ELSE @]
    BY <1>13 DEF Gone, Failed, WhoInv
  <2>2. /\ \A t \in Session \ {s} : proc'[t] = proc[t] /\ starting'[t] = starting[t]
        /\ \A q \in Proc \ {p} : life'[q] = life[q]
        /\ proc[s] # p => proc'[s] = proc[s] /\ starting'[s] = starting[s]
        /\ proc[s] = p /\ starting[s] = "old" => starting'[s] = "old"
    BY <1>0, <2>1 DEF RestTypes, ProcInv
  <2>3. \A c \in Call \ D : At(c, "sent") => call[c].p # p
    OBVIOUS
  <2>4. ASSUME NEW c \in Call \ D, At(c, "start"), starting'[call[c].s] = "no"
        PROVE  proc'[call[c].s] # NoProc
    <3>1. call[c].s = s => proc[s] # p \/ starting[s] = "old"
      BY <2>4 DEF Joined
    <3>2. call[c].s \in Session
      BY <2>4 DEF CallInv
    <3> QED
      BY <2>1, <2>2, <2>4, <3>1, <3>2 DEF CallInv
  <2> QED
    BY <1>2, <2>1, <2>2, <2>3, <2>4 DEF CallInv
<1>14. ASSUME NEW p \in Proc, Response(p) PROVE CallInv'
  <2>1. CASE Line(p).by # Starter
    BY <1>3, <1>14, <2>1 DEF Response
  <2>2. CASE Line(p).by = Starter
    <3>1. /\ UNCHANGED <<call, proc, life, home>>
          /\ starting' = [starting EXCEPT ![home[p]] =
                            IF @ = "answer" /\ proc[home[p]] = p THEN "no" ELSE @]
      BY <1>14, <2>2 DEF Response
    <3>2. Answered({})
      BY <1>0, <3>1 DEF Answered, CallTypes
    <3>3. \A t \in Session : starting'[t] = starting[t] \/ proc[t] = p
      BY <1>0, <3>1 DEF RestTypes
    <3> QED
      BY <1>0, <1>2, <3>1, <3>2, <3>3 DEF CallInv
  <2> QED
    BY <2>1, <2>2
<1>15. ASSUME UNCHANGED <<call, starting, proc, life, home>> PROVE CallInv'
  <2>1. Answered({})
    BY <1>0, <1>15 DEF Answered, CallTypes
  <2> QED
    BY <1>3, <1>15, <2>1
<1>16. ASSUME NEW p \in Proc, Dies(p) PROVE CallInv'
  <2>1. /\ UNCHANGED <<call, starting, proc, home>>
        /\ \A q \in Proc : life'[q] = life[q] \/ life'[q] = "dead"
    BY <1>16 DEF Dies, bridge, ProcInv
  <2>2. Answered({})
    BY <1>0, <2>1 DEF Answered, CallTypes
  <2> QED
    BY <1>2, <2>1, <2>2 DEF CallInv
<1>17. ASSUME NEW p \in Proc,
              AgentStart(p) \/ AgentSettled(p) \/ Serve(p) \/ Finish(p) \/ Extension(p)
       PROVE  CallInv'
  BY <1>15, <1>17 DEF AgentStart, AgentSettled, Serve, Finish, Extension, bridge, procs
<1>18. ASSUME NEW s \in Session, Reap(s) PROVE CallInv'
  BY <1>15, <1>18 DEF Reap, bridge
<1>19. CASE Dispose \/ UNCHANGED vars
  BY <1>15, <1>19 DEF Dispose, vars, bridge, procs
<1> QED
  BY <1>7, <1>8, <1>9, <1>10, <1>11, <1>12, <1>13, <1>14, <1>16, <1>17, <1>18, <1>19
     DEF Next

-----------------------------------------------------------------------------
(* Messages of calls.                                                        *)

\* Messages go on, or belong to a call that goes on.
LEMMA MsgFrame ==
  ASSUME MsgInv,
         \A c \in Call :
           \/ call'[c] = call[c] /\ \A p \in Proc : Carried(c, p)
           \/ call'[c].at = "idle"
           \/ call'[c].at = "start" /\ \A p \in Proc : Silent(c, p)'
           \/ call'[c].at = "sent" /\ \A p \in Proc :
                Silent(c, p)' \/ (p = call'[c].p /\ Once(c, p)')
  PROVE  MsgInv'
BY DEF MsgInv, MsgOf, At, Carried

\* Calls are answered, and nothing moves in the queues.
LEMMA AnsweredMsgs ==
  ASSUME MsgInv, NEW C, Answered(C), UNCHANGED <<stdin, stdout>>
  PROVE  MsgInv'
<1>1. ASSUME NEW c \in Call, c \notin C, NEW p \in Proc PROVE call'[c] = call[c] /\ Carried(c, p)
  BY <1>1, SameCarries DEF Answered
<1>2. \A c \in Call \cap C : call'[c].at = "idle"
  BY DEF Answered, Idle
<1>3. \A c \in Call : c \notin C => call'[c] = call[c]
  BY DEF Answered
<1> QED
  BY <1>1, <1>2, <1>3, MsgFrame

\* A call begins.
LEMMA BegunMsgs ==
  ASSUME CallTypes, MsgInv, NEW c \in Call, NEW k, NEW s, Begin(c, k, s, "start"),
         \A p \in Proc : Silent(c, p), UNCHANGED <<stdin, stdout>>
  PROVE  MsgInv'
<1>1. call'[c].at = "start" /\ \A d \in Call \ {c} : call'[d] = call[d]
  BY DEF Begin, CallTypes
<1>2. \A p \in Proc : Silent(c, p)'
  BY DEF Silent, CommandsOf, RepliesTo
<1>3. \A d \in Call \ {c} : \A p \in Proc : Carried(d, p)
  BY <1>1, SameCarries
<1> QED
  BY <1>1, <1>2, <1>3, MsgFrame

\* A call sends its command, or writes it where nobody reads it.
LEMMA SentMsgs ==
  ASSUME QueueTypes, CallTypes, MsgInv, NEW c \in Call, NEW k, NEW s,
         NEW r \in Run \cup {NoRun}, NEW m \in {"prompt", "abort", "other"},
         proc[s] \in Proc, Write(proc[s], m, c, r), Sent(c, k, s, r),
         m = "prompt" <=> k = "prompt",
         \A p \in Proc : Silent(c, p), stdout' = stdout
  PROVE  MsgInv'
<1> DEFINE n == [type |-> m, by |-> c, run |-> r]
           P == proc[s]
<1>1. n \in Commands /\ n.by = c /\ n.type = m /\ n.run = r
  BY DEF Commands, Asker
<1>2. /\ call'[c].at = "sent" /\ call'[c].kind = k /\ call'[c].p = P /\ call'[c].run = r
      /\ \A d \in Call \ {c} : call'[d] = call[d]
  BY DEF Sent, CallTypes
<1>3. stdin' = stdin \/ stdin' = [stdin EXCEPT ![P] = Append(stdin[P], n)]
  BY DEF Write
<1>4. \A p \in Proc : stdin'[p] = stdin[p] \/ (p = P /\ stdin'[p] = Append(stdin[p], n))
  BY <1>3 DEF QueueTypes
<1> HIDE DEF n, P
<1>5. ASSUME NEW d \in Call \ {c}, NEW p \in Proc PROVE Carried(d, p)
  <2>1. call'[d] = call[d] /\ stdout'[p] = stdout[p] /\ n.by # d
    BY <1>1, <1>2
  <2> QED
    BY <1>1, <1>4, <2>1, SameCarries, AddCarries
<1>6. ASSUME NEW p \in Proc PROVE Silent(c, p)' \/ (p = call'[c].p /\ Once(c, p)')
  <2>1. CASE stdin'[p] = stdin[p]
    BY <2>1 DEF Silent, CommandsOf, RepliesTo
  <2>2. CASE p = P /\ stdin'[p] = Append(stdin[p], n)
    <3> DEFINE i == Len(stdin[p]) + 1
    <3>1. /\ DOMAIN stdin'[p] = DOMAIN stdin[p] \cup {i} /\ stdin'[p][i] = n
          /\ \A j \in DOMAIN stdin[p] : stdin'[p][j] = stdin[p][j]
      BY <1>1, <2>2, AppendIs DEF QueueTypes
    <3> HIDE DEF i
    <3>2. CommandsOf(c, p)' = {i} /\ RepliesTo(c, p)' = {}
      BY <1>1, <3>1 DEF Silent, CommandsOf, RepliesTo
    <3>3. Once(c, p)'
      BY <1>1, <1>2, <3>1, <3>2 DEF Once
    <3> QED
      BY <1>2, <2>2, <3>3
  <2> QED
    BY <1>4, <2>1, <2>2
<1> QED
  BY <1>2, <1>5, <1>6, MsgFrame

\* Something moves in the queues of one process, and no call changes.
LEMMA QueueMsgs ==
  ASSUME MsgInv, call' = call, NEW p \in Proc,
         \A q \in Proc \ {p} : stdin'[q] = stdin[q] /\ stdout'[q] = stdout[q],
         \A c \in Call : Carried(c, p)
  PROVE  MsgInv'
<1>1. \A c \in Call : \A q \in Proc : Carried(c, q)
  BY SameCarries
<1> QED
  BY <1>1, MsgFrame

\* What Serve does to the queues.
LEMMA ServeIs ==
  ASSUME QueueTypes, NEW p \in Proc, Serve(p)
  PROVE  /\ stdin[p] # <<>> /\ stdin'[p] = Tail(stdin[p]) /\ Head(stdin[p]) \in Commands
         /\ \A q \in Proc \ {p} : /\ stdin'[q] = stdin[q] /\ stdout'[q] = stdout[q]
                                  /\ work'[q] = work[q]
         /\ \E ok \in {"yes", "no", "handled"} : Answers(p, Head(stdin[p]).by, ok)
<1> DEFINE m == Head(stdin[p])
<1>1. m \in Commands /\ m = stdin[p][1] /\ (m.type = "prompt" => m.run \in Run)
  BY TailIs DEF Serve, QueueTypes, Prompts
<1>2. m.by \in Asker /\ work[p] \in Run \cup {NoRun, Own}
  BY <1>1 DEF Commands, QueueTypes
<1>3. \A r \in Run \cup {Own} : /\ Event("agent_start", r) \in Lines
                                /\ Event("agent_settled", r) \in Lines
                                /\ Event("agent_start", r).type # "response"
                                /\ Event("agent_settled", r).type # "response"
  BY DEF Event, Lines
<1>4. \E ok \in {"yes", "no", "handled"} : Answers(p, m.by, ok)
  <2> HIDE DEF m
  <2>1. ASSUME NEW ok \in {"yes", "no", "handled"}, NEW r \in Run \cup {Own},
               NEW e \in {"agent_start", "agent_settled"},
               \/ Says(p, <<Reply(m.by, ok)>>)
               \/ Says(p, <<Reply(m.by, ok), Event(e, r)>>)
               \/ Says(p, <<Event(e, r), Reply(m.by, ok)>>)
        PROVE  Answers(p, m.by, ok)
    BY <1>2, <1>3, <2>1, AnswersWith
  <2>2. CASE m.type = "other" /\ Says(p, <<Reply(m.by, "yes")>>)
    BY <2>1, <2>2
  <2>3. CASE Says(p, IF work[p] = NoRun THEN <<Reply(m.by, "yes")>>
                     ELSE <<Event("agent_settled", work[p]), Reply(m.by, "yes")>>)
    BY <1>2, <2>1, <2>3
  <2>4. CASE /\ m.type = "prompt"
             /\ \E first \in BOOLEAN :
                  Says(p, IF first THEN <<Reply(m.by, "yes"), Event("agent_start", m.run)>>
                          ELSE <<Event("agent_start", m.run), Reply(m.by, "yes")>>)
    BY <1>1, <2>1, <2>4
  <2>5. CASE \E ok \in {"no", "handled"} : Says(p, <<Reply(m.by, ok)>>)
    BY <2>1, <2>5
  <2> QED
    BY <2>2, <2>3, <2>4, <2>5 DEF Serve, m
<1>5. stdin' = [stdin EXCEPT ![p] = Tail(@)] /\ stdin[p] # <<>>
  BY DEF Serve
<1>6. \A q \in Proc \ {p} : stdout'[q] = stdout[q] /\ work'[q] = work[q]
  BY DEF Serve, Says, QueueTypes
<1> QED
  BY <1>1, <1>4, <1>5, <1>6 DEF QueueTypes

LEMMA TellsOne ==
  ASSUME QueueTypes, NEW p \in Proc, NEW l \in Lines, l.type # "response", Says(p, <<l>>)
  PROVE  Tells(p) /\ \A q \in Proc \ {p} : stdout'[q] = stdout[q]
<1>1. stdout' = [stdout EXCEPT ![p] = stdout[p] \o <<l>>] /\ stdout[p] \in Seq(Lines)
  BY DEF Says, QueueTypes
<1>2. stdout'[p] = Append(stdout[p], l) /\ \A q \in Proc \ {p} : stdout'[q] = stdout[q]
  BY <1>1, ConcatIs DEF QueueTypes
<1> QED
  BY <1>2, StdoutAdd DEF Tells

\* An event is all that p says.
LEMMA EventIs ==
  ASSUME QueueTypes, NEW p \in Proc, Finish(p) \/ Extension(p)
  PROVE  /\ Tells(p) /\ UNCHANGED <<stdin, call>>
         /\ \A q \in Proc \ {p} : stdout'[q] = stdout[q]
<1>1. /\ Event("agent_start", Own) \in Lines /\ Event("agent_start", Own).type # "response"
      /\ work[p] # NoRun => /\ Event("agent_settled", work[p]) \in Lines
                            /\ Event("agent_settled", work[p]).type # "response"
  BY DEF Event, Lines, QueueTypes
<1> QED
  BY <1>1, TellsOne DEF Finish, Extension, bridge

\* Whatever a step does, of a call there is no more than one message.
LEMMA MsgStep ==
  Types /\ ProcInv /\ WhoInv /\ LifeInv /\ CallInv /\ MsgInv /\ [Next]_vars => MsgInv'
<1> SUFFICES ASSUME Types, ProcInv, WhoInv, LifeInv, CallInv, MsgInv, [Next]_vars PROVE MsgInv'
  OBVIOUS
<1>0. QueueTypes /\ CallTypes /\ NoProc \notin Proc
  BY DEF Types, NoProc, Proc
<1>a. \A c \in Call : Free(c) \/ At(c, "start") => \A p \in Proc : Silent(c, p)
  <2>1. \A c \in Call : Free(c) => \A p \in Proc : Silent(c, p)
    BY DEF Free, Silent, CommandsOf, RepliesTo
  <2> QED
    BY <2>1 DEF MsgInv, MsgOf
<1>1. ASSUME NEW c \in Call, NEW k, NEW s, Free(c), Join(c, k, s), stdout' = stdout PROVE MsgInv'
  BY <1>0, <1>1, <1>a, BegunMsgs DEF Join
<1>2. ASSUME NEW c \in Call, NEW s, SendPrompt(c, s), proc[s] \in Proc,
             Free(c) \/ At(c, "start"), stdout' = stdout
      PROVE  MsgInv'
  <2>1. PICK r \in Run : Write(proc[s], "prompt", c, r) /\ Sent(c, "prompt", s, r)
    BY <1>2 DEF SendPrompt
  <2> QED
    BY <1>0, <1>2, <1>a, <2>1, SentMsgs
<1>3. ASSUME NEW c \in Call, NEW s, NEW k, k # "prompt", NEW m \in {"abort", "other"},
             Write(proc[s], m, c, NoRun), Sent(c, k, s, NoRun), proc[s] \in Proc,
             Free(c) \/ At(c, "start"), stdout' = stdout
      PROVE  MsgInv'
  BY <1>0, <1>3, <1>a, SentMsgs
<1>4. ASSUME NEW c \in Call, NEW s \in Session, Create(c, s) \/ Prompt(c, s) \/ Read(c, s)
      PROVE  MsgInv'
  BY <1>0, <1>1, <1>2, <1>3, <1>4, AnsweredMsgs DEF Create, Prompt, Read, Send, Usable, ProcInv
<1>5. ASSUME NEW c \in Call, NEW s \in Session, Abort(c, s) PROVE MsgInv'
  <2>1. CASE s \in busy /\ proc[s] # NoProc
    BY <1>0, <1>3, <1>5, <2>1 DEF Abort, ProcInv
  <2>2. CASE ~(s \in busy /\ proc[s] # NoProc)
    BY <1>5, <2>2, AnsweredMsgs DEF Abort
  <2> QED
    BY <2>1, <2>2
<1>6. ASSUME NEW c \in Call, Proceed(c) PROVE MsgInv'
  <2>1. call[c].s \in Session /\ proc[call[c].s] \in Proc /\ At(c, "start") /\ stdout' = stdout
    BY <1>6 DEF Proceed, CallInv, ProcInv
  <2> QED
    BY <1>2, <1>3, <1>6, <2>1, AnsweredMsgs DEF Proceed, Send
<1>7. ASSUME NEW c \in Call, TimesOut(c) PROVE MsgInv'
  BY <1>7, AnsweredMsgs DEF TimesOut, Failed, pi
<1>8. ASSUME NEW s \in Session, StartTimesOut(s) PROVE MsgInv'
  BY <1>8, AnsweredMsgs DEF StartTimesOut, Failed, pi
<1>9. ASSUME NEW s \in Session, Spawn(s) PROVE MsgInv'
  <2>1. CASE Failed(Joined(s)) /\ UNCHANGED stdin
    BY <1>9, <2>1, AnsweredMsgs DEF Spawn, Failed
  <2> DEFINE first == [type |-> "other", by |-> Starter, run |-> NoRun]
  <2>2. ASSUME NEW p \in Proc, life[p] = "unused", stdin' = [stdin EXCEPT ![p] = <<first>>],
               UNCHANGED <<call, stdout>>
        PROVE  MsgInv'
    <3>1. stdin'[p] = <<first>> /\ first.by \notin Call
          /\ \A q \in Proc \ {p} : stdin'[q] = stdin[q]
      BY <1>0, <2>2, PiBridgeConstants DEF QueueTypes
    <3>2. \A c \in Call : CommandsOf(c, p)' = {}
      BY <3>1 DEF CommandsOf
    <3>3. \A c \in Call : Silent(c, p) => Silent(c, p)'
      BY <2>2, <3>2 DEF Silent, RepliesTo
    <3>4. stdin[p] = <<>> /\ stdout[p] = <<>>
      BY <2>2 DEF LifeInv
    <3>5. \A c \in Call : Silent(c, p)
      BY <3>4 DEF Silent, CommandsOf, RepliesTo
    <3>6. \A c \in Call : Carried(c, p)
      BY <3>3, <3>5 DEF Carried
    <3> QED
      BY <2>2, <3>1, <3>6, QueueMsgs
  <2> QED
    BY <1>9, <2>1, <2>2 DEF Spawn, procs
<1>10. ASSUME NEW p \in Proc, Gone(p) PROVE MsgInv'
  BY <1>10, AnsweredMsgs DEF Gone, Failed, pi
<1>11. ASSUME NEW p \in Proc, NEW k, Reads(p, k)
       PROVE  /\ stdout[p] # <<>> /\ stdout'[p] = Tail(stdout[p])
              /\ \A q \in Proc \ {p} : stdout'[q] = stdout[q]
  BY <1>0, <1>11 DEF Reads, QueueTypes
<1>12. ASSUME NEW p \in Proc, AgentStart(p) \/ AgentSettled(p) PROVE MsgInv'
  <2>1. \E k : Reads(p, k) /\ UNCHANGED <<call, stdin>>
    BY <1>12 DEF AgentStart, AgentSettled
  <2>2. \A c \in Call : Carried(c, p)
    BY <1>0, <1>11, <2>1, ReadCarries
  <2> QED
    BY <1>11, <2>1, <2>2, QueueMsgs
<1>13. ASSUME NEW p \in Proc, Response(p) PROVE MsgInv'
  <2> DEFINE d == Line(p).by
  <2>1. /\ Reads(p, "response") /\ stdin' = stdin
        /\ \A c \in Call : call'[c] = call[c] \/ (c = d /\ call'[c] = Idle)
    BY <1>13 DEF Response, Answered
  <2> HIDE DEF d
  <2>2. ASSUME NEW c \in Call, call'[c] = call[c], NEW q \in Proc PROVE Carried(c, q)
    BY <1>0, <1>11, <2>1, <2>2, ReadCarries, SameCarries
  <2> QED
    BY <2>1, <2>2, MsgFrame DEF Idle
<1>14. ASSUME NEW p \in Proc, Serve(p) PROVE MsgInv'
  <2>1. call' = call
    BY <1>14 DEF Serve, bridge
  <2>2. \A c \in Call : Carried(c, p)
    BY <1>0, <1>14, <2>1, ServeIs, ServeCarries
  <2> QED
    BY <1>0, <1>14, <2>1, <2>2, ServeIs, QueueMsgs
<1>15. ASSUME NEW p \in Proc, Finish(p) \/ Extension(p) PROVE MsgInv'
  <2>1. \A c \in Call : Carried(c, p)
    BY <1>0, <1>15, EventIs, TellCarries
  <2> QED
    BY <1>0, <1>15, <2>1, EventIs, QueueMsgs
<1>16. ASSUME NEW p \in Proc, Dies(p) PROVE MsgInv'
  <2>1. stdin'[p] = <<>> /\ UNCHANGED <<stdout, call>>
        /\ \A q \in Proc \ {p} : stdin'[q] = stdin[q]
    BY <1>0, <1>16 DEF Dies, bridge, QueueTypes
  <2>2. \A c \in Call : Carried(c, p)
    BY <2>1, EmptyCarries
  <2> QED
    BY <2>1, <2>2, QueueMsgs
<1>17. ASSUME UNCHANGED <<call, stdin, stdout>> PROVE MsgInv'
  <2>1. Answered({})
    BY <1>0, <1>17 DEF Answered, CallTypes
  <2> QED
    BY <1>17, <2>1, AnsweredMsgs
<1>18. ASSUME NEW s \in Session, Reap(s) PROVE MsgInv'
  BY <1>17, <1>18 DEF Reap, bridge, pi
<1>19. CASE Dispose \/ UNCHANGED vars
  BY <1>17, <1>19 DEF Dispose, vars, bridge, pi
<1> QED
  BY <1>4, <1>5, <1>6, <1>7, <1>8, <1>9, <1>10, <1>12, <1>13, <1>14, <1>15, <1>16, <1>18,
     <1>19 DEF Next

-----------------------------------------------------------------------------
(* Where the run of a session is.                                            *)

\* All of the invariant but for the place of the run.
Frame == Types /\ ProcInv /\ WhoInv /\ LifeInv /\ CallInv /\ MsgInv /\ RunIds /\ StartInv

\* A call that waits for the answer to a prompt has no message where there is no prompt
\* and no answer to it.
LEMMA AskedIsSilent ==
  ASSUME Frame, NEW c \in Call, At(c, "sent"), call[c].kind = "prompt", NEW p \in Proc,
         Prompts(p) = {}, RepliesTo(c, p) = {}
  PROVE  Silent(c, p)
<1>1. Silent(c, p) \/ Once(c, p)
  BY DEF Frame, MsgInv, MsgOf
<1>2. \A i \in CommandsOf(c, p) : i \in DOMAIN stdin[p]
  BY DEF CommandsOf
<1> QED
  BY <1>1, <1>2 DEF Once, Prompts

\* A call whose prompt is waiting has no answer, and one that is refused no other answer.
LEMMA AskedOnce ==
  ASSUME Frame, NEW c \in Call, NEW s, NEW p \in Proc, Asks(c, s, p)
  PROVE  /\ \A m \in Commands : OnePrompt(p, m) /\ m.by = c => RepliesTo(c, p) = {}
         /\ \A l \in Lines : OneRefusal(p, l) /\ l.by = c =>
              \A i \in RepliesTo(c, p) : stdout[p][i].ok # "yes"
<1>1. Silent(c, p) \/ Once(c, p)
  BY DEF Frame, MsgInv, MsgOf, Asks
<1>2. \A m \in Commands : OnePrompt(p, m) /\ m.by = c => CommandsOf(c, p) # {}
  BY DEF OnePrompt, CommandsOf
<1>3. ASSUME NEW l \in Lines, OneRefusal(p, l), l.by = c, NEW i \in RepliesTo(c, p)
      PROVE  stdout[p][i].ok # "yes"
  <2>1. PICK j \in DOMAIN stdout[p] : Refusals(p) = {j} /\ stdout[p][j] = l
    BY <1>3 DEF OneRefusal
  <2>2. j \in Refusals(p)
    BY <2>1
  <2>3. stdout[p][j].ok # "yes" /\ j \in RepliesTo(c, p)
    BY <1>3, <2>1, <2>2 DEF Refusals, RepliesTo
  <2>4. i = j
    BY <1>1, <1>3, <2>3 DEF Silent, Once
  <2> QED
    BY <2>3, <2>4
<1> QED
  BY <1>1, <1>2, <1>3 DEF Silent, Once

\* A step that leaves alone the calls that wait for t, unless their prompt is accepted,
\* and sends none for its run.
CallsAside(t) ==
  \A c \in Call :
    /\ Asks(c, t, call[c].p) =>
         \/ call'[c] = call[c]
         \/ \E i \in RepliesTo(c, call[c].p) : stdout[call[c].p][i].ok = "yes"
    /\ t \in busy /\ call'[c].at = "sent" => call'[c] = call[c] \/ call'[c].run # runId[t]

\* A step that leaves session t aside.
Aside(t) ==
  /\ t \in busy' <=> t \in busy
  /\ runId'[t] = runId[t] /\ stopping \subseteq stopping'
  /\ \A p \in Proc : /\ home[p] = t => Mild(p)
                     /\ home'[p] = t => home[p] = t \/ Quiet(p)'
  /\ t \in busy /\ Usable(t) =>
       /\ proc'[t] = proc[t] /\ proc[t] \notin stopping' /\ Alike(proc[t])
       /\ life[proc[t]] = "dead" => life'[proc[t]] = "dead"
  /\ CallsAside(t)

\* The run of a session that is left aside stays where it is.
LEMMA AsideKeeps ==
  ASSUME Frame, NEW t \in Session, RunOf(t), Aside(t)
  PROVE  RunOf(t)'
<1>0. \A p \in Proc : home'[p] = t => Quiet(p)' \/ (home[p] = t /\ ~Quiet(p))
  BY DEF Aside, Mild
<1>1. CASE Resting(t)
  BY <1>0, <1>1 DEF Resting, Aside, RunOf
<1>2. CASE Lost(t)
  <2>1. PICK c \in Call : /\ Asks(c, t, call[c].p) /\ call[c].p \in stopping
                          /\ RepliesTo(c, call[c].p) = {}
    BY <1>2 DEF Lost
  <2>2. PICK p : p = call[c].p
    OBVIOUS
  <2>3. p \in Proc /\ home[p] = t /\ Quiet(p) /\ t \in busy
    BY <1>2, <2>1, <2>2 DEF Frame, CallInv, Asks, Lost
  <2>4. call'[c] = call[c]
    BY <2>1 DEF Aside, CallsAside
  <2>5. Silent(c, p)
    BY <2>1, <2>2, <2>3, AskedIsSilent DEF Quiet, Asks
  <2>6. Mild(p)
    BY <2>3 DEF Aside
  <2>7. RepliesTo(c, p)' = {}
    BY <2>5, <2>6 DEF Mild
  <2>8. call'[c].p = p /\ p \in stopping' /\ t \in busy'
    BY <2>1, <2>2, <2>3, <2>4 DEF Aside
  <2>9. Asks(c, t, call[c].p)'
    BY <2>1, <2>4 DEF Asks, Aside, At
  <2>10. RepliesTo(c, call[c].p)' = {}
    BY <2>7, <2>8 DEF RepliesTo
  <2>11. \A q \in Proc : home'[q] = t => Quiet(q)'
    BY <1>0, <1>2 DEF Lost
  <2> QED
    BY <2>8, <2>9, <2>10, <2>11 DEF Lost, RunOf
<1>3. CASE Active(t)
  <2>0. PICK P : P = proc[t]
    OBVIOUS
  <2>1. t \in busy /\ Usable(t) /\ P \in Proc /\ home[P] = t /\ runId[t] \in Run
    BY <1>3, <2>0 DEF Active, Usable, Frame, ProcInv, RunIds
  <2>2. proc'[t] = P /\ Usable(t)' /\ t \in busy' /\ Alike(P) /\ runId'[t] = runId[t]
    BY <2>0, <2>1 DEF Aside, Usable
  <2>3. \A p \in Proc \ {proc'[t]} : home'[p] = t => Quiet(p)'
    BY <1>0, <1>3, <2>0, <2>2 DEF Active
  <2>4. \A c \in Call : At(c, "sent")' /\ call'[c].run = runId'[t] => call'[c].p = proc'[t]
    BY <1>3, <2>0, <2>1, <2>2 DEF Aside, CallsAside, Active, At
  <2>5. ASSUME NEW c \in Call, Asks(c, t, P),
               ~ \E i \in RepliesTo(c, P) : stdout[P][i].ok = "yes"
        PROVE  Asks(c, t, P)'
    <3>1. call[c].p = P
      BY <2>5 DEF Asks
    <3>2. call'[c] = call[c]
      BY <2>5, <3>1 DEF Aside, CallsAside
    <3> QED
      BY <2>2, <2>5, <3>2 DEF Asks, At
  <2>6. ASSUME InStdin(P, t) PROVE InStdin(P, t)'
    <3>1. PICK m \in Commands : OnePrompt(P, m) /\ m.run = runId[t] /\ Asks(m.by, t, P)
      BY <2>6 DEF InStdin
    <3>2. m.by \in Call /\ RepliesTo(m.by, P) = {}
      BY <2>1, <3>1, AskedOnce DEF Asks
    <3>3. Asks(m.by, t, P)'
      BY <2>5, <3>1, <3>2
    <3>4. OnePrompt(P, m)' /\ work'[P] = NoRun /\ Events(P)' = {} /\ Refusals(P)' = {}
      BY <2>2, <2>6, <3>1 DEF Alike, InStdin
    <3> QED
      BY <2>2, <3>1, <3>3, <3>4 DEF InStdin
  <2>7. ASSUME Declined(P, t) PROVE Declined(P, t)'
    <3>1. PICK l \in Lines : OneRefusal(P, l) /\ Asks(l.by, t, P)
      BY <2>7 DEF Declined
    <3>2. l.by \in Call /\ \A i \in RepliesTo(l.by, P) : stdout[P][i].ok # "yes"
      BY <2>1, <3>1, AskedOnce DEF Asks
    <3>3. Asks(l.by, t, P)'
      BY <2>5, <3>1, <3>2
    <3>4. OneRefusal(P, l)' /\ work'[P] = NoRun /\ Events(P)' = {} /\ Prompts(P)' = {}
      BY <2>2, <2>7, <3>1 DEF Alike, Declined
    <3> QED
      BY <3>3, <3>4 DEF Declined
  <2>8. Working(P, t) => Working(P, t)'
    BY <2>1, <2>2 DEF Working, Alike
  <2>9. Finished(P, t) => Finished(P, t)'
    BY <2>1, <2>2 DEF Finished, Alike
  <2>10. Crashed(P, t) => Crashed(P, t)'
    BY <2>0, <2>1, <2>2 DEF Crashed, Alike, Aside
  <2>11. \/ InStdin(P, t)' \/ Working(P, t)' \/ Finished(P, t)'
         \/ Declined(P, t)' \/ Crashed(P, t)'
    BY <1>3, <2>0, <2>6, <2>7, <2>8, <2>9, <2>10 DEF Active
  <2>12. (\/ InStdin(proc[t], t) \/ Working(proc[t], t) \/ Finished(proc[t], t)
          \/ Declined(proc[t], t) \/ Crashed(proc[t], t))'
    BY <2>2, <2>11 DEF InStdin, Working, Finished, Declined, Crashed
  <2> QED
    BY <2>2, <2>3, <2>4, <2>12 DEF RunOf, Active
<1> QED
  BY <1>1, <1>2, <1>3 DEF RunOf

\* A call goes on that does not wait; calls are answered.
LEMMA OneCallAside ==
  ASSUME Frame, NEW t \in Session, NEW d \in Call, ~At(d, "sent"), NEW new,
         call' = [call EXCEPT ![d] = new],
         new.at = "sent" => new.run = NoRun \/ (new.run \in Run /\ runs[new.run] = "none")
  PROVE  CallsAside(t)
<1>1. call'[d] = new /\ \A c \in Call \ {d} : call'[c] = call[c]
  BY DEF Frame, Types, CallTypes
<1>2. t \in busy => runId[t] \in Run /\ runs[runId[t]] # "none"
  BY DEF Frame, RunIds
<1>3. NoRun \notin Run
  BY DEF NoRun, Run
<1> QED
  BY <1>1, <1>2, <1>3 DEF CallsAside, Asks

LEMMA AnsweredAside ==
  ASSUME NEW t \in Session, NEW C, Answered(C),
         \A c \in Call : c \in C /\ Asks(c, t, call[c].p) =>
           \E i \in RepliesTo(c, call[c].p) : stdout[call[c].p][i].ok = "yes"
  PROVE  CallsAside(t)
<1>1. \A c \in Call : call'[c] = IF c \in C THEN Idle ELSE call[c]
  BY DEF Answered
<1>2. Idle.at = "idle"
  BY DEF Idle
<1> QED
  BY <1>1, <1>2 DEF CallsAside

\* Only calls, the queues of others and the processes of others change.
LEMMA RestKeeps ==
  ASSUME Frame, NEW t \in Session, RunOf(t), CallsAside(t),
         t \in busy' <=> t \in busy, runId'[t] = runId[t], proc'[t] = proc[t], home' = home,
         stopping \subseteq stopping', t \in busy => proc[t] \notin stopping' \ stopping,
         \A p \in Proc : home[p] = t => /\ Alike(p) /\ Mild(p)
                                        /\ life[p] = "dead" => life'[p] = "dead"
  PROVE  RunOf(t)'
<1>1. Usable(t) => proc[t] \in Proc /\ home[proc[t]] = t /\ proc[t] \notin stopping
  BY DEF Frame, ProcInv, Usable
<1>2. Aside(t)
  BY <1>1 DEF Aside
<1> QED
  BY <1>2, AsideKeeps

\* No queue changes and no process.
LEMMA StillKeeps ==
  ASSUME Frame, NEW t \in Session, RunOf(t), CallsAside(t),
         t \in busy' <=> t \in busy, runId'[t] = runId[t], proc'[t] = proc[t],
         UNCHANGED <<life, home, pi>>,
         stopping \subseteq stopping', t \in busy => proc[t] \notin stopping' \ stopping
  PROVE  RunOf(t)'
<1>1. \A p \in Proc : Alike(p) /\ Mild(p)
  BY SameIsAlike DEF pi
<1> QED
  BY <1>1, RestKeeps

\* A prompt is sent.
LEMMA PromptSent ==
  ASSUME Frame, NEW s \in Session, s \notin busy, RunOf(s), NEW c \in Call, ~At(c, "sent"),
         \A p \in Proc : Silent(c, p), proc[s] \in Proc, SendPrompt(c, s),
         UNCHANGED <<proc, life, home, stopping, stdout, work>>
  PROVE  RunOf(s)'
<1>1. PICK r \in Run : Starts(s, r) /\ Write(proc[s], "prompt", c, r) /\ Sent(c, "prompt", s, r)
  BY DEF SendPrompt
<1>2. PICK P : P = proc[s]
  OBVIOUS
<1>3. PICK m : m = [type |-> "prompt", by |-> c, run |-> r]
  OBVIOUS
<1>4. /\ P \in Proc /\ m \in Commands /\ m.type = "prompt" /\ m.by = c /\ m.run = r
      /\ home[P] = s /\ life[P] \in {"up", "dead"} /\ P # NoProc
  BY <1>2, <1>3 DEF Commands, Asker, Frame, ProcInv, NoProc, Proc
<1>5. s \in busy' /\ runId'[s] = r /\ runs[r] = "none"
  BY <1>1 DEF Starts, Frame, Types, RunTypes
<1>6. \A p \in Proc : home[p] = s => Quiet(p)
  BY DEF RunOf, Resting, Lost, Active
<1>7. /\ call'[c] = [kind |-> "prompt", at |-> "sent", s |-> s, p |-> P, run |-> r]
      /\ \A d \in Call \ {c} : call'[d] = call[d]
  BY <1>1, <1>2 DEF Sent, Frame, Types, CallTypes
<1>8. Asks(c, s, P)' /\ call'[c].p = P
  BY <1>5, <1>7 DEF Asks, At
<1>9. \A d \in Call : At(d, "sent")' /\ call'[d].run = r => call'[d].p = P
  BY <1>4, <1>5, <1>7 DEF Frame, CallInv, At
<1>10. \A p \in Proc : Events(p)' = Events(p) /\ Refusals(p)' = Refusals(p) /\ work'[p] = work[p]
  BY DEF Events, Refusals
<1>11. RepliesTo(c, P)' = {}
  BY <1>4 DEF Silent, RepliesTo
<1>12. proc'[s] = P /\ home' = home
  BY <1>2
<1>a. CASE P \in stopping
  <2>1. stdin' = stdin
    BY <1>1, <1>2, <1>a DEF Write
  <2>2. \A p \in Proc : home'[p] = s => Quiet(p)'
    BY <2>1, <1>6, <1>10 DEF Quiet, Prompts
  <2>3. RepliesTo(c, call[c].p)' = {}
    BY <1>8, <1>11 DEF RepliesTo
  <2>4. Asks(c, s, call[c].p)' /\ call'[c].p \in stopping'
    BY <1>8, <1>a
  <2> QED
    BY <1>5, <2>2, <2>3, <2>4 DEF Lost, RunOf
<1>b. CASE P \notin stopping
  <2>1. Usable(s)'
    BY <1>b, <1>4, <1>12 DEF Usable
  <2>2. \A p \in Proc : p # P => stdin'[p] = stdin[p]
    BY <1>1, <1>2 DEF Write, Frame, Types, QueueTypes
  <2>3. \A p \in Proc \ {P} : home'[p] = s => Quiet(p)'
    BY <2>2, <1>6, <1>10 DEF Quiet, Prompts
  <2>4. Events(P)' = {} /\ Refusals(P)' = {} /\ work'[P] = NoRun
    BY <1>4, <1>6, <1>10 DEF Quiet
  <2>5. CASE life[P] = "up"
    <3>1. stdin'[P] = Append(stdin[P], m) /\ stdin[P] \in Seq(Commands)
      BY <1>1, <1>2, <1>3, <1>b, <2>5 DEF Write, Frame, Types, QueueTypes
    <3>2. Prompts(P) = {}
      BY <1>4, <1>6 DEF Quiet
    <3>3. OnePrompt(P, m)'
      BY <3>1, <3>2, <1>4, AppendIs DEF OnePrompt, Prompts
    <3>4. InStdin(P, s)'
      BY <3>3, <2>4, <1>4, <1>5, <1>8 DEF InStdin
    <3>5. InStdin(proc[s], s)'
      BY <3>4, <1>12 DEF InStdin
    <3> QED
      BY <3>5, <1>5, <1>9, <1>12, <2>1, <2>3 DEF Active, RunOf
  <2>6. CASE life[P] = "dead"
    <3>1. OnlyStarts(P, runId[s])'
      BY <2>4 DEF OnlyStarts
    <3>2. Crashed(proc[s], s)'
      BY <3>1, <2>4, <2>6, <1>12 DEF Crashed
    <3> QED
      BY <3>2, <1>5, <1>9, <1>12, <2>1, <2>3 DEF Active, RunOf
  <2> QED
    BY <1>4, <2>5, <2>6
<1> QED
  BY <1>a, <1>b

(* The calls and the bridge.                                                 *)

\* A call that does not wait has nothing on its way.
LEMMA FreeIsSilent ==
  ASSUME Frame, NEW c \in Call, Free(c) \/ At(c, "start")
  PROVE  ~At(c, "sent") /\ \A p \in Proc : Silent(c, p)
<1>1. CASE Free(c)
  BY <1>1 DEF Free, At, Silent, CommandsOf, RepliesTo
<1>2. CASE At(c, "start")
  BY <1>2 DEF Frame, MsgInv, MsgOf, At
<1> QED
  BY <1>1, <1>2

\* A command that is not a prompt is sent.
LEMMA WritesOther ==
  ASSUME Frame, NEW P \in Proc, NEW c \in Call, NEW k \in {"abort", "other"},
         Write(P, k, c, NoRun), UNCHANGED <<stdout, work>>
  PROVE  \A p \in Proc : Alike(p) /\ Mild(p)
<1>1. PICK m : m = [type |-> k, by |-> c, run |-> NoRun]
  OBVIOUS
<1>2. m \in Commands /\ m.type # "prompt"
  BY <1>1 DEF Commands, Asker
<1>3. stdin' = stdin \/ stdin' = [stdin EXCEPT ![P] = Append(stdin[P], m)]
  BY <1>1 DEF Write
<1>4. QueueTypes
  BY DEF Frame, Types
<1>5. \A p \in Proc : stdin'[p] = stdin[p] \/ stdin'[p] = Append(stdin[p], m)
  BY <1>3, <1>4 DEF QueueTypes
<1> QED
  BY <1>2, <1>4, <1>5, SameIsAlike, AddIsAlike

\* What the steps of the bridge do to the run of any session.
LEMMA JoinKeeps ==
  ASSUME Frame, NEW t \in Session, RunOf(t), NEW c \in Call, NEW k, NEW s \in Session,
         ~At(c, "sent"), Join(c, k, s),
         UNCHANGED <<proc, life, home, stopping, stdout, work>>
  PROVE  RunOf(t)'
<1>1. PICK new : /\ call' = [call EXCEPT ![c] = new] /\ new.at = "start"
                 /\ new = [kind |-> k, at |-> "start", s |-> s, p |-> NoProc, run |-> NoRun]
  BY DEF Join, Begin
<1>2. CallsAside(t)
  BY <1>1, OneCallAside
<1> QED
  BY <1>2, StillKeeps DEF Join, pi

LEMMA SendKeeps ==
  ASSUME Frame, NEW t \in Session, RunOf(t), NEW c \in Call, NEW k, NEW s \in Session,
         ~At(c, "sent"), NEW m \in {"abort", "other"}, proc[s] \in Proc,
         Write(proc[s], m, c, NoRun), Sent(c, k, s, NoRun),
         UNCHANGED <<busy, runId, proc, life, home, stopping, stdout, work>>
  PROVE  RunOf(t)'
<1>1. PICK new : /\ call' = [call EXCEPT ![c] = new] /\ new.run = NoRun
                 /\ new = [kind |-> k, at |-> "sent", s |-> s, p |-> proc[s], run |-> NoRun]
  BY DEF Sent
<1>2. CallsAside(t)
  BY <1>1, OneCallAside
<1>3. \A p \in Proc : Alike(p) /\ Mild(p)
  BY WritesOther
<1> QED
  BY <1>2, <1>3, RestKeeps

LEMMA RefuseKeeps ==
  ASSUME Frame, NEW t \in Session, RunOf(t), NEW c \in Call, ~At(c, "sent"), Answered({c}),
         UNCHANGED <<busy, runId, proc, life, home, stopping, pi>>
  PROVE  RunOf(t)'
<1>1. CallsAside(t)
  <2>1. \A d \in Call : ~ (d \in {c} /\ Asks(d, t, call[d].p))
    BY DEF Asks
  <2> QED
    BY <2>1, AnsweredAside
<1> QED
  BY <1>1, StillKeeps

LEMMA PromptKeeps ==
  ASSUME Frame, NEW t \in Session, RunOf(t), NEW c \in Call, NEW s \in Session, s \notin busy,
         ~At(c, "sent"), \A p \in Proc : Silent(c, p), proc[s] \in Proc, SendPrompt(c, s),
         UNCHANGED <<proc, life, home, stopping, stdout, work>>
  PROVE  RunOf(t)'
<1>1. CASE t = s
  BY <1>1, PromptSent
<1>2. CASE t # s
  <2>1. PICK r \in Run : /\ Starts(s, r) /\ Write(proc[s], "prompt", c, r)
                         /\ Sent(c, "prompt", s, r)
    BY DEF SendPrompt
  <2>2. PICK new : /\ call' = [call EXCEPT ![c] = new] /\ new.run = r
                   /\ new = [kind |-> "prompt", at |-> "sent", s |-> s, p |-> proc[s],
                              run |-> r]
    BY <2>1 DEF Sent
  <2>3. runs[r] = "none" /\ runId'[t] = runId[t] /\ (t \in busy' <=> t \in busy)
    BY <1>2, <2>1 DEF Starts, Frame, Types, RunTypes
  <2>4. CallsAside(t)
    BY <2>2, <2>3, OneCallAside
  <2>5. \A p \in Proc : home[p] = t => stdin'[p] = stdin[p]
    BY <1>2, <2>1 DEF Write, Frame, ProcInv, Types, QueueTypes, NoProc, Proc
  <2>6. \A p \in Proc : home[p] = t => Alike(p) /\ Mild(p)
    BY <2>5, SameIsAlike
  <2> QED
    BY <2>3, <2>4, <2>6, RestKeeps
<1> QED
  BY <1>1, <1>2

LEMMA CallsKeep ==
  ASSUME Frame, NEW t \in Session, RunOf(t), NEW c \in Call, NEW s \in Session,
         Create(c, s) \/ Prompt(c, s) \/ Read(c, s) \/ Abort(c, s)
  PROVE  RunOf(t)'
<1>1. Free(c) /\ UNCHANGED <<proc, life, home, stopping, stdout, work>>
  BY DEF Create, Prompt, Read, Abort, procs
<1>2. ~At(c, "sent") /\ \A p \in Proc : Silent(c, p)
  BY <1>1, FreeIsSilent
<1>3. proc[s] # NoProc => proc[s] \in Proc
  BY DEF Frame, ProcInv
<1>4. CASE Create(c, s)
  BY <1>1, <1>2, <1>4, JoinKeeps DEF Create
<1>5. CASE Prompt(c, s)
  <2>1. CASE Answered({c}) /\ UNCHANGED <<busy, runId, runs, starting, stdin>>
    BY <2>1, <1>1, <1>2, RefuseKeeps DEF pi
  <2>2. CASE s \notin busy /\ Usable(s) /\ SendPrompt(c, s)
    BY <2>2, <1>1, <1>2, <1>3, PromptKeeps DEF Usable
  <2>3. CASE Join(c, "prompt", s)
    BY <2>3, <1>1, <1>2, JoinKeeps
  <2> QED
    BY <1>5, <2>1, <2>2, <2>3 DEF Prompt
<1>6. CASE Read(c, s)
  <2>1. CASE Usable(s) /\ Send(c, "read", s)
    BY <2>1, <1>1, <1>2, <1>3, SendKeeps DEF Usable, Send
  <2>2. CASE Join(c, "read", s)
    BY <2>2, <1>1, <1>2, JoinKeeps
  <2> QED
    BY <1>6, <2>1, <2>2 DEF Read
<1>7. CASE Abort(c, s)
  <2>1. CASE s \in busy /\ proc[s] # NoProc
    BY <2>1, <1>1, <1>2, <1>3, <1>7, SendKeeps DEF Abort
  <2>2. CASE ~ (s \in busy /\ proc[s] # NoProc)
    BY <2>2, <1>1, <1>2, <1>7, RefuseKeeps DEF Abort, pi
  <2> QED
    BY <2>1, <2>2
<1> QED
  BY <1>4, <1>5, <1>6, <1>7

LEMMA ProceedKeeps ==
  ASSUME Frame, NEW t \in Session, RunOf(t), NEW c \in Call, Proceed(c)
  PROVE  RunOf(t)'
<1>1. PICK s : s = call[c].s
  OBVIOUS
<1>2. /\ At(c, "start") /\ starting[s] = "no"
      /\ UNCHANGED <<proc, life, home, stopping, stdout, work>>
  BY <1>1 DEF Proceed, procs
<1>3. ~At(c, "sent") /\ \A p \in Proc : Silent(c, p)
  BY <1>2, FreeIsSilent
<1>4. s \in Session /\ proc[s] \in Proc
  BY <1>1, <1>2 DEF Frame, CallInv, ProcInv
<1>5. CASE Answered({c}) /\ UNCHANGED <<busy, runId, runs, starting, stdin>>
  BY <1>2, <1>3, <1>5, RefuseKeeps DEF pi
<1>6. CASE call[c].kind = "prompt" /\ ~Refused(c) /\ SendPrompt(c, s)
  BY <1>1, <1>2, <1>3, <1>4, <1>6, PromptKeeps DEF Refused
<1>7. CASE Send(c, call[c].kind, s)
  BY <1>2, <1>3, <1>4, <1>7, SendKeeps DEF Send
<1> QED
  BY <1>1, <1>5, <1>6, <1>7 DEF Proceed

LEMMA TimesOutKeeps ==
  ASSUME Frame, NEW t \in Session, RunOf(t), t \notin odd', NEW c \in Call, TimesOut(c)
  PROVE  RunOf(t)'
<1>1. PICK s : s = call[c].s
  OBVIOUS
<1>2. /\ At(c, "sent") /\ t # s /\ Answered({c}) /\ s \in Session
      /\ UNCHANGED <<proc, runId, life, home, pi>>
  BY <1>1 DEF TimesOut, Oddly, Failed, Frame, CallInv, WhoInv, CallsWho, At
<1>3. CallsAside(t)
  <2>1. \A d \in Call : ~ (d \in {c} /\ Asks(d, t, call[d].p))
    BY <1>1, <1>2 DEF Asks
  <2> QED
    BY <1>2, <2>1, AnsweredAside
<1>4. /\ t \in busy' <=> t \in busy
      /\ stopping \subseteq stopping' /\ stopping' \subseteq stopping \cup ({proc[s]} \ {NoProc})
  BY <1>1, <1>2 DEF TimesOut, Settle, Stop
<1>5. t \in busy => proc[t] \notin stopping' \ stopping
  BY <1>2, <1>4 DEF Frame, ProcInv
<1> QED
  BY <1>2, <1>3, <1>4, <1>5, StillKeeps

\* A new process is quiet, and none was to be used.
LEMMA SpawnKeeps ==
  ASSUME Frame, NEW t \in Session, RunOf(t), NEW s \in Session, Spawn(s)
  PROVE  RunOf(t)'
<1>1. CASE UNCHANGED <<proc, procs, stdin>> /\ Failed(Joined(s))
  <2>1. CallsAside(t)
    <3>1. \A d \in Call : ~ (d \in Joined(s) /\ Asks(d, t, call[d].p))
      BY DEF Joined, Asks, At
    <3> QED
      BY <1>1, <3>1, AnsweredAside DEF Failed
  <2> QED
    BY <1>1, <2>1, StillKeeps DEF Spawn, procs, pi
<1>2. ASSUME NEW p \in Proc, life[p] = "unused", life' = [life EXCEPT ![p] = "up"],
             home' = [home EXCEPT ![p] = s], proc' = [proc EXCEPT ![s] = p],
             stdin' = [stdin EXCEPT ![p] = <<[type |-> "other", by |-> Starter,
                                              run |-> NoRun]>>],
             call' = call, UNCHANGED stopping \/ \E v \in Victims : Stop({proc[v]})
      PROVE  RunOf(t)'
  <2>1. UNCHANGED <<busy, runId, stdout, work>> /\ starting[s] = "old" /\ ~Usable(s)
    BY DEF Spawn, Frame, StartInv
  <2>2. stdin[p] = <<>> /\ stdout[p] = <<>> /\ work[p] = NoRun
    BY <1>2 DEF Frame, LifeInv
  <2>3. stdin'[p] = <<[type |-> "other", by |-> Starter, run |-> NoRun]>>
        /\ \A q \in Proc \ {p} : stdin'[q] = stdin[q]
    BY <1>2 DEF Frame, Types, QueueTypes
  <2>4. DOMAIN stdin'[p] = {1} /\ stdin'[p][1].type = "other"
    BY <2>3
  <2>5. Quiet(p)' /\ \A c \in Call : RepliesTo(c, p)' = {}
    BY <2>1, <2>2, <2>4 DEF Quiet, Prompts, Events, Refusals, RepliesTo
  <2>6. \A q \in Proc : Mild(q) /\ (q # p => Alike(q))
    BY <2>1, <2>3, <2>5, SameIsAlike DEF Mild
  <2>7. \A q \in Proc : /\ q # p => home'[q] = home[q] /\ life'[q] = life[q]
                        /\ home'[p] = s
    BY <1>2 DEF Frame, ProcInv
  <2>8. CallsAside(t)
    BY <1>2 DEF CallsAside
  <2>9. ASSUME t \in busy, Usable(t)
        PROVE  /\ proc'[t] = proc[t] /\ proc[t] \notin stopping' /\ Alike(proc[t])
               /\ life[proc[t]] = "dead" => life'[proc[t]] = "dead"
    <3>1. t # s /\ proc[t] \in Proc /\ proc[t] # p /\ proc[t] \notin stopping
      BY <2>1, <2>9, <1>2 DEF Frame, ProcInv, Usable
    <3>2. proc'[t] = proc[t]
      BY <3>1, <1>2 DEF Frame, ProcInv
    <3>3. \A v \in Victims : v \in Session /\ v # t /\ proc[v] # proc[t]
      BY <2>9, <3>1 DEF Victims, Taken, Usable, Frame, ProcInv
    <3>4. proc[t] \notin stopping'
      BY <3>1, <3>3, <1>2 DEF Stop
    <3> QED
      BY <3>1, <3>2, <3>4, <2>6, <2>7
  <2>10. stopping \subseteq stopping'
    BY <1>2 DEF Stop
  <2>11. Aside(t)
    BY <2>1, <2>5, <2>6, <2>7, <2>8, <2>9, <2>10 DEF Aside
  <2> QED
    BY <2>11, AsideKeeps
<1> QED
  BY <1>1, <1>2 DEF Spawn

LEMMA StartTimesOutKeeps ==
  ASSUME Frame, NEW t \in Session, RunOf(t), t \notin odd', NEW s \in Session,
         StartTimesOut(s)
  PROVE  RunOf(t)'
<1>1. t # s /\ UNCHANGED <<proc, busy, runId, life, home, pi>>
  BY DEF StartTimesOut, Oddly
<1>2. CallsAside(t)
  <2>1. \A d \in Call : ~ (d \in Joined(s) /\ Asks(d, t, call[d].p))
    BY DEF Joined, Asks, At
  <2> QED
    BY <2>1, AnsweredAside DEF Failed, StartTimesOut
<1>3. stopping \subseteq stopping' /\ stopping' \subseteq stopping \cup ({proc[s]} \ {NoProc})
  BY DEF StartTimesOut, Stop
<1>4. t \in busy => proc[t] \notin stopping' \ stopping
  BY <1>1, <1>3 DEF Frame, ProcInv
<1> QED
  BY <1>1, <1>2, <1>3, <1>4, StillKeeps

\* What stops is of sessions that are not busy.
LEMMA StopKeeps ==
  ASSUME Frame, NEW t \in Session, RunOf(t), (\E s \in Session : Reap(s)) \/ Dispose
  PROVE  RunOf(t)'
<1>1. /\ UNCHANGED <<proc, busy, runId, call, life, home, pi>>
      /\ \E S \in SUBSET (Session \ busy) : Stop({proc[s] : s \in S})
  <2>1. ASSUME NEW s \in Session, Reap(s)
        PROVE  /\ UNCHANGED <<proc, busy, runId, call, life, home, pi>>
               /\ \E S \in SUBSET (Session \ busy) : Stop({proc[u] : u \in S})
    <3>1. {proc[s]} = {proc[u] : u \in {s}} /\ {s} \in SUBSET (Session \ busy)
      BY <2>1 DEF Reap
    <3>2. Stop({proc[s]}) /\ UNCHANGED <<proc, busy, runId, call, life, home, pi>>
      BY <2>1 DEF Reap, bridge
    <3> QED
      BY <3>1, <3>2
  <2>2. CASE Dispose
    BY <2>2 DEF Dispose
  <2> QED
    BY <2>1, <2>2
<1>2. CallsAside(t)
  BY <1>1 DEF CallsAside
<1>3. stopping \subseteq stopping' /\ (t \in busy => proc[t] \notin stopping' \ stopping)
  BY <1>1 DEF Stop, Frame, ProcInv
<1> QED
  BY <1>1, <1>2, <1>3, StillKeeps

(* The processes.                                                            *)

\* A process of t that is not quiet is that of its run.
LEMMA NotQuiet ==
  ASSUME Frame, NEW t \in Session, RunOf(t), NEW p \in Proc, home[p] = t, ~Quiet(p)
  PROVE  Active(t) /\ t \in busy /\ proc[t] = p /\ runId[t] \in Run
         /\ (\/ InStdin(p, t) \/ Working(p, t) \/ Finished(p, t)
             \/ Declined(p, t) \/ Crashed(p, t))
BY DEF RunOf, Resting, Lost, Active, Frame, RunIds

\* An exit is reported: the run of the process, or of a dropped prompt, is lost.
LEMMA GoneKeeps ==
  ASSUME Frame, NEW t \in Session, RunOf(t), NEW p \in Proc, Gone(p)
  PROVE  RunOf(t)'
<1>1. PICK s : s = home[p]
  OBVIOUS
<1>2. PICK dropped : dropped = {c \in Call : At(c, "sent") /\ call[c].p = p}
                 \cup (IF proc[s] = p /\ starting[s] # "old" THEN Joined(s) ELSE {})
  OBVIOUS
<1>3. /\ life[p] = "dead" /\ stdout[p] = <<>> /\ Answered(dropped)
      /\ life' = [life EXCEPT ![p] = "gone"] /\ UNCHANGED <<runId, home, pi>>
      /\ proc' = [proc EXCEPT ![s] = IF proc[s] = p THEN NoProc ELSE @]
      /\ IF Loses(p, dropped) THEN Settle(s, "lost", proc'[s]) ELSE NoRunEnds
  BY <1>1, <1>2 DEF Gone, Failed
<1>4. s \in Session
  BY <1>1, <1>3 DEF Frame, WhoInv
<1>5. \A q \in Proc : q # p => life'[q] = life[q]
  BY <1>3 DEF Frame, ProcInv
<1>6. \A q \in Proc : Alike(q) /\ Mild(q)
  BY <1>3, SameIsAlike DEF pi
<1>7. Quiet(p)
  <2>1. stdin[p] = <<>> /\ work[p] = NoRun
    BY <1>3 DEF Frame, LifeInv
  <2> QED
    BY <2>1, <1>3 DEF Quiet, Prompts, Events, Refusals
<1>8. \A c \in Call : c \in dropped =>
        \/ At(c, "start")
        \/ At(c, "sent") /\ call[c].p = p /\ call[c].s = s
  BY <1>1, <1>2 DEF Joined, Frame, CallInv
<1>9. stopping \subseteq stopping'
      /\ (UNCHANGED stopping \/ stopping' = stopping \cup ({proc'[s]} \ {NoProc}))
  BY <1>3 DEF Settle, NoRunEnds, Stop
<1>a. CASE t # s
  <2>1. CallsAside(t)
    <3>1. \A c \in Call : ~ (c \in dropped /\ Asks(c, t, call[c].p))
      BY <1>a, <1>8 DEF Asks, At
    <3> QED
      BY <1>3, <3>1, AnsweredAside
  <2>2. (t \in busy' <=> t \in busy) /\ proc'[t] = proc[t]
    BY <1>a, <1>3 DEF Settle, NoRunEnds, Frame, ProcInv
  <2>3. t \in busy => proc[t] \notin stopping' \ stopping
    BY <1>a, <1>3, <1>4, <1>9 DEF Frame, ProcInv
  <2>4. \A q \in Proc : home[q] = t => q # p
    BY <1>1, <1>a
  <2> QED
    BY <2>1, <2>2, <2>3, <2>4, <1>3, <1>5, <1>6, <1>9, RestKeeps
<1>b. CASE t = s /\ t \notin busy'
  <2>1. \A q \in Proc : home[q] = t => Quiet(q)
    <3>1. ASSUME NEW q \in Proc, home[q] = t, ~Quiet(q) PROVE FALSE
      <4>1. t \in busy /\ proc[t] = q /\ Active(t)
        BY <3>1, NotQuiet
      <4>2. q # p
        BY <3>1, <1>7
      <4>3. \A c \in dropped : call[c].kind = "prompt" => call[c].run # runId[s]
        <5>1. ASSUME NEW c \in dropped, call[c].kind = "prompt", call[c].run = runId[s]
              PROVE  FALSE
          <6>1. c \in Call
            BY <1>2 DEF Joined
          <6>2. call[c].run \in Run
            BY <5>1, <4>1, <1>b DEF Frame, RunIds
          <6>3. At(c, "sent") /\ call[c].p = p
            BY <5>1, <6>1, <6>2, <1>8 DEF Frame, CallInv, NoRun, Run
          <6> QED
            BY <6>1, <6>3, <5>1, <4>1, <4>2, <1>b DEF Active
        <5> QED
          BY <5>1
      <4>4. ~Loses(p, dropped)
        BY <4>1, <4>2, <4>3, <1>1, <1>b DEF Loses
      <4> QED
        BY <4>1, <4>4, <1>3, <1>b DEF NoRunEnds
    <3> QED
      BY <3>1
  <2>2. \A q \in Proc : home'[q] = t => Quiet(q)'
    BY <2>1, <1>3, <1>6 DEF Mild
  <2> QED
    BY <2>2, <1>b DEF Resting, RunOf
<1>c. CASE t = s /\ t \in busy'
  <2>1. t \in busy /\ ~Loses(p, dropped)
    BY <1>3, <1>c DEF Settle, NoRunEnds
  <2>2. proc[t] # p /\ \A c \in dropped : call[c].kind = "prompt" => call[c].run # runId[t]
    BY <2>1, <1>1, <1>c DEF Loses
  <2>3. CallsAside(t)
    <3>1. \A c \in Call : ~ (c \in dropped /\ Asks(c, t, call[c].p))
      BY <2>2 DEF Asks
    <3> QED
      BY <1>3, <3>1, AnsweredAside
  <2>4. UNCHANGED <<busy, stopping>> /\ proc'[t] = proc[t]
    BY <2>1, <2>2, <1>3, <1>c DEF NoRunEnds, Frame, ProcInv
  <2>5. Aside(t)
    <3>1. Usable(t) => proc[t] \in Proc /\ proc[t] \notin stopping
      BY DEF Usable, Frame, ProcInv
    <3> QED
      BY <2>2, <2>3, <2>4, <3>1, <1>3, <1>5, <1>6 DEF Aside
  <2> QED
    BY <2>5, AsideKeeps
<1> QED
  BY <1>a, <1>b, <1>c

\* A line is read: the other processes stay as they are.
LEMMA ReadOthers ==
  ASSUME Frame, NEW p \in Proc, NEW k, Reads(p, k), UNCHANGED <<stdin, work>>
  PROVE  /\ stdout[p] # <<>> /\ Line(p).type = k /\ stdout'[p] = Tail(stdout[p])
         /\ \A q \in Proc \ {p} : Alike(q) /\ Mild(q)
         /\ home[p] \in Session
<1>1. stdout[p] # <<>> /\ Line(p).type = k /\ stdout' = [stdout EXCEPT ![p] = Tail(@)]
  BY DEF Reads
<1>2. stdout'[p] = Tail(stdout[p]) /\ \A q \in Proc \ {p} : stdout'[q] = stdout[q]
  BY <1>1 DEF Frame, Types, QueueTypes
<1>3. home[p] \in Session
  BY <1>1 DEF Frame, WhoInv
<1> QED
  BY <1>1, <1>2, <1>3, SameIsAlike

\* An answer is read: a refusal is the only place of its run.
LEMMA ResponseKeeps ==
  ASSUME Frame, NEW t \in Session, RunOf(t), NEW p \in Proc, Response(p)
  PROVE  RunOf(t)'
<1>0. QueueTypes
  BY DEF Frame, Types
<1>1. /\ stdout[p] # <<>> /\ Line(p).type = "response" /\ stdout'[p] = Tail(stdout[p])
      /\ \A q \in Proc \ {p} : Alike(q) /\ Mild(q)
      /\ home[p] \in Session
      /\ UNCHANGED <<proc, runId, life, home, stdin, work>>
  BY ReadOthers DEF Response
<1>2. PICK c : c = Line(p).by
  OBVIOUS
<1>3. PICK s : s = home[p]
  OBVIOUS
<1>4. /\ 1 \in DOMAIN stdout[p] /\ Line(p) = stdout[p][1] /\ Line(p) \in Lines
  BY <1>0, <1>1, TailIs DEF Line, QueueTypes
<1>5. Line(p).ok \in {"yes", "no", "handled"} /\ c \in Call \cup {Starter}
  BY <1>1, <1>2, <1>4 DEF Lines, Asker
<1>6. \/ UNCHANGED call /\ NoRunEnds
      \/ /\ Answered({c}) /\ c \in Call
         /\ Settle(s, "lost", proc[s]) \/ Settle(s, "settled", proc[s]) \/ NoRunEnds
  BY <1>2, <1>3, <1>5 DEF Response
<1>7. Line(p).ok = "yes" => NoRunEnds
  BY DEF Response
<1>8. ASSUME NEW u \in Session, Asks(c, u, call[c].p), c \in Call
      PROVE  call[c].p = p /\ u = s /\ 1 \in RepliesTo(c, p)
  <2>1. 1 \in RepliesTo(c, p)
    BY <1>1, <1>2, <1>4 DEF RepliesTo
  <2>2. ~Silent(c, p) /\ At(c, "sent")
    BY <2>1, <1>8 DEF Silent, Asks
  <2>3. call[c].p = p
    BY <2>2, <1>8 DEF Frame, MsgInv, MsgOf
  <2>4. home[p] = call[c].s
    BY <2>2, <2>3, <1>8 DEF Frame, CallInv
  <2> QED
    BY <2>1, <2>3, <2>4, <1>3, <1>8 DEF Asks
<1>9. stopping \subseteq stopping' /\ stopping' \subseteq stopping \cup ({proc[s]} \ {NoProc})
  BY <1>6 DEF Settle, NoRunEnds, Stop
<1>a. CASE t # s
  <2>1. CallsAside(t)
    <3>1. CASE UNCHANGED call
      BY <3>1 DEF CallsAside
    <3>2. CASE Answered({c})
      <4>1. \A d \in Call : ~ (d \in {c} /\ Asks(d, t, call[d].p))
        BY <1>8, <1>a
      <4> QED
        BY <3>2, <4>1, AnsweredAside
    <3> QED
      BY <3>1, <3>2, <1>6
  <2>2. t \in busy' <=> t \in busy
    BY <1>6, <1>a DEF Settle, NoRunEnds
  <2>3. t \in busy => proc[t] \notin stopping' \ stopping
    BY <1>1, <1>3, <1>9, <1>a DEF Frame, ProcInv
  <2>4. \A q \in Proc : home[q] = t => Alike(q) /\ Mild(q)
    BY <1>1, <1>3, <1>a
  <2> QED
    BY <2>1, <2>2, <2>3, <2>4, <1>1, <1>9, RestKeeps
<1>b. CASE Line(p).ok = "yes"
  <2>1. CallsAside(t)
    <3>1. CASE UNCHANGED call
      BY <3>1 DEF CallsAside
    <3>2. CASE Answered({c}) /\ c \in Call
      <4>1. ASSUME NEW d \in Call, d \in {c}, Asks(d, t, call[d].p)
            PROVE  \E i \in RepliesTo(d, call[d].p) : stdout[call[d].p][i].ok = "yes"
        <5>1. call[c].p = p /\ 1 \in RepliesTo(c, p)
          BY <4>1, <1>8
        <5> QED
          BY <5>1, <4>1, <1>b, <1>4
      <4> QED
        BY <3>2, <4>1, AnsweredAside
    <3> QED
      BY <3>1, <3>2, <1>6
  <2>2. Alike(p) /\ Mild(p)
    BY <1>0, <1>1, <1>b, ReadIsAlike
  <2>3. UNCHANGED <<busy, stopping>>
    BY <1>7, <1>b DEF NoRunEnds
  <2>4. \A q \in Proc : Alike(q) /\ Mild(q)
    BY <1>1, <2>2
  <2> QED
    BY <2>1, <2>3, <2>4, <1>1, RestKeeps
<1>c. CASE t = s /\ Line(p).ok # "yes"
  <2>1. 1 \in Refusals(p)
    BY <1>1, <1>4, <1>c DEF Refusals
  <2>2. Active(t) /\ t \in busy /\ proc[t] = p /\ Declined(p, t)
    <3>1. ~Quiet(p)
      BY <2>1 DEF Quiet
    <3> QED
      BY <2>1, <3>1, <1>3, <1>c, NotQuiet DEF InStdin, Working, Finished, Crashed
  <2>3. PICK l \in Lines : OneRefusal(p, l) /\ Asks(l.by, t, p)
    BY <2>2 DEF Declined
  <2>4. l = Line(p) /\ Refusals(p) = {1}
    BY <2>1, <2>3, <1>4 DEF OneRefusal
  <2>5. c \in Call /\ Asks(c, t, p)
    BY <2>3, <2>4, <1>2 DEF Asks
  <2>6. c # Starter
    BY <2>5, PiBridgeConstants
  <2>7. At(c, "sent") /\ call[c].kind = "prompt" /\ runId[s] = call[c].run
    BY <2>5, <1>c DEF Asks
  <2>8. Settle(s, IF Line(p).ok = "no" THEN "lost" ELSE "settled", proc[s])
    BY <2>6, <2>7, <1>2, <1>3, <1>c DEF Response
  <2>9. t \notin busy'
    BY <2>2, <2>8, <1>c DEF Settle
  <2>10. Quiet(p)'
    <3>1. Prompts(p)' = {} /\ work'[p] = NoRun
      BY <2>2, <1>1 DEF Declined, Prompts
    <3>2. \A i \in DOMAIN stdout'[p] :
            i + 1 # 1 /\ i + 1 \in DOMAIN stdout[p] /\ stdout'[p][i] = stdout[p][i + 1]
      <4>1. \A i \in DOMAIN stdout'[p] : /\ i \in Nat /\ i >= 1 /\ i + 1 \in DOMAIN stdout[p]
                                         /\ stdout'[p][i] = stdout[p][i + 1]
        BY <1>0, <1>1, StdoutTail
      <4>2. \A i \in Nat : i >= 1 => i + 1 # 1
        OBVIOUS
      <4> QED
        BY <4>1, <4>2
    <3>3. Refusals(p)' = {} /\ Events(p)' = {}
      BY <3>2, <2>2, <2>4 DEF Refusals, Events, Declined
    <3> QED
      BY <3>1, <3>3 DEF Quiet
  <2>11. \A q \in Proc : home'[q] = t => Quiet(q)'
    BY <2>2, <2>10, <1>1 DEF Active, Mild
  <2> QED
    BY <2>9, <2>11 DEF Resting, RunOf
<1> QED
  BY <1>a, <1>b, <1>c

\* The start of a run is read: it has been recorded before.
LEMMA AgentStartKeeps ==
  ASSUME Frame, NEW t \in Session, RunOf(t), NEW p \in Proc, AgentStart(p)
  PROVE  RunOf(t)'
<1>0. QueueTypes
  BY DEF Frame, Types
<1>1. /\ stdout[p] # <<>> /\ Line(p).type = "agent_start" /\ stdout'[p] = Tail(stdout[p])
      /\ \A q \in Proc \ {p} : Alike(q) /\ Mild(q)
      /\ home[p] \in Session
      /\ UNCHANGED <<proc, call, life, home, stopping, stdin, work>>
  BY ReadOthers DEF AgentStart, procs
<1>2. \A q \in Proc : Alike(q) /\ Mild(q)
  BY <1>0, <1>1, ReadIsAlike
<1>3. CallsAside(t)
  BY <1>1 DEF CallsAside
<1>4. \/ UNCHANGED <<runId, busy>>
      \/ home[p] \notin busy /\ \E r \in Run : Starts(home[p], r)
  BY DEF AgentStart, IsNew
<1>5. home[p] = t => t \in busy
  <2>1. 1 \in Events(p)
    BY <1>0, <1>1, TailIs DEF Line, QueueTypes, Events
  <2> QED
    BY <2>1, NotQuiet DEF Quiet
<1>6. (t \in busy' <=> t \in busy) /\ runId'[t] = runId[t]
  BY <1>4, <1>5 DEF Starts, Frame, Types, RunTypes
<1> QED
  BY <1>1, <1>2, <1>3, <1>6, RestKeeps

\* The end of a run is read: nothing else is in the process.
LEMMA AgentSettledKeeps ==
  ASSUME Frame, NEW t \in Session, RunOf(t), NEW p \in Proc, AgentSettled(p)
  PROVE  RunOf(t)'
<1>0. QueueTypes
  BY DEF Frame, Types
<1>1. PICK s : s = home[p]
  OBVIOUS
<1>2. /\ stdout[p] # <<>> /\ Line(p).type = "agent_settled" /\ stdout'[p] = Tail(stdout[p])
      /\ \A q \in Proc \ {p} : Alike(q) /\ Mild(q)
      /\ s \in Session /\ Settle(s, "settled", proc[s])
      /\ UNCHANGED <<proc, runId, call, life, home, stdin, work>>
  BY <1>1, ReadOthers DEF AgentSettled
<1>a. CASE t # s
  <2>1. CallsAside(t)
    BY <1>2 DEF CallsAside
  <2>2. /\ t \in busy' <=> t \in busy
        /\ stopping \subseteq stopping'
        /\ stopping' \subseteq stopping \cup ({proc[s]} \ {NoProc})
    BY <1>2, <1>a DEF Settle, Stop
  <2>3. t \in busy => proc[t] \notin stopping' \ stopping
    BY <2>2, <1>2, <1>a DEF Frame, ProcInv
  <2>4. \A q \in Proc : home[q] = t => Alike(q) /\ Mild(q)
    BY <1>1, <1>2, <1>a
  <2> QED
    BY <2>1, <2>2, <2>3, <2>4, <1>2, RestKeeps
<1>b. CASE t = s
  <2>1. 1 \in Events(p) /\ stdout[p][1].type = "agent_settled"
    BY <1>0, <1>2, TailIs DEF Line, QueueTypes, Events
  <2>2. Active(t) /\ t \in busy /\ proc[t] = p /\ Finished(p, t)
    <3>1. ~Quiet(p)
      BY <2>1 DEF Quiet
    <3>2. ~OnlyStarts(p, runId[t])
      BY <2>1 DEF OnlyStarts, Event
    <3> QED
      BY <2>1, <3>1, <3>2, <1>1, <1>b, NotQuiet DEF InStdin, Working, Declined, Crashed
  <2>3. t \notin busy'
    BY <2>2, <1>2, <1>b DEF Settle
  <2>4. \A i \in Events(p) : i = 1
    <3>1. PICK i \in Events(p) : \A j \in Events(p) \ {i} :
            j < i /\ stdout[p][j] = Event("agent_start", runId[t])
      BY <2>2 DEF Finished, Settles
    <3>2. i = 1
      BY <2>1, <3>1 DEF Event
    <3>3. \A j \in Events(p) : j \in Nat /\ j >= 1
      BY <1>0, <1>2, StdoutTail DEF Events
    <3> QED
      BY <3>1, <3>2, <3>3
  <2>5. Quiet(p)'
    <3>1. Prompts(p)' = {} /\ work'[p] = NoRun
      BY <2>2, <1>2 DEF Finished, Prompts
    <3>2. \A i \in DOMAIN stdout'[p] :
            i + 1 # 1 /\ i + 1 \in DOMAIN stdout[p] /\ stdout'[p][i] = stdout[p][i + 1]
      <4>1. \A i \in DOMAIN stdout'[p] : /\ i \in Nat /\ i >= 1 /\ i + 1 \in DOMAIN stdout[p]
                                         /\ stdout'[p][i] = stdout[p][i + 1]
        BY <1>0, <1>2, StdoutTail
      <4>2. \A i \in Nat : i >= 1 => i + 1 # 1
        OBVIOUS
      <4> QED
        BY <4>1, <4>2
    <3>3. Refusals(p)' = {} /\ Events(p)' = {}
      BY <3>2, <2>2, <2>4 DEF Refusals, Events, Finished
    <3> QED
      BY <3>1, <3>3 DEF Quiet
  <2>6. \A q \in Proc : home'[q] = t => Quiet(q)'
    BY <2>2, <2>5, <1>2 DEF Active, Mild
  <2> QED
    BY <2>3, <2>6 DEF Resting, RunOf
<1> QED
  BY <1>a, <1>b

(* The pi process.                                                           *)

\* Only process p moves, that of the run of t, and what it does is of the run.
LEMMA StaysActive ==
  ASSUME Frame, NEW t \in Session, NEW p \in Proc, Active(t), t \in busy, proc[t] = p,
         UNCHANGED <<busy, runId, proc, call, home, stopping>>,
         \A q \in Proc \ {p} : Mild(q),
         \/ InStdin(p, t)' \/ Working(p, t)' \/ Finished(p, t)'
         \/ Declined(p, t)' \/ Crashed(p, t)'
  PROVE  RunOf(t)'
<1>1. t \in busy' /\ Usable(t)' /\ \A q \in Proc \ {proc'[t]} : home'[q] = t => Quiet(q)'
  BY DEF Active, Usable, Mild
<1>2. \A c \in Call : At(c, "sent")' /\ call'[c].run = runId'[t] => call'[c].p = proc'[t]
  BY DEF Active, At
<1>3. (\/ InStdin(proc[t], t) \/ Working(proc[t], t) \/ Finished(proc[t], t)
       \/ Declined(proc[t], t) \/ Crashed(proc[t], t))'
  BY DEF InStdin, Working, Finished, Declined, Crashed
<1> QED
  BY <1>1, <1>2, <1>3 DEF Active, RunOf

\* The run ends: by itself, or by an abort which is then answered.
LEMMA EndsRun ==
  ASSUME QueueTypes, NEW t \in Session, NEW p \in Proc, Working(p, t), runId' = runId,
         runId[t] \in Run, work'[p] = NoRun, Prompts(p) = {} => Prompts(p)' = {},
         NEW n \in DOMAIN stdout'[p] \ DOMAIN stdout[p],
         stdout'[p][n] = Event("agent_settled", runId[t]),
         \A i \in DOMAIN stdout[p] : /\ i \in DOMAIN stdout'[p] /\ i < n
                                      /\ stdout'[p][i] = stdout[p][i],
         \A i \in DOMAIN stdout'[p] \ DOMAIN stdout[p] :
           i = n \/ (stdout'[p][i].type = "response" /\ stdout'[p][i].ok = "yes")
  PROVE  Finished(p, t)'
<1>1. Prompts(p)' = {}
  BY DEF Working
<1>2. stdout'[p][n].type = "agent_settled"
  BY DEF Event
<1>3. Refusals(p)' = {}
  BY <1>2 DEF Working, Refusals
<1>4. n \in Events(p)' /\ \A j \in Events(p)' \ {n} : j \in Events(p)
  BY <1>2 DEF Events
<1>5. \A j \in Events(p) : j < n /\ stdout'[p][j] = Event("agent_start", runId[t])
  BY DEF Working, OnlyStarts, Events
<1>6. Settles(p, runId[t])'
  BY <1>4, <1>5 DEF Settles
<1> QED
  BY <1>1, <1>3, <1>6 DEF Finished

LEMMA AbortEnds ==
  ASSUME QueueTypes, NEW t \in Session, NEW p \in Proc, Working(p, t), runId' = runId,
         runId[t] \in Run, work'[p] = NoRun, NEW c \in Asker,
         stdin[p] # <<>>, stdin'[p] = Tail(stdin[p]),
         Says(p, <<Event("agent_settled", work[p]), Reply(c, "yes")>>)
  PROVE  Finished(p, t)'
<1>1. PICK l, m : l = Event("agent_settled", runId[t]) /\ m = Reply(c, "yes")
  OBVIOUS
<1>2. l \in Lines /\ m \in Lines /\ m.type = "response" /\ m.ok = "yes" /\ work[p] = runId[t]
  BY <1>1 DEF Lines, Event, Reply, Working
<1>3. Says(p, <<l, m>>)
  BY <1>1, <1>2
<1>4. PICK n, k \in DOMAIN stdout'[p] \ DOMAIN stdout[p] :
        /\ n # k /\ \A i \in DOMAIN stdout'[p] : i \in DOMAIN stdout[p] \/ i = n \/ i = k
        /\ \A i \in DOMAIN stdout[p] : /\ i \in DOMAIN stdout'[p] /\ i < n
                                       /\ stdout'[p][i] = stdout[p][i]
        /\ stdout'[p][n] = l /\ stdout'[p][k] = m
  BY <1>2, <1>3, StdoutAddTwo
<1>5. Prompts(p) = {} => Prompts(p)' = {}
  BY TakenPrompts
<1> QED
  BY <1>1, <1>2, <1>4, <1>5, EndsRun

\* A prompt is accepted: its run begins.
LEMMA Accepted ==
  ASSUME QueueTypes, NEW t \in Session, NEW p \in Proc, InStdin(p, t), runId' = runId,
         runId[t] \in Run, NEW c \in Asker, work'[p] = runId[t],
         stdin[p] # <<>>, stdin'[p] = Tail(stdin[p]), Head(stdin[p]).type = "prompt",
         \/ Says(p, <<Reply(c, "yes"), Event("agent_start", runId[t])>>)
         \/ Says(p, <<Event("agent_start", runId[t]), Reply(c, "yes")>>)
  PROVE  Working(p, t)'
<1>1. PICK l, m : l = Event("agent_start", runId[t]) /\ m = Reply(c, "yes")
  OBVIOUS
<1>2. l \in Lines /\ m \in Lines /\ m.type = "response" /\ m.ok = "yes" /\ l.type = "agent_start"
  BY <1>1 DEF Lines, Event, Reply
<1>3. Says(p, <<l, m>>) \/ Says(p, <<m, l>>)
  BY <1>1
<1>4. \E n, k \in DOMAIN stdout'[p] \ DOMAIN stdout[p] :
        /\ \A i \in DOMAIN stdout'[p] : i \in DOMAIN stdout[p] \/ i = n \/ i = k
        /\ \A i \in DOMAIN stdout[p] : stdout'[p][i] = stdout[p][i]
        /\ stdout'[p][n] = l /\ stdout'[p][k] = m
  <2>1. CASE Says(p, <<l, m>>)
    BY <1>2, <2>1, StdoutAddTwo
  <2>2. CASE Says(p, <<m, l>>)
    BY <1>2, <2>2, StdoutAddTwo
  <2> QED
    BY <1>3, <2>1, <2>2
<1>5. Refusals(p)' = {} /\ OnlyStarts(p, runId[t])'
  BY <1>1, <1>2, <1>4 DEF InStdin, Refusals, Events, OnlyStarts
<1>6. Prompts(p)' = {}
  <2>1. PICK i \in DOMAIN stdin[p] : Prompts(p) = {i}
    BY DEF InStdin, OnePrompt
  <2>2. 1 \in Prompts(p)
    BY StdinTail DEF Prompts
  <2>3. \A j \in Prompts(p)' : j + 1 = 1 /\ j \in Nat /\ j >= 1
    BY <2>1, <2>2, TakenPrompts, StdinTail DEF Prompts
  <2>4. \A j \in Nat : j >= 1 => j + 1 # 1
    OBVIOUS
  <2> QED
    BY <2>3, <2>4
<1> QED
  BY <1>5, <1>6 DEF Working

\* A prompt is refused, or handled without a run.
LEMMA Refuses ==
  ASSUME QueueTypes, NEW t \in Session, NEW p \in Proc, InStdin(p, t),
         UNCHANGED <<runId, call>>, work'[p] = work[p], NEW ok \in {"no", "handled"},
         stdin[p] # <<>>, stdin'[p] = Tail(stdin[p]), Head(stdin[p]).type = "prompt",
         Says(p, <<Reply(Head(stdin[p]).by, ok)>>)
  PROVE  Declined(p, t)'
<1>1. PICK m \in Commands : OnePrompt(p, m) /\ Asks(m.by, t, p)
  BY DEF InStdin
<1>2. PICK i \in DOMAIN stdin[p] : Prompts(p) = {i} /\ stdin[p][i] = m
  BY <1>1 DEF OnePrompt
<1>3. 1 \in Prompts(p) /\ Head(stdin[p]) = stdin[p][1]
  BY StdinTail DEF Prompts
<1>4. i = 1 /\ m = Head(stdin[p])
  BY <1>2, <1>3
<1>5. PICK l : l = Reply(m.by, ok)
  OBVIOUS
<1>6. l \in Lines /\ l.type = "response" /\ l.ok # "yes" /\ l.by = m.by
  BY <1>5 DEF Lines, Reply, Commands
<1>7. stdout'[p] = Append(stdout[p], l)
  <2>1. stdout' = [stdout EXCEPT ![p] = stdout[p] \o <<l>>] /\ stdout[p] \in Seq(Lines)
    BY <1>4, <1>5 DEF Says, QueueTypes
  <2>2. stdout'[p] = stdout[p] \o <<l>>
    BY <2>1 DEF QueueTypes
  <2> QED
    BY <1>6, <2>1, <2>2, ConcatIs
<1>8. PICK n : n = Len(stdout[p]) + 1
  OBVIOUS
<1>9. /\ n \notin DOMAIN stdout[p] /\ DOMAIN stdout'[p] = DOMAIN stdout[p] \cup {n}
      /\ \A j \in DOMAIN stdout[p] : stdout'[p][j] = stdout[p][j]
      /\ stdout'[p][n] = l
  BY <1>6, <1>7, <1>8, StdoutAdd
<1>10. OneRefusal(p, l)' /\ Events(p)' = {}
  BY <1>6, <1>9 DEF InStdin, Events, Refusals, OneRefusal
<1>11. Prompts(p)' = {}
  <2>1. \A j \in Prompts(p)' : j + 1 = 1 /\ j \in Nat /\ j >= 1
    BY <1>2, <1>4, TakenPrompts, StdinTail DEF Prompts
  <2>2. \A j \in Nat : j >= 1 => j + 1 # 1
    OBVIOUS
  <2> QED
    BY <2>1, <2>2
<1>12. Asks(l.by, t, p)'
  BY <1>1, <1>6 DEF Asks, At
<1> QED
  BY <1>6, <1>10, <1>11, <1>12 DEF Declined, InStdin

\* A command is served.
LEMMA ServeKeeps ==
  ASSUME Frame, NEW t \in Session, RunOf(t), NEW p \in Proc, Serve(p)
  PROVE  RunOf(t)'
<1>0. QueueTypes
  BY DEF Frame, Types
<1>1. PICK m : m = Head(stdin[p])
  OBVIOUS
<1>2. /\ stdin[p] # <<>> /\ stdin'[p] = Tail(stdin[p]) /\ m \in Commands
      /\ \A q \in Proc \ {p} : /\ stdin'[q] = stdin[q] /\ stdout'[q] = stdout[q]
                               /\ work'[q] = work[q]
  BY <1>0, <1>1, ServeIs
<1>3. /\ life[p] = "up" /\ UNCHANGED <<busy, runId, proc, call, life, home, stopping>>
      /\ m.by \in Asker
  BY <1>2 DEF Serve, bridge, procs, Commands
<1>4. \A q \in Proc \ {p} : Alike(q) /\ Mild(q)
  BY <1>2, SameIsAlike
<1>5. CallsAside(t)
  BY <1>3 DEF CallsAside
<1>a. CASE (home[p] = t => Alike(p) /\ Mild(p))
  BY <1>a, <1>3, <1>4, <1>5, RestKeeps
<1>b. CASE m.type # "prompt" /\ Says(p, <<Reply(m.by, "yes")>>) /\ work' = work
  <2>1. stdout'[p] = Append(stdout[p], Reply(m.by, "yes"))
    <3>1. Reply(m.by, "yes") \in Lines
      BY <1>3 DEF Reply, Lines
    <3>2. PICK l : l = Reply(m.by, "yes")
      OBVIOUS
    <3>3. stdout' = [stdout EXCEPT ![p] = stdout[p] \o <<l>>] /\ stdout[p] \in Seq(Lines)
      BY <1>0, <1>b, <3>2 DEF Says, QueueTypes
    <3>4. stdout'[p] = stdout[p] \o <<l>>
      BY <1>0, <3>3 DEF QueueTypes
    <3> QED
      BY <3>1, <3>2, <3>3, <3>4, ConcatIs
  <2>2. Alike(p) /\ Mild(p)
    BY <2>1, <1>0, <1>1, <1>2, <1>3, <1>b, AnswerIsAlike
  <2> QED
    BY <2>2, <1>a
<1>c. CASE home[p] = t /\ m.type = "abort" /\ work[p] # NoRun
  <2>1. /\ Active(t) /\ t \in busy /\ proc[t] = p /\ runId[t] \in Run
        /\ Working(p, t)
    <3>1. ~Quiet(p)
      BY <1>c DEF Quiet
    <3> QED
      BY <3>1, <1>3, <1>c, NotQuiet DEF InStdin, Finished, Declined, Crashed
  <2>2. /\ Says(p, <<Event("agent_settled", work[p]), Reply(m.by, "yes")>>)
        /\ work'[p] = NoRun
    BY <1>0, <1>1, <1>c DEF Serve, QueueTypes
  <2>3. Finished(p, t)'
    BY <2>1, <2>2, <1>0, <1>2, <1>3, AbortEnds
  <2> QED
    BY <2>1, <2>3, <1>3, <1>4, StaysActive
<1>d. CASE home[p] = t /\ m.type = "prompt"
  <2>1. 1 \in Prompts(p)
    BY <1>0, <1>1, <1>2, <1>d, StdinTail DEF Prompts
  <2>2. /\ Active(t) /\ t \in busy /\ proc[t] = p /\ runId[t] \in Run
        /\ InStdin(p, t)
    <3>1. ~Quiet(p)
      BY <2>1 DEF Quiet
    <3> QED
      BY <2>1, <3>1, <1>3, <1>d, NotQuiet DEF Working, Finished, Declined, Crashed
  <2>3. m.run = runId[t]
    <3>1. PICK n \in Commands : OnePrompt(p, n) /\ n.run = runId[t]
      BY <2>2 DEF InStdin
    <3>2. n = m
      BY <2>1, <3>1, <1>0, <1>1, <1>2, StdinTail DEF OnePrompt
    <3> QED
      BY <3>1, <3>2
  <2>4. \/ /\ \/ Says(p, <<Reply(m.by, "yes"), Event("agent_start", m.run)>>)
              \/ Says(p, <<Event("agent_start", m.run), Reply(m.by, "yes")>>)
           /\ work' = [work EXCEPT ![p] = m.run]
        \/ work' = work /\ \E ok \in {"no", "handled"} : Says(p, <<Reply(m.by, ok)>>)
    BY <1>1, <1>d DEF Serve
  <2>5. CASE /\ \/ Says(p, <<Reply(m.by, "yes"), Event("agent_start", m.run)>>)
                \/ Says(p, <<Event("agent_start", m.run), Reply(m.by, "yes")>>)
             /\ work' = [work EXCEPT ![p] = m.run]
    <3>1. work'[p] = runId[t]
      BY <2>3, <2>5, <1>0 DEF QueueTypes
    <3>2. Working(p, t)'
      BY <2>2, <2>3, <2>5, <3>1, <1>0, <1>1, <1>2, <1>3, <1>d, Accepted
    <3> QED
      BY <2>2, <3>2, <1>3, <1>4, StaysActive
  <2>6. CASE work' = work /\ \E ok \in {"no", "handled"} : Says(p, <<Reply(m.by, ok)>>)
    <3>1. Declined(p, t)'
      BY <2>2, <2>6, <1>0, <1>1, <1>2, <1>3, <1>d, Refuses
    <3> QED
      BY <2>2, <3>1, <1>3, <1>4, StaysActive
  <2> QED
    BY <2>4, <2>5, <2>6
<1>e. CASE home[p] # t
  BY <1>a, <1>e
<1>6. m.type \in {"prompt", "abort", "other"}
  BY <1>2 DEF Commands
<1>7. CASE m.type = "other"
  BY <1>1, <1>7, <1>b DEF Serve
<1>8. CASE m.type = "abort" /\ work[p] = NoRun
  <2>1. Says(p, <<Reply(m.by, "yes")>>) /\ work' = [work EXCEPT ![p] = NoRun]
    BY <1>1, <1>8 DEF Serve
  <2>2. work' = work
    BY <2>1, <1>0, <1>8 DEF QueueTypes
  <2> QED
    BY <2>1, <2>2, <1>8, <1>b
<1> QED
  BY <1>c, <1>d, <1>e, <1>6, <1>7, <1>8

\* A run ends by itself.
LEMMA FinishKeeps ==
  ASSUME Frame, NEW t \in Session, RunOf(t), NEW p \in Proc, Finish(p)
  PROVE  RunOf(t)'
<1>0. QueueTypes
  BY DEF Frame, Types
<1>1. /\ life[p] = "up" /\ work[p] # NoRun /\ Says(p, <<Event("agent_settled", work[p])>>)
      /\ work' = [work EXCEPT ![p] = NoRun]
      /\ UNCHANGED <<busy, runId, proc, call, life, home, stopping, stdin>>
  BY DEF Finish, bridge, procs
<1>2. /\ work'[p] = NoRun
      /\ \A q \in Proc \ {p} : stdout'[q] = stdout[q] /\ work'[q] = work[q]
  BY <1>0, <1>1 DEF Says, QueueTypes
<1>3. \A q \in Proc \ {p} : Alike(q) /\ Mild(q)
  BY <1>1, <1>2, SameIsAlike
<1>a. CASE home[p] # t
  <2>1. CallsAside(t)
    BY <1>1 DEF CallsAside
  <2> QED
    BY <2>1, <1>1, <1>3, <1>a, RestKeeps
<1>b. CASE home[p] = t
  <2>1. /\ Active(t) /\ t \in busy /\ proc[t] = p /\ runId[t] \in Run
        /\ Working(p, t)
    <3>1. ~Quiet(p)
      BY <1>1 DEF Quiet
    <3> QED
      BY <3>1, <1>1, <1>b, NotQuiet DEF InStdin, Finished, Declined, Crashed
  <2>2. PICK l : l = Event("agent_settled", runId[t])
    OBVIOUS
  <2>3. l \in Lines /\ work[p] = runId[t]
    BY <2>1, <2>2 DEF Event, Lines, Working
  <2>4. stdout'[p] = Append(stdout[p], l)
    <3>1. stdout' = [stdout EXCEPT ![p] = stdout[p] \o <<l>>] /\ stdout[p] \in Seq(Lines)
      BY <1>0, <1>1, <2>2, <2>3 DEF Says, QueueTypes
    <3>2. stdout'[p] = stdout[p] \o <<l>>
      BY <1>0, <3>1 DEF QueueTypes
    <3> QED
      BY <2>3, <3>1, <3>2, ConcatIs
  <2>5. PICK n : n = Len(stdout[p]) + 1
    OBVIOUS
  <2>6. /\ n \notin DOMAIN stdout[p] /\ DOMAIN stdout'[p] = DOMAIN stdout[p] \cup {n}
        /\ \A j \in DOMAIN stdout[p] : stdout'[p][j] = stdout[p][j] /\ j < n
        /\ stdout'[p][n] = l
    BY <1>0, <2>3, <2>4, <2>5, StdoutAdd
  <2>7. Prompts(p) = {} => Prompts(p)' = {}
    BY <1>1 DEF Prompts
  <2>8. Finished(p, t)'
    BY <2>1, <2>2, <2>6, <2>7, <1>0, <1>1, <1>2, EndsRun
  <2> QED
    BY <2>1, <2>8, <1>1, <1>3, StaysActive
<1> QED
  BY <1>a, <1>b

\* An extension makes its session an odd one.
LEMMA ExtensionKeeps ==
  ASSUME Frame, NEW t \in Session, RunOf(t), t \notin odd', NEW p \in Proc, Extension(p)
  PROVE  RunOf(t)'
<1>0. QueueTypes
  BY DEF Frame, Types
<1>1. /\ Says(p, <<Event("agent_start", Own)>>) /\ home[p] # t
      /\ work' = [work EXCEPT ![p] = Own]
      /\ UNCHANGED <<busy, runId, proc, call, life, home, stopping, stdin>>
  BY DEF Extension, Oddly, bridge, procs
<1>2. \A q \in Proc \ {p} : stdout'[q] = stdout[q] /\ work'[q] = work[q]
  BY <1>0, <1>1 DEF Says, QueueTypes
<1>3. \A q \in Proc \ {p} : Alike(q) /\ Mild(q)
  BY <1>1, <1>2, SameIsAlike
<1>4. CallsAside(t)
  BY <1>1 DEF CallsAside
<1> QED
  BY <1>1, <1>3, <1>4, RestKeeps

\* A process dies: its run died with it, unless its end was said.
LEMMA DiesKeeps ==
  ASSUME Frame, NEW t \in Session, RunOf(t), NEW p \in Proc, Dies(p)
  PROVE  RunOf(t)'
<1>0. QueueTypes
  BY DEF Frame, Types
<1>1. /\ life[p] = "up" /\ life' = [life EXCEPT ![p] = "dead"]
      /\ work' = [work EXCEPT ![p] = NoRun] /\ stdin' = [stdin EXCEPT ![p] = <<>>]
      /\ UNCHANGED <<busy, runId, proc, call, home, stopping, stdout>>
  BY DEF Dies, bridge
<1>2. /\ work'[p] = NoRun /\ stdin'[p] = <<>> /\ life'[p] = "dead"
      /\ \A q \in Proc \ {p} : /\ stdin'[q] = stdin[q] /\ work'[q] = work[q]
                               /\ life'[q] = life[q]
  BY <1>0, <1>1 DEF QueueTypes, Frame, ProcInv
<1>3. \A q \in Proc \ {p} : Alike(q) /\ Mild(q)
  BY <1>1, <1>2, SameIsAlike
<1>4. /\ Prompts(p)' = {} /\ Events(p)' = Events(p) /\ Refusals(p)' = Refusals(p)
      /\ \A c \in Call : RepliesTo(c, p)' = RepliesTo(c, p)
  BY <1>1, <1>2 DEF Prompts, Events, Refusals, RepliesTo
<1>5. Mild(p)
  BY <1>2, <1>4 DEF Mild, Quiet, Silent
<1>6. CallsAside(t)
  BY <1>1 DEF CallsAside
<1>a. CASE home[p] # t
  BY <1>1, <1>2, <1>3, <1>6, <1>a, RestKeeps
<1>b. CASE home[p] = t /\ Quiet(p)
  <2>1. Alike(p)
    <3>1. \A m \in Commands : ~OnePrompt(p, m)
      BY <1>b DEF Quiet, OnePrompt
    <3>2. \A l \in Lines : ~OneRefusal(p, l)
      BY <1>b DEF Quiet, OneRefusal
    <3>3. \A r \in Run : /\ OnlyStarts(p, r) => OnlyStarts(p, r)'
                         /\ ~Settles(p, r)
      BY <1>b, <1>4 DEF Quiet, OnlyStarts, Settles
    <3> QED
      BY <3>1, <3>2, <3>3, <1>b, <1>2, <1>4 DEF Quiet, Alike
  <2> QED
    BY <2>1, <1>1, <1>2, <1>3, <1>5, <1>6, RestKeeps
<1>c. CASE home[p] = t /\ ~Quiet(p)
  <2>1. /\ Active(t) /\ t \in busy /\ proc[t] = p /\ runId[t] \in Run
        /\ (\/ InStdin(p, t) \/ Working(p, t) \/ Finished(p, t)
            \/ Declined(p, t) \/ Crashed(p, t))
    BY <1>c, NotQuiet
  <2>2. CASE InStdin(p, t)
    <3>1. Crashed(p, t)'
      BY <2>2, <1>2, <1>4 DEF InStdin, Crashed, OnlyStarts
    <3> QED
      BY <2>1, <3>1, <1>1, <1>3, StaysActive
  <2>3. CASE Working(p, t) \/ Crashed(p, t)
    <3>1. OnlyStarts(p, runId[t])'
      BY <2>3, <1>1, <1>4 DEF Working, Crashed, OnlyStarts
    <3>2. Crashed(p, t)'
      BY <2>3, <3>1, <1>2, <1>4 DEF Working, Crashed
    <3> QED
      BY <2>1, <3>2, <1>1, <1>3, StaysActive
  <2>4. CASE Finished(p, t)
    <3>1. Settles(p, runId[t])'
      BY <2>4, <1>1, <1>4 DEF Finished, Settles
    <3>2. Finished(p, t)'
      BY <2>4, <3>1, <1>2, <1>4 DEF Finished
    <3> QED
      BY <2>1, <3>2, <1>1, <1>3, StaysActive
  <2>5. CASE Declined(p, t)
    <3>1. PICK l \in Lines : OneRefusal(p, l) /\ Asks(l.by, t, p)
      BY <2>5 DEF Declined
    <3>2. OneRefusal(p, l)' /\ Asks(l.by, t, p)'
      BY <3>1, <1>1, <1>4 DEF OneRefusal, Asks, At
    <3>3. Declined(p, t)'
      BY <2>5, <3>2, <1>2, <1>4 DEF Declined
    <3> QED
      BY <2>1, <3>3, <1>1, <1>3, StaysActive
  <2> QED
    BY <2>1, <2>2, <2>3, <2>4, <2>5
<1> QED
  BY <1>a, <1>b, <1>c

\* The whole invariant.
Full == Frame /\ RunInv

LEMMA FullInit == Init => Full
<1> SUFFICES ASSUME Init PROVE Full
  OBVIOUS
<1>1. ProcInv /\ WhoInv
  BY ProcInit, WhoInit
<1>2. QueueTypes
  BY DEF Init, QueueTypes, Prompts
<1>3. RunTypes /\ RestTypes
  BY PiBridgeConstants DEF Init, RunTypes, RestTypes
<1>4. CallTypes
  BY DEF Init, CallTypes, Calls, Idle
<1>5. LifeInv
  BY DEF Init, LifeInv
<1>6. CallInv
  BY DEF Init, CallInv, At, Idle, NoRun, Run
<1>7. MsgInv
  BY DEF Init, MsgInv, MsgOf, At, Idle
<1>8. RunIds
  BY DEF Init, RunIds, NoRun, Run
<1>9. StartInv
  BY DEF Init, StartInv
<1>10. RunInv
  <2>1. \A p \in Proc : Quiet(p)
    BY DEF Init, Quiet, Prompts, Events, Refusals
  <2> QED
    BY <2>1 DEF Init, RunInv, RunOf, Resting
<1> QED
  BY <1>1, <1>2, <1>3, <1>4, <1>5, <1>6, <1>7, <1>8, <1>9, <1>10 DEF Full, Frame, Types

LEMMA FrameStep == Frame /\ [Next]_vars => Frame'
BY TypesStep, ProcStep, WhoStep, LifeStep, CallStep, MsgStep, RunStep, StartStep DEF Frame

\* A session that is not ordinary does not become so.
LEMMA OddGrows == [Next]_vars => odd \subseteq odd'
<1> SUFFICES ASSUME [Next]_vars PROVE odd \subseteq odd'
  OBVIOUS
<1>1. ASSUME NEW c \in Call, Proceed(c) PROVE odd \subseteq odd'
  BY <1>1 DEF Proceed
<1>2. ASSUME NEW c \in Call, TimesOut(c) PROVE odd \subseteq odd'
  BY <1>2 DEF TimesOut, Oddly
<1>3. ASSUME NEW c \in Call, NEW s \in Session,
             Create(c, s) \/ Prompt(c, s) \/ Read(c, s) \/ Abort(c, s)
      PROVE  odd \subseteq odd'
  BY <1>3 DEF Create, Prompt, Read, Abort
<1>4. ASSUME NEW s \in Session, Spawn(s) \/ StartTimesOut(s) \/ Reap(s)
      PROVE  odd \subseteq odd'
  BY <1>4 DEF Spawn, StartTimesOut, Reap, Oddly
<1>5. ASSUME NEW p \in Proc,
             \/ Gone(p) \/ Response(p) \/ AgentStart(p) \/ AgentSettled(p)
             \/ Serve(p) \/ Finish(p) \/ Extension(p) \/ Dies(p)
      PROVE  odd \subseteq odd'
  BY <1>5 DEF Gone, Response, AgentStart, AgentSettled, Serve, Finish, Extension, Dies, Oddly
<1>6. CASE Dispose
  BY <1>6 DEF Dispose
<1>7. CASE UNCHANGED vars
  BY <1>7 DEF vars
<1> QED
  BY <1>1, <1>2, <1>3, <1>4, <1>5, <1>6, <1>7 DEF Next

\* Whatever a step does, the run of an ordinary session is in one place.
LEMMA RunOfStep == Full /\ [Next]_vars => RunInv'
<1> SUFFICES ASSUME Full, [Next]_vars, NEW t \in Session, t \notin odd' PROVE RunOf(t)'
  BY DEF RunInv, Ordinary
<1>0. Frame /\ RunOf(t)
  BY OddGrows DEF Full, RunInv, Ordinary
<1>1. ASSUME NEW c \in Call, Proceed(c) PROVE RunOf(t)'
  BY <1>0, <1>1, ProceedKeeps
<1>2. ASSUME NEW c \in Call, TimesOut(c) PROVE RunOf(t)'
  BY <1>0, <1>2, TimesOutKeeps
<1>3. ASSUME NEW c \in Call, NEW s \in Session,
             Create(c, s) \/ Prompt(c, s) \/ Read(c, s) \/ Abort(c, s)
      PROVE  RunOf(t)'
  BY <1>0, <1>3, CallsKeep
<1>4. ASSUME NEW s \in Session, Spawn(s) PROVE RunOf(t)'
  BY <1>0, <1>4, SpawnKeeps
<1>5. ASSUME NEW s \in Session, StartTimesOut(s) PROVE RunOf(t)'
  BY <1>0, <1>5, StartTimesOutKeeps
<1>6. CASE (\E s \in Session : Reap(s)) \/ Dispose
  BY <1>0, <1>6, StopKeeps
<1>7. ASSUME NEW p \in Proc, Gone(p) \/ Response(p) \/ AgentStart(p) \/ AgentSettled(p)
      PROVE  RunOf(t)'
  BY <1>0, <1>7, GoneKeeps, ResponseKeeps, AgentStartKeeps, AgentSettledKeeps
<1>8. ASSUME NEW p \in Proc, Serve(p) \/ Finish(p) \/ Extension(p) \/ Dies(p)
      PROVE  RunOf(t)'
  BY <1>0, <1>8, ServeKeeps, FinishKeeps, ExtensionKeeps, DiesKeeps
<1>9. CASE UNCHANGED vars
  <2>1. CallsAside(t)
    BY <1>9 DEF CallsAside, vars, bridge
  <2> QED
    BY <2>1, <1>0, <1>9, StillKeeps DEF vars, bridge, procs
<1> QED
  BY <1>1, <1>2, <1>3, <1>4, <1>5, <1>6, <1>7, <1>8, <1>9 DEF Next

LEMMA FullHolds == Spec => []Full
<1>1. Full /\ [Next]_vars => Full'
  BY FrameStep, RunOfStep DEF Full
<1> QED
  BY <1>1, FullInit, PTL DEF Spec

\* Every process, call, queue and run of the bridge is what it should be; a session that
\* is busy has a run that is recorded as running.
THEOREM TypeCorrect == Spec => []TypeOK
<1>1. Full => TypeOK
  BY DEF Full, Frame, TypeOK, Types, QueueTypes, RunTypes, CallTypes, RestTypes, ProcInv, RunIds
<1> QED
  BY <1>1, FullHolds, PTL

\* What the invariant says of BusyEnds and of RunRecorded.
LEMMA BusyHasWork == Full => BusyEnds
<1> SUFFICES ASSUME Full, NEW s \in busy, Ordinary(s)
             PROVE  \/ proc[s] # NoProc /\ Ending(s, proc[s])
                    \/ \E c \in Call : /\ At(c, "sent") /\ call[c].run = runId[s]
                                       /\ Ending(s, call[c].p)
  BY DEF BusyEnds
<1>1. s \in Session /\ RunOf(s) /\ runId[s] \in Run
  BY DEF Full, Frame, Types, RunTypes, RunInv, RunIds
<1>2. CASE Lost(s)
  BY <1>2 DEF Lost, Asks, Ending
<1>3. CASE Active(s)
  <2>1. PICK P : P = proc[s]
    OBVIOUS
  <2>2. P # NoProc
    BY <1>3, <2>1 DEF Active, Usable
  <2>3. InStdin(P, s) => Ending(s, P)
    BY DEF InStdin, OnePrompt, Ending
  <2>4. Working(P, s) => Ending(s, P)
    BY <1>1 DEF Working, Ending, NoRun, Run
  <2>5. Finished(P, s) => Ending(s, P)
    <3>1. Event("agent_settled", runId[s]).type = "agent_settled"
      BY DEF Event
    <3> QED
      BY <3>1 DEF Finished, Settles, Events, Ending
  <2>6. ASSUME Declined(P, s) PROVE Ending(s, P)
    <3>1. PICK l \in Lines : OneRefusal(P, l) /\ Asks(l.by, s, P)
      BY <2>6 DEF Declined
    <3>2. PICK i \in DOMAIN stdout[P] : Refusals(P) = {i} /\ stdout[P][i] = l
      BY <3>1 DEF OneRefusal
    <3>3. l.type = "response" /\ l.ok # "yes"
      BY <3>2 DEF Refusals
    <3>4. l.by \in Call /\ call[l.by].run = runId[s]
      BY <3>1 DEF Asks
    <3> QED
      BY <3>2, <3>3, <3>4 DEF Ending
  <2>7. Crashed(P, s) => Ending(s, P)
    BY DEF Crashed, Ending
  <2> QED
    BY <1>3, <2>1, <2>2, <2>3, <2>4, <2>5, <2>6, <2>7 DEF Active
<1> QED
  BY <1>1, <1>2, <1>3 DEF RunOf, Resting

LEMMA WorkIsRecorded == Full => RunRecorded
<1> SUFFICES ASSUME Full, NEW p \in Proc, work[p] \in Run, Ordinary(home[p])
             PROVE  runs[work[p]] = "running" /\ runId[home[p]] = work[p]
  BY DEF RunRecorded
<1>1. work[p] # NoRun
  BY DEF NoRun, Run
<1>2. life[p] = "up" /\ home[p] \in Session
  BY <1>1 DEF Full, Frame, LifeInv, ProcInv
<1>3. PICK s \in Session : s = home[p]
  BY <1>2
<1>4. RunOf(s) /\ ~Quiet(p)
  BY <1>1, <1>3 DEF Full, RunInv, Quiet
<1>5. s \in busy /\ (\/ InStdin(p, s) \/ Working(p, s) \/ Finished(p, s)
                     \/ Declined(p, s) \/ Crashed(p, s))
  BY <1>3, <1>4, NotQuiet DEF Full
<1>6. Working(p, s)
  BY <1>1, <1>2, <1>5 DEF InStdin, Finished, Declined, Crashed
<1> QED
  BY <1>3, <1>5, <1>6 DEF Working, Full, Frame, RunIds

\* The record of a run and what pi does agree (BusyEnds and RunRecorded): no session of
\* the bridge stays busy with a run that nobody will end, and pi works on no run that is
\* recorded as anything but running.
THEOREM RunsTrue == Spec => []RunsAreTrue
<1>1. Full => RunsAreTrue
  BY BusyHasWork, WorkIsRecorded DEF RunsAreTrue
<1> QED
  BY <1>1, FullHolds, PTL

\* What is busy keeps its run.
LEMMA BusyKeepsRun ==
  ASSUME Frame, [Next]_vars, NEW s \in busy
  PROVE  runId'[s] = runId[s]
<1>0. RunTypes
  BY DEF Frame, Types
<1>1. ASSUME NEW c \in Call, Proceed(c) PROVE runId'[s] = runId[s]
  BY <1>0, <1>1 DEF Proceed, SendPrompt, Send, Starts, Refused, RunTypes
<1>2. ASSUME NEW c \in Call, TimesOut(c) PROVE runId'[s] = runId[s]
  BY <1>2 DEF TimesOut
<1>3. ASSUME NEW c \in Call, NEW u \in Session,
             Create(c, u) \/ Prompt(c, u) \/ Read(c, u) \/ Abort(c, u)
      PROVE  runId'[s] = runId[s]
  BY <1>0, <1>3 DEF Create, Prompt, Read, Abort, Join, Send, SendPrompt, Starts, RunTypes
<1>4. ASSUME NEW u \in Session, Spawn(u) \/ StartTimesOut(u) \/ Reap(u)
      PROVE  runId'[s] = runId[s]
  BY <1>4 DEF Spawn, StartTimesOut, Reap, bridge
<1>5. ASSUME NEW p \in Proc, AgentStart(p) PROVE runId'[s] = runId[s]
  BY <1>0, <1>5 DEF AgentStart, IsNew, Starts, RunTypes
<1>6. ASSUME NEW p \in Proc,
             \/ Gone(p) \/ Response(p) \/ AgentSettled(p)
             \/ Serve(p) \/ Finish(p) \/ Extension(p) \/ Dies(p)
      PROVE  runId'[s] = runId[s]
  BY <1>6 DEF Gone, Response, AgentSettled, Serve, Finish, Extension, Dies, bridge
<1>7. CASE Dispose \/ UNCHANGED vars
  BY <1>7 DEF Dispose, vars, bridge
<1> QED
  BY <1>1, <1>2, <1>3, <1>4, <1>5, <1>6, <1>7 DEF Next

\* The line that is read is of the run of its session.
LEMMA EventIsOfRun ==
  ASSUME Full, [Next]_vars, NEW p \in Proc, stdout[p] # <<>>, Line(p).type # "response",
         Ordinary(home[p])
  PROVE  runId'[home[p]] = Line(p).run
<1>1. PICK s \in Session : s = home[p]
  BY DEF Full, Frame, WhoInv
<1>2. 1 \in Events(p) /\ stdout[p][1] = Line(p)
  BY TailIs DEF Events, Line, Full, Frame, Types, QueueTypes
<1>3. RunOf(s) /\ ~Quiet(p) /\ Frame
  BY <1>1, <1>2 DEF Full, RunInv, Quiet
<1>4. s \in busy /\ (\/ InStdin(p, s) \/ Working(p, s) \/ Finished(p, s)
                     \/ Declined(p, s) \/ Crashed(p, s))
  BY <1>1, <1>3, NotQuiet
<1>5. OnlyStarts(p, runId[s]) \/ Settles(p, runId[s])
  BY <1>2, <1>4 DEF InStdin, Working, Finished, Declined, Crashed
<1>6. Line(p).run = runId[s]
  BY <1>2, <1>5 DEF OnlyStarts, Settles, Event
<1> QED
  BY <1>1, <1>3, <1>4, <1>6, BusyKeepsRun

\* The events that the bridge hands on carry the id of the run that they are of.
THEOREM EventsCarryRun == Spec => EventsOfRun
<1>1. Full /\ [Next]_vars =>
        [\A p \in Proc :
           /\ stdout[p] # <<>> /\ stdout'[p] = Tail(stdout[p])
           /\ Line(p).type # "response" /\ Ordinary(home[p])
           => runId'[home[p]] = Line(p).run]_vars
  BY EventIsOfRun
<1> QED
  BY <1>1, FullHolds, PTL DEF Spec, EventsOfRun
=============================================================================
