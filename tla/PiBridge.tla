------------------------------- MODULE PiBridge -------------------------------
(***************************************************************************)
(* The bridge in a sandbox of engine pi (pi_bridge/pi-bridge.mjs): HTTP    *)
(* calls of the gateway on one side, a pi process per session on the other.*)
(*                                                                         *)
(* The bridge runs one handler at a time: a step is what it does from one  *)
(* await to the next.  A process reads commands from its stdin and writes  *)
(* lines to its stdout, both queues; its lines are read before its exit is *)
(* reported.  SIGKILL ends it within the second that startProc grants it   *)
(* beyond killGraceMs.  Which session was used least recently is left open;*)
(* a chunk, a line and a command are whole.                                *)
(***************************************************************************)
EXTENDS Naturals, Sequences, FiniteSets

CONSTANTS
  Session, Call, NoSession,
  Starter,    \* who sends get_state to a new process
  MaxProcs,   \* CONF.maxProcs
  MaxStarts, MaxRuns,    \* bounds on the processes started and the runs
  MaxFaults   \* bound on timeouts, crashes and runs begun by extensions

ASSUME PiBridgeConstants ==
  /\ NoSession \notin Session /\ Starter \notin Call
  /\ MaxStarts \in Nat /\ MaxRuns \in Nat /\ MaxFaults \in Nat

VARIABLES
  known,     \* sessions in the map, or with a file
  proc,      \* Session -> s.proc
  busy,      \* sessions with s.busy
  runId,     \* Session -> s.runId
  reload,    \* sessions with s.reloadPending
  starting,  \* Session -> startProc awaits the "old" process, an "answer", or "no"
  runs,      \* Run -> its recorded state, "none" before
  call,      \* Call -> the HTTP call
  life,      \* Proc -> "unused", "up", "dead", or "gone" when the exit was reported
  home,      \* Proc -> its session
  stopping,  \* processes whose stdin is closed
  stdin, stdout,  \* Proc -> commands, lines
  work,      \* Proc -> the run that pi works on
  odd,       \* sessions in which a command timed out or an extension began a run
  faults

\* Processes and runs are numbered as they begin.
Proc == 1..MaxStarts
Run == 1..MaxRuns
NoProc == 0
NoRun == 0
Own == MaxRuns + 1    \* a run that an extension has begun in a process

bridge == <<known, proc, busy, runId, reload, starting, runs, call>>
procs == <<life, home, stopping>>
pi == <<stdin, stdout, work>>
vars == <<bridge, procs, pi, odd, faults>>

Asker == Call \cup {Starter}
Calls == [kind : {"new", "create", "prompt", "abort", "read"},
          at : {"idle", "start", "sent"},
          s : Session \cup {NoSession}, p : Proc \cup {NoProc}, run : Run \cup {NoRun}]
Commands == [type : {"prompt", "abort", "other"}, by : Asker, run : Run \cup {NoRun}]
Lines == [type : {"response"}, by : Asker, ok : {"yes", "no", "handled"}]
         \cup [type : {"agent_start", "agent_settled"}, run : Run \cup {Own}]

TypeOK ==
  /\ known \subseteq Session /\ busy \subseteq Session /\ reload \subseteq busy
  /\ proc \in [Session -> Proc \cup {NoProc}]
  /\ \A s \in Session : proc[s] # NoProc =>
       home[proc[s]] = s /\ life[proc[s]] \in {"up", "dead"}
  /\ runId \in [Session -> Run \cup {NoRun}]
  /\ \A s \in busy : runId[s] \in Run /\ runs[runId[s]] = "running"
  /\ starting \in [Session -> {"no", "old", "answer"}]
  /\ runs \in [Run -> {"none", "running", "settled", "lost"}]
  /\ call \in [Call -> Calls]
  /\ life \in [Proc -> {"unused", "up", "dead", "gone"}]
  /\ home \in [Proc -> Session \cup {NoSession}]
  /\ stopping \subseteq Proc
  /\ stdin \in [Proc -> Seq(Commands)] /\ stdout \in [Proc -> Seq(Lines)]
  /\ work \in [Proc -> Run \cup {NoRun, Own}]
  /\ odd \subseteq Session
  /\ faults \in 0..MaxFaults

\* The bridge was started again: it knows sessions from their files.
Idle == [kind |-> "new", at |-> "idle", s |-> NoSession, p |-> NoProc, run |-> NoRun]
Init ==
  /\ known \in SUBSET Session
  /\ proc = [s \in Session |-> NoProc]
  /\ busy = {} /\ reload = {}
  /\ runId = [s \in Session |-> NoRun]
  /\ starting = [s \in Session |-> "no"]
  /\ runs = [r \in Run |-> "none"]
  /\ call = [c \in Call |-> Idle]
  /\ life = [p \in Proc |-> "unused"]
  /\ home = [p \in Proc |-> NoSession]
  /\ stopping = {}
  /\ stdin = [p \in Proc |-> <<>>] /\ stdout = [p \in Proc |-> <<>>]
  /\ work = [p \in Proc |-> NoRun]
  /\ odd = {} /\ faults = 0

-----------------------------------------------------------------------------
Fault ==
  /\ faults < MaxFaults
  /\ faults' = faults + 1

\* From here on session s is not an ordinary one.
Oddly(s) == Fault /\ odd' = odd \cup {s}

Usable(s) == proc[s] # NoProc /\ proc[s] \notin stopping
Taken == {s \in Session : Usable(s)}

At(c, here) == call[c].at = here
\* The next call, with a number of its own: nothing of an earlier one is on its way.
Free(c) ==
  /\ At(c, "idle")
  /\ \A p \in Proc :
       /\ \A i \in DOMAIN stdin[p] : stdin[p][i].by # c
       /\ \A i \in DOMAIN stdout[p] : stdout[p][i].type = "response" => stdout[p][i].by # c
Joined(s) == {c \in Call : At(c, "start") /\ call[c].s = s}
Creating(s) == \E c \in Call : call[c].kind = "create" /\ call[c].s = s

\* The calls of C are answered, with success or an error; a session whose creation
\* fails is forgotten.
Answered(C) == call' = [c \in Call |-> IF c \in C THEN Idle ELSE call[c]]
Failed(C) ==
  /\ Answered(C)
  /\ known' = known \ {call[c].s : c \in {x \in C : call[x].kind = "create"}}

Begin(c, kind, s, at) ==
  call' = [call EXCEPT ![c] = [kind |-> kind, at |-> at, s |-> s, p |-> NoProc,
                               run |-> NoRun]]
Sent(c, kind, s, r) ==
  call' = [call EXCEPT ![c] = [kind |-> kind, at |-> "sent", s |-> s, p |-> proc[s],
                               run |-> r]]

\* request: what is written to a closed stdin or to a dead process is lost.
Write(p, type, by, r) ==
  stdin' = IF life[p] = "up" /\ p \notin stopping
           THEN [stdin EXCEPT ![p] = Append(@, [type |-> type, by |-> by, run |-> r])]
           ELSE stdin

Stop(P) == stopping' = stopping \cup (P \ {NoProc})

\* startRun, for a run that has not been before.
Starts(s, r) ==
  /\ runs[r] = "none" /\ \A q \in Run : runs[q] = "none" => r <= q
  /\ runs' = [runs EXCEPT ![r] = "running"]
  /\ runId' = [runId EXCEPT ![s] = r]
  /\ busy' = busy \cup {s}

\* settle: the run ends, and its process p is stopped if a reload waits for that.
SettleStill(s, as, p) ==    \* mutant: the reload stays due
  IF s \in busy
  THEN /\ busy' = busy \ {s}
       /\ runs' = [runs EXCEPT ![runId[s]] = as]
       /\ Stop(IF s \in reload THEN {p} ELSE {})
       /\ UNCHANGED reload
  ELSE UNCHANGED <<busy, runs, reload, stopping>>
Settle(s, as, p) ==
  IF s \in busy
  THEN /\ busy' = busy \ {s}
       /\ runs' = [runs EXCEPT ![runId[s]] = as]
       /\ reload' = reload \ {s}
       /\ Stop(IF s \in reload THEN {p} ELSE {})
  ELSE UNCHANGED <<busy, runs, reload, stopping>>

NoRunEnds == UNCHANGED <<busy, runs, reload, stopping>>

-----------------------------------------------------------------------------
(* HTTP calls.                                                              *)

\* ensureProc without a process that can be used: one start serves all.
Join(c, kind, s) ==
  /\ Begin(c, kind, s, "start")
  /\ starting' = [starting EXCEPT ![s] = IF @ = "no" THEN "old" ELSE @]
  /\ UNCHANGED <<busy, runId, runs, stdin>>

SendPrompt(c, s) ==
  \E r \in Run :
    /\ Starts(s, r)
    /\ Write(proc[s], "prompt", c, r)
    /\ Sent(c, "prompt", s, r)
    /\ UNCHANGED starting

Send(c, kind, s) ==
  /\ Write(proc[s], "other", c, NoRun)
  /\ Sent(c, kind, s, NoRun)
  /\ UNCHANGED <<starting, busy, runId, runs>>

Create(c, s) ==
  /\ Free(c) /\ s \notin known /\ \A p \in Proc : home[p] # s
  /\ known' = known \cup {s}
  /\ Join(c, "create", s)
  /\ UNCHANGED <<proc, reload, procs, stdout, work, odd, faults>>

Prompt(c, s) ==
  /\ Free(c) /\ s \in known /\ ~Creating(s)
  /\ \/ /\ s \in busy
        /\ Answered({c})
        /\ UNCHANGED <<busy, runId, runs, starting, stdin>>
     \/ s \notin busy /\ Usable(s) /\ SendPrompt(c, s)
     \/ s \notin busy /\ ~Usable(s) /\ Join(c, "prompt", s)
  /\ UNCHANGED <<known, proc, reload, procs, stdout, work, odd, faults>>

\* GET of the messages of a session.
Read(c, s) ==
  /\ Free(c) /\ s \in known /\ ~Creating(s)
  /\ \/ Usable(s) /\ Send(c, "read", s)
     \/ ~Usable(s) /\ Join(c, "read", s)
  /\ UNCHANGED <<known, proc, reload, procs, stdout, work, odd, faults>>

Abort(c, s) ==
  /\ Free(c) /\ s \in known /\ ~Creating(s)
  /\ IF s \in busy /\ proc[s] # NoProc
     THEN Write(proc[s], "abort", c, NoRun) /\ Sent(c, "abort", s, NoRun)
     ELSE Answered({c}) /\ UNCHANGED stdin
  /\ UNCHANGED <<known, proc, busy, runId, reload, starting, runs, procs, stdout, work,
                 odd, faults>>

\* A prompt is refused if another one began a run in the meantime.
NeverRefused(c) == FALSE    \* mutant
Refused(c) == call[c].kind = "prompt" /\ call[c].s \in busy

\* A call goes on when the process has been started.
Proceed(c) ==
  LET s == call[c].s IN
  /\ At(c, "start") /\ starting[s] = "no"
  /\ \/ /\ Refused(c)
        /\ Answered({c})
        /\ UNCHANGED <<busy, runId, runs, starting, stdin>>
     \/ call[c].kind = "prompt" /\ ~Refused(c) /\ SendPrompt(c, s)
     \/ call[c].kind # "prompt" /\ Send(c, call[c].kind, s)
  /\ UNCHANGED <<known, proc, reload, procs, stdout, work, odd, faults>>

\* The command was not answered in time.
TimesOut(c) ==
  LET s == call[c].s IN
  /\ At(c, "sent")
  /\ Oddly(s)
  /\ Failed({c})
  /\ IF call[c].kind = "prompt" /\ runId[s] = call[c].run
     THEN Settle(s, "lost", proc[s])
     ELSE /\ Stop(IF call[c].kind = "create" THEN {proc[s]} ELSE {})
          /\ UNCHANGED <<busy, runs, reload>>
  /\ UNCHANGED <<proc, runId, starting, life, home, pi>>

-----------------------------------------------------------------------------
(* Starting and stopping processes.                                         *)

\* startProc waits for the old process, which would write the same file.
OldIsStopped(s) == proc[s] # NoProc => proc[s] \in stopping    \* mutant: does not wait
OldIsGone(s) == proc[s] # NoProc => life[proc[s]] = "dead"

\* makeRoom: whom it may evict.
AllVictims == Taken    \* mutant
Victims == Taken \ busy

\* startProc goes on: it fails if there are too many processes and all are busy.
Spawn(s) ==
  /\ starting[s] = "old"
  /\ OldIsGone(s)
  /\ \/ \E p \in Proc :
          /\ life[p] = "unused" /\ \A q \in Proc : life[q] = "unused" => p <= q
          /\ \/ Cardinality(Taken) < MaxProcs /\ UNCHANGED stopping
             \/ /\ Cardinality(Taken) >= MaxProcs
                /\ \E v \in Victims : Stop({proc[v]})
          /\ life' = [life EXCEPT ![p] = "up"]
          /\ home' = [home EXCEPT ![p] = s]
          /\ proc' = [proc EXCEPT ![s] = p]
          /\ stdin' = [stdin EXCEPT ![p] = <<[type |-> "other", by |-> Starter,
                                              run |-> NoRun]>>]
          /\ starting' = [starting EXCEPT ![s] = "answer"]
          /\ UNCHANGED <<known, call>>
     \/ /\ Cardinality(Taken) >= MaxProcs /\ Victims = {}
        /\ starting' = [starting EXCEPT ![s] = "no"]
        /\ Failed(Joined(s))
        /\ UNCHANGED <<proc, procs, stdin>>
  /\ UNCHANGED <<busy, runId, reload, runs, stdout, work, odd, faults>>

\* get_state was not answered in time.
StartTimesOut(s) ==
  /\ starting[s] = "answer"
  /\ Oddly(s)
  /\ starting' = [starting EXCEPT ![s] = "no"]
  /\ Failed(Joined(s))
  /\ Stop({proc[s]})
  /\ UNCHANGED <<proc, busy, runId, reload, runs, life, home, pi>>

\* dispose: what is busy is reloaded later.
Dispose ==
  /\ reload' = reload \cup busy
  /\ Stop({proc[s] : s \in Session \ busy})
  /\ UNCHANGED <<known, proc, busy, runId, starting, runs, call, life, home, pi, odd,
                 faults>>

\* reapIdle: the session has been used by nobody for long.
Reap(s) ==
  /\ Usable(s) /\ s \notin busy
  /\ starting[s] = "no" /\ \A c \in Call : call[c].s # s
  /\ Stop({proc[s]})
  /\ UNCHANGED <<bridge, life, home, pi, odd, faults>>

\* onGone: the calls that wait for process p fail, and its run is lost.  A prompt that
\* fails loses its own run, if that is still the last one.
LosesOwn(p, dropped) ==    \* mutant: only what a call waits for is lost
  \E c \in dropped : call[c].kind = "prompt" /\ call[c].run = runId[home[p]]
Loses(p, dropped) ==
  \/ proc[home[p]] = p
  \/ \E c \in dropped : call[c].kind = "prompt" /\ call[c].run = runId[home[p]]

Gone(p) ==
  LET s == home[p]
      current == proc[s] = p
      dropped == {c \in Call : At(c, "sent") /\ call[c].p = p}
                 \cup (IF current /\ starting[s] # "old" THEN Joined(s) ELSE {})
  IN
  /\ life[p] = "dead" /\ stdout[p] = <<>>
  /\ life' = [life EXCEPT ![p] = "gone"]
  /\ proc' = [proc EXCEPT ![s] = IF current THEN NoProc ELSE @]
  /\ starting' = [starting EXCEPT ![s] = IF current /\ @ = "answer" THEN "no" ELSE @]
  /\ Failed(dropped)
  /\ IF Loses(p, dropped)
     THEN Settle(s, "lost", proc'[s])
     ELSE NoRunEnds
  /\ UNCHANGED <<runId, home, pi, odd, faults>>

-----------------------------------------------------------------------------
(* Lines of a process: onLine.                                              *)

Line(p) == Head(stdout[p])
Reads(p, type) ==
  /\ stdout[p] # <<>> /\ Line(p).type = type
  /\ stdout' = [stdout EXCEPT ![p] = Tail(@)]

\* An answer that nobody waits for any more is dropped.
Response(p) ==
  LET c == Line(p).by
      s == home[p]
      waiting == At(c, "sent")
      own == waiting /\ call[c].kind = "prompt" /\ runId[s] = call[c].run
  IN
  /\ Reads(p, "response")
  /\ IF c = Starter
     THEN /\ starting' = [starting EXCEPT ![s] = IF @ = "answer" /\ proc[s] = p THEN "no"
                                                 ELSE @]
          /\ NoRunEnds /\ UNCHANGED call
     ELSE /\ Answered({c})
          /\ IF own /\ Line(p).ok # "yes"
             THEN Settle(s, IF Line(p).ok = "no" THEN "lost" ELSE "settled", proc[s])
             ELSE NoRunEnds
          /\ UNCHANGED starting
  /\ UNCHANGED <<known, proc, runId, life, home, stdin, work, odd, faults>>

\* Of a run that no call has begun.
AlwaysNew(s) == TRUE    \* mutant
IsNew(s) == s \notin busy

AgentStart(p) ==
  LET s == home[p] IN
  /\ Reads(p, "agent_start")
  /\ IF IsNew(s) THEN \E r \in Run : Starts(s, r) ELSE UNCHANGED <<runs, runId, busy>>
  /\ UNCHANGED <<known, proc, reload, starting, call, procs, stdin, work, odd, faults>>

AgentSettled(p) ==
  /\ Reads(p, "agent_settled")
  /\ Settle(home[p], "settled", proc[home[p]])
  /\ UNCHANGED <<known, proc, runId, starting, call, life, home, stdin, work, odd, faults>>

-----------------------------------------------------------------------------
(* The pi process.                                                          *)

Says(p, lines) == stdout' = [stdout EXCEPT ![p] = @ \o lines]
Reply(c, ok) == [type |-> "response", by |-> c, ok |-> ok]
Event(type, r) == [type |-> type, run |-> r]

\* It takes the next command.  A prompt is accepted, refused, or handled without a
\* run; an abort is answered when nothing runs any more.
Serve(p) ==
  /\ life[p] = "up" /\ stdin[p] # <<>>
  /\ LET m == Head(stdin[p]) IN
     \/ /\ m.type = "other"
        /\ Says(p, <<Reply(m.by, "yes")>>) /\ UNCHANGED work
     \/ /\ m.type = "abort"
        /\ Says(p, IF work[p] = NoRun THEN <<Reply(m.by, "yes")>>
                   ELSE <<Event("agent_settled", work[p]), Reply(m.by, "yes")>>)
        /\ work' = [work EXCEPT ![p] = NoRun]
     \/ /\ m.type = "prompt" /\ work[p] = NoRun
        /\ \E first \in BOOLEAN :
             Says(p, IF first THEN <<Reply(m.by, "yes"), Event("agent_start", m.run)>>
                     ELSE <<Event("agent_start", m.run), Reply(m.by, "yes")>>)
        /\ work' = [work EXCEPT ![p] = m.run]
     \/ /\ m.type = "prompt"
        /\ \E ok \in {"no", "handled"} : Says(p, <<Reply(m.by, ok)>>)
        /\ UNCHANGED work
  /\ stdin' = [stdin EXCEPT ![p] = Tail(@)]
  /\ UNCHANGED <<bridge, procs, odd, faults>>

Finish(p) ==
  /\ life[p] = "up" /\ work[p] # NoRun
  /\ Says(p, <<Event("agent_settled", work[p])>>)
  /\ work' = [work EXCEPT ![p] = NoRun]
  /\ UNCHANGED <<bridge, procs, stdin, odd, faults>>

Extension(p) ==
  /\ life[p] = "up" /\ work[p] = NoRun
  /\ Oddly(home[p])
  /\ Says(p, <<Event("agent_start", Own)>>)
  /\ work' = [work EXCEPT ![p] = Own]
  /\ UNCHANGED <<bridge, procs, stdin>>

\* It ends when its stdin is closed, is killed when that takes long, or crashes.
Dies(p) ==
  /\ life[p] = "up"
  /\ IF p \in stopping THEN UNCHANGED faults ELSE Fault
  /\ life' = [life EXCEPT ![p] = "dead"]
  /\ work' = [work EXCEPT ![p] = NoRun]
  /\ stdin' = [stdin EXCEPT ![p] = <<>>]
  /\ UNCHANGED <<bridge, home, stopping, stdout, odd>>

-----------------------------------------------------------------------------
Next ==
  \/ \E c \in Call :
       \/ Proceed(c) \/ TimesOut(c)
       \/ \E s \in Session : Create(c, s) \/ Prompt(c, s) \/ Read(c, s) \/ Abort(c, s)
  \/ \E s \in Session : Spawn(s) \/ StartTimesOut(s) \/ Reap(s)
  \/ \E p \in Proc :
       \/ Gone(p) \/ Response(p) \/ AgentStart(p) \/ AgentSettled(p)
       \/ Serve(p) \/ Finish(p) \/ Extension(p) \/ Dies(p)
  \/ Dispose

Spec == Init /\ [][Next]_vars

-----------------------------------------------------------------------------
(* Properties.                                                             *)

Ordinary(s) == s \notin odd

\* Two processes never work on the file of one session, however starts, reloads,
\* evictions, idle stops and crashes follow each other.
OneWriter ==
  \A p1, p2 \in Proc :
    life[p1] = "up" /\ life[p2] = "up" /\ home[p1] = home[p2] => p1 = p2

\* The bridge never aborts a run to make room, to reload settings or because a session
\* is idle: it closes the stdin of a process only while its session is not busy.
SparesBusy ==
  [][\A s \in Session :
       s \in busy /\ s \in busy' /\ s \notin odd' /\ proc'[s] = proc[s]
         => (proc[s] \in stopping' => proc[s] \in stopping)]_vars

\* A session that is busy will not be for ever: pi works on its run, is about to, has
\* said that it is over, or is about to be gone.
Ending(s, p) ==
  \/ life[p] = "dead" \/ p \in stopping \/ work[p] # NoRun
  \/ \E i \in DOMAIN stdin[p] : stdin[p][i].run = runId[s]
  \/ \E i \in DOMAIN stdout[p] :
       LET l == stdout[p][i] IN
       \/ l.type = "agent_settled"
       \/ /\ l.type = "response" /\ l.ok # "yes"
          /\ l.by \in Call /\ call[l.by].run = runId[s]
BusyEnds ==
  \A s \in busy : Ordinary(s) =>
    \/ proc[s] # NoProc /\ Ending(s, proc[s])
    \/ \E c \in Call : At(c, "sent") /\ call[c].run = runId[s] /\ Ending(s, call[c].p)

\* GET run answers the truth: a run that pi works on is recorded as running, and is the
\* run of its session.
RunRecorded ==
  \A p \in Proc : LET r == work[p] IN
    r \in Run /\ Ordinary(home[p]) => runs[r] = "running" /\ runId[home[p]] = r

\* The events of a run carry its id.
EventsOfRun ==
  [][\A p \in Proc :
       /\ stdout[p] # <<>> /\ stdout'[p] = Tail(stdout[p])
       /\ Line(p).type # "response" /\ Ordinary(home[p])
       => runId'[home[p]] = Line(p).run]_vars

\* The record of a run and what pi does agree: what is recorded as running runs or is
\* about to end, and what runs is recorded.
RunsAreTrue == BusyEnds /\ RunRecorded
=============================================================================
