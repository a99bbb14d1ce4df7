------------------------------- MODULE Follower -------------------------------
(***************************************************************************)
(* A client attaches to a task that another replica runs                   *)
(* (AgentService.attach, _follow_remote): this replica sends what the      *)
(* session has said so far, and then the translated events of the engine.  *)
(* Tasks follow each other in the session; events and messages name the    *)
(* session and not the task.                                               *)
(*                                                                         *)
(* All prompts have the same text.  An answer is a sequence of messages, a *)
(* message is a sequence of pieces, each an increment of its text (tools,  *)
(* reasoning and usage are left out).  The engine stores a message and     *)
(* publishes its event in one step.  A task ends when its round is over or *)
(* has not begun (EndedIsStopped of AgentTasks).                           *)
(***************************************************************************)
EXTENDS Naturals, Sequences, FiniteSets

CONSTANTS MaxTask, MaxMessages, MaxPieces    \* bounds: tasks, answers, pieces of one

VARIABLES
  engine,   \* of the sandbox
  turn,     \* the latest task of the session
  db,       \* its row: is it running, are run_id and prompt_key known
  round,    \* of this task: "new", "accepted", "begun", "busy", or "over"
  log,      \* the messages of the session: round, number (0: the prompt), pieces
  writing,  \* the message that is being written, and its pieces
  task,     \* the task that is followed
  at,       \* the next await of the follower
  link,     \* the connection to the event stream: "none", "open", or "broken"
  stream,   \* events that have not been read
  read,     \* what the follower has got from the sandbox: messages, or the busy run
  tr,       \* its translator
  held,     \* output that awaits the check of the row
  shown     \* pieces sent to the client

session == <<engine, turn, db, round, log, writing>>
follower == <<task, at, read, tr, held, shown>>
vars == <<session, follower, link, stream>>

\* A text has a piece at least.
Settings == MaxTask \in Nat /\ MaxMessages \in Nat /\ MaxPieces \in Nat \ {0}

Task == 1..MaxTask
None == 0
Pieces == [round : Task, message : 0..MaxMessages, piece : 1..MaxPieces]
Stored == [round : Task, message : 0..MaxMessages, pieces : 0..MaxPieces]
Events == [type : {"start", "user", "prompt", "open", "piece", "close", "end", "connected"},
           round : 0..MaxTask, message : 0..MaxMessages, pieces : 0..MaxPieces]

TypeOK ==
  /\ engine \in {"pi", "opencode"}
  /\ turn \in 0..MaxTask
  /\ db \in [running : BOOLEAN, run : BOOLEAN, key : BOOLEAN]
  /\ round \in {"new", "accepted", "begun", "busy", "over"}
  /\ log \in Seq(Stored)
  /\ writing \in [message : 0..MaxMessages, pieces : 0..MaxPieces]
  /\ task \in 0..turn
  /\ at \in {"none", "poll", "status", "fresh", "messages", "after", "subscribe", "events",
             "check", "done"}
  /\ link \in {"none", "open", "broken"}
  /\ stream \in Seq(Events)
  /\ read \in [run : 0..MaxTask, messages : Seq(Stored)]
  /\ tr \in [idle : BOOLEAN, open : BOOLEAN, held : BOOLEAN, roles : SUBSET Task,
             typed : SUBSET (Task \X (1..MaxMessages)), pending : Seq(Pieces)]
  /\ held \in Seq(Pieces) /\ shown \in Seq(Pieces)

NotWriting == [message |-> 0, pieces |-> 0]
NewRow == [running |-> TRUE, run |-> FALSE, key |-> FALSE]
NewTranslator == [idle |-> FALSE, open |-> FALSE, held |-> FALSE, roles |-> {}, typed |-> {},
                  pending |-> <<>>]
Nothing == [run |-> None, messages |-> <<>>]

Init ==
  /\ engine = "pi" /\ turn = 0 /\ db = [NewRow EXCEPT !.running = FALSE]
  /\ round = "over" /\ log = <<>> /\ writing = NotWriting
  /\ task = None /\ at = "none" /\ link = "none" /\ stream = <<>> /\ read = Nothing
  /\ tr = NewTranslator /\ held = <<>> /\ shown = <<>>

-----------------------------------------------------------------------------
(* The session: its engine, and the replica that runs its tasks.            *)

\* Who is connected gets every event.
Publish(e) == stream' = IF link = "open" THEN Append(stream, e) ELSE stream
Event(type, m, n) == [type |-> type, round |-> turn, message |-> m, pieces |-> n]
Entry(m, n) == [round |-> turn, message |-> m, pieces |-> n]
Silent == UNCHANGED stream

\* A task is admitted when the one before it has ended.
Admit ==
  /\ turn < MaxTask /\ ~db.running
  /\ IF turn = 0 THEN engine' \in {"pi", "opencode"} ELSE UNCHANGED engine
  /\ turn' = turn + 1 /\ db' = NewRow /\ round' = "new"
  /\ Silent /\ UNCHANGED <<log, writing>>

\* The prompt arrives.  The bridge of pi marks the session busy before pi has the
\* prompt; opencode writes the message of the user first.
Accept ==
  /\ db.running /\ round = "new"
  /\ round' = "accepted"
  /\ IF engine = "pi"
     THEN Silent /\ UNCHANGED log
     ELSE /\ log' = Append(log, Entry(0, 1))
          /\ Publish(Event("user", 0, 1))
  /\ UNCHANGED <<engine, turn, db, writing>>

\* agent_start of pi, or the part of the message in opencode.
Begin ==
  /\ round = "accepted"
  /\ round' = "begun"
  /\ Publish(IF engine = "pi" THEN Event("start", 0, 0) ELSE Event("prompt", 0, 1))
  /\ UNCHANGED <<engine, turn, db, log, writing>>

\* opencode reports that the session is busy; pi has written the message of the user.
Work ==
  /\ round = "begun"
  /\ round' = "busy"
  /\ IF engine = "pi"
     THEN log' = Append(log, Entry(0, 1)) /\ Publish(Event("user", 0, 1))
     ELSE Silent /\ UNCHANGED log
  /\ UNCHANGED <<engine, turn, db, writing>>

\* Messages of the engine, numbered through the session.
Count == Cardinality({i \in DOMAIN log : log[i].message > 0})

OpenMessage ==
  /\ round = "busy" /\ writing = NotWriting /\ Count < MaxMessages
  /\ writing' = [message |-> Count + 1, pieces |-> 0]
  /\ log' = IF engine = "pi" THEN log ELSE Append(log, Entry(Count + 1, 0))
  /\ Publish(Event("open", Count + 1, 0))
  /\ UNCHANGED <<engine, turn, db, round>>

WritePiece ==
  /\ round = "busy" /\ writing # NotWriting /\ writing.pieces < MaxPieces
  /\ writing' = [writing EXCEPT !.pieces = @ + 1]
  /\ Publish(Event("piece", writing.message, writing.pieces + 1))
  /\ UNCHANGED <<engine, turn, db, round, log>>

CloseMessage ==
  /\ round = "busy" /\ writing # NotWriting
  /\ writing' = NotWriting
  /\ LET whole == Entry(writing.message, writing.pieces) IN
     log' = IF engine = "pi" THEN Append(log, whole)
            ELSE [log EXCEPT ![Len(log)] = whole]
  /\ Publish(Event("close", writing.message, writing.pieces))
  /\ UNCHANGED <<engine, turn, db, round>>

\* agent_settled, run_lost, or idle.
End ==
  /\ round \in {"accepted", "begun", "busy"}
  /\ round' = "over" /\ writing' = NotWriting
  /\ Publish(Event("end", 0, 0))
  /\ UNCHANGED <<engine, turn, db, log>>

\* The runner records the run of pi, and the identity of the message of the user.
SaveRun ==
  /\ engine = "pi" /\ db.running /\ round # "new" /\ ~db.run
  /\ db' = [db EXCEPT !.run = TRUE]
  /\ Silent /\ UNCHANGED <<engine, turn, round, log, writing>>

SaveKey ==
  /\ db.running /\ db.run /\ ~db.key
  /\ \E i \in DOMAIN log : log[i].round = turn
  /\ db' = [db EXCEPT !.key = TRUE]
  /\ Silent /\ UNCHANGED <<engine, turn, round, log, writing>>

EndTask ==
  /\ db.running /\ round \in {"new", "over"}
  /\ db' = [db EXCEPT !.running = FALSE]
  /\ Silent /\ UNCHANGED <<engine, turn, round, log, writing>>

-----------------------------------------------------------------------------
(* The follower.                                                            *)

Running(t) == t = turn /\ db.running
Goes(to) == at' = to

\* attach.  A task without session_id is only polled.
Attach ==
  /\ at = "none" /\ turn > 0 /\ db.running
  /\ task' = turn
  /\ Goes("status") \/ (round = "new" /\ Goes("poll"))
  /\ UNCHANGED <<read, tr, held, shown, stream>>

Poll ==
  /\ at = "poll" /\ ~Running(task)
  /\ Goes("done")
  /\ UNCHANGED <<task, read, tr, held, shown, stream>>

\* _attach_snapshot: is the session busy, and with which run?
ReadStatus ==
  /\ at = "status"
  /\ LET busy == \/ round = "busy"
                 \/ engine = "pi" /\ round \in {"accepted", "begun"}
     IN IF busy
        THEN Goes("fresh") /\ read' = [read EXCEPT !.run = turn]
        ELSE Goes("subscribe") /\ UNCHANGED read
  /\ UNCHANGED <<task, tr, held, shown, stream>>

\* It runs this task, of which run and message of the user are known.
Eligible ==
  /\ Running(task)
  /\ engine = "pi" => db.run /\ read.run = task /\ db.key
ReadRow ==
  /\ at = "fresh"
  /\ Goes(IF Eligible THEN "messages" ELSE "subscribe")
  /\ UNCHANGED <<task, read, tr, held, shown, stream>>

\* The round of the last message of the user must be that of the task; the engine
\* opencode can only compare texts.
Prompts(msgs) == {i \in DOMAIN msgs : msgs[i].message = 0}
LastPrompt(msgs) ==
  IF Prompts(msgs) = {} THEN 0 ELSE CHOOSE i \in Prompts(msgs) : \A j \in Prompts(msgs) : j <= i
MatchesPrompt(msgs) ==
  /\ LastPrompt(msgs) # 0
  /\ engine = "pi" => msgs[LastPrompt(msgs)].round = task

ReadMessages ==
  /\ at = "messages"
  /\ read' = [read EXCEPT !.messages = log]
  /\ Goes(IF MatchesPrompt(log) THEN "after" ELSE "subscribe")
  /\ UNCHANGED <<task, tr, held, shown, stream>>

\* A request to the sandbox fails.
SnapshotFails ==
  /\ at \in {"status", "messages"}
  /\ Goes("subscribe")
  /\ UNCHANGED <<task, read, tr, held, shown, stream>>

Text(r, m, n) == [i \in 1..n |-> [round |-> r, message |-> m, piece |-> i]]

\* extract_result: the last message with a text after the last prompt.
Texts(msgs) == {i \in DOMAIN msgs : i > LastPrompt(msgs) /\ msgs[i].pieces > 0}
Result(msgs) ==
  IF Texts(msgs) = {} THEN <<>>
  ELSE LET m == msgs[CHOOSE i \in Texts(msgs) : \A j \in Texts(msgs) : j <= i]
       IN Text(m.round, m.message, m.pieces)

\* The task still runs: no later one has written to the session.
NotAsked == TRUE    \* mutant
StillRuns == Running(task)
ShowSnapshot ==
  /\ at = "after"
  /\ Goes("subscribe")
  /\ shown' = IF StillRuns THEN Result(read.messages) ELSE shown
  /\ UNCHANGED <<task, read, tr, held, stream>>

\* The follower reads events from a queue, which a task of its own fills: that connects
\* at some time, and is not connected again when the stream breaks.
Subscribe ==
  /\ at = "subscribe"
  /\ Goes("events")
  /\ read' = Nothing
  /\ UNCHANGED <<task, tr, held, shown, stream>>

Connect ==
  /\ at \in {"events", "check"} /\ link = "none"
  /\ link' = "open"
  /\ stream' = <<[Event("connected", 0, 0) EXCEPT !.round = None]>>
Break ==
  /\ at \in {"events", "check"} /\ link # "broken"
  /\ link' = "broken"
  /\ Silent

-----------------------------------------------------------------------------
(* Translators: the output of an event, and the next state.                 *)

ThisPiece(e) == [round |-> e.round, message |-> e.message, piece |-> e.pieces]
Prefix(s, t) == Len(s) <= Len(t) /\ s = SubSeq(t, 1, Len(s))

\* PiTranslator: pieces of a message whose start was missed are held back.
PiShows(e) ==
  CASE e.type = "piece" /\ tr.open -> <<ThisPiece(e)>>
    [] e.type = "close" /\ tr.held -> Text(e.round, e.message, e.pieces)
    [] OTHER -> <<>>
PiNext(e) ==
  [tr EXCEPT !.idle = @ \/ e.type = "end",
             !.open = e.type = "open" \/ (@ /\ e.type # "close"),
             !.held = e.type # "close" /\ (@ \/ (e.type = "piece" /\ ~tr.open))]

\* Translator of opencode: pieces of a part of unknown type are kept until the part is
\* announced; they are dropped if its text does not begin with them.
Part(e) == <<e.round, e.message>>
Emitted(e) == Cardinality({i \in DOMAIN shown : <<shown[i].round, shown[i].message>> = Part(e)})
Buffered(e) == IF Prefix(tr.pending, Text(e.round, e.message, e.pieces)) THEN tr.pending ELSE <<>>
OpencodeShows(e) ==
  CASE e.type = "piece" /\ Part(e) \in tr.typed -> <<ThisPiece(e)>>
    [] e.type = "prompt" /\ e.round \notin tr.roles -> Text(e.round, 0, 1)
    [] e.type \in {"open", "close"} ->
         LET full == Text(e.round, e.message, e.pieces) IN
         Buffered(e) \o SubSeq(full, Emitted(e) + Len(Buffered(e)) + 1, Len(full))
    [] OTHER -> <<>>
OpencodeNext(e) ==
  [tr EXCEPT !.idle = @ \/ e.type = "end",
             !.roles = IF e.type = "user" THEN @ \cup {e.round} ELSE @,
             !.typed = IF e.type \in {"open", "close"} THEN @ \cup {Part(e)} ELSE @,
             !.pending = CASE e.type \in {"open", "close"} -> <<>>
                           [] e.type = "piece" /\ Part(e) \notin tr.typed ->
                                Append(@, ThisPiece(e))
                           [] OTHER -> @]

Shows(e) == IF engine = "pi" THEN PiShows(e) ELSE OpencodeShows(e)

\* A round begins: round_starts.
BeginsRound(e) ==
  IF engine = "pi" THEN e.type = "start" ELSE e.type = "user" /\ e.round \notin tr.roles

\* The follower reads an event.  It asks for the row first if it has just subscribed, if
\* a round begins, or if it has not asked for long; what comes after the end of the
\* round is not sent.
Follow ==
  /\ at = "events" /\ stream # <<>>
  /\ stream' = Tail(stream)
  /\ LET e == Head(stream)
         items == IF tr.idle THEN <<>> ELSE Shows(e)
     IN
     /\ tr' = IF engine = "pi" THEN PiNext(e) ELSE OpencodeNext(e)
     /\ \/ Goes("check") /\ held' = items /\ UNCHANGED shown
        \/ /\ e.type # "connected" /\ ~BeginsRound(e)
           /\ shown' = shown \o items
           /\ UNCHANGED <<at, held>>
  /\ UNCHANGED <<task, read>>

\* No event for long.
AskAgain ==
  /\ at = "events" /\ stream = <<>>
  /\ Goes("check")
  /\ UNCHANGED <<task, read, tr, held, shown, stream>>

Check ==
  /\ at = "check"
  /\ IF Running(task)
     THEN Goes("events") /\ shown' = shown \o held
     ELSE Goes("done") /\ UNCHANGED shown
  /\ held' = <<>>
  /\ UNCHANGED <<task, read, tr, stream>>

\* The client goes away.
Leave ==
  /\ at \in {"poll", "events"}
  /\ Goes("done")
  /\ UNCHANGED <<task, read, tr, held, shown, stream>>

-----------------------------------------------------------------------------
SessionMoves ==
  /\ \/ Admit \/ Accept \/ Begin \/ Work \/ OpenMessage \/ WritePiece \/ CloseMessage \/ End
     \/ SaveRun \/ SaveKey \/ EndTask
  /\ UNCHANGED <<follower, link>>
Follows ==
  /\ \/ Attach \/ Poll \/ ReadStatus \/ ReadRow \/ ReadMessages \/ SnapshotFails
     \/ ShowSnapshot \/ Subscribe \/ Follow \/ AskAgain \/ Check
     \/ Leave
  /\ UNCHANGED <<session, link>>
Reader == (Connect \/ Break) /\ UNCHANGED <<session, follower>>

Next == SessionMoves \/ Follows \/ Reader
Spec == Init /\ [][Next]_vars

-----------------------------------------------------------------------------
(* Properties.                                                             *)

\* A client that follows a task is never sent anything of another task of the session,
\* neither in the snapshot nor as an event.
OwnOutput == \A i \in DOMAIN shown : shown[i].round = task

\* What a client is sent of a message is the beginning of its text: no piece is missing
\* before another, comes twice or too late, snapshot included.
WholeOutput ==
  \A i \in DOMAIN shown : shown[i].message > 0 =>
    LET before == {shown[j].piece : j \in {k \in 1..i - 1 : shown[k].message = shown[i].message}}
    IN  before = 1..shown[i].piece - 1

\* What a client is sent is, message by message, what the engine said for its task.
OutputIsTrue == OwnOutput /\ WholeOutput
=============================================================================
