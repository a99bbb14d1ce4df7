---------------------------- MODULE FollowerProofs ----------------------------
(***************************************************************************)
(* Proofs about Follower, for any numbers of tasks, messages and pieces.   *)
(*                                                                         *)
(* IInv is the inductive invariant.  What it adds to OutputIsTrue relates  *)
(* four things that change one by one: what the engine writes (SessionInv, *)
(* LogInv), the events of it that have not been read (StreamInv), what     *)
(* the translator remembers and the client has got (OutInv, ReadInv), and  *)
(* the rows and messages that the follower read before (SnapshotInv,       *)
(* RoundInv).                                                              *)
(***************************************************************************)
EXTENDS Follower, TLAPS, SequenceTheorems, FiniteSetTheorems, FunctionTheorems,
        WellFoundedInduction

\* What the client has been sent, or will be if the row still says that the task runs.
Out == shown \o held
Writing == writing # NotWriting
\* The latest message of the session.
Top == IF Writing THEN writing.message ELSE Count

-----------------------------------------------------------------------------
(* Events of a message: it is opened, grows piece by piece, and is closed.  *)
Grows(e) == e.type \in {"open", "piece"}
InMessage(e) == e.type \in {"piece", "close"}
About(e) == Grows(e) \/ InMessage(e)
Before(e) == IF e.type = "piece" THEN e.pieces - 1 ELSE e.pieces
Continues(e, f) ==
  Grows(e) /\ InMessage(f) /\ e.round = f.round /\ e.message = f.message /\ Before(f) = e.pieces
Adjacent(e, f) ==
  /\ InMessage(f) => e.type = "connected" \/ Continues(e, f)
  /\ Grows(e) => Continues(e, f) \/ f.type = "end"
  /\ f.type # "connected"
OfTask(e) == About(e) /\ e.round = task

EventType(e) ==
  /\ e.type # "connected" => e.round \in Task
  /\ About(e) => e.message \in 1..MaxMessages
  /\ e.type = "piece" => e.pieces \in 1..MaxPieces
  /\ e.type = "open" => e.pieces = 0

SessionInv ==
  /\ db.running => turn > 0
  /\ round \in {"accepted", "begun", "busy"} => db.running
  /\ Writing =>
       /\ round = "busy" /\ writing.message \in 1..MaxMessages
       /\ writing.message = IF engine = "pi" THEN Count + 1 ELSE Count

Ordered(l) == \A i, j \in DOMAIN l : i < j => l[i].round <= l[j].round
HasPrompt(l, r) == \E i \in DOMAIN l : l[i].message = 0 /\ l[i].round = r
\* Messages that have been read, with their texts, are closed.
Closed(l) ==
  \A i \in DOMAIN l :
    /\ l[i].round <= turn /\ l[i].message <= Count
    /\ Writing /\ l[i].pieces > 0 => l[i].message # writing.message
LogInv ==
  /\ Ordered(log) /\ Closed(log)
  /\ engine = "opencode" /\ round \in {"accepted", "begun", "busy"} => HasPrompt(log, turn)
  /\ engine = "opencode" /\ Writing => log # <<>> /\ log[Len(log)] = Entry(writing.message, 0)

SnapshotInv ==
  /\ at \in {"fresh", "messages"} /\ engine = "opencode" /\ turn = task => HasPrompt(log, task)
  /\ at = "after" =>
       /\ turn = task => HasPrompt(read.messages, task)
       /\ Ordered(read.messages) /\ Closed(read.messages)

StageInv ==
  /\ at # "none" => task > 0
  /\ at # "check" => held = <<>>
  /\ at \in {"none", "poll", "status", "fresh", "messages", "after"} => shown = <<>>
  /\ at \in {"none", "poll", "status", "fresh", "messages", "after", "subscribe"} =>
       link = "none"
  /\ link = "none" => stream = <<>> /\ tr = NewTranslator
  /\ tr.held => engine = "pi"
  /\ tr.pending # <<>> => engine = "opencode"

-----------------------------------------------------------------------------
(* The events that have not been read.                                      *)
EventsAre ==
  \A i \in DOMAIN stream :
    /\ EventType(stream[i]) /\ stream[i].round <= turn
    /\ stream[i].type # "connected" => stream[i].round >= task
Linked == \A i \in 1..Len(stream) - 1 : Adjacent(stream[i], stream[i + 1])
InOrder ==
  \A i, j \in DOMAIN stream : i < j /\ OfTask(stream[i]) /\ OfTask(stream[j]) =>
    /\ stream[i].message <= stream[j].message
    /\ stream[i].type = "close" \/ stream[j].type = "open" =>
         stream[i].message # stream[j].message
UpToTop ==
  turn = task /\ round # "over" => \A i \in DOMAIN stream : OfTask(stream[i]) =>
    /\ stream[i].message <= Top
    /\ Writing /\ stream[i].type = "close" => stream[i].message # writing.message
LastEvent ==
  link = "open" /\ stream # <<>> => LET e == stream[Len(stream)] IN
    /\ Grows(e) => Writing /\ e.round = turn /\ e.message = writing.message
                   /\ e.pieces = writing.pieces
    /\ Writing => Grows(e) \/ e.type = "connected"
StreamInv == EventsAre /\ Linked /\ InOrder /\ UpToTop /\ LastEvent

\* An event of a later round is not read before the row.
Announces(e) ==
  \/ e.type = "connected"
  \/ e.round > task /\ e.type = (IF engine = "pi" THEN "start" ELSE "user")
Announced == IF engine = "pi" THEN {"begun", "busy"} ELSE {"accepted", "begun", "busy"}
LaterRounds ==
  /\ \A r \in tr.roles : r <= task
  /\ \A i \in DOMAIN stream : stream[i].round > task /\ stream[i].type # "end" =>
       \E j \in 1..i : Announces(stream[j])
  /\ link = "open" /\ turn > task /\ round \in Announced =>
       \E j \in DOMAIN stream : Announces(stream[j])
RoundInv == (\A r \in tr.roles : r <= turn) /\ (at = "events" => LaterRounds)

-----------------------------------------------------------------------------
\* The client gets a message piece by piece if its opening has been read.
Seen(m) == IF engine = "pi" THEN tr.open ELSE <<task, m>> \in tr.typed
ExactlyIn(s, m, k) ==
  /\ \A i \in DOMAIN s : s[i].message = m => s[i].piece <= k
  /\ \A q \in 1..k : \E i \in DOMAIN s : s[i].message = m /\ s[i].piece = q
Exactly(m, k) == ExactlyIn(Out, m, k)
Caught(m, k) == Exactly(m, k) /\ tr.pending = <<>> /\ ~tr.held
Earlier(m) == \A i \in DOMAIN Out : Out[i].message < m

Whole(s) ==
  \A i \in DOMAIN s : s[i].message > 0 =>
    {s[j].piece : j \in {k \in 1..i - 1 : s[k].message = s[i].message}} = 1..s[i].piece - 1
Own(s) == \A i \in DOMAIN s : s[i].round = task
SentUpToTop ==
  turn = task /\ round # "over" => \A i \in DOMAIN Out : Out[i].message <= Top
OutInv ==
  /\ Own(Out) /\ Whole(Out)
  /\ SentUpToTop
  /\ link = "none" /\ turn = task /\ Writing => Earlier(writing.message)

\* Of a message to come nothing has been sent yet, or it goes on piece by piece.
Ahead ==
  \A j \in DOMAIN stream : OfTask(stream[j]) =>
    \/ Earlier(stream[j].message)
    \/ /\ InMessage(stream[j]) /\ Seen(stream[j].message)
       /\ \A i \in DOMAIN Out : Out[i].message <= stream[j].message
\* Of the one that is being written, too.
Joined ==
  link = "open" /\ Writing /\ turn = task => Earlier(writing.message) \/ Seen(writing.message)
\* The next event goes on where the last piece ended.
NextEvent ==
  stream # <<>> => LET e == stream[1] IN
    /\ InMessage(e) /\ e.round = task /\ Seen(e.message) => Caught(e.message, Before(e))
    /\ tr.held => InMessage(e) \/ e.type = "end"
    /\ e.type = "connected" => tr = NewTranslator
NoEvent ==
  stream = <<>> /\ link = "open" =>
    /\ Writing /\ turn = task /\ Seen(writing.message) =>
         Caught(writing.message, writing.pieces)
    /\ tr.held => Writing
ReadInv ==
  ~tr.idle /\ at # "done" =>
    Ahead /\ Joined /\ NextEvent /\ NoEvent /\ ~(tr.held /\ tr.open)

IInv ==
  /\ TypeOK /\ SessionInv /\ LogInv /\ SnapshotInv /\ StageInv
  /\ StreamInv /\ RoundInv /\ OutInv /\ ReadInv

-----------------------------------------------------------------------------
(* Sequences and sets.                                                       *)

\* A sequence with one more element, without its first one, and two in a row.
LEMMA AppendIs ==
  ASSUME NEW S, NEW s \in Seq(S), NEW x \in S
  PROVE  /\ Append(s, x) \in Seq(S)
         /\ Len(Append(s, x)) = Len(s) + 1 /\ Len(s) \in Nat
         /\ DOMAIN s = 1..Len(s) /\ DOMAIN Append(s, x) = 1..Len(s) + 1
         /\ \A i \in 1..Len(s) : Append(s, x)[i] = s[i]
         /\ Append(s, x)[Len(s) + 1] = x
         /\ Append(s, x) # <<>>
BY AppendProperties, LenProperties

LEMMA TailIs ==
  ASSUME NEW S, NEW s \in Seq(S), s # <<>>
  PROVE  /\ Tail(s) \in Seq(S) /\ Head(s) = s[1] /\ s[1] \in S
         /\ Len(s) \in Nat /\ Len(s) >= 1 /\ Len(Tail(s)) = Len(s) - 1
         /\ DOMAIN s = 1..Len(s) /\ DOMAIN Tail(s) = 1..Len(s) - 1
         /\ \A i \in 1..Len(s) - 1 : Tail(s)[i] = s[i + 1]
<1>1. Len(s) \in Nat /\ Len(s) >= 1
  BY EmptySeq
<1>2. Tail(s) \in Seq(S) /\ Len(Tail(s)) = Len(s) - 1
      /\ \A i \in 1..Len(Tail(s)) : Tail(s)[i] = s[i + 1]
  BY HeadTailProperties
<1>3. Head(s) = s[1]
  OBVIOUS
<1>4. DOMAIN s = 1..Len(s) /\ DOMAIN Tail(s) = 1..Len(s) - 1
  BY <1>2, LenProperties
<1>5. s[1] \in S
  BY <1>1, ElementOfSeq
<1> QED
  BY <1>1, <1>2, <1>3, <1>4, <1>5

LEMMA ConcatIs ==
  ASSUME NEW S, NEW s \in Seq(S), NEW t \in Seq(S)
  PROVE  /\ s \o t \in Seq(S) /\ Len(s) \in Nat /\ Len(t) \in Nat
         /\ DOMAIN s = 1..Len(s) /\ DOMAIN t = 1..Len(t)
         /\ DOMAIN (s \o t) = 1..Len(s) + Len(t)
         /\ \A i \in 1..Len(s) : (s \o t)[i] = s[i]
         /\ \A i \in 1..Len(t) : (s \o t)[Len(s) + i] = t[i]
         /\ \A i \in 1..Len(s) + Len(t) : i \notin 1..Len(s) => i - Len(s) \in 1..Len(t)
                                           /\ (s \o t)[i] = t[i - Len(s)]
<1>1. /\ s \o t \in Seq(S) /\ Len(s \o t) = Len(s) + Len(t)
      /\ \A i \in 1..Len(s) + Len(t) : (s \o t)[i] = IF i <= Len(s) THEN s[i] ELSE t[i - Len(s)]
  BY ConcatProperties
<1>2. /\ Len(s) \in Nat /\ Len(t) \in Nat
      /\ DOMAIN s = 1..Len(s) /\ DOMAIN t = 1..Len(t)
      /\ DOMAIN (s \o t) = 1..Len(s \o t)
  BY <1>1, LenProperties
<1> QED
  BY <1>1, <1>2

\* What is at some place of a sequence is one of its elements.
LEMMA At ==
  ASSUME NEW S, NEW s \in Seq(S), NEW i \in DOMAIN s
  PROVE  s[i] \in S /\ i \in 1..Len(s) /\ i \in Nat /\ Len(s) \in Nat
BY ElementOfSeq, LenProperties

\* A set of places has a last one.
LEMMA LastExists ==
  ASSUME NEW n \in Nat, NEW S \in SUBSET (1..n), S # {}
  PROVE  \E i \in S : \A j \in S : j <= i
<1> DEFINE T == {n - i : i \in S}
<1>1. T \subseteq Nat /\ T # {}
  <2>1. T \subseteq Nat
    OBVIOUS
  <2>2. PICK i \in S : TRUE
    OBVIOUS
  <2>3. n - i \in T
    BY <2>2
  <2> QED
    BY <2>1, <2>3
<1>2. ASSUME NEW R, NEW N, IsWellFoundedOn(R, N), NEW U \in SUBSET N, U # {}
      PROVE  \E x \in U : \A y \in U : ~(<<y, x>> \in R)
  BY <1>2, WFMin
<1>3. PICK x \in T : \A y \in T : ~(<<y, x>> \in OpToRel(<, Nat))
  BY <1>1, <1>2, NatLessThanWellFounded, Zenon
<1>4. PICK i \in S : x = n - i
  BY <1>3
<1>5. ASSUME NEW j \in S PROVE j <= i
  <2>1. n - j \in T /\ n - j \in Nat /\ x \in Nat
    BY <1>1, <1>3
  <2>2. ~(n - j < x)
    BY <1>3, <2>1 DEF OpToRel
  <2> QED
    BY <1>4, <2>2
<1> QED
  BY <1>5

\* How many messages are in a sequence with one more.
Messages(l) == {i \in DOMAIN l : l[i].message > 0}
LEMMA CountIs ==
  ASSUME NEW l \in Seq(Stored)
  PROVE  IsFiniteSet(Messages(l)) /\ Cardinality(Messages(l)) \in Nat
<1>1. Messages(l) \subseteq 1..Len(l) /\ Len(l) \in Nat
  BY LenProperties DEF Messages
<1>2. IsFiniteSet(1..Len(l))
  BY <1>1, FS_Interval
<1> QED
  BY <1>1, <1>2, FS_Subset, FS_CardinalityType

LEMMA CountAppend ==
  ASSUME NEW l \in Seq(Stored), NEW x \in Stored
  PROVE  Cardinality(Messages(Append(l, x))) =
           IF x.message > 0 THEN Cardinality(Messages(l)) + 1 ELSE Cardinality(Messages(l))
<1>1. /\ Append(l, x) \in Seq(Stored) /\ Len(l) \in Nat
      /\ DOMAIN l = 1..Len(l) /\ DOMAIN Append(l, x) = 1..Len(l) + 1
      /\ \A i \in 1..Len(l) : Append(l, x)[i] = l[i]
      /\ Append(l, x)[Len(l) + 1] = x
  BY AppendIs
<1>2. Messages(Append(l, x)) =
        IF x.message > 0 THEN Messages(l) \cup {Len(l) + 1} ELSE Messages(l)
  BY <1>1 DEF Messages
<1>3. Len(l) + 1 \notin Messages(l)
  BY <1>1 DEF Messages
<1>4. IsFiniteSet(Messages(l))
  BY CountIs
<1>5. Cardinality(Messages(l) \cup {Len(l) + 1}) = Cardinality(Messages(l)) + 1
  BY <1>3, <1>4, FS_AddElement
<1> QED
  BY <1>2, <1>5

LEMMA CountExcept ==
  ASSUME NEW l \in Seq(Stored), NEW x \in Stored, NEW i \in DOMAIN l,
         x.message = l[i].message
  PROVE  Messages([l EXCEPT ![i] = x]) = Messages(l)
BY DEF Messages

-----------------------------------------------------------------------------
(* The session moves.                                                        *)

USE DEF None

\* What the session leaves alone.
Still == UNCHANGED <<follower, link>>
Now(f) == f \in Events /\ f.round = turn /\ turn \in Task /\ EventType(f) /\ f.type # "connected"

\* Event f continues what was said before.
Fits(f) ==
  /\ About(f) => round = "busy"
  /\ InMessage(f) => Writing /\ f.message = writing.message /\ Before(f) = writing.pieces
  /\ ~InMessage(f) /\ f.type # "end" => ~Writing
  /\ f.type = "open" => f.message = Top + 1
  /\ turn > task /\ f.type # "end" => Announces(f) \/ round \in Announced
\* What is so after f.
After(f) ==
  /\ UNCHANGED <<engine, turn>>
  /\ Grows(f) => Writing' /\ f.message = writing'.message /\ f.pieces = writing'.pieces
  /\ Writing' => Grows(f)
  /\ round' # "over" => Top' = IF f.type = "open" THEN Top + 1 ELSE Top
  /\ round' # "over" => round # "over"
  /\ turn > task /\ round' \in Announced' => Announces(f) \/ round \in Announced

\* Who is connected gets the event after all the others.
LEMMA Heard ==
  ASSUME TypeOK, link = "open", NEW f \in Events, Publish(f)
  PROVE  /\ stream' \in Seq(Events) /\ stream' # <<>>
         /\ Len(stream) \in Nat /\ Len(stream') = Len(stream) + 1
         /\ DOMAIN stream = 1..Len(stream) /\ DOMAIN stream' = 1..Len(stream) + 1
         /\ \A i \in 1..Len(stream) : stream'[i] = stream[i]
         /\ stream'[Len(stream) + 1] = f
         /\ stream = <<>> <=> Len(stream) = 0
<1>1. stream \in Seq(Events) /\ stream' = Append(stream, f)
  BY DEF TypeOK, Publish
<1>2. stream = <<>> <=> Len(stream) = 0
  BY <1>1, EmptySeq
<1> QED
  BY <1>1, <1>2, AppendIs

\* Facts about what there is.
LEMMA Basics ==
  ASSUME Settings, TypeOK
  PROVE  /\ turn \in Nat /\ task \in Nat /\ task <= turn
         /\ stream \in Seq(Events) /\ Len(stream) \in Nat /\ DOMAIN stream = 1..Len(stream)
         /\ \A i \in DOMAIN stream : stream[i] \in Events
         /\ \A e \in Events : /\ e.round \in Nat /\ e.message \in Nat /\ e.pieces \in Nat
                              /\ e.type \in {"start", "user", "prompt", "open", "piece",
                                             "close", "end", "connected"}
         /\ writing.message \in Nat /\ writing.pieces \in Nat
         /\ Count \in Nat /\ Top \in Nat
<1>1. turn \in Nat /\ task \in Nat /\ task <= turn
  BY DEF Settings, TypeOK
<1>2. stream \in Seq(Events)
  BY DEF TypeOK
<1>3. Len(stream) \in Nat /\ DOMAIN stream = 1..Len(stream)
  BY <1>2, LenProperties
<1>4. \A i \in DOMAIN stream : stream[i] \in Events
  BY <1>2, <1>3, ElementOfSeq
<1>5. \A e \in Events : /\ e.round \in Nat /\ e.message \in Nat /\ e.pieces \in Nat
                        /\ e.type \in {"start", "user", "prompt", "open", "piece",
                                       "close", "end", "connected"}
  BY DEF Settings, Events
<1>6. writing.message \in Nat /\ writing.pieces \in Nat
  BY DEF Settings, TypeOK
<1>7. Count \in Nat
  BY CountIs DEF TypeOK, Count, Messages
<1>8. Top \in Nat
  BY <1>6, <1>7 DEF Top
<1> QED
  BY <1>1, <1>2, <1>3, <1>4, <1>5, <1>6, <1>7, <1>8

\* Event f is the next of the stream.
LEMMA SaidStream ==
  ASSUME Settings, TypeOK, StreamInv, NEW f, Now(f), Fits(f), After(f), Still, Publish(f)
  PROVE  StreamInv'
<1> DEFINE n == Len(stream)
<1>0. f \in Events
  BY DEF Now
<1>1. /\ turn \in Nat /\ task \in Nat /\ task <= turn /\ n \in Nat /\ DOMAIN stream = 1..n
      /\ \A i \in DOMAIN stream : stream[i] \in Events
  BY Basics
<1>2. UNCHANGED <<turn, task, engine, link>>
  BY DEF After, Still, follower
<1>3. CASE link # "open"
  <2>1. stream' = stream
    BY <1>3 DEF Publish
  <2>2. EventsAre' /\ Linked' /\ InOrder'
    BY <2>1, <1>2 DEF StreamInv, EventsAre, Linked, InOrder, OfTask, Adjacent, Continues
  <2>3. LastEvent'
    BY <1>2, <1>3 DEF LastEvent
  <2>4. UpToTop'
    <3> SUFFICES ASSUME turn = task, round' # "over", NEW i \in DOMAIN stream,
                        OfTask(stream[i])
                 PROVE  /\ stream[i].message <= Top'
                        /\ Writing' /\ stream[i].type = "close" =>
                             stream[i].message # writing'.message
      BY <2>1, <1>2 DEF UpToTop, OfTask
    <3>1. /\ stream[i].message <= Top
          /\ Writing /\ stream[i].type = "close" => stream[i].message # writing.message
      BY DEF After, StreamInv, UpToTop
    <3>2. stream[i].message \in Nat /\ Top \in Nat
      BY Basics
    <3>3. stream[i].message <= Top'
      BY <3>1, <3>2 DEF After
    <3>4. ASSUME Writing', stream[i].type = "close"
          PROVE  stream[i].message # writing'.message
      <4>1. Grows(f) /\ f.message = writing'.message
        BY <3>4 DEF After
      <4>2. CASE f.type = "open"
        BY <4>1, <4>2, <3>1, <3>2 DEF Fits
      <4>3. CASE f.type = "piece"
        BY <4>1, <4>3, <3>1, <3>4 DEF Fits, InMessage
      <4> QED
        BY <4>1, <4>2, <4>3 DEF Grows
    <3> QED
      BY <3>3, <3>4
  <2> QED
    BY <2>2, <2>3, <2>4 DEF StreamInv
<1>4. CASE link = "open"
  <2>1. /\ DOMAIN stream' = 1..n + 1 /\ Len(stream') = n + 1 /\ stream' # <<>>
        /\ \A i \in 1..n : stream'[i] = stream[i]
        /\ stream'[n + 1] = f
        /\ stream = <<>> <=> n = 0
    BY <1>0, <1>4, Heard
  <2>2. EventsAre'
    BY <2>1, <1>1, <1>2 DEF StreamInv, EventsAre, Now
  <2>3. Linked'
    <3>1. ASSUME n > 0 PROVE Adjacent(stream[n], f)
      <4>1. LET e == stream[n] IN
            /\ Grows(e) => Writing /\ e.round = turn /\ e.message = writing.message
                           /\ e.pieces = writing.pieces
            /\ Writing => Grows(e) \/ e.type = "connected"
        BY <3>1, <2>1, <1>4 DEF StreamInv, LastEvent
      <4> QED
        BY <4>1 DEF Fits, Now, Adjacent, Continues, InMessage
    <3>2. \A i \in 1..n : Adjacent(stream'[i], stream'[i + 1])
      BY <3>1, <2>1, <1>1 DEF StreamInv, Linked
    <3> QED
      BY <3>2, <2>1, <1>1 DEF Linked, Adjacent, Continues
  <2>4. ASSUME OfTask(f)
        PROVE  /\ turn = task /\ round # "over" /\ f.message \in Nat
               /\ f.type = "open" => f.message = Top + 1
               /\ f.type # "open" => Writing /\ f.message = writing.message /\ f.message = Top
    <3>1. turn = task /\ round # "over" /\ f.message \in Nat
      BY <2>4, <1>0, Basics DEF OfTask, Now, Fits
    <3>2. ASSUME f.type # "open" PROVE Writing /\ f.message = writing.message
      BY <2>4, <3>2 DEF OfTask, Fits, About, Grows, InMessage
    <3> QED
      BY <3>1, <3>2 DEF Fits, Top
  <2>5. ASSUME OfTask(f), NEW i \in 1..n, OfTask(stream[i])
        PROVE  /\ stream[i].message <= f.message
               /\ stream[i].type = "close" \/ f.type = "open" => stream[i].message # f.message
    <3>1. /\ stream[i].message <= Top
          /\ Writing /\ stream[i].type = "close" => stream[i].message # writing.message
      BY <2>4, <2>5, <1>1 DEF StreamInv, UpToTop
    <3>2. stream[i].message \in Nat /\ Top \in Nat
      BY <1>1, Basics
    <3> QED
      BY <2>4, <2>5, <3>1, <3>2
  <2>6. InOrder'
    <3> SUFFICES ASSUME NEW i \in 1..n + 1, NEW j \in 1..n + 1, i < j,
                        OfTask(stream'[i]), OfTask(stream'[j])
                 PROVE  /\ stream'[i].message <= stream'[j].message
                        /\ stream'[i].type = "close" \/ stream'[j].type = "open" =>
                             stream'[i].message # stream'[j].message
      BY <2>1, <1>2 DEF InOrder, OfTask
    <3>1. i \in 1..n
      BY <1>1
    <3>2. CASE j \in 1..n
      BY <3>1, <3>2, <2>1, <1>1 DEF StreamInv, InOrder
    <3>3. CASE j = n + 1
      BY <3>1, <3>3, <2>1, <2>5
    <3> QED
      BY <3>2, <3>3, <1>1
  <2>7. UpToTop'
    <3> SUFFICES ASSUME turn = task, round' # "over", NEW i \in 1..n + 1,
                        OfTask(stream'[i])
                 PROVE  /\ stream'[i].message <= Top'
                        /\ Writing' /\ stream'[i].type = "close" =>
                             stream'[i].message # writing'.message
      BY <2>1, <1>2 DEF UpToTop, OfTask
    <3>0. Top \in Nat /\ Top' = IF f.type = "open" THEN Top + 1 ELSE Top
      BY Basics DEF After
    <3>1. CASE i = n + 1
      <4>1. f.message <= Top'
        BY <3>0, <3>1, <2>1, <2>4
      <4>2. Writing' => f.type # "close"
        BY DEF After, Grows
      <4> QED
        BY <3>1, <4>1, <4>2, <2>1
    <3>2. CASE i \in 1..n
      <4>1. /\ stream[i].message <= Top
            /\ Writing /\ stream[i].type = "close" => stream[i].message # writing.message
        BY <3>2, <2>1, <1>1 DEF After, StreamInv, UpToTop
      <4>2. stream[i].message \in Nat
        BY <3>2, <1>1, Basics
      <4>3. stream[i].message <= Top'
        BY <3>0, <4>1, <4>2
      <4>4. ASSUME Writing', stream[i].type = "close"
            PROVE  stream[i].message # writing'.message
        <5>1. Grows(f) /\ f.message = writing'.message
          BY <4>4 DEF After
        <5>2. CASE f.type = "open"
          BY <5>1, <5>2, <4>1, <4>2, <3>0 DEF Fits
        <5>3. CASE f.type = "piece"
          BY <5>1, <5>3, <4>1, <4>4 DEF Fits, InMessage
        <5> QED
          BY <5>1, <5>2, <5>3 DEF Grows
      <4> QED
        BY <4>3, <4>4, <3>2, <2>1
    <3> QED
      BY <3>1, <3>2, <1>1
  <2>8. LastEvent'
    BY <2>1, <1>2 DEF LastEvent, After, Now
  <2> QED
    BY <2>2, <2>3, <2>6, <2>7, <2>8 DEF StreamInv
<1> QED
  BY <1>3, <1>4

\* If it is of a later round, something before it, or itself, announces that.
LEMMA SaidRound ==
  ASSUME Settings, TypeOK, RoundInv, NEW f, Now(f), Fits(f), After(f), Still, Publish(f)
  PROVE  RoundInv'
<1> DEFINE n == Len(stream)
<1>1. /\ turn \in Nat /\ task \in Nat /\ n \in Nat /\ DOMAIN stream = 1..n
  BY Basics
<1>2. UNCHANGED <<turn, task, engine, link, tr, at>>
  BY DEF After, Still, follower
<1>3. \A e : Announces(e)' <=> Announces(e)
  BY <1>2 DEF Announces
<1>4. SUFFICES ASSUME at = "events" PROVE LaterRounds'
  BY <1>2 DEF RoundInv
<1>5. LaterRounds
  BY <1>4 DEF RoundInv
<1>6. f.type # "end" /\ turn > task =>
        Announces(f) \/ (round \in Announced /\ link = "open" =>
                           \E j \in DOMAIN stream : Announces(stream[j]))
  BY <1>5 DEF Fits, LaterRounds
<1>7. turn > task /\ round' \in Announced' /\ link = "open" =>
        Announces(f) \/ \E j \in DOMAIN stream : Announces(stream[j])
  BY <1>5 DEF After, LaterRounds
<1>8. CASE link # "open"
  <2>1. stream' = stream
    BY <1>8 DEF Publish
  <2> QED
    BY <2>1, <1>2, <1>3, <1>5, <1>8 DEF LaterRounds
<1>9. CASE link = "open"
  <2>1. /\ DOMAIN stream' = 1..n + 1
        /\ \A i \in 1..n : stream'[i] = stream[i]
        /\ stream'[n + 1] = f
    BY <1>9, Heard DEF Now
  <2>2. ASSUME NEW i \in 1..n + 1, stream'[i].round > task, stream'[i].type # "end"
        PROVE  \E j \in 1..i : Announces(stream'[j])
    <3>1. CASE i \in 1..n
      <4>1. PICK j \in 1..i : Announces(stream[j])
        BY <3>1, <2>1, <2>2, <1>1, <1>5 DEF LaterRounds
      <4> QED
        BY <4>1, <3>1, <2>1, <1>1
    <3>2. CASE i = n + 1
      <4>1. f.round = turn /\ turn > task /\ f.type # "end"
        BY <3>2, <2>1, <2>2 DEF Now
      <4>2. CASE Announces(f)
        BY <4>2, <3>2, <2>1, <1>1
      <4>3. CASE ~Announces(f)
        <5>1. PICK j \in DOMAIN stream : Announces(stream[j])
          BY <4>1, <4>3, <1>5, <1>9 DEF Fits, LaterRounds
        <5> QED
          BY <5>1, <3>2, <2>1, <1>1
      <4> QED
        BY <4>2, <4>3
    <3> QED
      BY <3>1, <3>2, <1>1
  <2>3. ASSUME turn > task, round' \in Announced'
        PROVE  \E j \in 1..n + 1 : Announces(stream'[j])
    <3>1. Announces(f) \/ \E j \in DOMAIN stream : Announces(stream[j])
      BY <2>3, <1>7, <1>9
    <3>2. CASE Announces(f)
      BY <3>2, <2>1, <1>1
    <3>3. ASSUME NEW j \in DOMAIN stream, Announces(stream[j])
          PROVE  \E k \in 1..n + 1 : Announces(stream'[k])
      BY <3>3, <2>1, <1>1
    <3> QED
      BY <3>1, <3>2, <3>3
  <2>4. \A r \in tr'.roles : r <= task'
    BY <1>2, <1>5 DEF LaterRounds
  <2>5. \A i \in DOMAIN stream' : stream'[i].round > task' /\ stream'[i].type # "end" =>
          \E j \in 1..i : Announces(stream[j])'
    BY <2>1, <2>2, <1>2, <1>3
  <2>6. link' = "open" /\ turn' > task' /\ round' \in Announced' =>
          \E j \in DOMAIN stream' : Announces(stream[j])'
    BY <2>1, <2>3, <1>2, <1>3
  <2> QED
    BY <2>4, <2>5, <2>6 DEF LaterRounds
<1> QED
  BY <1>8, <1>9

\* What is sent remains.
LEMMA Same ==
  ASSUME UNCHANGED engine, Still
  PROVE  /\ Out' = Out
         /\ \A m : Earlier(m)' <=> Earlier(m)
         /\ \A m : Seen(m)' <=> Seen(m)
         /\ \A m, k : Caught(m, k)' <=> Caught(m, k)
         /\ \A e : OfTask(e)' <=> OfTask(e)
BY DEF Still, follower, Out, Earlier, Seen, Caught, Exactly, ExactlyIn, OfTask

\* The client gets it as it gets the others.
LEMMA SaidRead ==
  ASSUME Settings, TypeOK, StreamInv, SentUpToTop, ReadInv, NEW f, Now(f), Fits(f), After(f),
         Still, Publish(f), Own(Out), \A i \in DOMAIN Out : Out[i].message \in Nat
  PROVE  ReadInv' /\ SentUpToTop'
<1> DEFINE n == Len(stream)
<1>1. /\ turn \in Nat /\ task \in Nat /\ task <= turn /\ n \in Nat /\ DOMAIN stream = 1..n
      /\ Top \in Nat
  BY Basics
<1>2. UNCHANGED <<turn, task, engine, link, tr, at>>
  BY DEF After, Still, follower
<1>3. /\ Out' = Out
      /\ \A m : Earlier(m)' <=> Earlier(m)
      /\ \A m : Seen(m)' <=> Seen(m)
      /\ \A m, k : Caught(m, k)' <=> Caught(m, k)
      /\ \A e : OfTask(e)' <=> OfTask(e)
  BY <1>2, Same
<1>4. f.type = "open" /\ turn = task => Earlier(f.message)
  <2> SUFFICES ASSUME f.type = "open", turn = task, NEW i \in DOMAIN Out
               PROVE  Out[i].message < f.message
    BY DEF Earlier
  <2>1. Out[i].message <= Top /\ f.message = Top + 1
    BY DEF SentUpToTop, Fits, About, Grows
  <2> QED
    BY <2>1, <1>1
<1>5. SentUpToTop'
  <2> SUFFICES ASSUME turn = task, round' # "over", NEW i \in DOMAIN Out
               PROVE  Out[i].message <= Top'
    BY <1>2, <1>3 DEF SentUpToTop
  <2>1. Out[i].message <= Top
    BY DEF SentUpToTop, After
  <2> QED
    BY <2>1, <1>1 DEF After
<1>6. SUFFICES ASSUME ~tr.idle, at # "done" PROVE ReadInv'
  BY <1>2, <1>5 DEF ReadInv
<1>7. Ahead /\ Joined /\ NextEvent /\ NoEvent /\ ~(tr.held /\ tr.open)
  BY <1>6 DEF ReadInv
<1>8. Joined'
  <2> SUFFICES ASSUME link = "open", Writing', turn = task
               PROVE  Earlier(writing'.message) \/ Seen(writing'.message)
    BY <1>2, <1>3 DEF Joined
  <2>1. Grows(f) /\ f.message = writing'.message
    BY DEF After
  <2>2. CASE f.type = "open"
    BY <2>1, <2>2, <1>4
  <2>3. CASE f.type = "piece"
    BY <2>1, <2>3, <1>7 DEF Fits, InMessage, Joined
  <2> QED
    BY <2>1, <2>2, <2>3 DEF Grows
<1>9. ~(tr'.held /\ tr'.open)
  BY <1>2, <1>7
<1>10. CASE link # "open"
  <2>1. stream' = stream
    BY <1>10 DEF Publish
  <2>2. Ahead'
    BY <2>1, <1>3, <1>7 DEF Ahead
  <2>3. NextEvent'
    BY <2>1, <1>2, <1>3, <1>7 DEF NextEvent
  <2>4. NoEvent'
    BY <1>2, <1>10 DEF NoEvent
  <2> QED
    BY <2>2, <2>3, <2>4, <1>8, <1>9 DEF ReadInv
<1>11. CASE link = "open"
  <2>1. /\ DOMAIN stream' = 1..n + 1 /\ stream' # <<>>
        /\ \A i \in 1..n : stream'[i] = stream[i]
        /\ stream'[n + 1] = f
        /\ stream = <<>> <=> n = 0
    BY <1>11, Heard DEF Now
  <2>2. ASSUME OfTask(f)
        PROVE  \/ Earlier(f.message)
               \/ /\ InMessage(f) /\ Seen(f.message)
                  /\ \A i \in DOMAIN Out : Out[i].message <= f.message
    <3>1. turn = task /\ round # "over"
      BY <2>2 DEF OfTask, Now, Fits
    <3>2. CASE f.type = "open"
      BY <3>1, <3>2, <1>4
    <3>3. CASE f.type # "open"
      <4>1. InMessage(f) /\ Writing /\ f.message = writing.message /\ f.message = Top
        BY <2>2, <3>3 DEF OfTask, About, Grows, InMessage, Fits, Top
      <4>2. \A i \in DOMAIN Out : Out[i].message <= f.message
        BY <3>1, <4>1 DEF SentUpToTop
      <4>3. Earlier(f.message) \/ Seen(f.message)
        BY <3>1, <4>1, <1>7, <1>11 DEF Joined
      <4> QED
        BY <4>1, <4>2, <4>3
    <3> QED
      BY <3>2, <3>3
  <2>3. Ahead'
    <3> SUFFICES ASSUME NEW j \in 1..n + 1, OfTask(stream'[j])
                 PROVE  \/ Earlier(stream'[j].message)
                        \/ /\ InMessage(stream'[j]) /\ Seen(stream'[j].message)
                           /\ \A i \in DOMAIN Out : Out[i].message <= stream'[j].message
      BY <2>1, <1>3 DEF Ahead
    <3>1. CASE j \in 1..n
      BY <3>1, <2>1, <1>1, <1>7 DEF Ahead
    <3>2. CASE j = n + 1
      BY <3>2, <2>1, <2>2
    <3> QED
      BY <3>1, <3>2, <1>1
  <2>4. NextEvent'
    <3>1. CASE n > 0
      <4>1. stream'[1] = stream[1] /\ stream # <<>>
        BY <3>1, <2>1, <1>1
      <4> QED
        BY <4>1, <1>2, <1>3, <1>7 DEF NextEvent
    <3>2. CASE n = 0
      <4>1. stream'[1] = f /\ stream = <<>>
        BY <3>2, <2>1
      <4>2. InMessage(f) /\ f.round = task /\ Seen(f.message) => Caught(f.message, Before(f))
        BY <4>1, <1>7, <1>11 DEF Fits, Now, NoEvent
      <4>3. tr.held => InMessage(f) \/ f.type = "end"
        BY <4>1, <1>7, <1>11 DEF Fits, NoEvent
      <4> QED
        BY <4>1, <4>2, <4>3, <1>2, <1>3 DEF NextEvent, Now
    <3> QED
      BY <3>1, <3>2, <1>1
  <2>5. NoEvent'
    BY <2>1 DEF NoEvent
  <2> QED
    BY <2>3, <2>4, <2>5, <1>8, <1>9 DEF ReadInv
<1> QED
  BY <1>10, <1>11

\* Nothing is said.
Quietly ==
  /\ UNCHANGED <<engine, stream, writing>>
  /\ turn' = turn \/ (turn' = turn + 1 /\ ~Writing /\ round' = "new")
  /\ round' # "over" /\ turn' = turn => round # "over"
  /\ Top' = Top
  /\ turn' = turn /\ round' \in Announced => round \in Announced

\* Nothing is said, so the client knows of nothing new.
LEMMA Unsaid ==
  ASSUME Settings, TypeOK, StreamInv, SentUpToTop, RoundInv, ReadInv, Still, Quietly
  PROVE  StreamInv' /\ SentUpToTop' /\ RoundInv' /\ ReadInv'
<1>1. /\ turn \in Nat /\ task \in Nat /\ task <= turn
      /\ Len(stream) \in Nat /\ DOMAIN stream = 1..Len(stream)
      /\ \A i \in DOMAIN stream : stream[i] \in Events
      /\ \A e \in Events : e.round \in Nat
  BY Basics
<1>2. UNCHANGED <<task, engine, link, tr, at, stream, writing>>
  BY DEF Quietly, Still, follower
<1>3. /\ Out' = Out
      /\ \A m : Earlier(m)' <=> Earlier(m)
      /\ \A m : Seen(m)' <=> Seen(m)
      /\ \A m, k : Caught(m, k)' <=> Caught(m, k)
      /\ \A e : OfTask(e)' <=> OfTask(e)
  BY <1>2, Same
<1>4. (Writing' <=> Writing) /\ turn' \in Nat /\ turn' >= turn /\ Announced' = Announced
      /\ \A e : Announces(e)' <=> Announces(e)
  BY <1>1, <1>2 DEF Quietly, Writing, NotWriting, Announced, Announces
<1>5. turn' = task' /\ round' # "over" => turn = task /\ round # "over" /\ Top' = Top
  BY <1>1, <1>2 DEF Quietly
<1>6. turn' = task' => turn = task
  BY <1>1, <1>2 DEF Quietly
<1>7. Writing => turn' = turn
  BY DEF Quietly
<1>8. EventsAre' /\ Linked' /\ InOrder'
  <2>1. EventsAre'
    BY <1>1, <1>2, <1>4 DEF StreamInv, EventsAre
  <2>2. Linked' /\ InOrder'
    BY <1>2, <1>3 DEF StreamInv, Linked, InOrder
  <2> QED
    BY <2>1, <2>2
<1>9. UpToTop' /\ SentUpToTop'
  BY <1>2, <1>3, <1>4, <1>5 DEF StreamInv, UpToTop, SentUpToTop
<1>10. LastEvent'
  BY <1>2, <1>4, <1>7 DEF StreamInv, LastEvent
<1>11. RoundInv'
  <2>1. \A r \in tr.roles : r <= turn'
    <3>1. \A r \in tr.roles : r <= turn /\ r \in Nat
      BY DEF RoundInv, TypeOK, Task
    <3> QED
      BY <3>1, <1>1, <1>4
  <2>2. ASSUME LaterRounds PROVE LaterRounds'
    <3>1. link = "open" /\ turn' > task /\ round' \in Announced =>
            \E j \in DOMAIN stream : Announces(stream[j])
      <4>1. CASE turn' = turn
        BY <4>1, <2>2 DEF Quietly, LaterRounds
      <4>2. CASE turn' # turn
        BY <4>2 DEF Quietly, Announced
      <4> QED
        BY <4>1, <4>2
    <3> QED
      BY <3>1, <2>2, <1>2, <1>4 DEF LaterRounds
  <2> QED
    BY <2>1, <2>2, <1>2 DEF RoundInv
<1>12. ReadInv'
  <2> SUFFICES ASSUME ~tr.idle, at # "done" PROVE ReadInv'
    BY <1>2 DEF ReadInv
  <2>1. Ahead /\ Joined /\ NextEvent /\ NoEvent /\ ~(tr.held /\ tr.open)
    BY DEF ReadInv
  <2>2. Ahead' /\ NextEvent'
    BY <2>1, <1>2, <1>3 DEF Ahead, NextEvent
  <2>3. Joined' /\ NoEvent'
    BY <2>1, <1>2, <1>3, <1>4, <1>6 DEF Joined, NoEvent
  <2> QED
    BY <2>1, <2>2, <2>3, <1>2 DEF ReadInv
<1> QED
  BY <1>8, <1>9, <1>10, <1>11, <1>12 DEF StreamInv

\* Of messages that have been written nothing changes.
Grown ==
  /\ turn' \in {turn, turn + 1}
  /\ \A r : HasPrompt(log, r) => HasPrompt(log', r)
  /\ Count' >= Count
  /\ Writing' => \/ Writing /\ writing'.message = writing.message
                 \/ ~Writing /\ round = "busy" /\ turn' = turn
                    /\ writing'.message = Count + 1
SessionTypes ==
  /\ engine \in {"pi", "opencode"}
  /\ turn \in 0..MaxTask
  /\ db \in [running : BOOLEAN, run : BOOLEAN, key : BOOLEAN]
  /\ round \in {"new", "accepted", "begun", "busy", "over"}
  /\ log \in Seq(Stored)
  /\ writing \in [message : 0..MaxMessages, pieces : 0..MaxPieces]

\* The types of what a step of the session leaves or appends to.
LEMMA StillTypes ==
  ASSUME Settings, TypeOK, Still, SessionTypes', turn' \in {turn, turn + 1},
         Quietly \/ (\E f \in Events : Publish(f))
  PROVE  TypeOK'
<1>1. stream' \in Seq(Events)
  <2>1. ASSUME NEW f \in Events, Publish(f) PROVE stream' \in Seq(Events)
    <3>1. stream \in Seq(Events)
      BY DEF TypeOK
    <3>2. Append(stream, f) \in Seq(Events)
      BY <3>1, AppendProperties
    <3> QED
      BY <2>1, <3>1, <3>2 DEF Publish
  <2> QED
    BY <2>1 DEF Quietly, TypeOK
<1>2. task' \in 0..turn'
  BY DEF TypeOK, Settings, Still, follower
<1> QED
  BY <1>1, <1>2 DEF TypeOK, SessionTypes, Still, follower

\* Facts about what has been sent.
LEMMA OutTypes ==
  ASSUME Settings, TypeOK
  PROVE  /\ Out \in Seq(Pieces) /\ DOMAIN Out = 1..Len(Out) /\ Len(Out) \in Nat
         /\ \A i \in DOMAIN Out : /\ Out[i] \in Pieces
                                  /\ Out[i].message \in Nat /\ Out[i].piece \in Nat
                                  /\ Out[i].round \in Nat /\ Out[i].piece >= 1
<1>1. Out \in Seq(Pieces)
  BY ConcatProperties DEF TypeOK, Out
<1>2. DOMAIN Out = 1..Len(Out) /\ Len(Out) \in Nat
  BY <1>1, LenProperties
<1>3. \A i \in DOMAIN Out : Out[i] \in Pieces
  BY <1>1, <1>2, ElementOfSeq
<1>4. \A p \in Pieces : /\ p.message \in Nat /\ p.piece \in Nat /\ p.round \in Nat
                        /\ p.piece >= 1
  BY DEF Settings, Pieces, Task
<1> QED
  BY <1>1, <1>2, <1>3, <1>4

\* A step of the session that says what fits, or nothing.
LEMMA SessionKeeps ==
  ASSUME Settings, IInv, Still, SessionTypes', SessionInv', LogInv', Grown,
         Quietly \/ (\E f : Now(f) /\ Fits(f) /\ After(f) /\ Publish(f))
  PROVE  IInv'
<1> USE DEF IInv
<1>1. /\ turn \in Nat /\ task \in Nat /\ task <= turn /\ Count \in Nat /\ Top \in Nat
      /\ writing.message \in Nat
  BY Basics
<1>2. TypeOK'
  BY StillTypes DEF Grown, Now
<1>3. Count' \in Nat
  BY <1>2, CountIs DEF TypeOK, Count, Messages
<1>4. UNCHANGED <<task, engine, link, tr, at, read, held, shown>>
  BY DEF Still, follower, Quietly, After
<1>5. /\ Out' = Out
      /\ \A m : Earlier(m)' <=> Earlier(m)
  BY <1>4, Same
<1>6. StreamInv' /\ SentUpToTop' /\ RoundInv' /\ ReadInv'
  <2>1. CASE Quietly
    BY <2>1, Unsaid DEF OutInv
  <2>2. ASSUME NEW f, Now(f), Fits(f), After(f), Publish(f)
        PROVE  StreamInv' /\ SentUpToTop' /\ RoundInv' /\ ReadInv'
    <3>1. Own(Out) /\ \A i \in DOMAIN Out : Out[i].message \in Nat
      BY OutTypes DEF OutInv
    <3> QED
      BY <2>2, <3>1, SaidStream, SaidRound, SaidRead DEF OutInv
  <2> QED
    BY <2>1, <2>2
<1>7. SnapshotInv'
  <2>1. turn' = task' => turn = task
    BY <1>1, <1>4 DEF Grown
  <2>2. at = "after" => Closed(read.messages)'
    <3> SUFFICES ASSUME at = "after", NEW i \in DOMAIN read.messages
                 PROVE  LET x == read.messages[i] IN
                        /\ x.round <= turn' /\ x.message <= Count'
                        /\ Writing' /\ x.pieces > 0 => x.message # writing'.message
      BY <1>4 DEF Closed
    <3>0. read.messages \in Seq(Stored)
      BY DEF TypeOK
    <3>1. read.messages[i] \in Stored
      BY <3>0, At
    <3>2. read.messages[i].round \in Nat /\ read.messages[i].message \in Nat
      BY <3>1 DEF Stored, Task, Settings
    <3>3. /\ read.messages[i].round <= turn /\ read.messages[i].message <= Count
          /\ Writing /\ read.messages[i].pieces > 0 =>
               read.messages[i].message # writing.message
      BY DEF SnapshotInv, Closed
    <3> QED
      BY <3>2, <3>3, <1>1, <1>3 DEF Grown
  <2>3. Ordered(read.messages)' = Ordered(read.messages)
        /\ HasPrompt(read.messages, task)' = HasPrompt(read.messages, task)
    BY <1>4 DEF Ordered, HasPrompt
  <2>4. at \in {"fresh", "messages"} /\ engine = "opencode" /\ turn' = task =>
          HasPrompt(log', task)
    BY <2>1, <1>4 DEF Grown, SnapshotInv
  <2>5. HasPrompt(log, task)' <=> HasPrompt(log', task)
    BY <1>4 DEF HasPrompt
  <2> QED
    BY <2>1, <2>2, <2>3, <2>4, <2>5, <1>4 DEF SnapshotInv
<1>8. StageInv'
  <2>1. link = "none" => stream' = stream
    BY DEF Quietly, Publish
  <2> QED
    BY <2>1, <1>4 DEF StageInv
<1>9. OutInv'
  <2>1. Own(Out)' /\ Whole(Out)'
    BY <1>4, <1>5 DEF OutInv, Own, Whole
  <2>2. ASSUME link = "none", turn' = task, Writing'
        PROVE  Earlier(writing'.message)
    <3>1. turn = task
      BY <2>2, <1>1 DEF Grown
    <3>2. CASE Writing /\ writing'.message = writing.message
      BY <3>1, <3>2, <2>2 DEF OutInv
    <3>3. CASE ~Writing /\ round = "busy" /\ writing'.message = Count + 1
      <4> SUFFICES ASSUME NEW i \in DOMAIN Out PROVE Out[i].message < writing'.message
        BY DEF Earlier
      <4>1. Out[i].message <= Count /\ Out[i].message \in Nat
        BY <3>1, <3>3, OutTypes DEF OutInv, SentUpToTop, Top
      <4> QED
        BY <4>1, <3>3, <1>1
    <3> QED
      BY <3>2, <3>3, <2>2 DEF Grown
  <2> QED
    BY <2>1, <2>2, <1>4, <1>5, <1>6 DEF OutInv
<1> QED
  BY <1>2, <1>6, <1>7, <1>8, <1>9

\* Closed in the next state, of messages of this one.
ClosedThen(l) ==
  \A i \in DOMAIN l :
    /\ l[i].round <= turn' /\ l[i].message <= Count'
    /\ Writing' /\ l[i].pieces > 0 => l[i].message # writing'.message

\* What was closed is closed: messages have numbers of their own.
LEMMA ClosedStays ==
  ASSUME Settings, TypeOK, Grown, Count' \in Nat, NEW l \in Seq(Stored), Closed(l)
  PROVE  ClosedThen(l)
<1> SUFFICES ASSUME NEW i \in DOMAIN l
             PROVE  /\ l[i].round <= turn' /\ l[i].message <= Count'
                    /\ Writing' /\ l[i].pieces > 0 => l[i].message # writing'.message
  BY DEF ClosedThen
<1>1. turn \in Nat /\ Count \in Nat
  BY Basics
<1>2. l[i] \in Stored
  BY At
<1>3. l[i].round \in Nat /\ l[i].message \in Nat
  BY <1>2 DEF Stored, Task, Settings
<1>4. /\ l[i].round <= turn /\ l[i].message <= Count
      /\ Writing /\ l[i].pieces > 0 => l[i].message # writing.message
  BY DEF Closed
<1> QED
  BY <1>1, <1>3, <1>4 DEF Grown

\* The log is as it was.
LEMMA LogSame ==
  ASSUME Settings, TypeOK, LogInv, Grown, Count' \in Nat, UNCHANGED <<log, engine>>,
         Writing' /\ engine = "opencode" => Writing /\ writing'.message = writing.message,
         round' \in {"accepted", "begun", "busy"} => turn' = turn /\
           (engine = "opencode" => round \in {"accepted", "begun", "busy"}),
         Writing' => turn' = turn
  PROVE  LogInv'
<1>1. log \in Seq(Stored)
  BY DEF TypeOK
<1>2. ClosedThen(log)
  BY <1>1, ClosedStays DEF LogInv
<1>3. Closed(log)'
  BY <1>2 DEF Closed, ClosedThen
<1>4. Ordered(log)'
  BY DEF LogInv, Ordered
<1>5. engine' = "opencode" /\ round' \in {"accepted", "begun", "busy"} => HasPrompt(log, turn)'
  BY DEF LogInv, HasPrompt
<1>6. engine' = "opencode" /\ Writing' =>
        log' # <<>> /\ log'[Len(log')] = Entry(writing.message, 0)'
  BY DEF LogInv, Entry
<1> QED
  BY <1>3, <1>4, <1>5, <1>6 DEF LogInv

\* A message is appended to the log.
LEMMA Appended ==
  ASSUME Settings, TypeOK, LogInv, NEW x \in Stored, x.round = turn, log' = Append(log, x)
  PROVE  /\ log' \in Seq(Stored) /\ log' # <<>> /\ log'[Len(log')] = x
         /\ Ordered(log)'
         /\ \A r : HasPrompt(log, r) => HasPrompt(log', r)
         /\ x.message = 0 => HasPrompt(log', turn)
         /\ Count' = IF x.message > 0 THEN Count + 1 ELSE Count
         /\ \A i \in DOMAIN log' : log'[i] = x \/ \E j \in DOMAIN log : log'[i] = log[j]
<1> DEFINE n == Len(log)
<1>1. log \in Seq(Stored)
  BY DEF TypeOK
<1>2. /\ log' \in Seq(Stored) /\ Len(log') = n + 1 /\ n \in Nat
      /\ DOMAIN log = 1..n /\ DOMAIN log' = 1..n + 1
      /\ \A i \in 1..n : log'[i] = log[i]
      /\ log'[n + 1] = x
      /\ log' # <<>>
  BY <1>1, AppendIs
<1>3. Ordered(log)'
  <2> SUFFICES ASSUME NEW i \in 1..n + 1, NEW j \in 1..n + 1, i < j
               PROVE  log'[i].round <= log'[j].round
    BY <1>2 DEF Ordered
  <2>1. i \in 1..n
    BY <1>2
  <2>2. CASE j \in 1..n
    BY <1>2, <2>1, <2>2 DEF LogInv, Ordered
  <2>3. CASE j = n + 1
    BY <1>2, <2>1, <2>3 DEF LogInv, Closed
  <2> QED
    BY <2>2, <2>3, <1>2
<1>4. \A r : HasPrompt(log, r) => HasPrompt(log', r)
  BY <1>2 DEF HasPrompt
<1>5. x.message = 0 => HasPrompt(log', turn)
  BY <1>2 DEF HasPrompt
<1>6. Count' = IF x.message > 0 THEN Count + 1 ELSE Count
  BY <1>1, CountAppend DEF Count, Messages
<1>7. \A i \in DOMAIN log' : log'[i] = x \/ \E j \in DOMAIN log : log'[i] = log[j]
  BY <1>2
<1> QED
  BY <1>2, <1>3, <1>4, <1>5, <1>6, <1>7

\* The log has a message more.
LEMMA LogAppended ==
  ASSUME Settings, TypeOK, LogInv, NEW x \in Stored, x.round = turn, log' = Append(log, x),
         Grown, UNCHANGED <<engine, turn>>, x.message <= Count',
         Writing' /\ x.pieces > 0 => x.message # writing'.message,
         engine = "opencode" /\ Writing' => x = Entry(writing'.message, 0),
         engine = "opencode" /\ round' \in {"accepted", "begun", "busy"} =>
           x.message = 0 \/ round \in {"accepted", "begun", "busy"}
  PROVE  LogInv'
<1>1. /\ log' \in Seq(Stored) /\ log' # <<>> /\ log'[Len(log')] = x
      /\ Ordered(log)'
      /\ \A r : HasPrompt(log, r) => HasPrompt(log', r)
      /\ x.message = 0 => HasPrompt(log', turn)
      /\ Count' = IF x.message > 0 THEN Count + 1 ELSE Count
      /\ \A i \in DOMAIN log' : log'[i] = x \/ \E j \in DOMAIN log : log'[i] = log[j]
  BY Appended
<1>2. Count \in Nat /\ turn \in Nat
  BY Basics
<1>3. ClosedThen(log)
  BY <1>1, <1>2, ClosedStays DEF LogInv, TypeOK
<1>4. Closed(log)'
  <2> SUFFICES ASSUME NEW i \in DOMAIN log'
               PROVE  /\ log'[i].round <= turn' /\ log'[i].message <= Count'
                      /\ Writing' /\ log'[i].pieces > 0 => log'[i].message # writing'.message
    BY DEF Closed
  <2>1. CASE log'[i] = x
    BY <2>1, <1>2
  <2>2. ASSUME NEW j \in DOMAIN log, log'[i] = log[j]
        PROVE  /\ log'[i].round <= turn' /\ log'[i].message <= Count'
               /\ Writing' /\ log'[i].pieces > 0 => log'[i].message # writing'.message
    BY <2>2, <1>3 DEF ClosedThen
  <2> QED
    BY <2>1, <2>2, <1>1
<1>5. engine' = "opencode" /\ round' \in {"accepted", "begun", "busy"} => HasPrompt(log, turn)'
  <2>1. engine = "opencode" /\ round' \in {"accepted", "begun", "busy"} => HasPrompt(log', turn)
    BY <1>1 DEF LogInv
  <2> QED
    BY <2>1 DEF HasPrompt
<1>6. engine' = "opencode" /\ Writing' =>
        log' # <<>> /\ log'[Len(log')] = Entry(writing.message, 0)'
  BY <1>1 DEF Entry
<1> QED
  BY <1>1, <1>4, <1>5, <1>6 DEF LogInv

\* Neither the log nor the message being written changes.
LEMMA Stay ==
  ASSUME log' = log, turn' = turn, writing' = writing
  PROVE  /\ Count' = Count /\ (Writing' <=> Writing) /\ (Settings /\ TypeOK => Grown)
BY Basics DEF Count, Writing, NotWriting, Grown

USE DEF IInv

\* The kinds of an event, one by one.
Kinds == {"start", "user", "prompt", "open", "piece", "close", "end", "connected"}
LEMMA EventIs ==
  ASSUME Settings, TypeOK, turn > 0, NEW type \in Kinds, NEW m \in 0..MaxMessages,
         NEW n \in 0..MaxPieces
  PROVE  LET f == Event(type, m, n) IN
         /\ f \in Events /\ f.type = type /\ f.message = m /\ f.pieces = n /\ f.round = turn
         /\ turn \in Task
BY DEF Event, Events, Kinds, Task, Settings, TypeOK

\* Nothing has been read or sent.
Fresh ==
  /\ at \in {"none", "poll", "status"} /\ (at # "none" => task > 0)
  /\ link = "none" /\ stream = <<>> /\ tr = NewTranslator /\ held = <<>> /\ shown = <<>>
LEMMA FreshHolds == TypeOK /\ SessionInv /\ LogInv /\ Fresh => IInv
<1> SUFFICES ASSUME TypeOK, SessionInv, LogInv, Fresh PROVE IInv
  OBVIOUS
<1>1. Out = <<>> /\ DOMAIN Out = {} /\ DOMAIN stream = {} /\ Len(stream) = 0
  BY DEF Fresh, Out
<1>2. SnapshotInv /\ StageInv
  BY DEF Fresh, SnapshotInv, StageInv, NewTranslator
<1>3. StreamInv
  BY <1>1 DEF Fresh, StreamInv, EventsAre, Linked, InOrder, UpToTop, LastEvent
<1>4. RoundInv
  BY <1>1 DEF Fresh, RoundInv, NewTranslator
<1>5. OutInv
  BY <1>1 DEF OutInv, Own, Whole, SentUpToTop, Earlier
<1>6. ReadInv
  BY <1>1 DEF Fresh, ReadInv, Ahead, Joined, NextEvent, NoEvent, NewTranslator
<1> QED
  BY <1>2, <1>3, <1>4, <1>5, <1>6 DEF IInv

LEMMA FreshStays == TypeOK' /\ SessionInv' /\ LogInv' /\ Fresh' => IInv'
BY FreshHolds, PTL

\* No task, no log, nobody who follows.
LEMMA InitHolds == Settings /\ Init => IInv
<1> SUFFICES ASSUME Settings, Init PROVE IInv
  OBVIOUS
<1>1. log = <<>> /\ DOMAIN log = {}
  BY DEF Init
<1>2. TypeOK
  <2>1. /\ <<>> \in Seq(Stored) /\ <<>> \in Seq(Events) /\ <<>> \in Seq(Pieces)
    OBVIOUS
  <2>2. NewTranslator \in [idle : BOOLEAN, open : BOOLEAN, held : BOOLEAN, roles : SUBSET Task,
             typed : SUBSET (Task \X (1..MaxMessages)), pending : Seq(Pieces)]
    BY <2>1 DEF NewTranslator
  <2>3. Nothing \in [run : 0..MaxTask, messages : Seq(Stored)]
    BY <2>1 DEF Nothing, Settings
  <2>4. db \in [running : BOOLEAN, run : BOOLEAN, key : BOOLEAN]
    BY DEF Init, NewRow
  <2>5. writing \in [message : 0..MaxMessages, pieces : 0..MaxPieces] /\ turn \in 0..MaxTask
    BY DEF Init, NotWriting, Settings
  <2>6. task \in 0..turn
    BY DEF Init
  <2> QED
    BY <2>1, <2>2, <2>3, <2>4, <2>5, <2>6 DEF Init, TypeOK
<1>3. ~Writing
  BY DEF Writing, Init
<1>4. SessionInv /\ LogInv
  BY <1>1, <1>3 DEF Init, SessionInv, LogInv, NewRow, Ordered, Closed
<1> QED
  BY <1>2, <1>4, FreshHolds DEF Init, Fresh

LEMMA AdmitKeeps == ASSUME Settings, IInv, Still, Admit PROVE IInv'
<1>1. turn \in Nat /\ Count \in Nat
  BY Basics
<1>2. ~Writing /\ UNCHANGED <<log, writing, stream>>
  BY DEF Admit, SessionInv, Silent
<1>3. Count' = Count /\ ~Writing' /\ Top' = Top
  BY <1>2 DEF Count, Writing, NotWriting, Top
<1>4. CASE turn # 0
  <2>1. Grown
    BY <1>1, <1>2, <1>3 DEF Grown, Admit
  <2>2. SessionTypes'
    BY <1>1 DEF SessionTypes, Admit, TypeOK, NewRow, Settings
  <2>3. SessionInv'
    BY <1>1, <1>3 DEF SessionInv, Admit, NewRow
  <2>4. engine' = engine
    BY <1>4 DEF Admit
  <2>5. LogInv'
    BY <2>1, <2>4, <1>1, <1>2, <1>3, LogSame DEF Admit
  <2>6. Quietly
    BY <2>4, <1>1, <1>2, <1>3 DEF Quietly, Admit, Announced
  <2> QED
    BY <2>1, <2>2, <2>3, <2>5, <2>6, SessionKeeps
<1>5. CASE turn = 0
  <2>1. log \in Seq(Stored) /\ DOMAIN log = {}
    <3>1. log \in Seq(Stored)
      BY DEF TypeOK
    <3>2. ASSUME NEW i \in DOMAIN log PROVE FALSE
      <4>1. log[i] \in Stored
        BY <3>1, At
      <4> QED
        BY <4>1, <1>5 DEF LogInv, Closed, Stored, Task, Settings
    <3> QED
      BY <3>1, <3>2
  <2>2. Fresh'
    <3>1. task = 0
      BY <1>5 DEF TypeOK
    <3>2. at = "none"
      BY <3>1 DEF StageInv
    <3>3. link = "none" /\ stream = <<>> /\ tr = NewTranslator /\ held = <<>> /\ shown = <<>>
      BY <3>2 DEF StageInv
    <3> QED
      BY <3>2, <3>3, <1>2 DEF Fresh, Still, follower
  <2>3. SessionTypes'
    BY <1>1, <1>5 DEF SessionTypes, Admit, TypeOK, NewRow, Settings
  <2>4. TypeOK'
    <3>1. task' \in 0..turn'
      BY <1>5, <1>1 DEF TypeOK, Still, follower, Admit
    <3> QED
      BY <2>3, <3>1, <1>2 DEF TypeOK, SessionTypes, Still, follower
  <2>5. SessionInv'
    BY <1>1, <1>3 DEF SessionInv, Admit, NewRow
  <2>6. LogInv'
    BY <2>1, <1>2, <1>3 DEF LogInv, Ordered, Closed, Admit
  <2> QED
    BY <2>2, <2>4, <2>5, <2>6, FreshStays
<1> QED
  BY <1>4, <1>5

\* Event f says that a round goes on, and no message is written.
LEMMA RoundGoesOn ==
  ASSUME Settings, IInv, Still, NEW f, f \in Events, f.round = turn, turn \in Task,
         f.type \in {"start", "user", "prompt"}, Publish(f), ~Writing, Count' = Count,
         UNCHANGED <<engine, turn, writing>>, round # "over",
         turn > task => Announces(f) \/ round \in Announced
  PROVE  \E g : Now(g) /\ Fits(g) /\ After(g) /\ Publish(g)
<1>1. ~Grows(f) /\ ~InMessage(f) /\ ~About(f)
  BY DEF Grows, InMessage, About
<1>2. Now(f) /\ Fits(f)
  BY <1>1 DEF Now, Fits, EventType
<1>3. After(f)
  BY <1>1 DEF After, Writing, Top, NotWriting
<1> QED
  BY <1>2, <1>3

\* A round goes on only while its task runs.
LEMMA RunningTurn ==
  ASSUME Settings, TypeOK, SessionInv, round \in {"accepted", "begun", "busy"} \/ db.running
  PROVE  turn > 0 /\ turn \in Nat /\ turn \in Task /\ db.running
BY DEF SessionInv, TypeOK, Settings, Task

LEMMA AcceptKeeps == ASSUME Settings, IInv, Still, Accept PROVE IInv'
<1>0. turn > 0 /\ turn \in Nat /\ turn \in Task /\ Count \in Nat
  BY Basics, RunningTurn DEF Accept
<1>1. ~Writing /\ ~Writing'
  BY DEF Accept, SessionInv, Writing, NotWriting
<1>2. CASE engine = "pi"
  <2>1. UNCHANGED <<engine, turn, db, writing, log, stream>>
    BY <1>2 DEF Accept, Silent
  <2>2. Count' = Count /\ Grown /\ Top' = Top
    BY <2>1, <1>1, Stay DEF Top
  <2>3. SessionTypes'
    BY <2>1 DEF SessionTypes, TypeOK, Accept
  <2>4. SessionInv'
    BY <1>1, <2>1 DEF SessionInv, Accept
  <2>5. LogInv'
    BY <2>1, <2>2, <1>0, <1>1, <1>2, LogSame
  <2>6. Quietly
    BY <2>1, <2>2, <1>0, <1>2 DEF Quietly, Accept, Announced
  <2> QED
    BY <2>2, <2>3, <2>4, <2>5, <2>6, SessionKeeps
<1>3. CASE engine # "pi"
  <2> DEFINE x == Entry(0, 1)
  <2>0. engine = "opencode" /\ UNCHANGED <<engine, turn, db, writing>>
        /\ log' = Append(log, x) /\ Publish(Event("user", 0, 1))
    BY <1>3 DEF Accept, TypeOK
  <2>1. x \in Stored /\ x.round = turn /\ x.message = 0
    BY <1>0 DEF Entry, Stored, Settings
  <2>2. /\ log' \in Seq(Stored) /\ \A r : HasPrompt(log, r) => HasPrompt(log', r)
        /\ Count' = Count
    BY <2>0, <2>1, Appended
  <2>3. Grown
    BY <2>0, <2>2, <1>0, <1>1 DEF Grown
  <2>4. SessionTypes'
    BY <2>0, <2>2 DEF SessionTypes, TypeOK, Accept
  <2>5. SessionInv'
    BY <1>1, <2>0 DEF SessionInv, Accept
  <2>6. LogInv'
    BY <2>0, <2>1, <2>2, <2>3, <1>0, <1>1, LogAppended
  <2>7. LET f == Event("user", 0, 1) IN
        f \in Events /\ f.type = "user" /\ f.round = turn
    BY <1>0, EventIs DEF Settings, Kinds
  <2>8. \E g : Now(g) /\ Fits(g) /\ After(g) /\ Publish(g)
    BY <2>0, <2>2, <2>7, <1>0, <1>1, RoundGoesOn DEF Announces, Accept
  <2> QED
    BY <2>3, <2>4, <2>5, <2>6, <2>8, SessionKeeps
<1> QED
  BY <1>2, <1>3

LEMMA BeginKeeps == ASSUME Settings, IInv, Still, Begin PROVE IInv'
<1> DEFINE f == IF engine = "pi" THEN Event("start", 0, 0) ELSE Event("prompt", 0, 1)
<1>0. turn > 0 /\ turn \in Nat /\ turn \in Task /\ Count \in Nat /\ db.running
  BY Basics, RunningTurn DEF Begin
<1>1. ~Writing /\ ~Writing'
  BY DEF Begin, SessionInv, Writing, NotWriting
<1>2. UNCHANGED <<engine, turn, db, writing, log>> /\ Publish(f) /\ round' = "begun"
  BY DEF Begin
<1>3. Count' = Count /\ Grown
  BY <1>2, Stay
<1>4. SessionTypes'
  BY <1>2 DEF SessionTypes, TypeOK
<1>5. SessionInv'
  BY <1>0, <1>1, <1>2 DEF SessionInv
<1>6. LogInv'
  BY <1>0, <1>1, <1>2, <1>3, LogSame DEF Begin
<1>7. f \in Events /\ f.type = (IF engine = "pi" THEN "start" ELSE "prompt") /\ f.round = turn
  <2>1. LET g == Event("start", 0, 0) IN g \in Events /\ g.type = "start" /\ g.round = turn
    BY <1>0, EventIs DEF Settings, Kinds
  <2>2. LET g == Event("prompt", 0, 1) IN g \in Events /\ g.type = "prompt" /\ g.round = turn
    BY <1>0, EventIs DEF Settings, Kinds
  <2> QED
    BY <2>1, <2>2
<1>8. \E g : Now(g) /\ Fits(g) /\ After(g) /\ Publish(g)
  <2>1. turn > task => Announces(f) \/ round \in Announced
    BY <1>7 DEF Announces, Announced, Begin
  <2>2. f.type \in {"start", "user", "prompt"} /\ round # "over"
    BY <1>7 DEF Begin
  <2> HIDE DEF f
  <2> QED
    BY <2>1, <2>2, <1>0, <1>1, <1>2, <1>3, <1>7, RoundGoesOn
<1> QED
  BY <1>3, <1>4, <1>5, <1>6, <1>8, SessionKeeps

LEMMA WorkKeeps == ASSUME Settings, IInv, Still, Work PROVE IInv'
<1>0. turn > 0 /\ turn \in Nat /\ turn \in Task /\ Count \in Nat /\ db.running
  BY Basics, RunningTurn DEF Work
<1>1. ~Writing /\ ~Writing'
  BY DEF Work, SessionInv, Writing, NotWriting
<1>2. CASE engine # "pi"
  <2>1. UNCHANGED <<engine, turn, db, writing, log, stream>> /\ round' = "busy"
    BY <1>2 DEF Work, Silent
  <2>2. Count' = Count /\ Grown /\ Top' = Top
    BY <2>1, <1>1, Stay DEF Top
  <2>3. SessionTypes'
    BY <2>1 DEF SessionTypes, TypeOK
  <2>4. SessionInv'
    BY <1>0, <1>1, <2>1 DEF SessionInv
  <2>5. LogInv'
    BY <2>1, <2>2, <1>0, <1>1, <1>2, LogSame DEF Work
  <2>6. Quietly
    BY <2>1, <2>2, <1>0, <1>2 DEF Quietly, Work, Announced
  <2> QED
    BY <2>2, <2>3, <2>4, <2>5, <2>6, SessionKeeps
<1>3. CASE engine = "pi"
  <2> DEFINE x == Entry(0, 1)
  <2>0. UNCHANGED <<engine, turn, db, writing>> /\ round' = "busy"
        /\ log' = Append(log, x) /\ Publish(Event("user", 0, 1))
    BY <1>3 DEF Work
  <2>1. x \in Stored /\ x.round = turn /\ x.message = 0
    BY <1>0 DEF Entry, Stored, Settings
  <2>2. /\ log' \in Seq(Stored) /\ \A r : HasPrompt(log, r) => HasPrompt(log', r)
        /\ Count' = Count
    BY <2>0, <2>1, Appended
  <2>3. Grown
    BY <2>0, <2>2, <1>0, <1>1 DEF Grown
  <2>4. SessionTypes'
    BY <2>0, <2>2 DEF SessionTypes, TypeOK
  <2>5. SessionInv'
    BY <1>0, <1>1, <2>0 DEF SessionInv
  <2>6. LogInv'
    BY <2>0, <2>1, <2>2, <2>3, <1>0, <1>1, LogAppended
  <2>7. LET f == Event("user", 0, 1) IN
        f \in Events /\ f.type = "user" /\ f.round = turn
    BY <1>0, EventIs DEF Settings, Kinds
  <2>8. \E g : Now(g) /\ Fits(g) /\ After(g) /\ Publish(g)
    BY <2>0, <2>2, <2>7, <1>0, <1>1, <1>3, RoundGoesOn DEF Announced, Work
  <2> QED
    BY <2>3, <2>4, <2>5, <2>6, <2>8, SessionKeeps
<1> QED
  BY <1>2, <1>3

\* Rows are written; nothing is said.
LEMMA RowKeeps ==
  ASSUME Settings, IInv, Still, UNCHANGED <<engine, turn, round, log, writing, stream>>,
         db' \in [running : BOOLEAN, run : BOOLEAN, key : BOOLEAN],
         db'.running => db.running,
         round \in {"accepted", "begun", "busy"} => db'.running
  PROVE  IInv'
<1>1. Count' = Count /\ Grown /\ Top' = Top /\ (Writing' <=> Writing) /\ Count \in Nat
  BY Stay, Basics DEF Top
<1>2. SessionTypes'
  BY DEF SessionTypes, TypeOK
<1>3. SessionInv'
  BY <1>1 DEF SessionInv
<1>4. LogInv'
  BY <1>1, LogSame
<1>5. Quietly
  BY <1>1 DEF Quietly
<1> QED
  BY <1>1, <1>2, <1>3, <1>4, <1>5, SessionKeeps

LEMMA SaveKeeps == ASSUME Settings, IInv, Still, SaveRun \/ SaveKey \/ EndTask PROVE IInv'
<1>1. UNCHANGED <<engine, turn, round, log, writing, stream>>
  BY DEF SaveRun, SaveKey, EndTask, Silent
<1>2. db' \in [running : BOOLEAN, run : BOOLEAN, key : BOOLEAN]
  BY DEF SaveRun, SaveKey, EndTask, TypeOK
<1>3. db'.running => db.running
  BY DEF SaveRun, SaveKey, EndTask, TypeOK
<1>4. round \in {"accepted", "begun", "busy"} => db'.running
  BY DEF SaveRun, SaveKey, EndTask, TypeOK, SessionInv
<1> QED
  BY <1>1, <1>2, <1>3, <1>4, RowKeeps

LEMMA OpenKeeps == ASSUME Settings, IInv, Still, OpenMessage PROVE IInv'
<1> DEFINE m == Count + 1
<1> DEFINE f == Event("open", m, 0)
<1> DEFINE x == Entry(m, 0)
<1>0. turn > 0 /\ turn \in Nat /\ turn \in Task /\ Count \in Nat /\ db.running
  BY Basics, RunningTurn DEF OpenMessage
<1>1. ~Writing /\ Top = Count /\ m \in 1..MaxMessages /\ m \in 0..MaxMessages
  BY <1>0 DEF OpenMessage, Writing, Top, Settings
<1>2. UNCHANGED <<engine, turn, db, round>> /\ round = "busy"
      /\ writing' = [message |-> m, pieces |-> 0]
      /\ log' = (IF engine = "pi" THEN log ELSE Append(log, x)) /\ Publish(f)
  BY DEF OpenMessage
<1>3. Writing' /\ writing'.message = m /\ writing'.pieces = 0 /\ Top' = m
  <2>1. writing'.message = m /\ writing'.pieces = 0
    BY <1>2
  <2>2. NotWriting.message = 0
    BY DEF NotWriting
  <2>3. Writing'
    BY <2>1, <2>2, <1>0 DEF Writing, NotWriting
  <2> QED
    BY <2>1, <2>3 DEF Top
<1>4. x \in Stored /\ x.round = turn /\ x.message = m /\ x.pieces = 0
  BY <1>0, <1>1 DEF Entry, Stored, Settings
<1>5. /\ log' \in Seq(Stored) /\ \A r : HasPrompt(log, r) => HasPrompt(log', r)
      /\ Count' = IF engine = "pi" THEN Count ELSE Count + 1
  <2>1. CASE engine = "pi"
    BY <2>1, <1>2 DEF TypeOK, Count
  <2>2. CASE engine # "pi"
    BY <2>2, <1>0, <1>1, <1>2, <1>4, Appended
  <2> QED
    BY <2>1, <2>2
<1>6. Grown
  BY <1>0, <1>1, <1>2, <1>3, <1>5 DEF Grown
<1>7. SessionTypes'
  BY <1>1, <1>2, <1>5 DEF SessionTypes, TypeOK, Settings
<1>8. SessionInv'
  BY <1>0, <1>1, <1>2, <1>3, <1>5 DEF SessionInv
<1>9. LogInv'
  <2>1. CASE engine = "pi"
    <3>1. log' = log
      BY <2>1, <1>2
    <3> QED
      BY <3>1, <2>1, <1>0, <1>2, <1>3, <1>5, <1>6, LogSame
  <2>2. CASE engine # "pi"
    <3>1. x = Entry(writing'.message, 0)
      BY <1>3
    <3>2. log' = Append(log, x) /\ x.message <= Count'
      BY <2>2, <1>0, <1>2, <1>4, <1>5
    <3>3. ~(x.pieces > 0)
      BY <1>4
    <3> HIDE DEF x
    <3> QED
      BY <3>1, <3>2, <3>3, <1>2, <1>4, <1>6, LogAppended
  <2> QED
    BY <2>1, <2>2
<1>10. /\ f \in Events /\ f.type = "open" /\ f.message = m /\ f.pieces = 0 /\ f.round = turn
  BY <1>0, <1>1, EventIs DEF Settings, Kinds
<1>11. Now(f) /\ Fits(f) /\ After(f)
  <2> HIDE DEF f
  <2>1. Grows(f) /\ ~InMessage(f) /\ About(f)
    BY <1>10 DEF Grows, InMessage, About
  <2>2. Now(f)
    BY <2>1, <1>0, <1>1, <1>10 DEF Now, EventType
  <2>3. Fits(f)
    BY <2>1, <1>1, <1>2, <1>10 DEF Fits, Announced
  <2>4. After(f)
    BY <2>1, <1>1, <1>2, <1>3, <1>10 DEF After, Announced
  <2> QED
    BY <2>2, <2>3, <2>4
<1> QED
  BY <1>2, <1>6, <1>7, <1>8, <1>9, <1>11, SessionKeeps

LEMMA PieceKeeps == ASSUME Settings, IInv, Still, WritePiece PROVE IInv'
<1> DEFINE m == writing.message
<1> DEFINE k == writing.pieces + 1
<1> DEFINE f == Event("piece", m, k)
<1>0. turn > 0 /\ turn \in Nat /\ turn \in Task /\ Count \in Nat /\ db.running
  BY Basics, RunningTurn DEF WritePiece
<1>1. /\ Writing /\ m \in 1..MaxMessages /\ m \in 0..MaxMessages
      /\ k \in 1..MaxPieces /\ k \in 0..MaxPieces /\ writing.pieces \in Nat
  BY DEF WritePiece, Writing, SessionInv, TypeOK, Settings
<1>2. UNCHANGED <<engine, turn, db, round, log>> /\ round = "busy"
      /\ writing' = [writing EXCEPT !.pieces = @ + 1] /\ Publish(f)
  BY DEF WritePiece
<1>3. Writing' /\ writing'.message = m /\ writing'.pieces = k /\ Top' = Top /\ Count' = Count
  <2>1. writing'.message = m /\ writing'.pieces = k
    BY <1>2 DEF TypeOK
  <2>2. NotWriting.message = 0
    BY DEF NotWriting
  <2>3. Writing'
    BY <2>1, <2>2, <1>1 DEF Writing, NotWriting
  <2>4. Count' = Count
    BY <1>2 DEF Count
  <2> QED
    BY <2>1, <2>3, <2>4, <1>1 DEF Top
<1>4. Grown
  BY <1>0, <1>1, <1>2, <1>3 DEF Grown
<1>5. SessionTypes'
  BY <1>1, <1>2 DEF SessionTypes, TypeOK, Settings
<1>6. SessionInv'
  BY <1>0, <1>1, <1>2, <1>3 DEF SessionInv
<1>7. LogInv'
  BY <1>0, <1>1, <1>2, <1>3, <1>4, LogSame
<1>8. /\ f \in Events /\ f.type = "piece" /\ f.message = m /\ f.pieces = k /\ f.round = turn
  BY <1>0, <1>1, EventIs DEF Settings, Kinds
<1>9. Now(f) /\ Fits(f) /\ After(f)
  <2>0. k - 1 = writing.pieces
    BY <1>1
  <2> HIDE DEF f, k
  <2>1. Grows(f) /\ InMessage(f) /\ About(f) /\ Before(f) = k - 1
    BY <1>8 DEF Grows, InMessage, About, Before
  <2>2. Now(f)
    BY <2>1, <1>0, <1>1, <1>8 DEF Now, EventType
  <2>3. Fits(f)
    BY <2>0, <2>1, <1>1, <1>2, <1>8 DEF Fits, Announced
  <2>4. After(f)
    BY <2>1, <1>1, <1>2, <1>3, <1>8 DEF After, Announced
  <2> QED
    BY <2>2, <2>3, <2>4
<1> QED
  BY <1>2, <1>4, <1>5, <1>6, <1>7, <1>9, SessionKeeps

LEMMA CloseKeeps == ASSUME Settings, IInv, Still, CloseMessage PROVE IInv'
<1> DEFINE m == writing.message
<1> DEFINE k == writing.pieces
<1> DEFINE f == Event("close", m, k)
<1> DEFINE x == Entry(m, k)
<1>0. turn > 0 /\ turn \in Nat /\ turn \in Task /\ Count \in Nat /\ db.running
  BY Basics, RunningTurn DEF CloseMessage
<1>1. /\ Writing /\ m \in 1..MaxMessages /\ m \in 0..MaxMessages /\ k \in 0..MaxPieces
      /\ Top = m /\ m > 0 /\ m = IF engine = "pi" THEN Count + 1 ELSE Count
  BY DEF CloseMessage, Writing, SessionInv, TypeOK, Settings, Top
<1>2. UNCHANGED <<engine, turn, db, round>> /\ round = "busy" /\ writing' = NotWriting
      /\ log' = (IF engine = "pi" THEN Append(log, x) ELSE [log EXCEPT ![Len(log)] = x])
      /\ Publish(f)
  BY DEF CloseMessage
<1>3. ~Writing' /\ Top' = Count'
  BY <1>2 DEF Writing, Top
<1>4. x \in Stored /\ x.round = turn /\ x.message = m
  BY <1>0, <1>1 DEF Entry, Stored, Settings
<1>5. /\ log' \in Seq(Stored) /\ \A r : HasPrompt(log, r) => HasPrompt(log', r)
      /\ Count' = m /\ (Grown => LogInv')
  <2>1. CASE engine = "pi"
    <3>1. log' = Append(log, x)
      BY <2>1, <1>2
    <3>2. /\ log' \in Seq(Stored) /\ \A r : HasPrompt(log, r) => HasPrompt(log', r)
          /\ Count' = m
      BY <3>1, <2>1, <1>1, <1>4, Appended
    <3>3. x.message <= Count'
      BY <3>2, <1>1, <1>4
    <3>4. Grown => LogInv'
      BY <3>1, <3>3, <2>1, <1>2, <1>3, <1>4, LogAppended
    <3> QED
      BY <3>2, <3>4
  <2>2. CASE engine # "pi"
    <3> DEFINE n == Len(log)
    <3>1. log \in Seq(Stored) /\ engine = "opencode"
      BY <2>2 DEF TypeOK
    <3>2. log # <<>> /\ log[n] = Entry(m, 0)
      BY <3>1, <1>1 DEF LogInv
    <3>3. n \in Nat /\ n >= 1 /\ DOMAIN log = 1..n
      BY <3>1, <3>2, EmptySeq, LenProperties
    <3>4. /\ log' \in Seq(Stored) /\ Len(log') = n /\ DOMAIN log' = 1..n /\ log'[n] = x
          /\ \A j \in 1..n : log'[j] = IF j = n THEN x ELSE log[j]
      <4>1. log' = [log EXCEPT ![n] = x]
        BY <2>2, <1>2
      <4>2. /\ log' \in Seq(Stored) /\ Len(log') = n
            /\ \A j \in 1..n : log'[j] = IF j = n THEN x ELSE log[j]
        BY <4>1, <3>1, <3>3, <1>4, ExceptSeq
      <4> QED
        BY <4>2, <3>3, LenProperties
    <3>5. log[n].message = m /\ log[n].round = turn
      BY <3>2 DEF Entry
    <3>6. ASSUME NEW r, HasPrompt(log, r) PROVE HasPrompt(log', r)
      <4>1. PICK i \in 1..n : log[i].message = 0 /\ log[i].round = r
        BY <3>3, <3>6 DEF HasPrompt
      <4>2. i # n
        BY <4>1, <3>5, <1>1
      <4> QED
        BY <4>1, <4>2, <3>4 DEF HasPrompt
    <3>7. Count' = m
      <4>1. Messages([log EXCEPT ![n] = x]) = Messages(log)
        <5>1. n \in DOMAIN log /\ x.message = log[n].message
          BY <3>3, <3>5, <1>4
        <5> HIDE DEF x, n
        <5> QED
          BY <5>1, <3>1, <1>4, CountExcept
      <4>2. Messages(log') = Messages(log)
        BY <4>1, <2>2, <1>2
      <4> QED
        BY <4>2, <2>2, <1>1 DEF Count, Messages
    <3>8. ASSUME Grown PROVE LogInv'
      <4>1. ClosedThen(log)
        BY <3>1, <3>7, <3>8, <1>1, ClosedStays DEF LogInv
      <4>2. \A i \in 1..n : log'[i].round = log[i].round /\ log'[i].message = log[i].message
        BY <3>4, <3>5, <1>4
      <4>3. Ordered(log)'
        BY <4>2, <3>3, <3>4 DEF Ordered, LogInv
      <4>4. Closed(log)'
        BY <4>1, <4>2, <3>3, <3>4, <1>3 DEF Closed, ClosedThen
      <4>5. HasPrompt(log, turn)'
        <5>1. HasPrompt(log, turn)
          BY <3>1, <1>2 DEF LogInv
        <5>2. HasPrompt(log', turn)
          BY <5>1, <3>6
        <5> QED
          BY <5>2, <1>2 DEF HasPrompt
      <4> QED
        BY <4>3, <4>4, <4>5, <1>3 DEF LogInv
    <3> QED
      BY <3>4, <3>6, <3>7, <3>8
  <2> QED
    BY <2>1, <2>2
<1>6. Grown
  <2>1. Count' >= Count /\ turn' = turn
    BY <1>0, <1>1, <1>2, <1>5
  <2> QED
    BY <2>1, <1>3, <1>5 DEF Grown
<1>7. SessionTypes'
  BY <1>1, <1>2, <1>5 DEF SessionTypes, TypeOK, Settings, NotWriting
<1>8. SessionInv'
  BY <1>0, <1>2, <1>3 DEF SessionInv
<1>9. /\ f \in Events /\ f.type = "close" /\ f.message = m /\ f.pieces = k /\ f.round = turn
  BY <1>0, <1>1, EventIs DEF Settings, Kinds
<1>10. Now(f) /\ Fits(f) /\ After(f)
  <2> HIDE DEF f
  <2>1. ~Grows(f) /\ InMessage(f) /\ About(f) /\ Before(f) = k
    BY <1>9 DEF Grows, InMessage, About, Before
  <2>2. Now(f)
    BY <2>1, <1>0, <1>1, <1>9 DEF Now, EventType
  <2>3. Fits(f)
    BY <2>1, <1>1, <1>2, <1>9 DEF Fits, Announced
  <2>4. After(f)
    BY <2>1, <1>1, <1>2, <1>3, <1>5, <1>9 DEF After, Announced
  <2> QED
    BY <2>2, <2>3, <2>4
<1> QED
  BY <1>2, <1>5, <1>6, <1>7, <1>8, <1>10, SessionKeeps

LEMMA EndKeeps == ASSUME Settings, IInv, Still, End PROVE IInv'
<1> DEFINE f == Event("end", 0, 0)
<1>0. turn > 0 /\ turn \in Nat /\ turn \in Task /\ Count \in Nat /\ db.running
  BY Basics, RunningTurn DEF End
<1>1. UNCHANGED <<engine, turn, db, log>> /\ round' = "over" /\ writing' = NotWriting
      /\ Publish(f)
  BY DEF End
<1>2. ~Writing' /\ Count' = Count
  BY <1>1 DEF Writing, Count
<1>3. Grown
  BY <1>0, <1>1, <1>2 DEF Grown
<1>4. SessionTypes'
  BY <1>1 DEF SessionTypes, TypeOK, NotWriting, Settings
<1>5. SessionInv'
  BY <1>0, <1>1, <1>2 DEF SessionInv
<1>6. LogInv'
  BY <1>0, <1>1, <1>2, <1>3, LogSame
<1>7. f \in Events /\ f.type = "end" /\ f.round = turn
  BY <1>0, EventIs DEF Settings, Kinds
<1>8. Now(f) /\ Fits(f) /\ After(f)
  <2> HIDE DEF f
  <2>1. ~Grows(f) /\ ~InMessage(f) /\ ~About(f)
    BY <1>7 DEF Grows, InMessage, About
  <2> QED
    BY <2>1, <1>0, <1>1, <1>2, <1>7 DEF Now, EventType, Fits, After, Announced
<1> QED
  BY <1>1, <1>3, <1>4, <1>5, <1>6, <1>8, SessionKeeps

LEMMA SessionStep == ASSUME Settings, IInv, SessionMoves PROVE IInv'
<1>1. Still
  BY DEF SessionMoves, Still
<1> QED
  BY <1>1, AdmitKeeps, AcceptKeeps, BeginKeeps, WorkKeeps, OpenKeeps, PieceKeeps, CloseKeeps,
     EndKeeps, SaveKeeps DEF SessionMoves

-----------------------------------------------------------------------------
(* The follower moves.                                                       *)

\* What it has sent, and what it reads next, stay.
Waits == UNCHANGED <<session, link, task, tr, stream>>

LEMMA WaitsKeeps ==
  ASSUME Settings, IInv, Waits, Out' = Out, TypeOK', SnapshotInv', StageInv',
         at = "done" => at' = "done",
         at' = "events" => LaterRounds
  PROVE  IInv'
<1>1. UNCHANGED <<engine, turn, db, round, log, writing, link, task, tr, stream>>
  BY DEF Waits, session
<1>2. /\ Writing' = Writing /\ Count' = Count /\ Top' = Top /\ Announced' = Announced
      /\ \A m : Earlier(m)' <=> Earlier(m)
      /\ \A m : Seen(m)' <=> Seen(m)
      /\ \A m, k : Caught(m, k)' <=> Caught(m, k)
      /\ \A e : OfTask(e)' <=> OfTask(e)
      /\ \A e : Announces(e)' <=> Announces(e)
  BY <1>1 DEF Writing, Count, Top, Announced, Earlier, Seen, Caught, Exactly,
     ExactlyIn, OfTask, Announces
<1>3. SessionInv'
  BY <1>1, <1>2 DEF SessionInv
<1>4. LogInv'
  BY <1>1, <1>2 DEF LogInv, Ordered, Closed, HasPrompt, Entry
<1>5. StreamInv'
  <2>1. EventsAre' /\ Linked' /\ InOrder'
    BY <1>1, <1>2 DEF StreamInv, EventsAre, Linked, InOrder
  <2>2. UpToTop'
    BY <1>1, <1>2 DEF StreamInv, UpToTop
  <2>3. LastEvent'
    BY <1>1, <1>2 DEF StreamInv, LastEvent
  <2> QED
    BY <2>1, <2>2, <2>3 DEF StreamInv
<1>6. RoundInv'
  BY <1>1, <1>2 DEF RoundInv, LaterRounds
<1>7. OutInv'
  <2>1. Own(Out)' /\ Whole(Out)'
    BY <1>1 DEF OutInv, Own, Whole
  <2> QED
    BY <2>1, <1>1, <1>2 DEF OutInv, SentUpToTop
<1>8. ReadInv'
  <2> SUFFICES ASSUME ~tr.idle, at' # "done" PROVE ReadInv'
    BY <1>1 DEF ReadInv
  <2>1. Ahead /\ Joined /\ NextEvent /\ NoEvent /\ ~(tr.held /\ tr.open)
    BY DEF ReadInv
  <2>2. Ahead'
    BY <2>1, <1>1, <1>2 DEF Ahead
  <2>3. Joined' /\ NextEvent' /\ NoEvent'
    BY <2>1, <1>1, <1>2 DEF Joined, NextEvent, NoEvent
  <2> QED
    BY <2>1, <2>2, <2>3, <1>1 DEF ReadInv
<1> QED
  BY <1>3, <1>4, <1>5, <1>6, <1>7, <1>8

LEMMA AttachKeeps == ASSUME Settings, IInv, Attach, UNCHANGED <<session, link>> PROVE IInv'
<1>1. /\ UNCHANGED <<engine, turn, db, round, log, writing, link, tr, stream, read, held, shown>>
      /\ task' = turn /\ turn > 0 /\ at = "none" /\ at' \in {"status", "poll"}
  BY DEF Attach, Goes, session
<1>2. Fresh'
  BY <1>1 DEF StageInv, Fresh, NewTranslator
<1>3. TypeOK'
  <2>1. task' \in 0..turn'
    BY <1>1, Basics
  <2> QED
    BY <2>1, <1>1 DEF TypeOK
<1>4. Count' = Count /\ Writing' = Writing
  BY <1>1 DEF Count, Writing
<1>5. SessionInv'
  BY <1>1, <1>4 DEF SessionInv
<1>6. LogInv'
  BY <1>1, <1>4 DEF LogInv, Ordered, Closed, HasPrompt, Entry
<1> QED
  BY <1>2, <1>3, <1>5, <1>6, FreshStays

Places == {"none", "poll", "status", "fresh", "messages", "after", "subscribe", "events",
           "check", "done"}
\* Only its place, and what it has got from the sandbox, change.
LEMMA WalkKeeps ==
  ASSUME Settings, IInv, UNCHANGED <<session, link, task, tr, held, shown, stream>>,
         at \notin {"none", "done", "check"}, at' \in Places \ {"none", "poll"},
         read' \in [run : 0..MaxTask, messages : Seq(Stored)],
         shown = <<>> \/ at' \in {"events", "check", "done"},
         link = "none" \/ at' \in {"events", "check", "done"},
         SnapshotInv', at' = "events" => LaterRounds
  PROVE  IInv'
<1>1. Out' = Out
  BY DEF Out
<1>2. TypeOK'
  BY DEF TypeOK, session, Places
<1>3. StageInv'
  <2>1. UNCHANGED <<engine, link, task, tr, held, shown, stream>>
    BY DEF session
  <2>2. task > 0 /\ held = <<>>
    BY DEF StageInv
  <2>3. link = "none" => stream = <<>> /\ tr = NewTranslator
    BY DEF StageInv
  <2>4. (tr.held => engine = "pi") /\ (tr.pending # <<>> => engine = "opencode")
    BY DEF StageInv
  <2>5. NewTranslator' = NewTranslator
    BY DEF NewTranslator
  <2>6. at' \in Places
    OBVIOUS
  <2> QED
    BY <2>1, <2>2, <2>3, <2>4, <2>5, <2>6 DEF StageInv, Places
<1> QED
  BY <1>1, <1>2, <1>3, WaitsKeeps DEF Waits

LEMMA StatusKeeps ==
  ASSUME Settings, IInv, ReadStatus, UNCHANGED <<session, link>> PROVE IInv'
<1>0. /\ UNCHANGED <<engine, turn, round, log, writing, task>>
      /\ at = "status" /\ at' \in {"fresh", "subscribe"} /\ UNCHANGED <<tr, held, shown, stream>>
      /\ at' = "fresh" => round = "busy" \/ engine = "pi"
  BY DEF ReadStatus, Goes, session
<1>1. read' \in [run : 0..MaxTask, messages : Seq(Stored)]
  BY DEF ReadStatus, TypeOK, Settings
<1>2. SnapshotInv'
  <2>1. at' = "fresh" /\ engine = "opencode" /\ turn = task => HasPrompt(log, task)
    BY <1>0 DEF LogInv
  <2> QED
    BY <2>1, <1>0 DEF SnapshotInv, HasPrompt
<1> QED
  BY <1>0, <1>1, <1>2, WalkKeeps DEF StageInv, Places

LEMMA RowReadKeeps ==
  ASSUME Settings, IInv, ReadRow, UNCHANGED <<session, link>> PROVE IInv'
<1>0. /\ UNCHANGED <<engine, turn, round, log, writing, task>>
      /\ at = "fresh" /\ at' \in {"messages", "subscribe"}
      /\ UNCHANGED <<read, tr, held, shown, stream>>
  BY DEF ReadRow, Goes, session
<1>1. SnapshotInv'
  BY <1>0 DEF SnapshotInv, HasPrompt
<1>2. read \in [run : 0..MaxTask, messages : Seq(Stored)]
  BY DEF TypeOK
<1> QED
  BY <1>0, <1>1, <1>2, WalkKeeps DEF StageInv, Places

\* The place of the last prompt.
LEMMA LastPromptIs ==
  ASSUME NEW l \in Seq(Stored), Settings
  PROVE  \/ LastPrompt(l) = 0 /\ \A i \in DOMAIN l : l[i].message # 0
         \/ /\ LastPrompt(l) \in DOMAIN l /\ LastPrompt(l) > 0 /\ l[LastPrompt(l)].message = 0
            /\ \A j \in DOMAIN l : l[j].message = 0 => j <= LastPrompt(l)
<1> DEFINE P == {i \in DOMAIN l : l[i].message = 0}
<1>1. CASE P = {}
  BY <1>1 DEF LastPrompt, Prompts
<1>2. CASE P # {}
  <2>1. Len(l) \in Nat /\ DOMAIN l = 1..Len(l) /\ P \in SUBSET (1..Len(l))
    BY LenProperties
  <2>2. \E i \in P : \A j \in P : j <= i
    BY <2>1, <1>2, LastExists
  <2>3. LastPrompt(l) = CHOOSE i \in P : \A j \in P : j <= i
    BY <1>2 DEF LastPrompt, Prompts
  <2>4. LastPrompt(l) \in P /\ \A j \in P : j <= LastPrompt(l)
    BY <2>2, <2>3
  <2> QED
    BY <2>1, <2>4
<1> QED
  BY <1>1, <1>2

LEMMA MessagesKeeps ==
  ASSUME Settings, IInv, ReadMessages, UNCHANGED <<session, link>> PROVE IInv'
<1>0. /\ UNCHANGED <<engine, turn, round, log, writing, task>>
      /\ at = "messages" /\ at' \in {"after", "subscribe"}
      /\ at' = "after" => MatchesPrompt(log)
      /\ UNCHANGED <<tr, held, shown, stream>>
      /\ read' = [read EXCEPT !.messages = log]
  BY DEF ReadMessages, Goes, session
<1>1. read' \in [run : 0..MaxTask, messages : Seq(Stored)] /\ read'.messages = log
  BY <1>0 DEF TypeOK
<1>2. log \in Seq(Stored) /\ engine \in {"pi", "opencode"}
  BY DEF TypeOK
<1>3. at' = "after" /\ turn = task => HasPrompt(log, task)
  <2> SUFFICES ASSUME MatchesPrompt(log), turn = task PROVE HasPrompt(log, task)
    BY <1>0
  <2>1. CASE engine = "pi"
    <3>1. LastPrompt(log) # 0 /\ log[LastPrompt(log)].round = task
      BY <2>1 DEF MatchesPrompt
    <3> QED
      BY <3>1, <1>2, LastPromptIs DEF HasPrompt
  <2>2. CASE engine = "opencode"
    BY <2>2, <1>0 DEF SnapshotInv
  <2> QED
    BY <2>1, <2>2, <1>2
<1>4. Count' = Count /\ Writing' = Writing
  BY <1>0 DEF Count, Writing
<1>5. SnapshotInv'
  <2>1. Ordered(read.messages)' /\ Closed(read.messages)'
    BY <1>0, <1>1, <1>4 DEF LogInv, Ordered, Closed
  <2>2. at' = "after" /\ turn' = task' => HasPrompt(read.messages, task)'
    BY <1>0, <1>1, <1>3 DEF HasPrompt
  <2> QED
    BY <2>1, <2>2, <1>0 DEF SnapshotInv
<1> QED
  BY <1>0, <1>1, <1>5, WalkKeeps DEF StageInv, Places

LEMMA FailsKeeps ==
  ASSUME Settings, IInv, SnapshotFails, UNCHANGED <<session, link>> PROVE IInv'
<1>1. /\ at \in {"status", "messages"} /\ at' = "subscribe"
      /\ UNCHANGED <<task, read, tr, held, shown, stream>>
  BY DEF SnapshotFails, Goes
<1>2. SnapshotInv'
  BY <1>1 DEF SnapshotInv
<1>3. read \in [run : 0..MaxTask, messages : Seq(Stored)]
  BY DEF TypeOK
<1> QED
  BY <1>1, <1>2, <1>3, WalkKeeps DEF StageInv, Places

LEMMA SubscribeKeeps ==
  ASSUME Settings, IInv, Subscribe, UNCHANGED <<session, link>> PROVE IInv'
<1>1. /\ at = "subscribe" /\ at' = "events" /\ read' = Nothing
      /\ UNCHANGED <<task, tr, held, shown, stream>>
  BY DEF Subscribe, Goes
<1>2. SnapshotInv'
  BY <1>1 DEF SnapshotInv
<1>3. read' \in [run : 0..MaxTask, messages : Seq(Stored)]
  <2>1. <<>> \in Seq(Stored)
    OBVIOUS
  <2> QED
    BY <2>1, <1>1 DEF Nothing, Settings
<1>4. LaterRounds
  BY <1>1 DEF StageInv, LaterRounds, NewTranslator
<1> QED
  BY <1>1, <1>2, <1>3, <1>4, WalkKeeps DEF StageInv, Places

LEMMA AskKeeps ==
  ASSUME Settings, IInv, AskAgain \/ Leave \/ Poll, UNCHANGED <<session, link>> PROVE IInv'
<1>1. /\ at \in {"events", "poll"} /\ at' \in {"check", "done"}
      /\ UNCHANGED <<task, read, tr, held, shown, stream>>
  BY DEF AskAgain, Leave, Poll, Goes
<1>2. SnapshotInv'
  BY <1>1 DEF SnapshotInv
<1>3. read \in [run : 0..MaxTask, messages : Seq(Stored)]
  BY DEF TypeOK
<1> QED
  BY <1>1, <1>2, <1>3, WalkKeeps DEF Places

\* The pieces of the message of s[i] that come before it.
Pre(s, i) == {s[j].piece : j \in {k \in 1..i - 1 : s[k].message = s[i].message}}
LEMMA WholeIs == \A s : Whole(s) <=> \A i \in DOMAIN s : s[i].message > 0 =>
                                       Pre(s, i) = 1..s[i].piece - 1
BY DEF Whole, Pre

LEMMA PreIs ==
  ASSUME NEW s, NEW i, NEW p
  PROVE  p \in Pre(s, i) <=> \E j \in 1..i - 1 : s[j].message = s[i].message /\ s[j].piece = p
BY DEF Pre

\* Only what comes before counts.
LEMMA PreSame ==
  ASSUME NEW s, NEW t, NEW n \in Nat, NEW i \in 1..n, \A j \in 1..n : t[j] = s[j]
  PROVE  Pre(t, i) = Pre(s, i)
<1>1. \A j \in 1..i - 1 : j \in 1..n
  OBVIOUS
<1>2. ASSUME NEW p PROVE p \in Pre(t, i) <=> p \in Pre(s, i)
  BY <1>1, PreIs
<1> QED
  BY <1>2 DEF Pre

LEMMA TextIs ==
  ASSUME Settings, NEW r \in Task, NEW m \in 0..MaxMessages, NEW n \in 0..MaxPieces
  PROVE  /\ Text(r, m, n) \in Seq(Pieces) /\ Len(Text(r, m, n)) = n /\ n \in Nat
         /\ DOMAIN Text(r, m, n) = 1..n
         /\ \A i \in 1..n : /\ Text(r, m, n)[i] = [round |-> r, message |-> m, piece |-> i]
                            /\ Text(r, m, n)[i].round = r /\ Text(r, m, n)[i].message = m
                            /\ Text(r, m, n)[i].piece = i
<1>1. n \in Nat /\ \A i \in 1..n : [round |-> r, message |-> m, piece |-> i] \in Pieces
  BY DEF Settings, Pieces
<1>2. Text(r, m, n) \in [1..n -> Pieces]
  BY <1>1 DEF Text
<1>3. Text(r, m, n) \in Seq(Pieces)
  BY <1>1, <1>2, SeqDef
<1>4. DOMAIN Text(r, m, n) = 1..n
  BY DEF Text
<1>5. Len(Text(r, m, n)) = n
  BY <1>1, <1>3, <1>4, LenProperties
<1>6. \A i \in 1..n : Text(r, m, n)[i] = [round |-> r, message |-> m, piece |-> i]
  BY DEF Text
<1> QED
  BY <1>1, <1>3, <1>4, <1>5, <1>6

\* A whole text is sent at once, of a message of which nothing had been sent; or, of the
\* prompt, whatever has been sent.
LEMMA TextFits ==
  ASSUME Settings, task \in Task, NEW s \in Seq(Pieces), Own(s), Whole(s),
         NEW m \in 0..MaxMessages, NEW n \in 0..MaxPieces,
         m > 0 => \A i \in DOMAIN s : s[i].message < m
  PROVE  LET t == s \o Text(task, m, n) IN
         /\ t \in Seq(Pieces) /\ Own(t) /\ Whole(t)
         /\ DOMAIN s = 1..Len(s) /\ Len(s) \in Nat /\ DOMAIN t = 1..Len(s) + n
         /\ \A i \in 1..Len(s) : t[i] = s[i]
         /\ \A i \in 1..n : t[Len(s) + i].message = m /\ t[Len(s) + i].piece = i
         /\ \A i \in DOMAIN t : t[i].message = m \/ (i \in DOMAIN s /\ t[i] = s[i])
<1> DEFINE u == Text(task, m, n)
<1> DEFINE t == s \o u
<1> DEFINE l == Len(s)
<1>1. /\ u \in Seq(Pieces) /\ Len(u) = n /\ n \in Nat
      /\ \A i \in 1..n : u[i].round = task /\ u[i].message = m /\ u[i].piece = i
  <2>1. u \in Seq(Pieces) /\ Len(u) = n /\ n \in Nat
    BY TextIs
  <2>2. \A i \in 1..n : u[i].round = task /\ u[i].message = m /\ u[i].piece = i
    BY DEF Text
  <2> QED
    BY <2>1, <2>2
<1>2. /\ t \in Seq(Pieces) /\ l \in Nat
      /\ DOMAIN s = 1..l /\ DOMAIN t = 1..l + n
      /\ \A i \in 1..l : t[i] = s[i]
      /\ \A i \in 1..n : t[l + i] = u[i]
      /\ \A i \in 1..l + n : i \notin 1..l => i - l \in 1..n /\ t[i] = u[i - l]
  <2> HIDE DEF u
  <2> QED
    BY <1>1, ConcatIs
<1> HIDE DEF u, t
<1>3. Own(t)
  BY <1>1, <1>2 DEF Own
<1>4. Whole(t)
  <2> SUFFICES ASSUME NEW i \in 1..l + n, t[i].message > 0
               PROVE  Pre(t, i) = 1..t[i].piece - 1
    BY <1>2, WholeIs
  <2>1. CASE i \in 1..l
    <3>1. Pre(t, i) = Pre(s, i)
      BY <2>1, <1>2, PreSame
    <3> QED
      BY <3>1, <2>1, <1>2, WholeIs
  <2>2. CASE i \notin 1..l
    <3>1. i - l \in 1..n /\ t[i].message = m /\ t[i].piece = i - l /\ m > 0
      BY <2>2, <1>1, <1>2
    <3>2. ASSUME NEW p \in Pre(t, i) PROVE p \in 1..i - l - 1
      <4>1. PICK j \in 1..i - 1 : t[j].message = m /\ t[j].piece = p
        BY <3>1, <3>2, PreIs
      <4>2. j \notin 1..l
        <5> SUFFICES ASSUME j \in 1..l PROVE FALSE
          OBVIOUS
        <5>1. s[j].message < m /\ s[j].message = m
          BY <4>1, <1>2, <3>1
        <5>2. s[j].message \in Nat /\ m \in Nat
          <6>1. s[j] \in Pieces
            BY <1>2, ElementOfSeq
          <6> QED
            BY <6>1 DEF Pieces, Settings
        <5> QED
          BY <5>1, <5>2
      <4>3. t[j].piece = j - l /\ j - l \in 1..n
        BY <4>2, <1>1, <1>2
      <4> QED
        BY <4>1, <4>2, <4>3, <1>2
    <3>3. ASSUME NEW p \in 1..i - l - 1 PROVE p \in Pre(t, i)
      <4>1. l + p \in 1..i - 1 /\ p \in 1..n
        BY <1>1, <1>2, <3>1
      <4>2. t[l + p].message = m /\ t[l + p].piece = p
        BY <4>1, <1>1, <1>2
      <4> QED
        BY <4>1, <4>2, <3>1, PreIs
    <3>4. Pre(t, i) = 1..i - l - 1
      BY <3>2, <3>3
    <3> QED
      BY <3>1, <3>4
  <2> QED
    BY <2>1, <2>2
<1>5. \A i \in DOMAIN t : t[i].message = m \/ (i \in DOMAIN s /\ t[i] = s[i])
  BY <1>1, <1>2
<1>6. \A i \in 1..n : t[l + i].message = m /\ t[l + i].piece = i
  BY <1>1, <1>2
<1> QED
  BY <1>2, <1>3, <1>4, <1>5, <1>6 DEF t, u

\* The next piece of a message of which all pieces before it have been sent.
LEMMA PieceFits ==
  ASSUME Settings, task \in Task, NEW s \in Seq(Pieces), Own(s), Whole(s),
         NEW m \in 1..MaxMessages, NEW k \in 1..MaxPieces,
         \A i \in DOMAIN s : s[i].message = m => s[i].piece <= k - 1,
         \A q \in 1..k - 1 : \E i \in DOMAIN s : s[i].message = m /\ s[i].piece = q
  PROVE  LET t == s \o <<[round |-> task, message |-> m, piece |-> k]>> IN
         /\ t \in Seq(Pieces) /\ Own(t) /\ Whole(t)
         /\ DOMAIN s = 1..Len(s) /\ Len(s) \in Nat /\ DOMAIN t = 1..Len(s) + 1
         /\ \A i \in 1..Len(s) : t[i] = s[i]
         /\ t[Len(s) + 1].message = m /\ t[Len(s) + 1].piece = k
<1> DEFINE x == [round |-> task, message |-> m, piece |-> k]
<1> DEFINE t == s \o <<x>>
<1> DEFINE l == Len(s)
<1>1. x \in Pieces /\ x.round = task /\ x.message = m /\ x.piece = k
  BY DEF Pieces, Settings
<1>2. /\ t \in Seq(Pieces) /\ l \in Nat
      /\ DOMAIN s = 1..l /\ DOMAIN t = 1..l + 1
      /\ \A i \in 1..l : t[i] = s[i]
      /\ t[l + 1] = x
  <2> HIDE DEF x
  <2>1. Append(s, x) = t
    BY <1>1, AppendIsConcat
  <2> QED
    BY <2>1, <1>1, AppendIs
<1> HIDE DEF x, t
<1>3. Own(t)
  BY <1>1, <1>2 DEF Own
<1>4. \A j \in 1..l : s[j].piece \in Nat /\ s[j].piece >= 1
  <2> SUFFICES ASSUME NEW j \in 1..l PROVE s[j].piece \in Nat /\ s[j].piece >= 1
    OBVIOUS
  <2>1. s[j] \in Pieces
    BY ElementOfSeq
  <2> QED
    BY <2>1 DEF Pieces, Settings
<1>5. Whole(t)
  <2> SUFFICES ASSUME NEW i \in 1..l + 1, t[i].message > 0
               PROVE  Pre(t, i) = 1..t[i].piece - 1
    BY <1>2, WholeIs
  <2>1. CASE i \in 1..l
    <3>1. Pre(t, i) = Pre(s, i)
      BY <2>1, <1>2, PreSame
    <3> QED
      BY <3>1, <2>1, <1>2, WholeIs
  <2>2. CASE i = l + 1
    <3>0. i - 1 = l
      BY <2>2, <1>2
    <3>1. t[i].message = m /\ t[i].piece = k
      BY <2>2, <1>1, <1>2
    <3>2. ASSUME NEW p \in Pre(t, i) PROVE p \in 1..k - 1
      <4>1. PICK j \in 1..l : t[j].message = m /\ t[j].piece = p
        BY <3>0, <3>1, <3>2, PreIs
      <4> QED
        BY <4>1, <1>2, <1>4
    <3>3. ASSUME NEW p \in 1..k - 1 PROVE p \in Pre(t, i)
      <4>1. PICK j \in 1..l : s[j].message = m /\ s[j].piece = p
        BY <1>2
      <4> QED
        BY <4>1, <1>2, <3>0, <3>1, PreIs
    <3> QED
      BY <3>1, <3>2, <3>3
  <2> QED
    BY <2>1, <2>2, <1>2
<1> QED
  BY <1>1, <1>2, <1>3, <1>5 DEF t, x

\* What remains of it when the rest is not sent.
LEMMA FirstPart ==
  ASSUME NEW s \in Seq(Pieces), NEW u \in Seq(Pieces), Own(s \o u), Whole(s \o u)
  PROVE  Own(s) /\ Whole(s) /\ \A i \in DOMAIN s : i \in DOMAIN (s \o u) /\ (s \o u)[i] = s[i]
<1> DEFINE t == s \o u
<1>1. /\ Len(s) \in Nat /\ Len(u) \in Nat /\ DOMAIN s = 1..Len(s)
      /\ DOMAIN t = 1..Len(s) + Len(u)
      /\ \A i \in 1..Len(s) : t[i] = s[i]
  BY ConcatIs
<1> HIDE DEF t
<1>2. \A i \in DOMAIN s : i \in DOMAIN t /\ t[i] = s[i]
  BY <1>1
<1>3. Own(t) /\ Whole(t)
  BY DEF t
<1>4. Own(s)
  BY <1>2, <1>3 DEF Own
<1>5. \A i \in DOMAIN s : Pre(t, i) = Pre(s, i)
  BY <1>1, PreSame
<1>6. Whole(s)
  BY <1>2, <1>3, <1>5, WholeIs
<1> QED
  BY <1>2, <1>4, <1>6 DEF t

LEMMA SeqTypes ==
  ASSUME TypeOK PROVE shown \in Seq(Pieces) /\ held \in Seq(Pieces)
BY DEF TypeOK

LEMMA StoredIs ==
  ASSUME Settings
  PROVE  \A x \in Stored : x.round \in Nat /\ x.message \in Nat /\ x.pieces \in Nat
BY DEF Stored, Task, Settings

\* What is shown of a snapshot.
LEMMA ResultIs ==
  ASSUME Settings, NEW l \in Seq(Stored), Ordered(l), Closed(l), HasPrompt(l, task),
         task = turn, turn \in Nat, Count \in Nat
  PROVE  \/ Result(l) = <<>>
         \/ \E x \in Stored :
              /\ Result(l) = Text(task, x.message, x.pieces)
              /\ x.round = task /\ x.message > 0 /\ x.message <= Count
              /\ Writing => x.message # writing.message
<1> DEFINE texts == {i \in DOMAIN l : i > LastPrompt(l) /\ l[i].pieces > 0}
<1>1. CASE texts = {}
  BY <1>1 DEF Result, Texts
<1>2. CASE texts # {}
  <2>1. Len(l) \in Nat /\ DOMAIN l = 1..Len(l) /\ texts \in SUBSET (1..Len(l))
    BY LenProperties
  <2>2. \E i \in texts : \A j \in texts : j <= i
    BY <2>1, <1>2, LastExists
  <2>3. PICK i : i = CHOOSE k \in texts : \A j \in texts : j <= k
    OBVIOUS
  <2>4. i \in texts
    BY <2>2, <2>3
  <2>5. Result(l) = Text(l[i].round, l[i].message, l[i].pieces)
    BY <2>3, <1>2 DEF Result, Texts
  <2>6. /\ LastPrompt(l) \in DOMAIN l /\ LastPrompt(l) \in Nat
        /\ \A j \in DOMAIN l : l[j].message = 0 => j <= LastPrompt(l)
    BY <2>1, LastPromptIs DEF HasPrompt
  <2>7. PICK p \in DOMAIN l : l[p].message = 0 /\ l[p].round = task
    BY DEF HasPrompt
  <2>8. p <= LastPrompt(l) /\ i > LastPrompt(l) /\ p \in Nat /\ i \in Nat
    BY <2>1, <2>4, <2>6, <2>7
  <2>9. i \in DOMAIN l /\ p < i /\ l[i].message # 0
    BY <2>4, <2>6, <2>8
  <2>10. l[i] \in Stored /\ l[i].message \in Nat /\ l[i].round \in Nat
    <3>1. l[i] \in Stored
      BY <2>9, At
    <3> HIDE DEF texts
    <3> QED
      BY <3>1, StoredIs
  <2>11. l[i].round >= task /\ l[i].round <= turn
    BY <2>7, <2>9 DEF Ordered, Closed
  <2>12. l[i].message <= Count /\ (Writing => l[i].message # writing.message)
    BY <2>4 DEF Closed
  <2>13. l[i].round = task /\ l[i].message > 0
    BY <2>9, <2>10, <2>11
  <2> HIDE DEF texts
  <2> QED
    BY <2>5, <2>10, <2>12, <2>13
<1> QED
  BY <1>1, <1>2

LEMMA SnapshotKeeps ==
  ASSUME Settings, IInv, ShowSnapshot, UNCHANGED <<session, link>> PROVE IInv'
<1>0. /\ UNCHANGED <<engine, turn, db, round, log, writing, link, task, read, tr, held, stream>>
      /\ at = "after" /\ at' = "subscribe" /\ link = "none" /\ stream = <<>>
      /\ tr = NewTranslator /\ held = <<>> /\ shown = <<>> /\ task > 0 /\ task \in Task
  BY DEF ShowSnapshot, Goes, session, StageInv, TypeOK, Task, Settings
<1>1. turn \in Nat /\ task \in Nat /\ Count \in Nat /\ writing.message \in Nat
  BY Basics
<1>2. Count' = Count /\ Writing' = Writing /\ Top' = Top
  BY <1>0 DEF Count, Writing, Top
<1>3. /\ shown' \in Seq(Pieces) /\ Own(shown') /\ Whole(shown')
      /\ turn = task => \A i \in DOMAIN shown' : /\ shown'[i].message <= Top
                                                 /\ Writing => shown'[i].message < writing.message
  <2>1. CASE shown' = <<>>
    <3>1. DOMAIN shown' = {} /\ shown' \in Seq(Pieces)
      BY <2>1
    <3> QED
      BY <3>1 DEF Own, Whole
  <2>2. CASE shown' # <<>>
    <3>1. shown' = Result(read.messages) /\ turn = task
      BY <2>2, <1>0 DEF ShowSnapshot, StillRuns, Running
    <3>2. /\ read.messages \in Seq(Stored) /\ Ordered(read.messages) /\ Closed(read.messages)
          /\ HasPrompt(read.messages, task)
      BY <3>1, <1>0 DEF SnapshotInv, TypeOK
    <3>3. PICK x \in Stored :
              /\ shown' = Text(task, x.message, x.pieces)
              /\ x.round = task /\ x.message > 0 /\ x.message <= Count
              /\ Writing => x.message # writing.message
      BY <2>2, <3>1, <3>2, <1>1, ResultIs
    <3>4. x.message \in 0..MaxMessages /\ x.pieces \in 0..MaxPieces /\ x.message \in Nat
      BY DEF Stored, Settings
    <3>5. <<>> \in Seq(Pieces) /\ DOMAIN <<>> = {}
      OBVIOUS
    <3>6. Own(<<>>) /\ Whole(<<>>)
      BY <3>5 DEF Own, Whole
    <3>7. Text(task, x.message, x.pieces) \in Seq(Pieces)
      BY <3>4, <1>0, TextIs
    <3>8. <<>> \o Text(task, x.message, x.pieces) = shown'
      BY <3>3, <3>7, ConcatEmptySeq
    <3>9. Own(shown') /\ Whole(shown')
          /\ \A i \in DOMAIN shown' : shown'[i].message = x.message
      BY <3>4, <3>5, <3>6, <3>8, <1>0, TextFits
    <3>10. x.message <= Top /\ (Writing => x.message < writing.message)
      BY <3>3, <3>4, <1>1 DEF Top, SessionInv
    <3> QED
      BY <3>3, <3>7, <3>9, <3>10
  <2> QED
    BY <2>1, <2>2
<1>4. Out' = shown'
  BY <1>0, <1>3, ConcatEmptySeq DEF Out
<1>5. TypeOK'
  BY <1>0, <1>3 DEF TypeOK
<1>6. SessionInv' /\ LogInv'
  BY <1>0, <1>2 DEF SessionInv, LogInv, Ordered, Closed, HasPrompt, Entry
<1>7. SnapshotInv'
  BY <1>0 DEF SnapshotInv
<1>8. StageInv'
  <2>1. NewTranslator.held = FALSE /\ NewTranslator.pending = <<>>
    BY DEF NewTranslator
  <2>2. NewTranslator' = NewTranslator
    BY DEF NewTranslator
  <2> QED
    BY <2>1, <2>2, <1>0 DEF StageInv
<1>9. DOMAIN stream' = {} /\ Len(stream') = 0
  BY <1>0
<1>10. StreamInv'
  BY <1>0, <1>9 DEF StreamInv, EventsAre, Linked, InOrder, UpToTop, LastEvent
<1>11. RoundInv'
  BY <1>0 DEF RoundInv
<1>12. OutInv'
  <2>1. Own(Out)' /\ Whole(Out)'
    BY <1>0, <1>3, <1>4 DEF Own, Whole
  <2>2. SentUpToTop'
    BY <1>0, <1>2, <1>3, <1>4 DEF SentUpToTop
  <2>3. turn' = task' /\ Writing' => Earlier(writing.message)'
    BY <1>0, <1>2, <1>3, <1>4 DEF Earlier
  <2> QED
    BY <2>1, <2>2, <2>3 DEF OutInv
<1>13. ReadInv'
  <2>1. NewTranslator.held = FALSE
    BY DEF NewTranslator
  <2> QED
    BY <2>1, <1>0, <1>9 DEF ReadInv, Ahead, Joined, NextEvent, NoEvent
<1> QED
  BY <1>5, <1>6, <1>7, <1>8, <1>10, <1>11, <1>12, <1>13

LEMMA ConnectKeeps ==
  ASSUME Settings, IInv, Connect, UNCHANGED <<session, follower>> PROVE IInv'
<1>e. PICK e : e = [Event("connected", 0, 0) EXCEPT !.round = None]
  OBVIOUS
<1>0. /\ UNCHANGED <<engine, turn, db, round, log, writing, task, at, read, tr, held, shown>>
      /\ at \in {"events", "check"} /\ link = "none" /\ link' = "open" /\ stream' = <<e>>
      /\ tr = NewTranslator /\ task > 0
  BY <1>e DEF Connect, session, follower, StageInv
<1>1. turn \in Nat /\ task \in Nat /\ Count \in Nat
  BY Basics
<1>2. e.type = "connected" /\ e.round = 0 /\ e.message = 0 /\ e.pieces = 0 /\ e \in Events
  <2>1. e = [type |-> "connected", round |-> 0, message |-> 0, pieces |-> 0]
    BY <1>e DEF Event
  <2> QED
    BY <2>1 DEF Events, Settings
<1>3. stream' \in Seq(Events) /\ stream' # <<>> /\ DOMAIN stream' = {1} /\ Len(stream') = 1
      /\ stream'[1] = e
  BY <1>0, <1>2
<1>4. ~Grows(e) /\ ~InMessage(e) /\ ~About(e) /\ EventType(e)
  BY <1>2 DEF Grows, InMessage, About, EventType
<1>5. /\ Writing' = Writing /\ Count' = Count /\ Top' = Top /\ Out' = Out
      /\ \A m : Earlier(m)' <=> Earlier(m)
      /\ Announces(e)'
  BY <1>0, <1>2 DEF Writing, Count, Top, Out, Earlier, Announces
<1>6. TypeOK' /\ SessionInv' /\ LogInv'
  BY <1>0, <1>3, <1>5 DEF TypeOK, SessionInv, LogInv, Ordered, Closed, HasPrompt, Entry
<1>7. SnapshotInv' /\ StageInv'
  BY <1>0 DEF SnapshotInv, StageInv
<1>8. StreamInv'
  <2>1. ~OfTask(e)'
    BY <1>4 DEF OfTask, About, Grows, InMessage
  <2>2. EventsAre'
    BY <1>0, <1>1, <1>2, <1>3, <1>4 DEF EventsAre
  <2>3. Linked'
    BY <1>3 DEF Linked
  <2>4. InOrder' /\ UpToTop'
    BY <2>1, <1>3 DEF InOrder, UpToTop
  <2>5. LastEvent'
    BY <1>2, <1>3, <1>4 DEF LastEvent
  <2> QED
    BY <2>2, <2>3, <2>4, <2>5 DEF StreamInv
<1>9. RoundInv'
  <2>1. NewTranslator.roles = {}
    BY DEF NewTranslator
  <2>2. \A i \in DOMAIN stream' : stream'[i].round > task /\ stream'[i].type # "end" =>
          \E j \in 1..i : Announces(stream[j])'
    BY <1>0, <1>1, <1>2, <1>3
  <2>3. \E j \in DOMAIN stream' : Announces(stream[j])'
    BY <1>3, <1>5
  <2> QED
    BY <2>1, <2>2, <2>3, <1>0 DEF RoundInv, LaterRounds
<1>10. OutInv'
  <2>1. Own(Out)' /\ Whole(Out)'
    BY <1>0, <1>5 DEF OutInv, Own, Whole
  <2> QED
    BY <2>1, <1>0, <1>5 DEF OutInv, SentUpToTop
<1>11. ReadInv'
  <2>1. NewTranslator.held = FALSE /\ NewTranslator' = NewTranslator
    BY DEF NewTranslator
  <2>2. Ahead'
    BY <1>3, <1>4 DEF Ahead, OfTask, About, Grows, InMessage
  <2>3. Joined'
    BY <1>0, <1>5 DEF Joined, OutInv
  <2>4. NextEvent' /\ NoEvent'
    BY <2>1, <1>0, <1>2, <1>3, <1>4 DEF NextEvent, NoEvent
  <2> QED
    BY <2>1, <2>2, <2>3, <2>4, <1>0 DEF ReadInv
<1> QED
  BY <1>6, <1>7, <1>8, <1>9, <1>10, <1>11

LEMMA BreakKeeps ==
  ASSUME Settings, IInv, Break, UNCHANGED <<session, follower>> PROVE IInv'
<1>0. /\ UNCHANGED <<engine, turn, db, round, log, writing, task, at, read, tr, held, shown>>
      /\ at \in {"events", "check"} /\ link' = "broken" /\ stream' = stream
  BY DEF Break, session, follower, Silent
<1>2. /\ Writing' = Writing /\ Count' = Count /\ Top' = Top /\ Out' = Out
      /\ \A m : Earlier(m)' <=> Earlier(m)
      /\ \A m : Seen(m)' <=> Seen(m)
      /\ \A m, k : Caught(m, k)' <=> Caught(m, k)
      /\ \A e : OfTask(e)' <=> OfTask(e)
      /\ \A e : Announces(e)' <=> Announces(e)
  BY <1>0 DEF Writing, Count, Top, Out, Earlier, Seen, Caught, Exactly,
     ExactlyIn, OfTask, Announces
<1>3. TypeOK' /\ SessionInv' /\ LogInv'
  BY <1>0, <1>2 DEF TypeOK, SessionInv, LogInv, Ordered, Closed, HasPrompt, Entry
<1>4. SnapshotInv' /\ StageInv'
  BY <1>0 DEF SnapshotInv, StageInv
<1>5. StreamInv'
  <2>1. EventsAre' /\ Linked' /\ InOrder' /\ UpToTop'
    BY <1>0, <1>2 DEF StreamInv, EventsAre, Linked, InOrder, UpToTop
  <2>2. LastEvent'
    BY <1>0 DEF LastEvent
  <2> QED
    BY <2>1, <2>2 DEF StreamInv
<1>6. RoundInv'
  BY <1>0, <1>2 DEF RoundInv, LaterRounds
<1>7. OutInv'
  <2>1. Own(Out)' /\ Whole(Out)'
    BY <1>0, <1>2 DEF OutInv, Own, Whole
  <2> QED
    BY <2>1, <1>0, <1>2 DEF OutInv, SentUpToTop
<1>8. ReadInv'
  <2> SUFFICES ASSUME ~tr.idle PROVE ReadInv'
    BY <1>0 DEF ReadInv
  <2>1. Ahead /\ NextEvent /\ ~(tr.held /\ tr.open)
    BY <1>0 DEF ReadInv
  <2>2. NewTranslator' = NewTranslator
    BY DEF NewTranslator
  <2>3. Ahead' /\ NextEvent'
    BY <2>1, <2>2, <1>0, <1>2 DEF Ahead, NextEvent
  <2>4. Joined' /\ NoEvent'
    BY <1>0 DEF Joined, NoEvent
  <2> QED
    BY <2>1, <2>3, <2>4, <1>0 DEF ReadInv
<1> QED
  BY <1>3, <1>4, <1>5, <1>6, <1>7, <1>8

LEMMA CheckKeeps ==
  ASSUME Settings, IInv, Check, UNCHANGED <<session, link>> PROVE IInv'
<1>0. /\ UNCHANGED <<engine, turn, db, round, log, writing, link, task, read, tr, stream>>
      /\ at = "check" /\ held' = <<>> /\ task > 0
  BY DEF Check, session, StageInv
<1>1. shown \in Seq(Pieces) /\ held \in Seq(Pieces)
  BY DEF TypeOK
<1>2. SnapshotInv' /\ StageInv'
  <2>1. at' \in {"events", "done"}
    BY DEF Check, Goes
  <2>2. NewTranslator' = NewTranslator
    BY DEF NewTranslator
  <2> QED
    BY <2>1, <2>2, <1>0 DEF SnapshotInv, StageInv
<1>3. CASE Running(task)
  <2>1. at' = "events" /\ shown' = shown \o held
    BY <1>3 DEF Check, Goes
  <2>2. shown \o held \in Seq(Pieces)
    BY <1>1, ConcatProperties
  <2>3. Out' = Out
    BY <2>1, <2>2, <1>0, ConcatEmptySeq DEF Out
  <2>4. TypeOK'
    BY <2>1, <2>2, <1>0 DEF TypeOK
  <2>5. LaterRounds
    <3>1. turn = task /\ task \in Nat
      BY <1>3, Basics DEF Running
    <3>2. \A i \in DOMAIN stream : stream[i].round <= task /\ stream[i].round \in Nat
      BY <3>1, Basics DEF StreamInv, EventsAre
    <3>3. \A r \in tr.roles : r <= task
      BY <3>1 DEF RoundInv
    <3> QED
      BY <3>1, <3>2, <3>3 DEF LaterRounds
  <2> QED
    BY <2>1, <2>3, <2>4, <2>5, <1>0, <1>2, WaitsKeeps DEF Waits, session
<1>4. CASE ~Running(task)
  <2>1. at' = "done" /\ shown' = shown
    BY <1>4 DEF Check, Goes
  <2>2. Out' = shown
    BY <2>1, <1>0, <1>1, ConcatEmptySeq DEF Out
  <2>3. TypeOK'
    BY <2>1, <1>0 DEF TypeOK
  <2>4. Own(shown) /\ Whole(shown) /\ \A i \in DOMAIN shown : i \in DOMAIN Out /\ Out[i] = shown[i]
    BY <1>1, FirstPart DEF OutInv, Out
  <2>5. Writing' = Writing /\ Count' = Count /\ Top' = Top /\ \A e : OfTask(e)' <=> OfTask(e)
    BY <1>0 DEF Writing, Count, Top, OfTask
  <2>6. SessionInv' /\ LogInv'
    BY <2>5, <1>0 DEF SessionInv, LogInv, Ordered, Closed, HasPrompt, Entry
  <2>7. StreamInv'
    BY <2>5, <1>0 DEF StreamInv, EventsAre, Linked, InOrder, UpToTop, LastEvent
  <2>8. RoundInv'
    BY <2>1, <1>0 DEF RoundInv
  <2>9. OutInv'
    <3>1. Own(Out)' /\ Whole(Out)'
      BY <2>2, <2>4, <1>0 DEF Own, Whole
    <3>2. SentUpToTop'
      BY <2>2, <2>4, <2>5, <1>0 DEF OutInv, SentUpToTop
    <3>3. link = "none" /\ turn = task /\ Writing => Earlier(writing.message)'
      BY <2>2, <2>4, <1>0 DEF OutInv, Earlier
    <3> QED
      BY <3>1, <3>2, <3>3, <2>5, <1>0 DEF OutInv
  <2>10. ReadInv'
    BY <2>1 DEF ReadInv
  <2> QED
    BY <2>3, <2>6, <2>7, <2>8, <2>9, <2>10, <1>2
<1> QED
  BY <1>3, <1>4

-----------------------------------------------------------------------------
(* The follower reads an event.                                              *)

Items(e) == IF tr.idle THEN <<>> ELSE Shows(e)

\* The event, and those after it.
LEMMA Reads ==
  ASSUME Settings, IInv, Follow, UNCHANGED <<session, link>>
  PROVE  LET e == stream[1] IN
         /\ UNCHANGED <<engine, turn, db, round, log, writing, task, link, read>>
         /\ at = "events" /\ task > 0 /\ task \in Task /\ link # "none"
         /\ held = <<>> /\ Out = shown /\ shown \in Seq(Pieces)
         /\ stream # <<>> /\ stream' = Tail(stream)
         /\ e \in Events /\ EventType(e) /\ e.round <= turn
         /\ e.type # "connected" => e.round >= task
         /\ tr' = IF engine = "pi" THEN PiNext(e) ELSE OpencodeNext(e)
         /\ \/ at' = "check" /\ held' = Items(e) /\ shown' = shown
            \/ /\ e.type # "connected" /\ ~BeginsRound(e)
               /\ at' = "events" /\ held' = <<>> /\ shown' = shown \o Items(e)
<1>1. /\ UNCHANGED <<engine, turn, db, round, log, writing, task, link, read>>
      /\ at = "events" /\ stream # <<>> /\ stream' = Tail(stream)
  BY DEF Follow, session
<1>2. stream[1] \in Events /\ Head(stream) = stream[1] /\ 1 \in DOMAIN stream
  BY <1>1, TailIs DEF TypeOK
<1>3. task > 0 /\ task \in Task /\ link # "none" /\ held = <<>>
  BY <1>1 DEF StageInv, TypeOK, Task, Settings
<1>4. Out = shown /\ shown \in Seq(Pieces)
  BY <1>3, ConcatEmptySeq DEF Out, TypeOK
<1>5. EventType(stream[1]) /\ stream[1].round <= turn
      /\ (stream[1].type # "connected" => stream[1].round >= task)
  BY <1>2 DEF StreamInv, EventsAre
<1>6. tr' = IF engine = "pi" THEN PiNext(stream[1]) ELSE OpencodeNext(stream[1])
  BY <1>2 DEF Follow
<1>7. \/ at' = "check" /\ held' = Items(stream[1]) /\ shown' = shown
      \/ /\ stream[1].type # "connected" /\ ~BeginsRound(stream[1])
         /\ at' = "events" /\ held' = <<>> /\ shown' = shown \o Items(stream[1])
  BY <1>1, <1>2, <1>3 DEF Follow, Items, Goes
<1> QED
  BY <1>1, <1>2, <1>3, <1>4, <1>5, <1>6, <1>7

\* What is left to read.
LEMMA Rest ==
  ASSUME Settings, TypeOK, stream # <<>>, stream' = Tail(stream)
  PROVE  /\ stream' \in Seq(Events) /\ Len(stream) \in Nat /\ Len(stream) >= 1
         /\ Len(stream') = Len(stream) - 1
         /\ DOMAIN stream = 1..Len(stream) /\ DOMAIN stream' = 1..Len(stream) - 1
         /\ \A i \in 1..Len(stream) - 1 : i + 1 \in 1..Len(stream) /\ stream'[i] = stream[i + 1]
         /\ stream' = <<>> <=> Len(stream) = 1
<1>1. /\ stream' \in Seq(Events) /\ Len(stream) \in Nat /\ Len(stream) >= 1
      /\ Len(stream') = Len(stream) - 1
      /\ DOMAIN stream = 1..Len(stream) /\ DOMAIN stream' = 1..Len(stream) - 1
      /\ \A i \in 1..Len(stream) - 1 : stream'[i] = stream[i + 1]
  BY TailIs DEF TypeOK
<1>2. stream' = <<>> <=> Len(stream') = 0
  BY <1>1, EmptySeq
<1>3. \A i \in 1..Len(stream) - 1 : i + 1 \in 1..Len(stream)
  BY <1>1
<1> QED
  BY <1>1, <1>2, <1>3

\* Nothing of a later round is read, but what says that it begins, or has ended.
LEMMA OwnEvent ==
  ASSUME Settings, IInv, Follow, UNCHANGED <<session, link>>
  PROVE  LET e == stream[1] IN
         /\ e.type \in {"prompt", "open", "piece", "close"} => e.round = task
         /\ at' = "events" => ~Announces(e) /\ (e.round = task \/ e.type = "end")
<1>1. PICK e : e = stream[1]
  OBVIOUS
<1>2. /\ at = "events" /\ stream # <<>> /\ e \in Events /\ e.round <= turn
      /\ e.type # "connected" => e.round >= task
      /\ at' = "events" => e.type # "connected" /\ ~BeginsRound(e)
  BY <1>1, Reads
<1>3. task \in Nat /\ e.round \in Nat /\ turn \in Nat /\ engine \in {"pi", "opencode"}
  BY <1>2, Basics DEF TypeOK
<1>4. LaterRounds
  BY <1>2 DEF RoundInv
<1>5. e.round > task /\ e.type # "end" => Announces(e)
  <2>1. 1 \in DOMAIN stream
    BY <1>2, Basics, EmptySeq
  <2>2. \A j \in 1..1 : j = 1
    OBVIOUS
  <2> QED
    BY <2>1, <2>2, <1>1, <1>4 DEF LaterRounds
<1>6. e.type \in {"prompt", "open", "piece", "close"} => e.round = task
  BY <1>2, <1>3, <1>5 DEF Announces
<1>7. ASSUME at' = "events" PROVE ~Announces(e)
  <2>1. e.type # "connected" /\ ~BeginsRound(e)
    BY <1>2, <1>7
  <2>2. CASE engine = "pi"
    BY <2>1, <2>2 DEF Announces, BeginsRound
  <2>3. CASE engine = "opencode"
    <3> SUFFICES ASSUME e.round > task, e.type = "user" PROVE FALSE
      BY <2>1, <2>3 DEF Announces
    <3>1. e.round \in tr.roles
      BY <2>1, <2>3 DEF BeginsRound
    <3>2. e.round <= task
      BY <3>1, <1>4 DEF LaterRounds
    <3> QED
      BY <3>2, <1>3
  <2> QED
    BY <2>2, <2>3, <1>3
<1> QED
  BY <1>1, <1>2, <1>3, <1>5, <1>6, <1>7

\* The types of what the translator does.
TranslatorTypes == [idle : BOOLEAN, open : BOOLEAN, held : BOOLEAN, roles : SUBSET Task,
                    typed : SUBSET (Task \X (1..MaxMessages)), pending : Seq(Pieces)]
LEMMA PieceIs ==
  ASSUME Settings, NEW e \in Events, EventType(e), e.round \in Task, e.type = "piece"
  PROVE  ThisPiece(e) \in Pieces /\ <<ThisPiece(e)>> \in Seq(Pieces)
<1>1. e.message \in 0..MaxMessages /\ e.pieces \in 1..MaxPieces
  BY DEF EventType, About, Grows, Settings
<1>2. ThisPiece(e) \in Pieces
  BY <1>1 DEF ThisPiece, Pieces
<1> QED
  BY <1>2

LEMMA PiNextIs ==
  ASSUME TypeOK, NEW e
  PROVE  LET t == PiNext(e) IN
         /\ t \in TranslatorTypes
         /\ t.idle = (tr.idle \/ e.type = "end")
         /\ t.open = (e.type = "open" \/ (tr.open /\ e.type # "close"))
         /\ t.held = (e.type # "close" /\ (tr.held \/ (e.type = "piece" /\ ~tr.open)))
         /\ t.roles = tr.roles /\ t.typed = tr.typed /\ t.pending = tr.pending
<1>1. tr \in TranslatorTypes
  BY DEF TypeOK, TranslatorTypes
<1> QED
  BY <1>1 DEF PiNext, TranslatorTypes

LEMMA OpencodeNextIs ==
  ASSUME Settings, TypeOK, NEW e \in Events, EventType(e),
         e.type \in {"user", "open", "piece", "close"} => e.round \in Task
  PROVE  LET t == OpencodeNext(e) IN
         /\ t \in TranslatorTypes
         /\ t.idle = (tr.idle \/ e.type = "end")
         /\ t.open = tr.open /\ t.held = tr.held
         /\ t.roles = IF e.type = "user" THEN tr.roles \cup {e.round} ELSE tr.roles
         /\ t.typed = IF e.type \in {"open", "close"} THEN tr.typed \cup {Part(e)} ELSE tr.typed
         /\ t.pending = CASE e.type \in {"open", "close"} -> <<>>
                          [] e.type = "piece" /\ Part(e) \notin tr.typed ->
                               Append(tr.pending, ThisPiece(e))
                          [] OTHER -> tr.pending
<1> DEFINE p == CASE e.type \in {"open", "close"} -> <<>>
                  [] e.type = "piece" /\ Part(e) \notin tr.typed ->
                       Append(tr.pending, ThisPiece(e))
                  [] OTHER -> tr.pending
<1> DEFINE d == IF e.type \in {"open", "close"} THEN tr.typed \cup {Part(e)} ELSE tr.typed
<1> DEFINE o == IF e.type = "user" THEN tr.roles \cup {e.round} ELSE tr.roles
<1>1. tr \in TranslatorTypes
  BY DEF TypeOK, TranslatorTypes
<1>2. p \in Seq(Pieces)
  <2>1. tr.pending \in Seq(Pieces) /\ <<>> \in Seq(Pieces)
    BY <1>1 DEF TranslatorTypes
  <2>2. e.type = "piece" => ThisPiece(e) \in Pieces
    BY PieceIs
  <2>3. e.type = "piece" => Append(tr.pending, ThisPiece(e)) \in Seq(Pieces)
    BY <2>1, <2>2, AppendProperties
  <2> QED
    BY <2>1, <2>3
<1>3. d \in SUBSET (Task \X (1..MaxMessages))
  <2>1. e.type \in {"open", "close"} => Part(e) \in Task \X (1..MaxMessages)
    BY DEF Part, EventType, About, Grows, InMessage
  <2> QED
    BY <2>1, <1>1 DEF TranslatorTypes
<1>4. o \in SUBSET Task
  BY <1>1 DEF TranslatorTypes
<1>5. OpencodeNext(e) = [tr EXCEPT !.idle = @ \/ e.type = "end", !.roles = o, !.typed = d,
                                   !.pending = p]
  BY <1>1 DEF OpencodeNext, TranslatorTypes
<1> HIDE DEF p, d, o
<1>6. LET t == OpencodeNext(e) IN
      /\ t \in TranslatorTypes /\ t.idle = (tr.idle \/ e.type = "end")
      /\ t.open = tr.open /\ t.held = tr.held /\ t.roles = o /\ t.typed = d /\ t.pending = p
  BY <1>1, <1>2, <1>3, <1>4, <1>5 DEF TranslatorTypes
<1> QED
  BY <1>6 DEF p, d, o

\* The translator of opencode completes a text of which nothing has been sent.
LEMMA Completes ==
  ASSUME NEW s \in Seq(Pieces), NEW t \in Seq(Pieces)
  PROVE  LET b == IF Prefix(s, t) THEN s ELSE <<>> IN
         b \o SubSeq(t, 0 + Len(b) + 1, Len(t)) = t
<1> DEFINE b == IF Prefix(s, t) THEN s ELSE <<>>
<1>1. Len(s) \in Nat /\ Len(t) \in Nat /\ Len(<<>>) = 0 /\ SubSeq(t, 1, Len(t)) = t
  BY LenProperties, SubSeqFull
<1>2. b = SubSeq(t, 1, Len(b)) /\ Len(b) \in 0..Len(t)
  <2>1. CASE Prefix(s, t)
    BY <2>1, <1>1 DEF Prefix
  <2>2. CASE ~Prefix(s, t)
    <3>1. SubSeq(t, 1, 0) = <<>>
      BY SubSeqEmpty
    <3> QED
      BY <2>2, <3>1, <1>1
  <2> QED
    BY <2>1, <2>2
<1> HIDE DEF b
<1>3. PICK n \in 0..Len(t) : n = Len(b)
  BY <1>2
<1>4. SubSeq(t, 1, n) \o SubSeq(t, n + 1, Len(t)) = SubSeq(t, 1, Len(t))
  <2>1. 1 \in 1..Len(t) + 1 /\ n \in 1 - 1..Len(t) /\ Len(t) \in n..Len(t)
    BY <1>1
  <2> QED
    BY <2>1, ConcatAdjacentSubSeq
<1>5. 0 + Len(b) + 1 = n + 1
  BY <1>3
<1> QED
  BY <1>1, <1>2, <1>3, <1>4, <1>5 DEF b

\* As many pieces of a message have been sent as it counts.
LEMMA EmittedIs ==
  ASSUME Settings, task \in Task, Out = shown, shown \in Seq(Pieces), Own(Out), Whole(Out),
         NEW e \in Events, e.round = task, e.message > 0
  PROVE  /\ Earlier(e.message) => Emitted(e) = 0
         /\ \A n \in 0..MaxPieces : Exactly(e.message, n) => Emitted(e) = n
<1> DEFINE S == {i \in DOMAIN shown : <<shown[i].round, shown[i].message>> = Part(e)}
<1>1. Emitted(e) = Cardinality(S)
  BY DEF Emitted
<1>2. \A i \in DOMAIN shown : /\ shown[i].round = task /\ shown[i].message \in Nat
                              /\ shown[i].piece \in Nat /\ shown[i].piece >= 1
  <2> SUFFICES ASSUME NEW i \in DOMAIN shown
               PROVE  /\ shown[i].round = task /\ shown[i].message \in Nat
                      /\ shown[i].piece \in Nat /\ shown[i].piece >= 1
    OBVIOUS
  <2>1. shown[i] \in Pieces
    BY At
  <2>2. shown[i].message \in Nat /\ shown[i].piece \in Nat /\ shown[i].piece >= 1
    BY <2>1 DEF Pieces, Settings
  <2> QED
    BY <2>2 DEF Own
<1>3. \A i : i \in S <=> i \in DOMAIN shown /\ shown[i].message = e.message
  BY <1>2 DEF Part
<1>4. Len(shown) \in Nat /\ DOMAIN shown = 1..Len(shown) /\ e.message \in Nat
  BY LenProperties DEF Events, Settings
<1> HIDE DEF S
<1>5. ASSUME Earlier(e.message) PROVE Emitted(e) = 0
  <2>1. S = {}
    BY <1>2, <1>3, <1>4, <1>5 DEF Earlier
  <2> QED
    BY <2>1, <1>1, FS_EmptySet
<1>6. ASSUME NEW n \in 0..MaxPieces, Exactly(e.message, n) PROVE Emitted(e) = n
  <2> DEFINE f == [i \in S |-> shown[i].piece]
  <2>1. n \in Nat
    BY DEF Settings
  <2>2. f \in [S -> 1..n]
    BY <1>2, <1>3, <1>6, <2>1 DEF Exactly, ExactlyIn
  <2>3. ASSUME NEW i \in S, NEW j \in S, i < j PROVE f[i] # f[j]
    <3>1. Pre(shown, j) = 1..shown[j].piece - 1
      BY <1>3, WholeIs
    <3>2. i \in 1..j - 1 /\ shown[i].message = shown[j].message
      BY <1>3, <1>4, <2>3
    <3>3. shown[i].piece \in 1..shown[j].piece - 1
      BY <3>1, <3>2, PreIs
    <3> QED
      BY <3>3, <1>2, <1>3
  <2>4. ASSUME NEW i \in S, NEW j \in S, f[i] = f[j] PROVE i = j
    <3>1. ~(i < j) /\ ~(j < i)
      BY <2>3, <2>4
    <3> QED
      BY <3>1, <1>3, <1>4
  <2>5. ASSUME NEW q \in 1..n PROVE \E i \in S : f[i] = q
    <3>1. PICK i \in DOMAIN Out : Out[i].message = e.message /\ Out[i].piece = q
      BY <1>6 DEF Exactly, ExactlyIn
    <3> QED
      BY <3>1, <1>3
  <2>6. f \in Bijection(S, 1..n)
    <3> HIDE DEF f
    <3> QED
      BY <2>2, <2>4, <2>5, Fun_IsBij
  <2>7. IsFiniteSet(S)
    <3>1. S \subseteq 1..Len(shown)
      BY <1>3, <1>4
    <3>2. IsFiniteSet(1..Len(shown))
      BY <1>4, FS_Interval
    <3> QED
      BY <3>1, <3>2, FS_Subset
  <2>8. Cardinality(1..n) = Cardinality(S)
    <3> HIDE DEF f
    <3> QED
      BY <2>6, <2>7, FS_Bijection DEF ExistsBijection
  <2>9. Cardinality(1..n) = n
    BY <2>1, FS_Interval
  <2> QED
    BY <2>8, <2>9, <1>1
<1> QED
  BY <1>5, <1>6

\* The translator, of either engine, after an event.
LEMMA Translates ==
  ASSUME Settings, IInv, Follow, UNCHANGED <<session, link>>
  PROVE  LET e == stream[1] IN
         /\ tr' \in TranslatorTypes
         /\ tr'.idle = (tr.idle \/ e.type = "end")
         /\ engine = "pi" =>
              /\ tr'.open = (e.type = "open" \/ (tr.open /\ e.type # "close"))
              /\ tr'.held = (e.type # "close" /\ (tr.held \/ (e.type = "piece" /\ ~tr.open)))
              /\ tr'.roles = tr.roles /\ tr'.typed = tr.typed /\ tr'.pending = tr.pending
              /\ tr.pending = <<>>
         /\ engine = "opencode" =>
              /\ tr'.open = tr.open /\ ~tr.held /\ ~tr'.held
              /\ tr'.roles = IF e.type = "user" THEN tr.roles \cup {e.round} ELSE tr.roles
              /\ tr'.typed = IF e.type \in {"open", "close"} THEN tr.typed \cup {Part(e)}
                             ELSE tr.typed
              /\ tr'.pending = CASE e.type \in {"open", "close"} -> <<>>
                                 [] e.type = "piece" /\ Part(e) \notin tr.typed ->
                                      Append(tr.pending, ThisPiece(e))
                                 [] OTHER -> tr.pending
<1>1. PICK e : e = stream[1]
  OBVIOUS
<1>2. /\ e \in Events /\ EventType(e)
      /\ tr' = IF engine = "pi" THEN PiNext(e) ELSE OpencodeNext(e)
  BY <1>1, Reads
<1>3. TypeOK /\ engine \in {"pi", "opencode"} /\ "pi" # "opencode"
  BY DEF TypeOK
<1>4. CASE engine = "pi"
  <2>1. tr' = PiNext(e) /\ tr.pending = <<>>
    BY <1>2, <1>3, <1>4 DEF StageInv
  <2> QED
    BY <2>1, <1>1, <1>3, <1>4, PiNextIs
<1>5. CASE engine = "opencode"
  <2>1. tr' = OpencodeNext(e)
    BY <1>2, <1>3, <1>5
  <2>2. tr.held \in BOOLEAN /\ ~tr.held
    BY <1>3, <1>5 DEF StageInv, TypeOK
  <2>3. e.type \in {"user", "open", "piece", "close"} => e.round \in Task
    BY <1>2 DEF EventType
  <2>4. LET t == OpencodeNext(e) IN
         /\ t \in TranslatorTypes
         /\ t.idle = (tr.idle \/ e.type = "end")
         /\ t.open = tr.open /\ t.held = tr.held
         /\ t.roles = IF e.type = "user" THEN tr.roles \cup {e.round} ELSE tr.roles
         /\ t.typed = IF e.type \in {"open", "close"} THEN tr.typed \cup {Part(e)} ELSE tr.typed
         /\ t.pending = CASE e.type \in {"open", "close"} -> <<>>
                          [] e.type = "piece" /\ Part(e) \notin tr.typed ->
                               Append(tr.pending, ThisPiece(e))
                          [] OTHER -> tr.pending
    BY <1>2, <1>3, <2>3, OpencodeNextIs
  <2> QED
    BY <2>1, <2>2, <2>4, <1>1, <1>3, <1>5
<1> QED
  BY <1>3, <1>4, <1>5

\* What the translator can say of an event.
Said(e) ==
  \/ Items(e) = <<>>
  \/ e.type = "prompt" /\ Items(e) = Text(task, 0, 1)
  \/ e.type = "piece" /\ Seen(e.message) /\ Items(e) = <<ThisPiece(e)>>
  \/ e.type = "close" /\ Earlier(e.message) /\ Items(e) = Text(task, e.message, e.pieces)

\* An event of the task, and what has been sent before it.
LEMMA Meets ==
  ASSUME Settings, IInv, Follow, UNCHANGED <<session, link>>, ~tr.idle
  PROVE  LET e == stream[1] IN
         /\ About(e) => /\ OfTask(e) /\ e.message \in 1..MaxMessages /\ e.message \in Nat
                        /\ \A i \in DOMAIN Out : Out[i].message <= e.message
                        /\ Earlier(e.message) \/ (InMessage(e) /\ Seen(e.message))
         /\ InMessage(e) /\ Seen(e.message) => Caught(e.message, Before(e))
         /\ tr.held => InMessage(e) \/ e.type = "end"
         /\ e.type = "connected" => tr = NewTranslator
         /\ ~(tr.held /\ tr.open)
<1>1. PICK e : e = stream[1]
  OBVIOUS
<1>2. at = "events" /\ stream # <<>> /\ EventType(e) /\ e \in Events
  BY <1>1, Reads
<1>3. e.type \in {"open", "piece", "close"} => e.round = task
  BY <1>1, OwnEvent
<1>4. 1 \in DOMAIN stream /\ stream \in Seq(Events)
  BY <1>2, TailIs DEF TypeOK
<1>5. Ahead /\ NextEvent /\ ~(tr.held /\ tr.open)
  BY <1>2 DEF ReadInv
<1>6. About(e) => /\ OfTask(e) /\ e.message \in 1..MaxMessages /\ e.message \in Nat
  BY <1>2, <1>3 DEF OfTask, About, Grows, InMessage, EventType, Settings
<1>7. \A i \in DOMAIN Out : Out[i].message \in Nat
  BY OutTypes
<1>8. ASSUME About(e)
      PROVE  /\ \A i \in DOMAIN Out : Out[i].message <= e.message
             /\ Earlier(e.message) \/ (InMessage(e) /\ Seen(e.message))
  <2>1. \/ Earlier(e.message)
        \/ /\ InMessage(e) /\ Seen(e.message)
           /\ \A i \in DOMAIN Out : Out[i].message <= e.message
    BY <1>1, <1>4, <1>5, <1>6, <1>8 DEF Ahead
  <2>2. Earlier(e.message) => \A i \in DOMAIN Out : Out[i].message <= e.message
    BY <1>6, <1>7, <1>8 DEF Earlier
  <2> QED
    BY <2>1, <2>2
<1>9. InMessage(e) /\ Seen(e.message) => Caught(e.message, Before(e))
  BY <1>1, <1>2, <1>3, <1>5 DEF NextEvent, InMessage
<1> QED
  BY <1>1, <1>2, <1>5, <1>6, <1>8, <1>9 DEF NextEvent

\* What the translator of pi says fits.
LEMMA PiSays ==
  ASSUME Settings, IInv, Follow, UNCHANGED <<session, link>>, ~tr.idle, engine = "pi"
  PROVE  LET e == stream[1] IN
         /\ Said(e)
         /\ e.type = "open" => Items(e) = <<>>
         /\ e.type = "piece" => Items(e) = IF Seen(e.message) THEN <<ThisPiece(e)>> ELSE <<>>
<1>1. PICK e : e = stream[1]
  OBVIOUS
<1>2. Items(e) = PiShows(e) /\ (Seen(e.message) <=> tr.open)
  BY DEF Items, Shows, Seen
<1>3. e.type \in {"open", "piece", "close"} => e.round = task
  BY <1>1, OwnEvent
<1>4. ~(tr.held /\ tr.open) /\ (About(e) => Earlier(e.message) \/ (InMessage(e) /\ Seen(e.message)))
  BY <1>1, Meets
<1>5. CASE e.type = "close" /\ tr.held
  <2>1. Items(e) = Text(task, e.message, e.pieces)
    BY <1>2, <1>3, <1>5 DEF PiShows
  <2>2. Earlier(e.message)
    BY <1>2, <1>4, <1>5 DEF About, InMessage
  <2> QED
    BY <2>1, <2>2, <1>1, <1>5 DEF Said
<1>6. CASE ~(e.type = "close" /\ tr.held)
  <2>1. Items(e) = IF e.type = "piece" /\ tr.open THEN <<ThisPiece(e)>> ELSE <<>>
    BY <1>2, <1>6 DEF PiShows
  <2> QED
    BY <2>1, <1>1, <1>2 DEF Said
<1> QED
  BY <1>5, <1>6

\* So does what the translator of opencode says.
LEMMA OpencodeSays ==
  ASSUME Settings, IInv, Follow, UNCHANGED <<session, link>>, ~tr.idle, engine = "opencode"
  PROVE  LET e == stream[1] IN
         /\ Said(e)
         /\ e.type = "open" => Items(e) = <<>>
         /\ e.type = "piece" => Items(e) = IF Seen(e.message) THEN <<ThisPiece(e)>> ELSE <<>>
<1>1. PICK e : e = stream[1]
  OBVIOUS
<1>2. Items(e) = OpencodeShows(e) /\ (Seen(e.message) <=> <<task, e.message>> \in tr.typed)
  BY DEF Items, Shows, Seen
<1>3. /\ e \in Events /\ EventType(e) /\ task \in Task
      /\ Out = shown /\ shown \in Seq(Pieces) /\ Own(Out) /\ Whole(Out)
  BY <1>1, Reads DEF OutInv
<1>4. e.type \in {"prompt", "open", "piece", "close"} => e.round = task
  BY <1>1, OwnEvent
<1>5. /\ About(e) => Earlier(e.message) \/ (InMessage(e) /\ Seen(e.message))
      /\ InMessage(e) /\ Seen(e.message) => Caught(e.message, Before(e))
      /\ About(e) => e.message \in 1..MaxMessages /\ e.message \in Nat
  BY <1>1, Meets
<1>6. tr.pending \in Seq(Pieces)
  BY DEF TypeOK
<1>7. CASE e.type \in {"open", "close"}
  <2>1. About(e) /\ e.round = task /\ e.message \in 0..MaxMessages /\ e.pieces \in 0..MaxPieces
        /\ e.message > 0
    BY <1>3, <1>4, <1>5, <1>7 DEF About, Grows, InMessage, Events
  <2>2. PICK full : full = Text(task, e.message, e.pieces)
    OBVIOUS
  <2>3. full \in Seq(Pieces) /\ Len(full) = e.pieces /\ e.pieces \in Nat
    BY <2>1, <2>2, <1>3, TextIs
  <2>4. Items(e) = (IF Prefix(tr.pending, full) THEN tr.pending ELSE <<>>) \o
                     SubSeq(full, Emitted(e) + Len(IF Prefix(tr.pending, full) THEN tr.pending
                                                   ELSE <<>>) + 1, Len(full))
    BY <1>2, <1>7, <2>1, <2>2 DEF OpencodeShows, Buffered
  <2>5. ASSUME Earlier(e.message) PROVE Items(e) = full
    <3>1. Emitted(e) = 0
      BY <2>1, <2>5, <1>3, EmittedIs
    <3>2. (IF Prefix(tr.pending, full) THEN tr.pending ELSE <<>>) \o
            SubSeq(full, 0 + Len(IF Prefix(tr.pending, full) THEN tr.pending
                                 ELSE <<>>) + 1, Len(full)) = full
      BY <2>3, <1>6, Completes
    <3> QED
      BY <3>1, <3>2, <2>4
  <2>6. CASE e.type = "open"
    <3>1. Earlier(e.message) /\ e.pieces = 0
      BY <2>1, <2>6, <1>3, <1>5 DEF InMessage, EventType
    <3>2. Items(e) = <<>>
      BY <3>1, <2>3, <2>5, EmptySeq
    <3> QED
      BY <3>2, <2>6, <1>1 DEF Said
  <2>7. CASE e.type = "close" /\ Earlier(e.message)
    BY <2>2, <2>5, <2>7, <1>1 DEF Said
  <2>8. CASE e.type = "close" /\ ~Earlier(e.message)
    <3>1. Caught(e.message, e.pieces)
      BY <2>1, <2>8, <1>5 DEF InMessage, Before
    <3>2. Emitted(e) = e.pieces /\ tr.pending = <<>>
      BY <3>1, <2>1, <1>3, EmittedIs DEF Caught
    <3>3. (IF Prefix(tr.pending, full) THEN tr.pending ELSE <<>>) = <<>> /\ Len(<<>>) = 0
      BY <3>2
    <3>4. SubSeq(full, e.pieces + 0 + 1, Len(full)) = <<>>
      BY <2>3, SubSeqEmpty
    <3>5. Items(e) = <<>> \o <<>>
      BY <2>4, <3>2, <3>3, <3>4
    <3>6. Items(e) = <<>>
      BY <3>5
    <3> QED
      BY <3>6, <2>8, <1>1 DEF Said
  <2> QED
    BY <2>6, <2>7, <2>8, <1>7
<1>8. CASE e.type = "piece"
  <2>1. Items(e) = IF Seen(e.message) THEN <<ThisPiece(e)>> ELSE <<>>
    BY <1>2, <1>4, <1>8 DEF OpencodeShows, Part
  <2> QED
    BY <2>1, <1>1, <1>8 DEF Said
<1>9. CASE e.type \notin {"open", "close", "piece"}
  <2>1. CASE e.type = "prompt"
    <3>1. OpencodeShows(e) = IF e.round \notin tr.roles THEN Text(e.round, 0, 1) ELSE <<>>
      BY <2>1 DEF OpencodeShows
    <3> QED
      BY <3>1, <2>1, <1>1, <1>2, <1>4 DEF Said
  <2>2. CASE e.type # "prompt"
    <3>1. OpencodeShows(e) = <<>>
      BY <2>2, <1>9 DEF OpencodeShows
    <3> QED
      BY <3>1, <1>1, <1>2, <1>9 DEF Said
  <2> QED
    BY <2>1, <2>2, <1>1, <1>9
<1> QED
  BY <1>7, <1>8, <1>9

LEMMA Says ==
  ASSUME Settings, IInv, Follow, UNCHANGED <<session, link>>, ~tr.idle
  PROVE  LET e == stream[1] IN
         /\ Said(e)
         /\ e.type = "open" => Items(e) = <<>>
         /\ e.type = "piece" => Items(e) = IF Seen(e.message) THEN <<ThisPiece(e)>> ELSE <<>>
<1>1. engine \in {"pi", "opencode"}
  BY DEF TypeOK
<1> QED
  BY <1>1, PiSays, OpencodeSays

\* What has been sent is the output of the task still.
LEMMA Sends ==
  ASSUME Settings, IInv, Follow, UNCHANGED <<session, link>>
  PROVE  LET e == stream[1] IN
         /\ shown' \in Seq(Pieces) /\ held' \in Seq(Pieces) /\ Own(Out') /\ Whole(Out')
         /\ \A i \in DOMAIN Out : i \in DOMAIN Out' /\ Out'[i] = Out[i]
         /\ \A i \in DOMAIN Out' :
              \/ i \in DOMAIN Out /\ Out'[i] = Out[i]
              \/ Out'[i].message = 0
              \/ OfTask(e) /\ Out'[i].message = e.message
         /\ tr.idle => Out' = Out
         /\ ~tr.idle /\ e.type = "open" => Out' = Out
         /\ ~tr.idle /\ e.type = "piece" /\ ~Seen(e.message) => Out' = Out
         /\ ~tr.idle /\ e.type = "piece" /\ Seen(e.message) =>
              ExactlyIn(Out', e.message, e.pieces)
<1>1. PICK e : e = stream[1]
  OBVIOUS
<1>2. /\ e \in Events /\ EventType(e) /\ task \in Task
      /\ held = <<>> /\ Out = shown /\ shown \in Seq(Pieces) /\ Own(Out) /\ Whole(Out)
      /\ \/ held' = Items(e) /\ shown' = shown
         \/ held' = <<>> /\ shown' = shown \o Items(e)
  BY <1>1, Reads DEF OutInv
<1>3. <<>> \in Seq(Pieces)
  OBVIOUS
<1>s. PICK s \in Seq(Pieces) : s = Out /\ Own(s) /\ Whole(s)
  BY <1>2
<1>t. task \in Task
  BY <1>2
<1>4. ASSUME Items(e) \in Seq(Pieces)
      PROVE  Out' = shown \o Items(e) /\ shown' \in Seq(Pieces) /\ held' \in Seq(Pieces)
  <2>1. shown \o Items(e) \in Seq(Pieces)
    BY <1>2, <1>4, ConcatProperties
  <2>2. CASE held' = Items(e) /\ shown' = shown
    BY <2>2, <1>2, <1>4 DEF Out
  <2>3. CASE held' = <<>> /\ shown' = shown \o Items(e)
    <3>1. (shown \o Items(e)) \o <<>> = shown \o Items(e)
      BY <2>1, ConcatEmptySeq
    <3> QED
      BY <2>1, <2>3, <3>1, <1>3 DEF Out
  <2> QED
    BY <2>2, <2>3, <1>2
<1>5. CASE Items(e) = <<>> /\ ~(~tr.idle /\ e.type = "piece" /\ Seen(e.message))
  <2>1. Out' = shown \o <<>> /\ shown' \in Seq(Pieces) /\ held' \in Seq(Pieces)
    BY <1>3, <1>4, <1>5
  <2>2. Out' = Out
    BY <2>1, <1>2, ConcatEmptySeq
  <2> QED
    BY <2>1, <2>2, <1>1, <1>2, <1>5
<1>6. CASE ~tr.idle /\ e.type = "prompt" /\ Items(e) = Text(task, 0, 1)
  <2>1. 0 \in 0..MaxMessages /\ 1 \in 0..MaxPieces
    BY DEF Settings
  <2>2. Items(e) \in Seq(Pieces)
    BY <2>1, <1>2, <1>6, TextIs
  <2>3. Out' = Out \o Text(task, 0, 1) /\ shown' \in Seq(Pieces) /\ held' \in Seq(Pieces)
    BY <2>2, <1>2, <1>4, <1>6
  <2>4. /\ Own(Out') /\ Whole(Out') /\ DOMAIN Out = 1..Len(Out) /\ Len(Out) \in Nat
        /\ DOMAIN Out' = 1..Len(Out) + 1
        /\ \A i \in 1..Len(Out) : Out'[i] = Out[i]
        /\ \A i \in DOMAIN Out' : Out'[i].message = 0 \/ (i \in DOMAIN Out /\ Out'[i] = Out[i])
    <3>1. LET t == s \o Text(task, 0, 1) IN
          /\ Own(t) /\ Whole(t)
          /\ DOMAIN s = 1..Len(s) /\ Len(s) \in Nat /\ DOMAIN t = 1..Len(s) + 1
          /\ \A i \in 1..Len(s) : t[i] = s[i]
          /\ \A i \in DOMAIN t : t[i].message = 0 \/ (i \in DOMAIN s /\ t[i] = s[i])
      BY <2>1, <1>2, <1>s, TextFits
    <3> QED
      BY <3>1, <2>3, <1>s
  <2>5. /\ \A i \in DOMAIN Out : i \in DOMAIN Out' /\ Out'[i] = Out[i]
        /\ \A i \in DOMAIN Out' : (i \in DOMAIN Out /\ Out'[i] = Out[i]) \/ Out'[i].message = 0
    <3>1. \A i \in 1..Len(Out) : i \in 1..Len(Out) + 1
      BY <2>4
    <3> QED
      BY <3>1, <2>4
  <2> QED
    BY <2>3, <2>4, <2>5, <1>1, <1>6
<1>7. CASE ~tr.idle /\ e.type = "close" /\ Earlier(e.message)
           /\ Items(e) = Text(task, e.message, e.pieces)
  <2>1. e.message \in 0..MaxMessages /\ e.pieces \in 0..MaxPieces /\ OfTask(e)
    BY <1>1, <1>2, <1>7, OwnEvent DEF Events, OfTask, About, InMessage
  <2>2. Items(e) \in Seq(Pieces)
    BY <2>1, <1>2, <1>7, TextIs
  <2>3. /\ Out' = Out \o Text(task, e.message, e.pieces)
        /\ shown' \in Seq(Pieces) /\ held' \in Seq(Pieces)
    BY <2>2, <1>2, <1>4, <1>7
  <2>4. /\ Own(Out') /\ Whole(Out') /\ DOMAIN Out = 1..Len(Out) /\ Len(Out) \in Nat
        /\ DOMAIN Out' = 1..Len(Out) + e.pieces /\ e.pieces \in Nat
        /\ \A i \in 1..Len(Out) : Out'[i] = Out[i]
        /\ \A i \in DOMAIN Out' :
             Out'[i].message = e.message \/ (i \in DOMAIN Out /\ Out'[i] = Out[i])
    <3>1. e.pieces \in Nat
      BY <2>1, Settings DEF Settings
    <3>m. PICK m \in 0..MaxMessages, n \in 0..MaxPieces : m = e.message /\ n = e.pieces
      BY <2>1
    <3>2. m > 0 => \A i \in DOMAIN s : s[i].message < m
      BY <1>7, <1>s, <3>m DEF Earlier
    <3>3. LET t == s \o Text(task, m, n) IN
          /\ Own(t) /\ Whole(t)
          /\ DOMAIN s = 1..Len(s) /\ Len(s) \in Nat /\ DOMAIN t = 1..Len(s) + n
          /\ \A i \in 1..Len(s) : t[i] = s[i]
          /\ \A i \in DOMAIN t : t[i].message = m \/ (i \in DOMAIN s /\ t[i] = s[i])
      BY <3>2, <1>t, <1>s, TextFits
    <3>4. Out' = s \o Text(task, m, n)
      BY <2>3, <3>m, <1>s
    <3> QED
      BY <3>1, <3>3, <3>4, <3>m, <1>s
  <2>5. /\ \A i \in DOMAIN Out : i \in DOMAIN Out' /\ Out'[i] = Out[i]
        /\ \A i \in DOMAIN Out' : (i \in DOMAIN Out /\ Out'[i] = Out[i])
                                  \/ Out'[i].message = e.message
    <3>1. \A i \in 1..Len(Out) : i \in 1..Len(Out) + e.pieces
      BY <2>4
    <3> QED
      BY <3>1, <2>4
  <2> QED
    BY <2>1, <2>3, <2>4, <2>5, <1>1, <1>7
<1>8. CASE ~tr.idle /\ e.type = "piece" /\ Seen(e.message) /\ Items(e) = <<ThisPiece(e)>>
  <2>1. e.message \in 1..MaxMessages /\ e.pieces \in 1..MaxPieces /\ e.round = task /\ OfTask(e)
        /\ e.pieces \in Nat /\ e.message \in Nat
    BY <1>1, <1>2, <1>8, OwnEvent DEF EventType, OfTask, About, Grows, Settings
  <2>2. Items(e) \in Seq(Pieces)
    BY <2>1, <1>2, <1>8, PieceIs
  <2>3. /\ Out' = Out \o <<[round |-> task, message |-> e.message, piece |-> e.pieces]>>
        /\ shown' \in Seq(Pieces) /\ held' \in Seq(Pieces)
    BY <2>1, <2>2, <1>2, <1>4, <1>8 DEF ThisPiece
  <2>4. Exactly(e.message, e.pieces - 1)
    BY <1>1, <1>8, Meets DEF InMessage, Before, Caught
  <2>5. /\ Own(Out') /\ Whole(Out') /\ DOMAIN Out = 1..Len(Out) /\ Len(Out) \in Nat
        /\ DOMAIN Out' = 1..Len(Out) + 1
        /\ \A i \in 1..Len(Out) : Out'[i] = Out[i]
        /\ Out'[Len(Out) + 1].message = e.message /\ Out'[Len(Out) + 1].piece = e.pieces
    <3>m. PICK m \in 1..MaxMessages, n \in 1..MaxPieces : m = e.message /\ n = e.pieces
      BY <2>1
    <3>1. /\ \A i \in DOMAIN s : s[i].message = m => s[i].piece <= n - 1
          /\ \A q \in 1..n - 1 : \E i \in DOMAIN s : s[i].message = m /\ s[i].piece = q
      BY <2>4, <1>s, <3>m DEF Exactly, ExactlyIn
    <3>2. LET t == s \o <<[round |-> task, message |-> m, piece |-> n]>> IN
          /\ Own(t) /\ Whole(t) /\ DOMAIN s = 1..Len(s) /\ Len(s) \in Nat
          /\ DOMAIN t = 1..Len(s) + 1
          /\ \A i \in 1..Len(s) : t[i] = s[i]
          /\ t[Len(s) + 1].message = m /\ t[Len(s) + 1].piece = n
      BY <3>1, <1>t, <1>s, PieceFits
    <3>3. Out' = s \o <<[round |-> task, message |-> m, piece |-> n]>>
      BY <2>3, <3>m, <1>s
    <3> QED
      BY <3>2, <3>3, <3>m, <1>s
  <2>6. ExactlyIn(Out', e.message, e.pieces)
    <3>1. ASSUME NEW i \in DOMAIN Out', Out'[i].message = e.message
          PROVE  Out'[i].piece <= e.pieces
      <4>1. CASE i \in 1..Len(Out)
        <5>1. Out[i].piece <= e.pieces - 1 /\ Out[i].piece \in Nat
          BY <4>1, <3>1, <2>4, <2>5, OutTypes DEF Exactly, ExactlyIn
        <5> QED
          BY <5>1, <4>1, <2>1, <2>5
      <4>2. CASE i = Len(Out) + 1
        BY <4>2, <2>1, <2>5
      <4> QED
        BY <4>1, <4>2, <2>5
    <3>2. ASSUME NEW q \in 1..e.pieces
          PROVE  \E i \in DOMAIN Out' : Out'[i].message = e.message /\ Out'[i].piece = q
      <4>1. CASE q = e.pieces
        BY <4>1, <2>5
      <4>2. CASE q # e.pieces
        <5>1. q \in 1..e.pieces - 1
          BY <4>2, <2>1
        <5>2. PICK i \in DOMAIN Out : Out[i].message = e.message /\ Out[i].piece = q
          BY <5>1, <2>4 DEF Exactly, ExactlyIn
        <5> QED
          BY <5>2, <2>5
      <4> QED
        BY <4>1, <4>2
    <3> QED
      BY <3>1, <3>2 DEF ExactlyIn
  <2>7. /\ \A i \in DOMAIN Out : i \in DOMAIN Out' /\ Out'[i] = Out[i]
        /\ \A i \in DOMAIN Out' : (i \in DOMAIN Out /\ Out'[i] = Out[i])
                                  \/ Out'[i].message = e.message
    <3>1. \A i \in 1..Len(Out) : i \in 1..Len(Out) + 1
      BY <2>5
    <3>2. \A i \in 1..Len(Out) + 1 : i \in 1..Len(Out) \/ i = Len(Out) + 1
      BY <2>5
    <3> QED
      BY <3>1, <3>2, <2>5
  <2> QED
    BY <2>1, <2>3, <2>5, <2>6, <2>7, <1>1, <1>8
<1>9. tr.idle => Items(e) = <<>>
  BY DEF Items
<1>10. ASSUME ~tr.idle
       PROVE  /\ Said(e)
              /\ e.type = "piece" => Items(e) = IF Seen(e.message) THEN <<ThisPiece(e)>> ELSE <<>>
  BY <1>1, <1>10, Says
<1>11. <<ThisPiece(e)>> # <<>>
  OBVIOUS
<1>12. CASE tr.idle
  BY <1>5, <1>9, <1>12
<1>13. CASE ~tr.idle
  BY <1>5, <1>6, <1>7, <1>8, <1>10, <1>13 DEF Said
<1> QED
  BY <1>12, <1>13

\* The events that remain.
LEMMA FollowStream ==
  ASSUME Settings, IInv, Follow, UNCHANGED <<session, link>>
  PROVE  StreamInv' /\ SessionInv' /\ LogInv' /\ SnapshotInv'
<1>0. /\ UNCHANGED <<engine, turn, db, round, log, writing, task, link, read>>
      /\ stream # <<>> /\ stream' = Tail(stream) /\ at' \in {"check", "events"}
  BY Reads
<1>1. /\ stream' \in Seq(Events) /\ Len(stream) \in Nat /\ Len(stream) >= 1
      /\ Len(stream') = Len(stream) - 1
      /\ DOMAIN stream = 1..Len(stream) /\ DOMAIN stream' = 1..Len(stream) - 1
      /\ \A i \in 1..Len(stream) - 1 : i + 1 \in 1..Len(stream) /\ stream'[i] = stream[i + 1]
      /\ stream' = <<>> <=> Len(stream) = 1
  BY <1>0, Rest
<1>2. /\ Writing' = Writing /\ Count' = Count /\ Top' = Top
      /\ \A e : OfTask(e)' <=> OfTask(e)
  BY <1>0 DEF Writing, Count, Top, OfTask
<1>3. SessionInv' /\ LogInv'
  BY <1>0, <1>2 DEF SessionInv, LogInv, Ordered, Closed, HasPrompt, Entry
<1>4. SnapshotInv'
  BY <1>0 DEF SnapshotInv
<1>5. EventsAre'
  BY <1>0, <1>1 DEF StreamInv, EventsAre
<1>6. Linked'
  <2> SUFFICES ASSUME NEW i \in 1..Len(stream') - 1 PROVE Adjacent(stream'[i], stream'[i + 1])
    BY DEF Linked
  <2>1. i \in 1..Len(stream) - 1 /\ i + 1 \in 1..Len(stream) - 1
    BY <1>1
  <2>2. Adjacent(stream[i + 1], stream[i + 1 + 1])
    BY <2>1 DEF StreamInv, Linked
  <2> QED
    BY <2>1, <2>2, <1>1
<1>7. InOrder'
  <2> SUFFICES ASSUME NEW i \in DOMAIN stream', NEW j \in DOMAIN stream', i < j,
                      OfTask(stream'[i]), OfTask(stream'[j])
               PROVE  /\ stream'[i].message <= stream'[j].message
                      /\ stream'[i].type = "close" \/ stream'[j].type = "open" =>
                           stream'[i].message # stream'[j].message
    BY <1>2 DEF InOrder
  <2>1. /\ i + 1 \in DOMAIN stream /\ j + 1 \in DOMAIN stream /\ i + 1 < j + 1
        /\ stream'[i] = stream[i + 1] /\ stream'[j] = stream[j + 1]
    BY <1>1
  <2> QED
    BY <2>1 DEF StreamInv, InOrder
<1>8. UpToTop'
  <2> SUFFICES ASSUME turn = task, round # "over", NEW i \in DOMAIN stream', OfTask(stream'[i])
               PROVE  /\ stream'[i].message <= Top
                      /\ Writing /\ stream'[i].type = "close" =>
                           stream'[i].message # writing.message
    BY <1>0, <1>2 DEF UpToTop
  <2>1. i + 1 \in DOMAIN stream /\ stream'[i] = stream[i + 1]
    BY <1>1
  <2> QED
    BY <2>1 DEF StreamInv, UpToTop
<1>9. LastEvent'
  <2> SUFFICES ASSUME link = "open", stream' # <<>>
               PROVE  LET e == stream'[Len(stream')] IN
                      /\ Grows(e) => Writing /\ e.round = turn /\ e.message = writing.message
                                     /\ e.pieces = writing.pieces
                      /\ Writing => Grows(e) \/ e.type = "connected"
    BY <1>0, <1>2 DEF LastEvent
  <2>1. Len(stream') \in 1..Len(stream) - 1 /\ Len(stream') + 1 = Len(stream)
    BY <1>1
  <2>2. stream'[Len(stream')] = stream[Len(stream)]
    BY <2>1, <1>1
  <2> QED
    BY <2>2, <1>0 DEF StreamInv, LastEvent
<1> QED
  BY <1>3, <1>4, <1>5, <1>6, <1>7, <1>8, <1>9 DEF StreamInv

\* Rounds that have begun.
LEMMA FollowRound ==
  ASSUME Settings, IInv, Follow, UNCHANGED <<session, link>> PROVE RoundInv'
<1>1. PICK e : e = stream[1]
  OBVIOUS
<1>2. /\ UNCHANGED <<engine, turn, round, task, link>> /\ at = "events"
      /\ stream # <<>> /\ stream' = Tail(stream)
      /\ e \in Events /\ e.round <= turn
  BY <1>1, Reads
<1>3. /\ Len(stream) \in Nat /\ Len(stream) >= 1
      /\ DOMAIN stream = 1..Len(stream) /\ DOMAIN stream' = 1..Len(stream) - 1
      /\ \A i \in 1..Len(stream) - 1 : i + 1 \in 1..Len(stream) /\ stream'[i] = stream[i + 1]
  BY <1>2, Rest
<1>4. tr'.roles = tr.roles \/ (e.type = "user" /\ tr'.roles = tr.roles \cup {e.round})
  <2>1. engine \in {"pi", "opencode"}
    BY DEF TypeOK
  <2> QED
    BY <2>1, <1>1, Translates
<1>5. \A r \in tr'.roles : r <= turn'
  BY <1>2, <1>4 DEF RoundInv
<1>6. ASSUME at' = "events" PROVE LaterRounds'
  <2>1. LaterRounds
    BY <1>2 DEF RoundInv
  <2>2. ~Announces(e) /\ (e.round = task \/ e.type = "end")
    BY <1>1, <1>6, OwnEvent
  <2>3. \A f : Announces(f)' <=> Announces(f)
    BY <1>2 DEF Announces
  <2>4. \A r \in tr'.roles : r <= task'
    <3>1. task \in Nat
      BY Basics
    <3> QED
      BY <3>1, <2>1, <2>2, <1>2, <1>4 DEF LaterRounds
  <2>5. ASSUME NEW i \in DOMAIN stream', stream'[i].round > task, stream'[i].type # "end"
        PROVE  \E j \in 1..i : Announces(stream'[j])
    <3>1. i \in 1..Len(stream) - 1 /\ i + 1 \in DOMAIN stream /\ stream'[i] = stream[i + 1]
      BY <1>3
    <3>2. PICK k \in 1..i + 1 : Announces(stream[k])
      BY <3>1, <2>1, <2>5 DEF LaterRounds
    <3>3. k # 1
      BY <3>2, <2>2, <1>1
    <3>4. k - 1 \in 1..i /\ k - 1 \in 1..Len(stream) - 1 /\ k - 1 + 1 = k
      BY <3>1, <3>3, <1>3
    <3>5. stream'[k - 1] = stream[k]
      BY <3>4, <1>3
    <3> QED
      BY <3>2, <3>4, <3>5
  <2>6. ASSUME link = "open", turn > task, round \in Announced
        PROVE  \E j \in DOMAIN stream' : Announces(stream'[j])
    <3>1. PICK k \in DOMAIN stream : Announces(stream[k])
      BY <2>1, <2>6 DEF LaterRounds
    <3>2. k # 1
      BY <3>1, <2>2, <1>1
    <3>3. k - 1 \in 1..Len(stream) - 1 /\ k - 1 + 1 = k
      BY <3>2, <1>3
    <3>4. stream'[k - 1] = stream[k]
      BY <3>3, <1>3
    <3> QED
      BY <3>1, <3>3, <3>4, <1>3
  <2>7. Announced' = Announced
    BY <1>2 DEF Announced
  <2> QED
    BY <2>3, <2>4, <2>5, <2>6, <2>7, <1>2 DEF LaterRounds
<1> QED
  BY <1>5, <1>6 DEF RoundInv

\* What has been sent.
LEMMA FollowOut ==
  ASSUME Settings, IInv, Follow, UNCHANGED <<session, link>>
  PROVE  TypeOK' /\ StageInv' /\ OutInv'
<1>1. PICK e : e = stream[1]
  OBVIOUS
<1>2. /\ UNCHANGED <<engine, turn, db, round, log, writing, task, link, read>>
      /\ at = "events" /\ task > 0 /\ link # "none"
      /\ stream # <<>> /\ stream' = Tail(stream)
      /\ at' = "check" \/ (at' = "events" /\ held' = <<>>)
  BY <1>1, Reads
<1>3. stream' \in Seq(Events)
  BY <1>2, Rest
<1>4. /\ shown' \in Seq(Pieces) /\ held' \in Seq(Pieces) /\ Own(Out') /\ Whole(Out')
      /\ \A i \in DOMAIN Out' :
           \/ i \in DOMAIN Out /\ Out'[i] = Out[i]
           \/ Out'[i].message = 0
           \/ OfTask(e) /\ Out'[i].message = e.message
  BY <1>1, Sends
<1>5. tr' \in TranslatorTypes
  BY Translates
<1>6. TypeOK'
  BY <1>2, <1>3, <1>4, <1>5 DEF TypeOK, TranslatorTypes
<1>7. StageInv'
  <2>1. tr'.held => engine = "pi"
    <3>1. engine \in {"pi", "opencode"}
      BY DEF TypeOK
    <3> QED
      BY <3>1, Translates
  <2>2. tr'.pending # <<>> => engine = "opencode"
    <3>1. engine \in {"pi", "opencode"}
      BY DEF TypeOK
    <3> QED
      BY <3>1, Translates
  <2> QED
    BY <2>1, <2>2, <1>2 DEF StageInv
<1>8. Writing' = Writing /\ Count' = Count /\ Top' = Top
  BY <1>2 DEF Writing, Count, Top
<1>9. SentUpToTop'
  <2> SUFFICES ASSUME turn = task, round # "over", NEW i \in DOMAIN Out'
               PROVE  Out'[i].message <= Top
    BY <1>2, <1>8 DEF SentUpToTop
  <2>1. Top \in Nat
    BY Basics
  <2>2. i \in DOMAIN Out /\ Out'[i] = Out[i] => Out'[i].message <= Top
    BY DEF OutInv, SentUpToTop
  <2>3. OfTask(e) => e.message <= Top
    <3>1. 1 \in DOMAIN stream
      BY <1>2, TailIs DEF TypeOK
    <3> QED
      BY <3>1, <1>1 DEF StreamInv, UpToTop
  <2> QED
    BY <2>1, <2>2, <2>3, <1>4
<1>10. OutInv'
  <2>1. Own(Out)' /\ Whole(Out)'
    BY <1>2, <1>4 DEF Own, Whole
  <2> QED
    BY <2>1, <1>2, <1>9 DEF OutInv
<1> QED
  BY <1>6, <1>7, <1>10

\* After the opening, or a piece, of a message the client has what there is of it, if it
\* gets the message piece by piece.
LEMMA CatchesUp ==
  ASSUME Settings, IInv, Follow, UNCHANGED <<session, link>>, ~tr.idle,
         NEW m, NEW k, m = stream[1].message, k = stream[1].pieces,
         Grows(stream[1]), Seen(m)'
  PROVE  Caught(m, k)'
<1>1. PICK e : e = stream[1]
  OBVIOUS
<1>2. e.type \in {"open", "piece"} /\ e \in Events /\ EventType(e) /\ m = e.message /\ k = e.pieces
      /\ engine' = engine /\ task' = task
  BY <1>1, Reads DEF Grows
<1>3. e.round = task /\ OfTask(e) /\ About(e) /\ engine \in {"pi", "opencode"}
  BY <1>1, <1>2, OwnEvent DEF OfTask, About, Grows, TypeOK
<1>4. CASE e.type = "open"
  <2>1. Earlier(m) /\ ~tr.held /\ k = 0 /\ m \in Nat
    BY <1>1, <1>2, <1>3, <1>4, Meets DEF InMessage, EventType
  <2>2. Out' = Out
    BY <1>1, <1>4, Sends
  <2>3. Exactly(m, k)'
    BY <2>1, <2>2, OutTypes DEF Earlier, Exactly, ExactlyIn
  <2>4. tr'.pending = <<>> /\ ~tr'.held
    <3>1. CASE engine = "pi"
      BY <3>1, <2>1, <1>1, <1>4, Translates
    <3>2. CASE engine = "opencode"
      BY <3>2, <1>1, <1>4, Translates
    <3> QED
      BY <3>1, <3>2, <1>3
  <2> QED
    BY <2>3, <2>4 DEF Caught
<1>5. CASE e.type = "piece"
  <2>1. CASE engine = "pi"
    <3>1. tr'.open = tr.open /\ (tr'.held <=> tr.held \/ ~tr.open) /\ tr'.pending = <<>>
      BY <2>1, <1>1, <1>5, Translates DEF TypeOK
    <3>2. Seen(m)
      BY <3>1, <2>1, <1>2 DEF Seen
    <3>3. Caught(m, Before(e))
      BY <3>2, <1>1, <1>2, <1>5, Meets DEF InMessage
    <3>4. Exactly(m, k)'
      <4>1. ExactlyIn(Out', m, k)
        BY <3>2, <1>1, <1>2, <1>5, Sends
      <4> QED
        BY <4>1 DEF Exactly
    <3> QED
      BY <3>1, <3>2, <3>3, <3>4, <2>1 DEF Caught, Seen
  <2>2. CASE engine = "opencode"
    <3>1. /\ tr'.typed = tr.typed /\ ~tr'.held
          /\ tr'.pending = IF Part(e) \notin tr.typed THEN Append(tr.pending, ThisPiece(e))
                           ELSE tr.pending
      BY <2>2, <1>1, <1>5, Translates
    <3>2. Seen(m) /\ Part(e) \in tr.typed
      BY <3>1, <2>2, <1>2, <1>3 DEF Seen, Part
    <3>3. Caught(m, Before(e))
      BY <3>2, <1>1, <1>2, <1>5, Meets DEF InMessage
    <3>4. Exactly(m, k)'
      <4>1. ExactlyIn(Out', m, k)
        BY <3>2, <1>1, <1>2, <1>5, Sends
      <4> QED
        BY <4>1 DEF Exactly
    <3> QED
      BY <3>1, <3>2, <3>3, <3>4 DEF Caught
  <2> QED
    BY <2>1, <2>2, <1>3
<1> QED
  BY <1>4, <1>5, <1>2

\* What has been sent of later messages, and whether they will come piece by piece.
LEMMA Later ==
  ASSUME Settings, IInv, Follow, UNCHANGED <<session, link>>, ~tr.idle
  PROVE  LET e == stream[1] IN
         /\ \A m : e.type \notin {"open", "close"} => (Seen(m)' <=> Seen(m))
         /\ ~About(e) => \A m \in Nat : m > 0 => /\ Earlier(m) => Earlier(m)'
                                                 /\ Seen(m) => Seen(m)'
         /\ About(e) => /\ \A i \in DOMAIN Out' : Out'[i].message <= e.message
                        /\ \A m \in Nat : m > e.message => Earlier(m)'
         /\ Grows(e) => \A m : m = e.message => Earlier(m)' \/ Seen(m)'
<1>1. PICK e : e = stream[1]
  OBVIOUS
<1>2. /\ engine \in {"pi", "opencode"} /\ engine' = engine /\ task' = task
      /\ e \in Events /\ EventType(e)
  BY <1>1, Reads DEF TypeOK
<1>3. ASSUME NEW m, e.type \notin {"open", "close"} PROVE Seen(m)' <=> Seen(m)
  <2>1. CASE engine = "pi"
    <3>1. tr'.open = tr.open
      BY <2>1, <1>1, <1>3, Translates DEF TypeOK
    <3> QED
      BY <3>1, <2>1, <1>2 DEF Seen
  <2>2. CASE engine = "opencode"
    <3>1. tr'.typed = tr.typed
      BY <2>2, <1>1, <1>3, Translates
    <3> QED
      BY <3>1, <2>2, <1>2 DEF Seen
  <2> QED
    BY <2>1, <2>2, <1>2
<1>4. \A i \in DOMAIN Out' :
        \/ i \in DOMAIN Out /\ Out'[i] = Out[i]
        \/ Out'[i].message = 0
        \/ OfTask(e) /\ Out'[i].message = e.message
  BY <1>1, Sends
<1>5. \A i \in DOMAIN Out : Out[i].message \in Nat
  BY OutTypes
<1>6. ASSUME ~About(e), NEW m \in Nat, m > 0
      PROVE  (Earlier(m) => Earlier(m)') /\ (Seen(m) => Seen(m)')
  <2>1. e.type \notin {"open", "close"} /\ ~OfTask(e)
    BY <1>6 DEF About, Grows, InMessage, OfTask
  <2>2. Earlier(m) => Earlier(m)'
    BY <2>1, <1>4, <1>6 DEF Earlier
  <2> QED
    BY <2>1, <2>2, <1>3
<1>7. ASSUME About(e)
      PROVE  /\ \A i \in DOMAIN Out' : Out'[i].message <= e.message
             /\ \A m \in Nat : m > e.message => Earlier(m)'
  <2>1. e.message \in Nat /\ \A i \in DOMAIN Out : Out[i].message <= e.message
    BY <1>1, <1>7, Meets
  <2>2. \A i \in DOMAIN Out' : Out'[i].message <= e.message /\ Out'[i].message \in Nat
    BY <2>1, <1>4, <1>5
  <2>3. \A m \in Nat : m > e.message => Earlier(m)'
    BY <2>1, <2>2 DEF Earlier
  <2> QED
    BY <2>2, <2>3
<1>8. ASSUME Grows(e), NEW m, m = e.message PROVE Earlier(m)' \/ Seen(m)'
  <2>1. CASE e.type = "open"
    <3>0. e.round = task
      BY <2>1, <1>1, OwnEvent
    <3>1. CASE engine = "pi"
      <4>1. tr'.open
        BY <3>1, <2>1, <1>1, Translates
      <4> QED
        BY <4>1, <3>1, <1>2 DEF Seen
    <3>2. CASE engine = "opencode"
      <4>1. <<task, m>> \in tr'.typed
        BY <3>0, <3>2, <2>1, <1>1, <1>8, Translates DEF Part
      <4> QED
        BY <4>1, <3>2, <1>2 DEF Seen
    <3> QED
      BY <3>1, <3>2, <1>2
  <2>2. CASE e.type = "piece"
    <3>1. Earlier(m) \/ Seen(m)
      BY <2>2, <1>1, <1>8, Meets DEF About
    <3>2. CASE Seen(m)
      BY <3>2, <2>2, <1>3
    <3>3. CASE ~Seen(m)
      <4>1. Out' = Out
        BY <3>3, <2>2, <1>1, <1>8, Sends
      <4> QED
        BY <4>1, <3>1, <3>3 DEF Earlier
    <3> QED
      BY <3>2, <3>3
  <2> QED
    BY <2>1, <2>2, <1>8 DEF Grows
<1> QED
  BY <1>1, <1>3, <1>6, <1>7, <1>8

\* What will be read next goes on where the client is.
LEMMA FollowRead ==
  ASSUME Settings, IInv, Follow, UNCHANGED <<session, link>>, ~tr'.idle PROVE ReadInv'
<1>1. PICK e : e = stream[1]
  OBVIOUS
<1>2. /\ UNCHANGED <<engine, turn, db, round, log, writing, task, link, read>>
      /\ at = "events" /\ stream # <<>> /\ stream' = Tail(stream)
      /\ e \in Events /\ EventType(e)
  BY <1>1, Reads
<1>3. ~tr.idle /\ e.type # "end" /\ engine \in {"pi", "opencode"}
  BY <1>1, Translates DEF TypeOK
<1>4. /\ stream' \in Seq(Events) /\ Len(stream) \in Nat /\ Len(stream) >= 1
      /\ Len(stream') = Len(stream) - 1
      /\ DOMAIN stream = 1..Len(stream) /\ DOMAIN stream' = 1..Len(stream) - 1
      /\ \A i \in 1..Len(stream) - 1 : i + 1 \in 1..Len(stream) /\ stream'[i] = stream[i + 1]
      /\ stream' = <<>> <=> Len(stream) = 1
  BY <1>2, Rest
<1>5. Ahead /\ Joined /\ NextEvent /\ NoEvent
  BY <1>2, <1>3 DEF ReadInv
<1>6. /\ \A m : e.type \notin {"open", "close"} => (Seen(m)' <=> Seen(m))
      /\ ~About(e) => \A m \in Nat : m > 0 => /\ Earlier(m) => Earlier(m)'
                                              /\ Seen(m) => Seen(m)'
      /\ About(e) => /\ \A i \in DOMAIN Out' : Out'[i].message <= e.message
                     /\ \A m \in Nat : m > e.message => Earlier(m)'
      /\ Grows(e) => \A m : m = e.message => Earlier(m)' \/ Seen(m)'
  BY <1>1, <1>3, Later
<1>7. /\ About(e) => OfTask(e) /\ e.message \in 1..MaxMessages /\ e.message \in Nat
      /\ tr.held => InMessage(e) \/ e.type = "end"
      /\ e.type = "connected" => tr = NewTranslator
      /\ ~(tr.held /\ tr.open)
  BY <1>1, <1>3, Meets
<1>8. /\ Writing' = Writing /\ Count' = Count /\ Top' = Top
      /\ \A f : OfTask(f)' <=> OfTask(f)
  BY <1>2 DEF Writing, Count, Top, OfTask
<1>9. \A i \in DOMAIN stream : /\ stream[i] \in Events /\ EventType(stream[i])
                               /\ stream[i].message \in Nat
  BY Basics DEF StreamInv, EventsAre
<1>10. 1 \in DOMAIN stream
  BY <1>4
\* What has been held back is of a message that is being read.
<1>11. tr'.held => e.type = "piece" /\ (tr.open => tr.held) /\ engine = "pi"
  <2>1. CASE engine = "pi"
    BY <2>1, <1>1, <1>3, <1>7, Translates DEF InMessage, TypeOK
  <2>2. CASE engine = "opencode"
    BY <2>2, <1>1, Translates
  <2> QED
    BY <2>1, <2>2, <1>3
<1>12. Ahead'
  <2> SUFFICES ASSUME NEW j \in DOMAIN stream', NEW g, g = stream'[j], OfTask(g),
                      NEW m, m = g.message
               PROVE  \/ Earlier(m)'
                      \/ /\ InMessage(g) /\ Seen(m)'
                         /\ \A i \in DOMAIN Out' : Out'[i].message <= m
    <3>1. Ahead' <=> \A j \in DOMAIN stream' : OfTask(stream[j])' =>
                       \/ Earlier(stream[j].message)'
                       \/ /\ InMessage(stream[j])' /\ Seen(stream[j].message)'
                          /\ \A i \in DOMAIN Out' : Out'[i].message <= stream'[j].message
      BY DEF Ahead
    <3> QED
      BY <3>1, <1>2 DEF InMessage, OfTask, About, Grows, Earlier, Seen
  <2>1. /\ j + 1 \in DOMAIN stream /\ g = stream[j + 1] /\ 1 < j + 1
        /\ g \in Events /\ EventType(g) /\ m \in Nat
    <3>1. j \in 1..Len(stream) - 1
      BY <1>4
    <3>2. j + 1 \in DOMAIN stream /\ g = stream[j + 1] /\ 1 < j + 1
      BY <3>1, <1>4
    <3> QED
      BY <3>2, <1>9
  <2>2. m > 0 /\ About(g)
    BY <2>1 DEF OfTask, EventType, Settings
  <2>3. CASE ~About(e)
    <3>1. \/ Earlier(m)
          \/ /\ InMessage(g) /\ Seen(m)
             /\ \A i \in DOMAIN Out : Out[i].message <= m
      BY <2>1, <1>5 DEF Ahead
    <3>2. (\A i \in DOMAIN Out : Out[i].message <= m) => \A i \in DOMAIN Out' : Out'[i].message <= m
      <4>1. \A i \in DOMAIN Out' : \/ i \in DOMAIN Out /\ Out'[i] = Out[i]
                                   \/ Out'[i].message = 0
                                   \/ OfTask(e) /\ Out'[i].message = e.message
        BY <1>1, Sends
      <4> QED
        BY <4>1, <2>1, <2>3 DEF OfTask
    <3> QED
      BY <3>1, <3>2, <2>1, <2>2, <2>3, <1>6
  <2>4. CASE About(e)
    <3>1. /\ e.message <= m
          /\ e.type = "close" \/ g.type = "open" => e.message # m
      BY <2>1, <2>4, <1>1, <1>7, <1>10 DEF StreamInv, InOrder
    <3>2. CASE e.message < m
      BY <3>2, <2>1, <2>4, <1>6
    <3>3. CASE e.message = m
      <4>1. Grows(e) /\ InMessage(g)
        BY <3>1, <3>3, <2>2, <2>4 DEF About, Grows, InMessage
      <4> QED
        BY <4>1, <3>3, <2>4, <1>6
    <3> QED
      BY <3>1, <3>2, <3>3, <2>1, <2>4, <1>7
  <2> QED
    BY <2>3, <2>4
<1>13. Joined'
  <2> SUFFICES ASSUME link = "open", Writing, turn = task, NEW m, m = writing.message
               PROVE  Earlier(m)' \/ Seen(m)'
    <3>1. Joined' <=> (link' = "open" /\ Writing' /\ turn' = task' =>
                         Earlier(writing.message)' \/ Seen(writing.message)')
      BY DEF Joined
    <3> QED
      BY <3>1, <1>2, <1>8 DEF Earlier, Seen
  <2>1. m \in Nat /\ m > 0 /\ round = "busy" /\ Top = m
    BY DEF SessionInv, Settings, Top
  <2>2. CASE ~About(e)
    <3>1. Earlier(m) \/ Seen(m)
      BY <1>5 DEF Joined
    <3> QED
      BY <3>1, <2>1, <2>2, <1>6
  <2>3. CASE About(e)
    <3>1. e.message <= m /\ (e.type = "close" => e.message # m)
      BY <2>1, <2>3, <1>1, <1>7, <1>10 DEF StreamInv, UpToTop
    <3>2. CASE e.message < m
      BY <3>2, <2>1, <2>3, <1>6
    <3>3. CASE e.message = m
      <4>1. Grows(e)
        BY <3>1, <3>3, <2>3 DEF About, Grows, InMessage
      <4> QED
        BY <4>1, <3>3, <1>6
    <3> QED
      BY <3>1, <3>2, <3>3, <2>1, <2>3, <1>7
  <2> QED
    BY <2>2, <2>3
<1>14. ~(tr'.held /\ tr'.open)
  <2> SUFFICES ASSUME tr'.held, tr'.open PROVE FALSE
    OBVIOUS
  <2>1. e.type = "piece" /\ engine = "pi" /\ (tr.open => tr.held)
    BY <1>11
  <2>2. tr'.open = tr.open
    BY <2>1, <1>1, Translates DEF TypeOK
  <2> QED
    BY <2>1, <2>2, <1>7
<1>15. NextEvent'
  <2> SUFFICES ASSUME stream' # <<>>, NEW g, g = stream'[1], NEW m, m = g.message,
                      NEW k, k = Before(g)
               PROVE  /\ InMessage(g) /\ g.round = task /\ Seen(m)' => Caught(m, k)'
                      /\ tr'.held => InMessage(g) \/ g.type = "end"
                      /\ g.type # "connected"
    <3>1. NextEvent' <=> (stream' # <<>> =>
            /\ InMessage(stream[1])' /\ stream'[1].round = task' /\ Seen(stream[1].message)' =>
                 Caught(stream[1].message, Before(stream[1]))'
            /\ tr'.held => InMessage(stream[1])' \/ stream'[1].type = "end"
            /\ stream'[1].type = "connected" => tr' = NewTranslator')
      BY DEF NextEvent
    <3> QED
      BY <3>1, <1>2 DEF InMessage, Seen, Caught, Exactly, ExactlyIn, Before
  <2>1. g = stream[2] /\ 1 \in 1..Len(stream) - 1
    BY <1>4
  <2>2. Adjacent(e, g)
    BY <2>1, <1>1 DEF StreamInv, Linked
  <2>3. g.type # "connected"
    BY <2>2 DEF Adjacent
  <2>4. tr'.held => InMessage(g) \/ g.type = "end"
    BY <2>2, <1>11 DEF Adjacent, Grows, Continues
  <2>5. ASSUME InMessage(g), g.round = task, Seen(m)' PROVE Caught(m, k)'
    <3>1. CASE e.type = "connected"
      <4>1. ~Seen(m)
        BY <3>1, <1>7 DEF Seen, NewTranslator
      <4> QED
        BY <4>1, <3>1, <2>5, <1>6
    <3>2. CASE e.type # "connected"
      <4>1. Grows(e) /\ m = e.message /\ k = e.pieces
        BY <3>2, <2>2, <2>5 DEF Adjacent, Continues
      <4> QED
        BY <4>1, <2>5, <1>1, <1>3, CatchesUp
    <3> QED
      BY <3>1, <3>2
  <2> QED
    BY <2>3, <2>4, <2>5
<1>16. NoEvent'
  <2> SUFFICES ASSUME stream' = <<>>, link = "open", NEW m, m = writing.message,
                      NEW k, k = writing.pieces
               PROVE  /\ Writing /\ turn = task /\ Seen(m)' => Caught(m, k)'
                      /\ tr'.held => Writing
    <3>1. NoEvent' <=> (stream' = <<>> /\ link' = "open" =>
            /\ Writing' /\ turn' = task' /\ Seen(writing.message)' =>
                 Caught(writing.message, writing.pieces)'
            /\ tr'.held => Writing')
      BY DEF NoEvent
    <3> QED
      BY <3>1, <1>2, <1>8 DEF Seen, Caught, Exactly, ExactlyIn
  <2>1. /\ Grows(e) => Writing /\ e.round = turn /\ e.message = writing.message
                       /\ e.pieces = writing.pieces
        /\ Writing => Grows(e) \/ e.type = "connected"
    <3>1. Len(stream) = 1
      BY <1>4
    <3> QED
      BY <3>1, <1>1, <1>2 DEF StreamInv, LastEvent
  <2>2. tr'.held => Writing
    BY <2>1, <1>11 DEF Grows
  <2>3. ASSUME Writing, turn = task, Seen(m)' PROVE Caught(m, k)'
    <3>1. CASE e.type = "connected"
      <4>1. ~Seen(m)
        BY <3>1, <1>7 DEF Seen, NewTranslator
      <4> QED
        BY <4>1, <3>1, <2>3, <1>6
    <3>2. CASE e.type # "connected"
      <4>1. Grows(e) /\ m = e.message /\ k = e.pieces
        BY <3>2, <2>1, <2>3
      <4> QED
        BY <4>1, <2>3, <1>1, <1>3, CatchesUp
    <3> QED
      BY <3>1, <3>2
  <2> QED
    BY <2>2, <2>3
<1> QED
  BY <1>12, <1>13, <1>14, <1>15, <1>16 DEF ReadInv

LEMMA FollowKeeps ==
  ASSUME Settings, IInv, Follow, UNCHANGED <<session, link>> PROVE IInv'
<1>1. ReadInv'
  <2>1. CASE tr'.idle
    BY <2>1 DEF ReadInv
  <2>2. CASE ~tr'.idle
    BY <2>2, FollowRead
  <2> QED
    BY <2>1, <2>2
<1> QED
  BY <1>1, FollowStream, FollowRound, FollowOut

-----------------------------------------------------------------------------
(* The specification.                                                        *)

LEMMA FollowerStep == ASSUME Settings, IInv, Follows PROVE IInv'
<1>0. UNCHANGED <<session, link>>
  BY DEF Follows
<1> QED
  BY <1>0, AttachKeeps, StatusKeeps, RowReadKeeps, MessagesKeeps, FailsKeeps, SubscribeKeeps,
     AskKeeps, SnapshotKeeps, CheckKeeps, FollowKeeps DEF Follows

LEMMA ReaderStep == ASSUME Settings, IInv, Reader PROVE IInv'
BY ConnectKeeps, BreakKeeps DEF Reader

\* IInv is an invariant: session, follower and reader of events keep it.
THEOREM Invariance == Settings => (Spec => []IInv)
<1> SUFFICES ASSUME Settings PROVE Spec => []IInv
  OBVIOUS
<1>1. Init => IInv
  BY InitHolds
<1>2. IInv /\ [Next]_vars => IInv'
  <2> SUFFICES ASSUME IInv, [Next]_vars PROVE IInv'
    OBVIOUS
  <2>1. CASE Next
    BY <2>1, SessionStep, FollowerStep, ReaderStep DEF Next
  <2>2. CASE UNCHANGED vars
    <3>1. Waits /\ Out' = Out /\ UNCHANGED <<at, read, held, shown>>
      BY <2>2 DEF vars, session, follower, Waits, Out
    <3>2. TypeOK' /\ SnapshotInv' /\ StageInv'
      <4>1. NewTranslator' = NewTranslator /\ Writing' = Writing /\ Count' = Count
        BY <2>2 DEF vars, session, NewTranslator, Writing, Count
      <4>2. TypeOK'
        BY <2>2 DEF vars, session, follower, TypeOK
      <4>3. SnapshotInv'
        BY <2>2, <4>1 DEF vars, session, follower, SnapshotInv, HasPrompt, Ordered, Closed
      <4>4. StageInv'
        BY <2>2, <4>1 DEF vars, session, follower, StageInv
      <4> QED
        BY <4>2, <4>3, <4>4
    <3> QED
      BY <3>1, <3>2, WaitsKeeps DEF RoundInv
  <2> QED
    BY <2>1, <2>2
<1> QED
  BY <1>1, <1>2, PTL DEF Spec

\* Every variable has its type.
THEOREM TypeCorrect == Settings => (Spec => []TypeOK)
<1> SUFFICES ASSUME Settings PROVE Spec => []TypeOK
  OBVIOUS
<1>1. Spec => []IInv
  BY Invariance
<1>2. IInv => TypeOK
  OBVIOUS
<1> QED
  BY <1>1, <1>2, PTL

\* What a client is sent is, message by message, what the engine said for its task.
THEOREM OutputTrue == Settings => (Spec => []OutputIsTrue)
<1> SUFFICES ASSUME Settings PROVE Spec => []OutputIsTrue
  OBVIOUS
<1>1. Spec => []IInv
  BY Invariance
<1>2. IInv => OutputIsTrue
  <2> SUFFICES ASSUME IInv PROVE OutputIsTrue
    OBVIOUS
  <2>1. Own(shown) /\ Whole(shown)
    BY SeqTypes, FirstPart DEF OutInv, Out
  <2> QED
    BY <2>1 DEF OutputIsTrue, OwnOutput, WholeOutput, Own, Whole
<1> QED
  BY <1>1, <1>2, PTL
================================================================================
