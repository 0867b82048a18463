----------------------------- MODULE InboxProofs -----------------------------
(***************************************************************************)
(* Proofs about the inbox, for any number of messages, attempts, stops,    *)
(* deletions and any limits and cursors: the listener that writes it, the  *)
(* agent that reads it, and the two together.                              *)
(***************************************************************************)
EXTENDS Inbox, FiniteSetTheorems, TLAPS

-----------------------------------------------------------------------------
(* The listener (InboxCapture).                                            *)

USE CaptureAssumption


(* What is inductive: the log's types, and the numbering.                  *)
LogTyped == events \subseteq Events /\ sequence \in Nat
NumberedInv == LogTyped /\ EventsNumbered

(* A transaction is a step of the log, or leaves it alone.                 *)
LEMMA SaveIsLogStep ==
  ASSUME NEW m \in Messages, SaveInboxMessage(m)
  PROVE  Number(m) \/ UNCHANGED inbox
BY DEF SaveInboxMessage, HasEvent, Number

(* So is every step of the listener and of the processes around it; events *)
(* are dropped only where a deletion is counted.                           *)
CountedStep ==
  \/ (\E m \in Messages : Number(m)) /\ UNCHANGED drops
  \/ (\E m \in Messages : Drop(m)) /\ drops' = drops + 1
  \/ UNCHANGED <<inbox, drops>>

LEMMA StepIsCounted == [CaptureNext]_captureVars => CountedStep
<1> SUFFICES ASSUME [CaptureNext]_captureVars
             PROVE  CountedStep
  OBVIOUS
<1>1. ASSUME NEW m \in Messages, DropRow(m)
      PROVE  CountedStep
  BY <1>1 DEF DropRow, CountedStep
<1>2. ASSUME NEW m \in Messages, Capture(m) \/ AttemptUnknown(m)
      PROVE  CountedStep
  <2>1. SaveInboxMessage(m) /\ UNCHANGED drops
    BY <1>2 DEF Capture, AttemptUnknown
  <2> QED
    BY <2>1, SaveIsLogStep DEF CountedStep
<1>3. ASSUME NEW m \in Messages, StoreRow(m) \/ AttemptFails(m)
      PROVE  CountedStep
  BY <1>3 DEF StoreRow, AttemptFails, CountedStep
<1>4. CASE \/ Arrive \/ Connect \/ Listen \/ Dispatch \/ Pass \/ HeartbeatSave
           \/ Stop \/ Disconnect \/ KillListener
  BY <1>4 DEF Arrive, Connect, Listen, Dispatch, Pass, HeartbeatSave, Stop, Disconnect,
              KillListener, CountedStep
<1>5. CASE UNCHANGED captureVars
  BY <1>5 DEF captureVars, CountedStep
<1> QED
  BY <1>1, <1>2, <1>3, <1>4, <1>5 DEF CaptureNext, Attempt

LEMMA StepIsLogStep == [CaptureNext]_captureVars => [LogNext]_inbox
BY StepIsCounted DEF CountedStep, LogNext, inbox

(* A step of the log keeps its types and its numbering.                    *)
LEMMA LogStepNumbered ==
  ASSUME NumberedInv, LogNext \/ UNCHANGED inbox
  PROVE  NumberedInv'
<1> USE DEF NumberedInv, LogTyped, EventsNumbered
<1>1. ASSUME NEW m \in Messages, Number(m)
      PROVE  NumberedInv'
  <2> DEFINE new == [id |-> sequence + 1, message |-> m]
  <2>1. /\ sequence' = sequence + 1
        /\ events' = events \cup {new}
        /\ \A e \in events : e.message # m
    BY <1>1 DEF Number
  <2>2. new \in Events
    BY DEF Events
  <2>3. LogTyped'
    BY <2>1, <2>2
  <2>4. \A e \in events : e.id \in Nat /\ 0 < e.id /\ e.id <= sequence
    BY DEF Events
  <2>5. \A e \in events' : 0 < e.id /\ e.id <= sequence'
    BY <2>1, <2>4
  <2>6. \A e \in events : e.id # new.id /\ e.message # new.message
    BY <2>1, <2>4
  <2>7. \A e, f \in events' : e.id = f.id \/ e.message = f.message => e = f
    BY <2>1, <2>6
  <2> QED
    BY <2>3, <2>5, <2>7
<1>2. ASSUME NEW m \in Messages, Drop(m)
      PROVE  NumberedInv'
  <2>1. events' \subseteq events /\ sequence' = sequence
    BY <1>2 DEF Drop
  <2> QED
    BY <2>1
<1>3. CASE UNCHANGED inbox
  BY <1>3 DEF inbox
<1> QED
  BY <1>1, <1>2, <1>3 DEF LogNext

(* One event per message and one message per event ID, however often a     *)
(* message is delivered or a commit's answer is lost.                      *)
THEOREM EventsStayNumbered == CaptureSpec => []EventsNumbered
<1>1. CaptureInit => NumberedInv
  BY DEF CaptureInit, LogInit, NumberedInv, LogTyped, EventsNumbered
<1>2. NumberedInv /\ [CaptureNext]_captureVars => NumberedInv'
  BY StepIsLogStep, LogStepNumbered
<1>3. NumberedInv => EventsNumbered
  BY DEF NumberedInv
<1> QED
  BY <1>1, <1>2, <1>3, PTL DEF CaptureSpec

(* The listener's inbox implements the log its readers are written for:    *)
(* IDs grow in commit order and a deleted event's ID is not used again.    *)
THEOREM CaptureImplementsLog == CaptureSpec => ImplementsLog
<1>1. CaptureInit => LogInit
  BY DEF CaptureInit
<1> QED
  BY <1>1, StepIsLogStep, PTL DEF CaptureSpec, ImplementsLog, LogSpec, inbox

-----------------------------------------------------------------------------
(* The process ends, at a save of the session or without one.              *)
LEMMA EndTyped ==
  ASSUME CaptureTypeOK, End, SaveSession \/ UNCHANGED session, UNCHANGED dispatched
  PROVE  /\ stage' = "down" /\ session' \in 0..dispatched' /\ passed' = {}
         /\ task' \in [Messages -> 0..CAPTURE_ATTEMPTS]
         /\ lost' \subseteq Messages
         /\ stops' \in 0..MaxStops
<1> USE DEF CaptureTypeOK, End, CountStop
<1>1. session' \in 0..dispatched'
  BY DEF SaveSession
<1>2. 0 \in 0..CAPTURE_ATTEMPTS
  OBVIOUS
<1>3. task' \in [Messages -> 0..CAPTURE_ATTEMPTS]
  BY <1>2
<1>4. lost' \subseteq Messages
  OBVIOUS
<1>5. stops' \in 0..MaxStops
  OBVIOUS
<1> QED
  BY <1>1, <1>3, <1>4, <1>5

LEMMA BeginStopTyped ==
  ASSUME CaptureTypeOK, BeginStop
  PROVE  stage' = "stopping" /\ stops' \in 0..MaxStops
BY DEF CaptureTypeOK, BeginStop, CountStop

(* A retried attempt stays within CAPTURE_ATTEMPTS.                        *)
LEMMA AgainTyped ==
  ASSUME CaptureTypeOK, NEW m \in Messages, task[m] # 0, Again(m)
  PROVE  /\ stage' \in {stage, "stopping"} /\ (stage' = "down" => stage = "down")
         /\ task' \in [Messages -> 0..CAPTURE_ATTEMPTS]
         /\ reported' \subseteq Messages
         /\ stops' \in 0..MaxStops
<1> USE DEF CaptureTypeOK
<1>0. task[m] \in 0..CAPTURE_ATTEMPTS /\ task[m] + 1 \in Nat
  OBVIOUS
<1>1. CASE task[m] < CAPTURE_ATTEMPTS
  <2>1. task[m] + 1 \in 0..CAPTURE_ATTEMPTS
    BY <1>0, <1>1
  <2> QED
    BY <1>1, <2>1 DEF Again
<1>2. CASE ~(task[m] < CAPTURE_ATTEMPTS)
  <2>1. /\ reported' \subseteq Messages
        /\ task' = [task EXCEPT ![m] = 0]
        /\ UNCHANGED <<stage, stops>> \/ BeginStop
    BY <1>2 DEF Again
  <2>2. 0 \in 0..CAPTURE_ATTEMPTS
    OBVIOUS
  <2>3. task' \in [Messages -> 0..CAPTURE_ATTEMPTS]
    BY <2>1, <2>2
  <2> QED
    BY <2>1, <2>3, BeginStopTyped
<1> QED
  BY <1>1, <1>2

LEMMA CaptureStepTyped == CaptureTypeOK /\ NumberedInv' /\ [CaptureNext]_captureVars => CaptureTypeOK'
<1> SUFFICES ASSUME CaptureTypeOK, NumberedInv', [CaptureNext]_captureVars
             PROVE  CaptureTypeOK'
  OBVIOUS
<1> USE DEF CaptureTypeOK
<1>0. events' \subseteq Events /\ sequence' \in Nat
  BY DEF NumberedInv, LogTyped
<1>1. ASSUME NEW m \in Messages, StoreRow(m) \/ DropRow(m)
      PROVE  CaptureTypeOK'
  <2>1. CASE StoreRow(m)
    BY <1>0, <2>1 DEF StoreRow
  <2>2. CASE DropRow(m)
    <3>1. messages' \subseteq Messages /\ drops' \in 0..MaxDrops
      BY <2>2 DEF DropRow
    <3>2. UNCHANGED <<arrived, stage, dispatched, passed, session, task, reported, lost, stops>>
      BY <2>2 DEF DropRow
    <3> QED
      BY <1>0, <3>1, <3>2
  <2> QED
    BY <1>1, <2>1, <2>2
<1>2. ASSUME NEW m \in Messages, Capture(m)
      PROVE  CaptureTypeOK'
  BY <1>0, <1>2 DEF Capture, SaveInboxMessage, SaveSession
<1>3. ASSUME NEW m \in Messages, AttemptFails(m) \/ AttemptUnknown(m)
      PROVE  CaptureTypeOK'
  <2>1. /\ task[m] # 0 /\ Again(m)
        /\ UNCHANGED <<arrived, dispatched, passed, session, lost, drops>>
        /\ messages' \subseteq Messages
    BY <1>3 DEF AttemptFails, AttemptUnknown, SaveInboxMessage
  <2> QED
    BY <1>0, <2>1, AgainTyped
<1>4. CASE Arrive \/ HeartbeatSave \/ Connect \/ Listen \/ Stop
  <2>1. CASE Arrive
    BY <1>0, <2>1 DEF Arrive
  <2>2. CASE HeartbeatSave
    BY <1>0, <2>2 DEF HeartbeatSave, SaveSession
  <2>3. CASE Connect
    BY <1>0, <2>3 DEF Connect
  <2>4. CASE Listen
    BY <1>0, <2>4 DEF Listen
  <2>5. CASE Stop
    BY <1>0, <2>5, BeginStopTyped DEF Stop
  <2> QED
    BY <1>4, <2>1, <2>2, <2>3, <2>4, <2>5
<1>5. CASE Dispatch
  <2>1. dispatched' \in 0..arrived /\ session \in 0..dispatched'
    BY <1>5 DEF Dispatch
  <2>2. task' \in [Messages -> 0..CAPTURE_ATTEMPTS]
    <3>1. task' = [task EXCEPT ![dispatched'] = 1] /\ 1 \in 0..CAPTURE_ATTEMPTS
      BY <1>5 DEF Dispatch
    <3> QED
      BY <3>1
  <2> QED
    BY <1>0, <1>5, <2>1, <2>2 DEF Dispatch
<1>6. CASE Disconnect \/ KillListener
  <2>1. End /\ (SaveSession \/ UNCHANGED session)
    BY <1>6 DEF Disconnect, KillListener
  <2>2. UNCHANGED <<arrived, dispatched, messages, reported, drops>>
    BY <1>6 DEF Disconnect, KillListener
  <2> QED
    BY <1>0, <2>1, <2>2, EndTyped
<1>7. CASE Pass
  BY <1>0, <1>7 DEF Pass
<1>8. CASE UNCHANGED captureVars
  BY <1>0, <1>8 DEF captureVars, inbox
<1> QED
  BY <1>1, <1>2, <1>3, <1>4, <1>5, <1>6, <1>7, <1>8 DEF CaptureNext, Attempt

(* The session file never is past what the listener got, nor the listener  *)
(* past what was sent, and no message is tried more than CAPTURE_ATTEMPTS  *)
(* times (telegram/listener.py, capture and heartbeat).                    *)
THEOREM CaptureTypeCorrect == CaptureSpec => []CaptureTypeOK
<1>1. CaptureInit => CaptureTypeOK /\ NumberedInv
  BY DEF CaptureInit, CaptureTypeOK, LogInit, NumberedInv, LogTyped, EventsNumbered
<1>2. NumberedInv /\ [CaptureNext]_captureVars => NumberedInv'
  BY StepIsLogStep, LogStepNumbered
<1> QED
  BY <1>1, <1>2, CaptureStepTyped, PTL DEF CaptureSpec

HIDE CaptureAssumption

-----------------------------------------------------------------------------
(* The agent (InboxWait).                                                  *)

(* A call that goes on from a cursor.                                      *)
Cursored == call.wait \/ call.named \/ call.after # NoCursor

(* Every set of events has a newest one.  Stated of all subsets, because   *)
(* then it is inductive: an appended event is the newest of its sets.      *)
HasNewest(S) == \E x \in S : \A y \in S : y.id <= x.id

LogInv ==
  /\ \A e \in events : e.id <= sequence
  /\ \A S \in SUBSET events : S # {} => HasNewest(S)

(* What the call has read is older than all that it has not.               *)
RowsOldest ==
  Cursored => \A x \in call.rows, e \in After(call.baseline) : e \notin call.rows => x.id < e.id

CallInv ==
  /\ \A e \in call.rows : e.id <= sequence
  /\ call.rows # {} => HasNewest(call.rows)
  /\ call.latest <= sequence
  /\ call.wait => call.seen <= sequence \/ call.seen <= call.baseline
  /\ pc = "start" => call.rows = {}
  /\ Cursored /\ pc \notin {"idle", "start"} => call.baseline # NoCursor
  /\ pc = "baseline" => ~Cursored
  /\ pc = "browse" => ~call.wait

(* The named cursor and the call that serves the name.                     *)
NameInv ==
  /\ cursor # NoCursor => origin # NoCursor /\ (cursor <= sequence \/ cursor <= origin)
  /\ pc = "name" =>
       /\ call.named
       /\ call.after = NoCursor /\ cursor # NoCursor => call.baseline = cursor
       /\ call.wait => call.seen = call.baseline
  /\ call.named /\ pc \in {"poll", "query", "decide", "browse", "deliver"} =>
       cursor = call.baseline

Inv ==
  /\ TypeOK /\ LogInv /\ RowsOldest /\ CallInv /\ NameInv /\ PollComplete

(* For NothingSkipped the process must not die while it prints.            *)
Kept == "print" \notin KillAt => NothingSkipped

InvNamed == Inv /\ Kept

LEMMA CallFacts ==
  ASSUME TypeOK
  PROVE  /\ call.wait \in BOOLEAN /\ call.named \in BOOLEAN /\ call.settling \in BOOLEAN
         /\ call.after \in Cursors /\ call.baseline \in Cursors /\ call.limit \in Limits
         /\ call.latest \in Nat /\ call.seen \in Nat /\ call.rows \subseteq Events
         /\ Cursors \subseteq Int /\ NoCursor \in Int
         /\ \A e \in call.rows \cup events : e.id \in Nat
         /\ sequence \in Nat /\ cursor \in Cursors /\ origin \in Cursors
BY DEF TypeOK, Calls, Cursors, NoCursor, Events

(* The payload's cursor is an event of it, or the baseline.                *)
LEMMA AnswerFacts ==
  ASSUME TypeOK, CallInv
  PROVE  /\ call.rows = {} => Answer = call.baseline
         /\ call.rows # {} => \E x \in call.rows : Answer = x.id
<1>1. CASE call.rows # {}
  <2>1. PICK x \in call.rows : \A y \in call.rows : y.id <= x.id
    BY <1>1 DEF CallInv, HasNewest
  <2>2. x.id \in Ids(call.rows)
    BY DEF Ids
  <2>3. Answer \in Ids(call.rows)
    BY <1>1, <2>1, <2>2 DEF Answer
  <2> QED
    BY <1>1, <2>3 DEF Ids
<1>2. CASE call.rows = {}
  BY <1>2 DEF Answer
<1> QED
  BY <1>1, <1>2

(* Nothing between the cursor of a call and that of its answer is missing  *)
(* from the answer.                                                        *)
LEMMA AnswerWhole ==
  ASSUME TypeOK, CallInv, RowsOldest, Cursored,
         NEW e \in After(call.baseline), e.id <= Answer
  PROVE  e \in call.rows
<1>0. e.id \in Nat /\ e.id > call.baseline /\ call.baseline \in Int
  BY CallFacts DEF After
<1>1. CASE call.rows = {}
  BY <1>0, <1>1, AnswerFacts
<1>2. CASE call.rows # {}
  <2>1. PICK x \in call.rows : Answer = x.id
    BY <1>2, AnswerFacts
  <2>2. x.id \in Nat
    BY CallFacts
  <2> QED
    BY <1>0, <2>1, <2>2 DEF RowsOldest
<1> QED
  BY <1>1, <1>2

LEMMA InitInv == Init => InvNamed
<1> SUFFICES ASSUME Init PROVE InvNamed
  OBVIOUS
<1>1. PICK n \in Limits : call = NewCall(FALSE, FALSE, NoCursor, n)
  BY DEF Init
<1>2. /\ call.wait = FALSE /\ call.named = FALSE /\ call.after = NoCursor
      /\ call.latest = 0 /\ call.rows = {} /\ sequence = 0 /\ events = {}
      /\ pc = "idle" /\ cursor = NoCursor /\ origin = NoCursor
  BY <1>1 DEF NewCall, Init, LogInit
<1>3. TypeOK
  BY <1>1 DEF Init, TypeOK, LogInit, NewCall, Calls, Cursors, NoCursor, Steps
<1>4. LogInv /\ RowsOldest /\ CallInv /\ NameInv /\ PollComplete /\ Kept
  BY <1>2 DEF LogInv, RowsOldest, Cursored, CallInv, NameInv, PollComplete, Kept, NothingSkipped,
              After
<1> QED
  BY <1>3, <1>4 DEF Inv, InvNamed

-----------------------------------------------------------------------------
(* The log moves under the call.                                           *)

LEMMA LogKeeps ==
  ASSUME InvNamed, UNCHANGED <<cursor, pc, call, origin, printed>>,
         sequence' \in Nat, sequence <= sequence', events' \subseteq Events,
         \A e \in events' : e \in events \/ e.id > sequence,
         LogInv'
  PROVE  InvNamed'
<1>0. /\ call.baseline \in Int /\ call.seen \in Nat /\ call.latest \in Nat /\ origin \in Int
      /\ cursor \in Int /\ sequence \in Nat
      /\ \A e \in call.rows \cup events \cup events' : e.id \in Nat
  BY CallFacts DEF InvNamed, Inv, Events
<1>1. TypeOK'
  BY DEF InvNamed, Inv, TypeOK
<1>2. \A n : \A e \in After(n)' : e \in After(n) \/ e.id > sequence
  BY DEF After
<1>3. RowsOldest'
  <2> SUFFICES ASSUME Cursored, NEW x \in call.rows, NEW e \in After(call.baseline)',
                      e \notin call.rows
               PROVE  x.id < e.id
    BY DEF RowsOldest, Cursored
  <2>1. CASE e \in After(call.baseline)
    BY <2>1 DEF InvNamed, Inv, RowsOldest
  <2>2. CASE e.id > sequence
    <3>1. x.id <= sequence /\ x.id \in Nat /\ e.id \in Nat
      BY <1>0 DEF InvNamed, Inv, CallInv, After
    <3> QED
      BY <1>0, <2>2, <3>1
  <2> QED
    BY <1>2, <2>1, <2>2
<1>4. CallInv'
  BY <1>0 DEF InvNamed, Inv, CallInv, Cursored
<1>5. NameInv'
  BY <1>0 DEF InvNamed, Inv, NameInv
<1>6. PollComplete'
  <2> SUFFICES ASSUME call.wait, pc \in {"poll", "decide", "deliver"},
                      NEW e \in After(call.baseline)', e.id <= call.seen
               PROVE  e \in call.rows \/ Cardinality(call.rows) = call.limit
    BY DEF PollComplete
  <2>1. CASE e \in After(call.baseline)
    BY <2>1 DEF InvNamed, Inv, PollComplete
  <2>2. CASE e.id > sequence
    <3>1. call.seen <= sequence \/ call.seen <= call.baseline
      BY DEF InvNamed, Inv, CallInv
    <3>2. e.id > call.baseline /\ e.id \in Nat
      BY <1>0 DEF After
    <3> QED
      BY <1>0, <2>2, <3>1, <3>2
  <2> QED
    BY <1>2, <2>1, <2>2
<1>7. Kept'
  <2> SUFFICES ASSUME "print" \notin KillAt, NEW e \in After(origin)', origin # NoCursor, e.id <= cursor
               PROVE  e.id \in printed \/ (pc = "print" /\ call.named /\ e \in call.rows)
    BY DEF Kept, NothingSkipped
  <2>1. CASE e \in After(origin)
    BY <2>1 DEF InvNamed, Kept, NothingSkipped
  <2>2. CASE e.id > sequence
    <3>1. e.id > origin /\ e.id \in Nat
      BY <1>0 DEF After
    <3>2. cursor # NoCursor
      BY <1>0, <3>1 DEF NoCursor
    <3>3. cursor <= sequence \/ cursor <= origin
      BY <3>2 DEF InvNamed, Inv, NameInv
    <3> QED
      BY <1>0, <2>2, <3>1, <3>3
  <2> QED
    BY <1>2, <2>1, <2>2
<1> QED
  BY <1>1, <1>3, <1>4, <1>5, <1>6, <1>7 DEF InvNamed, Inv

LEMMA ListenerInv ==
  ASSUME InvNamed, NEW m \in Messages, Listener(m)
  PROVE  InvNamed'
<1>0. /\ sequence \in Nat /\ events \subseteq Events /\ LogInv
      /\ \A e \in events : e.id \in Nat
  BY CallFacts DEF InvNamed, Inv, TypeOK
<1>1. CASE Number(m)
  <2> DEFINE new == [id |-> sequence + 1, message |-> m]
  <2>1. sequence' = sequence + 1 /\ events' = events \cup {new} /\ new \in Events
        /\ new.id = sequence + 1
    BY <1>0, <1>1 DEF Number, Events
  <2> HIDE DEF new
  <2>2. \A e \in events : e.id <= new.id
    BY <1>0, <2>1 DEF LogInv
  <2>3. ASSUME NEW S \in SUBSET events', S # {} PROVE HasNewest(S)
    <3>1. CASE new \in S
      <4>1. \A y \in S : y.id <= new.id
        BY <1>0, <2>1, <2>2
      <4> QED
        BY <3>1, <4>1 DEF HasNewest
    <3>2. CASE new \notin S
      BY <1>0, <2>1, <2>3, <3>2 DEF LogInv
    <3> QED
      BY <3>1, <3>2
  <2>4. \A e \in events' : e.id <= sequence'
    BY <1>0, <2>1 DEF LogInv
  <2>5. LogInv'
    BY <2>3, <2>4 DEF LogInv
  <2>6. /\ sequence' \in Nat /\ sequence <= sequence' /\ events' \subseteq Events
        /\ \A e \in events' : e \in events \/ e.id > sequence
    BY <1>0, <2>1
  <2> QED
    BY <2>5, <2>6, LogKeeps DEF Listener
<1>2. CASE Drop(m)
  <2>1. sequence' = sequence /\ events' \subseteq events
    BY <1>2 DEF Drop
  <2>2. LogInv'
    BY <1>0, <2>1 DEF LogInv
  <2>3. sequence' \in Nat /\ sequence <= sequence' /\ events' \subseteq Events
    BY <1>0, <2>1
  <2> QED
    BY <2>1, <2>2, <2>3, LogKeeps DEF Listener
<1> QED
  BY <1>1, <1>2 DEF Listener

-----------------------------------------------------------------------------
(* The call moves.                                                         *)

(* A query's rows, and what they leave.                                    *)
LEMMA QueryFacts ==
  ASSUME TypeOK, LogInv, NEW rows \in SUBSET events, NEW n \in Int, NEW limit,
         InboxEvents(rows, n, limit)
  PROVE  /\ rows \subseteq Events /\ \A e \in rows : e.id <= sequence
         /\ rows # {} => HasNewest(rows)
         /\ n # NoCursor => \A x \in rows, e \in After(n) : e \notin rows => x.id < e.id
         /\ rows = After(n) \/ Cardinality(rows) = limit
BY DEF TypeOK, LogInv, InboxEvents

LEMMA CallKeeps ==
  ASSUME InvNamed,
         \/ Begin \/ StartCursor \/ PollLatest \/ PollQuery \/ WaitFirst \/ Settle \/ Browse
         \/ BrowseBaseline \/ Kill
  PROVE  InvNamed'
<1> USE DEF InvNamed, Inv
<1>0. UNCHANGED <<events, sequence, cursor, origin, printed>>
  BY DEF Begin, StartCursor, PollLatest, PollQuery, WaitFirst, Settle, Browse, BrowseBaseline,
         Kill, UnchangedLog, UnchangedName
<1>1. LogInv' /\ \A n : After(n)' = After(n)
  BY <1>0 DEF LogInv, After
<1>2. ASSUME call' \in Calls, pc' \in Steps PROVE TypeOK'
  BY <1>0, <1>2 DEF TypeOK
<1>3. ASSUME pc = "print" => "print" \in KillAt PROVE Kept'
  BY <1>0, <1>1, <1>3 DEF Kept, NothingSkipped
<1>4. /\ call \in Calls /\ call.baseline \in Int /\ call.after \in Int /\ call.seen \in Nat
      /\ call.latest \in Nat /\ sequence \in Nat /\ cursor \in Cursors
      /\ Nat \subseteq Cursors /\ NoCursor \in Cursors /\ Cursors \subseteq Int
      /\ call.after \in Cursors /\ call.baseline \in Cursors
      /\ call.wait \in BOOLEAN /\ call.named \in BOOLEAN
  BY CallFacts DEF TypeOK, Cursors
<1>5. CASE Begin
  <2>1. PICK wait \in BOOLEAN, named \in BOOLEAN, after \in Afters \cup {NoCursor}, limit \in Limits :
          call' = NewCall(wait, named, after, limit)
    BY <1>5 DEF Begin
  <2>2. pc = "idle" /\ pc' = "start"
    BY <1>5 DEF Begin, Goto
  <2>3. after \in Cursors
    BY WaitAssumption DEF Cursors
  <2>4. call' \in Calls
    BY <1>4, <2>1, <2>3 DEF NewCall, Calls
  <2>5. call'.rows = {} /\ call'.latest = 0 /\ call'.seen = 0
    BY <2>1 DEF NewCall
  <2>6. RowsOldest' /\ CallInv' /\ NameInv' /\ PollComplete'
    BY <1>0, <1>4, <2>2, <2>5 DEF RowsOldest, CallInv, NameInv, PollComplete
  <2> QED
    BY <1>1, <1>2, <1>3, <2>2, <2>4, <2>6 DEF Steps
<1>6. CASE StartCursor
  <2> DEFINE from == IF call.after # NoCursor THEN call.after
                     ELSE IF call.named /\ cursor # NoCursor THEN cursor
                     ELSE IF call.named \/ call.wait THEN sequence ELSE NoCursor
  <2>1. /\ pc = "start" /\ pc' = IF call.named THEN "name" ELSE IF call.wait THEN "poll" ELSE "browse"
        /\ call' = [call EXCEPT !.baseline = from, !.seen = IF call.wait THEN from ELSE 0]
    BY <1>6 DEF StartCursor, Goto
  <2>2. from \in Cursors /\ (Cursored => from # NoCursor) /\ (call.wait => from \in Nat)
    BY <1>4 DEF Cursored, Cursors, NoCursor
  <2>3. from = IF call.after # NoCursor THEN call.after
               ELSE IF call.named /\ cursor # NoCursor THEN cursor
               ELSE IF call.named \/ call.wait THEN sequence ELSE NoCursor
    OBVIOUS
  <2> HIDE DEF from
  <2>4. call' \in Calls
    BY <1>4, <2>1, <2>2 DEF Calls
  <2>5. /\ call'.baseline = from /\ call'.seen = (IF call.wait THEN from ELSE 0)
        /\ call'.wait = call.wait /\ call'.named = call.named /\ call'.after = call.after
        /\ call'.rows = {} /\ call'.latest = call.latest
    BY <1>4, <2>1 DEF Calls, CallInv
  <2>6. RowsOldest' /\ CallInv'
    BY <1>0, <1>4, <2>1, <2>2, <2>5 DEF RowsOldest, CallInv, Cursored
  <2>7. NameInv'
    BY <1>0, <1>4, <2>1, <2>3, <2>5 DEF NameInv
  <2>8. PollComplete'
    <3> SUFFICES ASSUME call.wait, NEW e \in After(from), e.id <= from PROVE FALSE
      BY <1>1, <2>5 DEF PollComplete
    <3>1. e.id > from /\ e.id \in Int /\ from \in Int
      BY <1>4, <2>2, CallFacts DEF After
    <3> QED
      BY <3>1
  <2> QED
    BY <1>1, <1>2, <1>3, <2>1, <2>4, <2>6, <2>7, <2>8 DEF Steps
<1>7. CASE PollLatest
  <2>1. /\ pc = "poll" /\ pc' = IF sequence > call.seen THEN "query" ELSE "decide"
        /\ call' = [call EXCEPT !.latest = sequence]
    BY <1>7 DEF PollLatest, Goto
  <2>2. call' \in Calls /\ call'.latest = sequence
    BY <1>4, <2>1 DEF Calls
  <2>3. /\ call'.baseline = call.baseline /\ call'.seen = call.seen /\ call'.limit = call.limit
        /\ call'.wait = call.wait /\ call'.named = call.named /\ call'.after = call.after
        /\ call'.rows = call.rows
    BY <1>4, <2>1 DEF Calls
  <2>4. RowsOldest' /\ CallInv' /\ NameInv' /\ PollComplete'
    BY <1>0, <1>1, <1>4, <2>1, <2>2, <2>3
    DEF RowsOldest, CallInv, Cursored, NameInv, PollComplete
  <2> QED
    BY <1>1, <1>2, <1>3, <2>1, <2>2, <2>4 DEF Steps
<1>8. CASE PollQuery
  <2>1. PICK rows \in SUBSET events :
          /\ InboxEvents(rows, call.baseline, call.limit)
          /\ call' = [call EXCEPT !.rows = rows, !.seen = call.latest]
    BY <1>8 DEF PollQuery
  <2>2. pc = "query" /\ pc' = "decide"
    BY <1>8 DEF PollQuery, Goto
  <2>3. /\ rows \subseteq Events /\ \A e \in rows : e.id <= sequence
        /\ rows # {} => HasNewest(rows)
        /\ call.baseline # NoCursor =>
             \A x \in rows, e \in After(call.baseline) : e \notin rows => x.id < e.id
        /\ rows = After(call.baseline) \/ Cardinality(rows) = call.limit
    BY <1>4, <2>1, QueryFacts
  <2>4. call' \in Calls
    BY <1>4, <2>1, <2>3 DEF Calls
  <2>5. /\ call'.baseline = call.baseline /\ call'.seen = call.latest /\ call'.limit = call.limit
        /\ call'.wait = call.wait /\ call'.named = call.named /\ call'.after = call.after
        /\ call'.rows = rows /\ call'.latest = call.latest
    BY <1>4, <2>1 DEF Calls
  <2>6. RowsOldest'
    BY <1>1, <2>2, <2>3, <2>5 DEF RowsOldest, CallInv, Cursored
  <2>7. CallInv' /\ NameInv'
    BY <1>0, <2>2, <2>3, <2>5 DEF CallInv, NameInv, Cursored
  <2>8. PollComplete'
    BY <1>1, <2>3, <2>5 DEF PollComplete
  <2> QED
    BY <1>1, <1>2, <1>3, <2>2, <2>4, <2>6, <2>7, <2>8 DEF Steps
<1>9. CASE WaitFirst \/ Kill
  <2>1. /\ call' = call
        /\ pc = "print" => "print" \in KillAt
        /\ pc' \in {"idle", "print", "poll"}
        /\ pc' # "idle" => pc = "decide"
    BY <1>9 DEF WaitFirst, Kill, Goto
  <2>2. RowsOldest' /\ CallInv' /\ NameInv' /\ PollComplete'
    BY <1>0, <1>1, <2>1 DEF RowsOldest, CallInv, Cursored, NameInv, PollComplete
  <2> QED
    BY <1>1, <1>2, <1>3, <1>4, <2>1, <2>2 DEF Steps
<1>10. CASE Settle
  <2>1. /\ call' = [call EXCEPT !.settling = TRUE] /\ pc = "decide"
        /\ pc' \in {"raw", "deliver", "poll"}
    BY <1>10 DEF Settle, Goto
  <2>2. call' \in Calls
    BY <1>4, <2>1 DEF Calls
  <2>3. /\ call'.baseline = call.baseline /\ call'.seen = call.seen /\ call'.limit = call.limit
        /\ call'.wait = call.wait /\ call'.named = call.named /\ call'.after = call.after
        /\ call'.rows = call.rows /\ call'.latest = call.latest
    BY <1>4, <2>1 DEF Calls
  <2>4. RowsOldest' /\ CallInv' /\ NameInv' /\ PollComplete'
    BY <1>0, <1>1, <2>1, <2>3 DEF RowsOldest, CallInv, Cursored, NameInv, PollComplete
  <2> QED
    BY <1>1, <1>2, <1>3, <2>1, <2>2, <2>4 DEF Steps
<1>11. CASE Browse
  <2>1. PICK rows \in SUBSET events :
          /\ InboxEvents(rows, call.baseline, call.limit)
          /\ call' = [call EXCEPT !.rows = rows]
    BY <1>11 DEF Browse
  <2>2. pc = "browse" /\ pc' = IF call.baseline = NoCursor THEN "baseline" ELSE "deliver"
    BY <1>11 DEF Browse, Goto
  <2>3. /\ rows \subseteq Events /\ \A e \in rows : e.id <= sequence
        /\ rows # {} => HasNewest(rows)
        /\ call.baseline # NoCursor =>
             \A x \in rows, e \in After(call.baseline) : e \notin rows => x.id < e.id
    BY <1>4, <2>1, QueryFacts
  <2>4. call' \in Calls
    BY <1>4, <2>1, <2>3 DEF Calls
  <2>5. /\ call'.baseline = call.baseline /\ call'.seen = call.seen /\ call'.limit = call.limit
        /\ call'.wait = call.wait /\ call'.named = call.named /\ call'.after = call.after
        /\ call'.rows = rows /\ call'.latest = call.latest
    BY <1>4, <2>1 DEF Calls
  <2>6. RowsOldest'
    BY <1>1, <2>2, <2>3, <2>5 DEF RowsOldest, CallInv, Cursored
  <2>7. CallInv' /\ NameInv'
    BY <1>0, <2>2, <2>3, <2>5 DEF CallInv, NameInv, Cursored
  <2>8. ~call.wait
    BY <2>2 DEF CallInv
  <2>9. PollComplete'
    BY <2>5, <2>8 DEF PollComplete
  <2> QED
    BY <1>1, <1>2, <1>3, <2>2, <2>4, <2>6, <2>7, <2>9 DEF Steps
<1>12. CASE BrowseBaseline
  <2>1. /\ call' = [call EXCEPT !.baseline = sequence] /\ pc = "baseline" /\ pc' = "deliver"
        /\ ~Cursored
    BY <1>12 DEF BrowseBaseline, Goto, CallInv
  <2>2. call' \in Calls
    BY <1>4, <2>1 DEF Calls
  <2>3. /\ call'.baseline = sequence /\ call'.seen = call.seen
        /\ call'.wait = call.wait /\ call'.named = call.named /\ call'.after = call.after
        /\ call'.rows = call.rows /\ call'.latest = call.latest
    BY <1>4, <2>1 DEF Calls
  <2>4. RowsOldest' /\ CallInv' /\ NameInv' /\ PollComplete'
    BY <1>0, <1>4, <2>1, <2>3 DEF RowsOldest, CallInv, Cursored, NameInv, PollComplete
  <2> QED
    BY <1>1, <1>2, <1>3, <2>1, <2>2, <2>4 DEF Steps
<1> QED
  BY <1>5, <1>6, <1>7, <1>8, <1>9, <1>10, <1>11, <1>12

(* What an agent is told is next to what it was told before.               *)
LEMMA NameMoves ==
  ASSUME InvNamed, SaveStart \/ Deliver \/ Output
  PROVE  InvNamed'
<1> USE DEF InvNamed, Inv
<1>0. UNCHANGED <<events, sequence, call>>
  BY DEF SaveStart, Deliver, Output, UnchangedLog
<1>1. LogInv' /\ \A n : After(n)' = After(n)
  BY <1>0 DEF LogInv, After
<1>2. /\ call.baseline \in Cursors /\ call.seen \in Nat /\ sequence \in Nat
      /\ cursor \in Cursors /\ origin \in Cursors /\ Cursors \subseteq Int
      /\ Nat \subseteq Cursors /\ printed \subseteq Nat
      /\ \A e \in call.rows \cup events : e.id \in Nat
  BY CallFacts DEF TypeOK, Cursors
<1>3. RowsOldest'
  BY <1>0, <1>1 DEF RowsOldest, Cursored
<1>4. CASE SaveStart
  <2>1. /\ pc = "name" /\ pc' = IF call.wait THEN "poll" ELSE "browse"
        /\ origin' = IF call.after # NoCursor \/ cursor = NoCursor THEN call.baseline ELSE origin
        /\ cursor' = call.baseline /\ printed' = printed
    BY <1>4 DEF SaveStart, Goto
  <2>2. /\ call.named /\ call.baseline # NoCursor
        /\ call.after = NoCursor /\ cursor # NoCursor => call.baseline = cursor
        /\ call.wait => call.seen = call.baseline
    BY <2>1 DEF NameInv, CallInv, Cursored
  <2>3. TypeOK'
    BY <1>0, <1>2, <2>1 DEF TypeOK, Steps
  <2>4. CallInv'
    BY <1>0, <2>1 DEF CallInv, Cursored
  <2>5. NameInv'
    <3>1. CASE call.after # NoCursor \/ cursor = NoCursor
      <4>1. origin' = call.baseline /\ cursor' = call.baseline /\ call.baseline \in Int
        BY <1>2, <2>1, <3>1
      <4> QED
        BY <1>0, <2>1, <2>2, <4>1 DEF NameInv
    <3>2. CASE ~(call.after # NoCursor \/ cursor = NoCursor)
      <4>1. origin' = origin /\ cursor' = cursor /\ cursor = call.baseline
        BY <2>1, <2>2, <3>2
      <4> QED
        BY <1>0, <2>1, <2>2, <4>1 DEF NameInv
    <3> QED
      BY <3>1, <3>2
  <2>6. PollComplete'
    <3> SUFFICES ASSUME call.wait, NEW e \in After(call.baseline), e.id <= call.seen PROVE FALSE
      BY <1>0, <1>1 DEF PollComplete
    <3>1. e.id > call.baseline /\ e.id \in Int /\ call.baseline \in Int
      BY <1>2 DEF After
    <3> QED
      BY <2>2, <3>1
  <2>7. Kept'
    <3> SUFFICES ASSUME "print" \notin KillAt, NEW e \in After(origin'),
                        origin' # NoCursor, e.id <= cursor'
                 PROVE  e.id \in printed
      BY <1>1, <2>1 DEF Kept, NothingSkipped
    <3>1. e.id > origin' /\ e.id \in Int /\ origin' \in Int
      BY <1>2, <2>1 DEF After
    <3>2. origin' = origin /\ cursor' = cursor
      BY <1>2, <2>1, <2>2, <3>1
    <3> QED
      BY <2>1, <3>2 DEF Kept, NothingSkipped
  <2> QED
    BY <1>1, <1>3, <2>3, <2>4, <2>5, <2>6, <2>7
<1>5. CASE Deliver
  <2>1. /\ pc = "deliver" /\ pc' = "print" /\ origin' = origin /\ printed' = printed
        /\ cursor' = IF call.named THEN Answer ELSE cursor
    BY <1>5 DEF Deliver, Goto
  <2>2. call.named => call.baseline # NoCursor /\ cursor = call.baseline /\ origin # NoCursor
                      /\ Cursored
    BY <2>1 DEF CallInv, NameInv, Cursored
  <2>3. /\ Answer = call.baseline \/ \E x \in call.rows : Answer = x.id
        /\ \A x \in call.rows : x.id <= sequence
    BY AnswerFacts DEF CallInv
  <2>4. TypeOK'
    BY <1>0, <1>2, <2>1, <2>3 DEF TypeOK, Steps
  <2>5. CallInv' /\ PollComplete'
    BY <1>0, <2>1 DEF CallInv, Cursored, PollComplete
  <2>6. NameInv'
    BY <1>0, <1>2, <2>1, <2>2, <2>3 DEF NameInv
  <2>7. Kept'
    <3> SUFFICES ASSUME "print" \notin KillAt, NEW e \in After(origin),
                        origin # NoCursor, e.id <= cursor'
                 PROVE  e.id \in printed \/ (call.named /\ e \in call.rows)
      BY <1>0, <1>1, <2>1 DEF Kept, NothingSkipped
    <3>1. CASE e.id <= cursor
      BY <2>1, <3>1 DEF Kept, NothingSkipped
    <3>2. CASE ~(e.id <= cursor)
      <4>1. call.named /\ e.id <= Answer
        BY <2>1, <3>2
      <4>2. e \in After(call.baseline)
        BY <1>2, <2>2, <3>2, <4>1 DEF After
      <4> QED
        BY <2>2, <4>1, <4>2, AnswerWhole
    <3> QED
      BY <3>1, <3>2
  <2> QED
    BY <1>1, <1>3, <2>4, <2>5, <2>6, <2>7
<1>6. CASE Output
  <2>1. /\ pc = "print" /\ pc' = "idle" /\ origin' = origin /\ cursor' = cursor
        /\ printed' = IF call.named THEN printed \cup Ids(call.rows) ELSE printed
    BY <1>6 DEF Output, Goto
  <2>2. Ids(call.rows) \subseteq Nat /\ \A e \in call.rows : e.id \in Ids(call.rows)
    BY <1>2 DEF Ids
  <2>3. TypeOK'
    BY <1>0, <1>2, <2>1, <2>2 DEF TypeOK, Steps
  <2>4. CallInv' /\ NameInv' /\ PollComplete'
    BY <1>0, <2>1 DEF CallInv, Cursored, NameInv, PollComplete
  <2>5. Kept'
    BY <1>1, <2>1, <2>2 DEF Kept, NothingSkipped
  <2> QED
    BY <1>1, <1>3, <2>3, <2>4, <2>5
<1> QED
  BY <1>4, <1>5, <1>6

LEMMA StepInv == InvNamed /\ [Next]_vars => InvNamed'
<1> SUFFICES ASSUME InvNamed, [Next]_vars PROVE InvNamed'
  OBVIOUS
<1>1. CASE \E m \in Messages : Listener(m)
  BY <1>1, ListenerInv
<1>2. CASE \/ Begin \/ StartCursor \/ PollLatest \/ PollQuery \/ WaitFirst \/ Settle \/ Browse
           \/ BrowseBaseline \/ Kill
  BY <1>2, CallKeeps
<1>3. CASE SaveStart \/ Deliver \/ Output
  BY <1>3, NameMoves
<1>4. CASE UNCHANGED vars
  BY <1>4 DEF vars, InvNamed, Inv, TypeOK, LogInv, RowsOldest, CallInv, NameInv, PollComplete, Kept,
              NothingSkipped, After, Cursored
<1> QED
  BY <1>1, <1>2, <1>3, <1>4 DEF Next, ReaderNext

LEMMA Invariant == Spec => []InvNamed
BY InitInv, StepInv, PTL DEF Spec

-----------------------------------------------------------------------------
(* The store's cursors, the call's variables and what was printed keep     *)
(* their types whatever the listener and the calls do in between           *)
(* (cli/local.py, _inbox, _wait and _deliver).                             *)
THEOREM TypeCorrect == Spec => []TypeOK
<1>1. InvNamed => TypeOK
  BY DEF InvNamed, Inv
<1> QED
  BY <1>1, Invariant, PTL

(* A poll that does not query because the account's cursor stands where it *)
(* stood misses nothing (cli/local.py, _wait: poll).                       *)
THEOREM PollsComplete == Spec => []PollComplete
<1>1. InvNamed => PollComplete
  BY DEF InvNamed, Inv
<1> QED
  BY <1>1, Invariant, PTL

(* A call with a cursor answers with every wanted event between that       *)
(* cursor and the one it returns (cli/local.py, _inbox_payload).           *)
THEOREM AnswersComplete == Spec => []AnswerComplete
<1>1. InvNamed => AnswerComplete
  <2> SUFFICES ASSUME InvNamed, Cursored, NEW e \in After(call.baseline), e.id <= Answer
               PROVE  e \in call.rows
    BY DEF AnswerComplete, Cursored
  <2> QED
    BY AnswerWhole DEF InvNamed, Inv
<1> QED
  BY <1>1, Invariant, PTL

(* An agent that goes by its name sees every wanted event, as long as no   *)
(* call dies between saving the cursor and printing (cli/local.py,         *)
(* _start_cursor and _deliver).                                            *)
THEOREM NoneSkipped ==
  ASSUME "print" \notin KillAt
  PROVE  Spec => []NothingSkipped
<1>1. InvNamed => NothingSkipped
  BY DEF InvNamed, Kept
<1> QED
  BY <1>1, Invariant, PTL

-----------------------------------------------------------------------------
(* The two together (Inbox): what the agent takes for granted of its       *)
(* environment is what the listener does.                                  *)

(* Messages with an event, and a bound on the IDs handed out: an ID is     *)
(* spent for a message without an event, and one loses its event only to a *)
(* deletion.                                                               *)
Recorded == {m \in Messages : HasEvent(m)}

BudgetInv == CaptureTypeOK /\ NumberedInv /\ sequence <= Cardinality(Recorded) + drops

LEMMA RecordedFinite ==
  /\ IsFiniteSet(Messages) /\ Cardinality(Messages) = MaxMessage
  /\ IsFiniteSet(Recorded) /\ Cardinality(Recorded) \in Nat
<1>1. IsFiniteSet(Messages) /\ Cardinality(Messages) = MaxMessage
  BY CaptureAssumption, FS_Interval
<1>2. Recorded \subseteq Messages
  BY DEF Recorded
<1>3. IsFiniteSet(Recorded)
  BY <1>1, <1>2, FS_Subset
<1> QED
  BY <1>1, <1>3, FS_CardinalityType

(* A message yet without an event: there is an ID left for it.             *)
LEMMA IdLeft ==
  ASSUME BudgetInv, NEW m \in Messages, ~HasEvent(m)
  PROVE  sequence < MaxMessage + MaxDrops
<1>1. /\ IsFiniteSet(Messages \ {m}) /\ Cardinality(Messages \ {m}) = MaxMessage - 1
  BY RecordedFinite, FS_RemoveElement
<1>2. Recorded \subseteq Messages \ {m}
  BY DEF Recorded
<1>3. Cardinality(Recorded) <= MaxMessage - 1
  BY <1>1, <1>2, FS_Subset
<1>4. drops \in 0..MaxDrops /\ sequence \in Nat
  BY DEF BudgetInv, CaptureTypeOK
<1>5. sequence <= Cardinality(Recorded) + drops
  BY DEF BudgetInv
<1>6. MaxMessage \in Nat /\ MaxDrops \in Nat
  BY CaptureAssumption
<1> QED
  BY <1>3, <1>4, <1>5, <1>6, RecordedFinite

LEMMA BudgetStep == BudgetInv /\ [CaptureNext]_captureVars => BudgetInv'
<1> SUFFICES ASSUME BudgetInv, [CaptureNext]_captureVars
             PROVE  BudgetInv'
  OBVIOUS
<1>1. CaptureTypeOK /\ NumberedInv /\ sequence <= Cardinality(Recorded) + drops
  BY DEF BudgetInv
<1>2. NumberedInv'
  BY <1>1, StepIsLogStep, LogStepNumbered
<1>3. CaptureTypeOK'
  BY <1>1, <1>2, CaptureStepTyped
<1>4. /\ sequence \in Nat /\ drops \in Nat /\ IsFiniteSet(Recorded)
      /\ Cardinality(Recorded) \in Nat
  BY <1>1, RecordedFinite, CaptureAssumption DEF CaptureTypeOK
<1>5. sequence' <= Cardinality(Recorded') + drops'
  <2>1. ASSUME NEW m \in Messages, Number(m), UNCHANGED drops
        PROVE  sequence' <= Cardinality(Recorded') + drops'
    <3>1. /\ sequence' = sequence + 1 /\ m \notin Recorded
          /\ events' = events \cup {[id |-> sequence', message |-> m]}
      BY <2>1 DEF Number, Recorded, HasEvent
    <3>2. Recorded' = Recorded \cup {m}
      <4> DEFINE new == [id |-> sequence', message |-> m]
      <4>1. events' = events \cup {new} /\ new.message = m
        BY <3>1
      <4> HIDE DEF new
      <4>2. \A n \in Messages : HasEvent(n)' <=> HasEvent(n) \/ n = m
        BY <4>1 DEF HasEvent
      <4> QED
        BY <4>2 DEF Recorded
    <3>3. Cardinality(Recorded') = Cardinality(Recorded) + 1
      BY <1>4, <3>1, <3>2, FS_AddElement
    <3> QED
      BY <1>1, <1>4, <2>1, <3>1, <3>3
  <2>2. ASSUME NEW m \in Messages, Drop(m), drops' = drops + 1
        PROVE  sequence' <= Cardinality(Recorded') + drops'
    <3>1. Recorded' = Recorded \ {m} /\ sequence' = sequence
      BY <2>2 DEF Drop, Recorded, HasEvent
    <3>2. Cardinality(Recorded') \in Nat /\ Cardinality(Recorded) <= Cardinality(Recorded') + 1
      <4>1. CASE m \in Recorded
        <5>1. Cardinality(Recorded') = Cardinality(Recorded) - 1 /\ IsFiniteSet(Recorded')
          BY <1>4, <3>1, <4>1, FS_RemoveElement
        <5> QED
          BY <1>4, <5>1, FS_CardinalityType
      <4>2. CASE m \notin Recorded
        <5>1. Recorded' = Recorded
          BY <3>1, <4>2
        <5> QED
          BY <1>4, <5>1
      <4> QED
        BY <4>1, <4>2
    <3> QED
      BY <1>1, <1>4, <2>2, <3>1, <3>2
  <2>3. ASSUME UNCHANGED <<inbox, drops>>
        PROVE  sequence' <= Cardinality(Recorded') + drops'
    BY <1>1, <2>3 DEF inbox, Recorded, HasEvent
  <2> QED
    BY <2>1, <2>2, <2>3, StepIsCounted DEF CountedStep
<1> QED
  BY <1>2, <1>3, <1>5 DEF BudgetInv

LEMMA BudgetHolds == InboxSpec => []BudgetInv
<1>1. InboxInit => BudgetInv
  <2> SUFFICES ASSUME InboxInit PROVE BudgetInv
    OBVIOUS
  <2>1. CaptureTypeOK /\ NumberedInv
    BY CaptureAssumption
    DEF InboxInit, CaptureInit, CaptureTypeOK, LogInit, NumberedInv, LogTyped, EventsNumbered
  <2>2. sequence = 0 /\ drops = 0
    BY DEF InboxInit, CaptureInit, LogInit
  <2> QED
    BY <2>1, <2>2, RecordedFinite DEF BudgetInv
<1>2. BudgetInv /\ [InboxNext]_<<captureVars, readerVars>> => BudgetInv'
  <2>1. [InboxNext]_<<captureVars, readerVars>> => [CaptureNext]_captureVars
    BY DEF InboxNext, ReaderNext, captureVars, listenerVars, inbox, Begin, StartCursor, SaveStart,
           PollLatest, PollQuery, WaitFirst, Settle, Browse, BrowseBaseline, Deliver, Output, Kill,
           UnchangedLog
  <2> QED
    BY <2>1, BudgetStep
<1> QED
  BY <1>1, <1>2, PTL DEF InboxSpec

(* The listener is the environment the agent is written for: whatever it   *)
(* retries, loses or is restarted from, each of its steps is one that      *)
(* InboxWait allows between two statements of a call (telegram/listener.py *)
(* on one side, cli/local.py on the other, the two inbox tables between).  *)
THEOREM ListenerIsEnvironment ==
  ASSUME MaxMessage + MaxDrops <= MaxEvents
  PROVE  InboxSpec => Spec
<1>1. InboxInit => Init
  BY DEF InboxInit
<1>2. BudgetInv /\ [InboxNext]_<<captureVars, readerVars>> => [Next]_vars
  <2> SUFFICES ASSUME BudgetInv, [InboxNext]_<<captureVars, readerVars>>
               PROVE  Next \/ UNCHANGED vars
    OBVIOUS
  <2>1. ASSUME [CaptureNext]_captureVars, UNCHANGED readerVars
        PROVE  Next \/ UNCHANGED vars
    <3>1. UNCHANGED <<cursor, pc, call, origin, printed>>
      BY <2>1 DEF readerVars
    <3>2. ASSUME NEW m \in Messages, Number(m)
          PROVE  Listener(m)
      <4>1. ~HasEvent(m)
        BY <3>2 DEF Number, HasEvent
      <4>2. sequence < MaxMessage + MaxDrops
        BY <4>1, IdLeft
      <4>3. sequence \in Nat /\ MaxEvents \in Nat /\ MaxMessage \in Nat /\ MaxDrops \in Nat
        BY CaptureAssumption, WaitAssumption DEF BudgetInv, CaptureTypeOK
      <4>4. sequence < MaxEvents
        BY <4>2, <4>3
      <4> QED
        BY <3>1, <3>2, <4>4 DEF Listener
    <3>3. ASSUME NEW m \in Messages, Drop(m)
          PROVE  Listener(m)
      BY <3>1, <3>3 DEF Listener
    <3>4. CASE UNCHANGED inbox
      BY <3>1, <3>4 DEF inbox, vars
    <3>5. (\E m \in Messages : Number(m) \/ Drop(m)) \/ UNCHANGED inbox
      BY <2>1, StepIsCounted DEF CountedStep
    <3> QED
      BY <3>2, <3>3, <3>4, <3>5 DEF Next
  <2>2. CASE ReaderNext
    BY <2>2 DEF Next
  <2>3. CASE UNCHANGED <<captureVars, readerVars>>
    BY <2>1, <2>3
  <2> QED
    BY <2>1, <2>2, <2>3 DEF InboxNext
<1> QED
  BY <1>1, <1>2, BudgetHolds, PTL DEF InboxSpec, Spec

(* End to end: an agent that goes by its name is shown every wanted        *)
(* message that was captured and not deleted, through retries of a commit, *)
(* restarts of the listener and `tele get`, as long as no call of its own  *)
(* dies while printing; and no two of the events share an ID or a message. *)
THEOREM CapturedReachesAgent ==
  ASSUME MaxMessage + MaxDrops <= MaxEvents, "print" \notin KillAt
  PROVE  InboxSpec => [](NothingSkipped /\ EventsNumbered)
<1>1. BudgetInv => EventsNumbered
  BY DEF BudgetInv, NumberedInv
<1>2. InboxSpec => []NothingSkipped
  BY ListenerIsEnvironment, NoneSkipped
<1> QED
  BY <1>1, <1>2, BudgetHolds, PTL
=============================================================================
