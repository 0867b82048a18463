------------------------------ MODULE InboxWait ------------------------------
(***************************************************************************)
(* An agent reading the inbox: successive calls of `tele-local inbox` and  *)
(* `tele-local wait`, with a numeric cursor of its own or with a named one *)
(* the store keeps (--consumer; one name serves one agent, as the docs     *)
(* ask).  The listener appends to the log, and `tele get` drops events     *)
(* from it, between any two statements of a call.                          *)
(*                                                                         *)
(* Time is abstracted: a wait may time out, find no listener or find its   *)
(* chats quiet whenever the code looks at the clock.                       *)
(***************************************************************************)
EXTENDS InboxLog, Integers, FiniteSets

CONSTANTS
  Wanted,     \* messages of the call's --user and --from
  Limits,     \* values of --limit
  Afters,     \* values of --after
  KillAt,     \* steps at which the process may be killed or its output closed
  MaxEvents   \* bound: events appended

ASSUME WaitAssumption ==
  /\ Wanted \subseteq Messages
  /\ Limits \subseteq Nat \ {0}
  /\ Afters \subseteq Nat
  /\ MaxEvents \in Nat

VARIABLES
  cursor,     \* inbox_consumers.last_event_id of the name, or NoCursor
  pc,         \* where the current call stands
  call,       \* its arguments and local variables
  origin,     \* where the name was last told to start
  printed     \* events printed to the agent under the name

vars == <<events, sequence, cursor, pc, call, origin, printed>>

NoCursor == -1
Cursors == Nat \cup {NoCursor}

Steps == {"idle", "start", "name", "poll", "query", "decide", "browse",
          "baseline", "deliver", "print", "raw"}

Calls == [wait : BOOLEAN, named : BOOLEAN, after : Cursors, limit : Limits,
          baseline : Cursors, latest : Nat, seen : Nat, rows : SUBSET Events,
          settling : BOOLEAN]

TypeOK ==
  /\ events \subseteq Events
  /\ sequence \in Nat
  /\ cursor \in Cursors
  /\ pc \in Steps
  /\ call \in Calls
  /\ origin \in Cursors
  /\ printed \subseteq Nat

NewCall(wait, named, after, limit) ==
  [wait |-> wait, named |-> named, after |-> after, limit |-> limit, baseline |-> NoCursor,
   latest |-> 0, seen |-> 0, rows |-> {}, settling |-> FALSE]

Init ==
  /\ LogInit
  /\ cursor = NoCursor
  /\ pc = "idle"
  /\ call \in {NewCall(FALSE, FALSE, NoCursor, n) : n \in Limits}
  /\ origin = NoCursor
  /\ printed = {}

-----------------------------------------------------------------------------
Ids(rows) == {e.id : e \in rows}

After(n) == {e \in events : e.message \in Wanted /\ e.id > n}

NewestAfter(rows, n, limit) ==        \* mutant: DESC whatever the cursor
  /\ rows \subseteq After(n)
  /\ \A x \in rows, y \in After(n) \ rows : x.id > y.id
  /\ rows = After(n) \/ Cardinality(rows) = limit
  /\ Cardinality(rows) <= limit

(* inbox_events: the oldest ones after a cursor, the newest ones without.  *)
InboxEvents(rows, n, limit) ==
  /\ rows \subseteq After(n)
  /\ \A x \in rows, y \in After(n) \ rows : IF n = NoCursor THEN x.id > y.id ELSE x.id < y.id
  /\ rows = After(n) \/ Cardinality(rows) = limit
  /\ Cardinality(rows) <= limit

AnswerSeen ==                         \* mutant: the last cursor polled
  IF call.rows = {} THEN call.baseline ELSE IF call.wait THEN call.seen ELSE sequence

(* The cursor of the payload: the newest event in it, else the baseline.   *)
Answer ==
  IF call.rows = {} THEN call.baseline
  ELSE CHOOSE n \in Ids(call.rows) : \A e \in call.rows : e.id <= n

Goto(from, to) == pc = from /\ pc' = to

UnchangedLog == UNCHANGED <<events, sequence>>
UnchangedName == UNCHANGED <<cursor, origin, printed>>

(* The listener captures a message; `tele get` finds one deleted.          *)
Listener(m) ==
  /\ \/ sequence < MaxEvents /\ Number(m)
     \/ Drop(m)
  /\ UNCHANGED <<cursor, pc, call, origin, printed>>

Begin ==
  /\ Goto("idle", "start")
  /\ \E wait, named \in BOOLEAN, after \in Afters \cup {NoCursor}, limit \in Limits :
       call' = NewCall(wait, named, after, limit)
  /\ UnchangedLog /\ UnchangedName

StartWithoutNewest ==                 \* mutant: a wait without a cursor gets none
  /\ Goto("start", IF call.named THEN "name" ELSE IF call.wait THEN "poll" ELSE "browse")
  /\ LET from == IF call.after # NoCursor THEN call.after
                 ELSE IF call.named /\ cursor # NoCursor THEN cursor
                 ELSE IF call.named THEN sequence ELSE NoCursor
     IN  call' = [call EXCEPT !.baseline = from,
                              !.seen = IF call.wait THEN from ELSE 0]
  /\ UnchangedLog /\ UnchangedName

(* _start_cursor: --after, else the saved cursor, else the newest event;   *)
(* `inbox` without a name and without --after has none yet.                *)
StartCursor ==
  /\ Goto("start", IF call.named THEN "name" ELSE IF call.wait THEN "poll" ELSE "browse")
  /\ LET from == IF call.after # NoCursor THEN call.after
                 ELSE IF call.named /\ cursor # NoCursor THEN cursor
                 ELSE IF call.named \/ call.wait THEN sequence ELSE NoCursor
     IN  call' = [call EXCEPT !.baseline = from,
                              !.seen = IF call.wait THEN from ELSE 0]
  /\ UnchangedLog /\ UnchangedName

(* ... saved for the name before anything is read.                         *)
SaveStart ==
  /\ Goto("name", IF call.wait THEN "poll" ELSE "browse")
  /\ origin' = IF call.after # NoCursor \/ cursor = NoCursor THEN call.baseline ELSE origin
  /\ cursor' = call.baseline
  /\ UnchangedLog /\ UNCHANGED <<call, printed>>

(* poll, first statement: has the account's cursor moved?                  *)
PollLatest ==
  /\ Goto("poll", IF sequence > call.seen THEN "query" ELSE "decide")
  /\ call' = [call EXCEPT !.latest = sequence]
  /\ UnchangedLog /\ UnchangedName

PollFromSeen ==                       \* mutant: only what is new since the last poll
  /\ Goto("query", "decide")
  /\ \E rows \in SUBSET events :
       /\ InboxEvents(rows, call.seen, call.limit)
       /\ call' = [call EXCEPT !.rows = rows, !.seen = call.latest]
  /\ UnchangedLog /\ UnchangedName

(* poll, second statement: the events after the baseline, all of them.     *)
PollQuery ==
  /\ Goto("query", "decide")
  /\ \E rows \in SUBSET events :
       /\ InboxEvents(rows, call.baseline, call.limit)
       /\ call' = [call EXCEPT !.rows = rows, !.seen = call.latest]
  /\ UnchangedLog /\ UnchangedName

(* Nothing yet: no listener is alive, the timeout is over (answered with   *)
(* the baseline), or sleep and poll again.                                 *)
WaitFirst ==
  /\ call.rows = {} /\ ~call.settling
  /\ Goto("decide", "idle") \/ Goto("decide", "print") \/ Goto("decide", "poll")
  /\ UNCHANGED call
  /\ UnchangedLog /\ UnchangedName

(* Collect until the batch is full or the chats are quiet.  rows[-1] of a  *)
(* batch that a poll has emptied raises IndexError.                        *)
Settle ==
  /\ call.rows # {} \/ call.settling
  /\ call' = [call EXCEPT !.settling = TRUE]
  /\ IF call.rows = {} THEN Goto("decide", "raw")
     ELSE \/ Goto("decide", "deliver")
          \/ Cardinality(call.rows) < call.limit /\ Goto("decide", "poll")
  /\ UnchangedLog /\ UnchangedName

(* _inbox: one query.                                                      *)
Browse ==
  /\ Goto("browse", IF call.baseline = NoCursor THEN "baseline" ELSE "deliver")
  /\ \E rows \in SUBSET events :
       /\ InboxEvents(rows, call.baseline, call.limit)
       /\ call' = [call EXCEPT !.rows = rows]
  /\ UnchangedLog /\ UnchangedName

(* Without a cursor, the baseline is read after the rows.                  *)
BrowseBaseline ==
  /\ Goto("baseline", "deliver")
  /\ call' = [call EXCEPT !.baseline = sequence]
  /\ UnchangedLog /\ UnchangedName

(* _deliver: the name moves on, then the payload is returned.              *)
Deliver ==
  /\ Goto("deliver", "print")
  /\ cursor' = IF call.named THEN Answer ELSE cursor
  /\ UnchangedLog /\ UNCHANGED <<call, origin, printed>>

(* dump_json in the main loop.                                             *)
Output ==
  /\ Goto("print", "idle")
  /\ printed' = IF call.named THEN printed \cup Ids(call.rows) ELSE printed
  /\ UnchangedLog /\ UNCHANGED <<call, cursor, origin>>

(* Killed, interrupted, an unwritable stdout, or the end of a traceback.   *)
Kill ==
  /\ pc \in KillAt \cup {"raw"}
  /\ pc' = "idle"
  /\ UNCHANGED call
  /\ UnchangedLog /\ UnchangedName

ReaderNext ==
  \/ Begin \/ StartCursor \/ SaveStart \/ PollLatest \/ PollQuery \/ WaitFirst
  \/ Settle \/ Browse \/ BrowseBaseline \/ Deliver \/ Output \/ Kill

Next == (\E m \in Messages : Listener(m)) \/ ReaderNext

Spec == Init /\ [][Next]_vars

-----------------------------------------------------------------------------
(* A poll that finds the account's cursor where it was does not look at    *)
(* the inbox: whatever arrived up to there is already in the rows, unless  *)
(* they are full.                                                          *)
PollComplete ==
  call.wait /\ pc \in {"poll", "decide", "deliver"} =>
    \A e \in After(call.baseline) :
      e.id <= call.seen => e \in call.rows \/ Cardinality(call.rows) = call.limit

(* An answer to a call with a cursor skips no event between that cursor    *)
(* and the one it returns, so the agent can go on from there.              *)
AnswerComplete ==
  pc = "print" /\ (call.wait \/ call.named \/ call.after # NoCursor) =>
    \A e \in After(call.baseline) : e.id <= Answer => e \in call.rows

(* "nothing that arrives before the next call is skipped even when this    *)
(* one times out or fails" (cli/local.py, _start_cursor): every event the  *)
(* named cursor has passed since it was last told where to start has been  *)
(* printed, or is about to be.  (A call that dies while printing has moved *)
(* the cursor already: KillAt leaves that step out.)                       *)
NothingSkipped ==
  \A e \in After(origin) :
    origin # NoCursor /\ e.id <= cursor =>
      e.id \in printed \/ (pc = "print" /\ call.named /\ e \in call.rows)
=============================================================================
