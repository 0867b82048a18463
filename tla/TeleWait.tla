------------------------------ MODULE TeleWait ------------------------------
(***************************************************************************)
(* `tele wait` on one chat: an agent's successive calls, each with a       *)
(* cursor (--after), or none at first.  Every answer returns the cursor    *)
(* the call went by, also when it brings a message: to go on after that    *)
(* message the agent has to take its ID, a step of the agent's own.  A call *)
(* connects for itself, so Telegram's updates reach it only from then on,  *)
(* in the order of the chat; it must not miss what arrives around the time *)
(* it starts to listen.                                                    *)
(***************************************************************************)
EXTENDS ChatLog, Integers

CONSTANT MaxFails     \* bound: calls that fail

ASSUME WaitAssumption == MaxFails \in Nat

VARIABLES
  step,       \* where the current call stands
  wait,       \* its arguments and local variables
  cursor,     \* the message ID the agent goes on from, or NoCursor
  origin,     \* history: where the agent's cursor started
  got,        \* history: the messages it was given
  fails       \* calls that have failed so far

waitVars == <<step, wait, cursor, origin, got, fails>>

NoCursor == -1
Ids == 1..MaxChat
MessageCursors == 0..MaxChat \cup {NoCursor}

Waits == [after : MessageCursors, baseline : 0..MaxChat, registered : BOOLEAN,
          dispatched : 0..MaxChat, queue : Seq(Ids), found : 0..MaxChat]

WaitTypeOK ==
  /\ step \in {"idle", "connect", "baseline", "register", "scan", "live", "arrived"}
  /\ wait \in Waits
  /\ cursor \in MessageCursors
  /\ origin \in MessageCursors
  /\ got \subseteq Ids
  /\ fails \in 0..MaxFails

NewWait(after) ==
  [after |-> after, baseline |-> 0, registered |-> FALSE, dispatched |-> 0,
   queue |-> <<>>, found |-> 0]

WaitInit ==
  /\ step = "idle"
  /\ wait = NewWait(NoCursor)
  /\ cursor = NoCursor
  /\ origin = NoCursor
  /\ got = {}
  /\ fails = 0

Enter(from, to) == step = from /\ step' = to

UnchangedAgent == UNCHANGED <<cursor, origin, got, fails>>

(* The call ends and the agent has the cursor it returned; locals die.     *)
Return(n) ==
  /\ step' = "idle"
  /\ wait' = NewWait(NoCursor)
  /\ cursor' = n
  /\ origin' = IF wait.after = NoCursor THEN wait.baseline ELSE origin

WaitBegin ==
  /\ Enter("idle", "connect")
  /\ wait' = NewWait(cursor)
  /\ UnchangedAgent /\ UNCHANGED chat

(* authorized_client and resolve_chat: from now on Telegram pushes what is *)
(* new; how much of the chat it takes for new is its own affair.           *)
WaitConnect ==
  /\ Enter("connect", "baseline")
  /\ \E n \in 0..Len(chat) : wait' = [wait EXCEPT !.dispatched = n]
  /\ UnchangedAgent /\ UNCHANGED chat


BaselineUnchecked ==                  \* mutant: --after, given or not
  /\ Enter("baseline", "register")
  /\ wait' = [wait EXCEPT !.baseline = wait.after]
  /\ UnchangedAgent /\ UNCHANGED chat

(* The message ID of --after, else the newest message's, 0 in an empty     *)
(* chat.                                                                   *)
WaitBaseline ==
  /\ Enter("baseline", "register")
  /\ wait' = [wait EXCEPT !.baseline = IF wait.after = NoCursor THEN Len(chat) ELSE wait.after]
  /\ UnchangedAgent /\ UNCHANGED chat

HandlerLeftOut ==                     \* mutant: the history is all that is read
  /\ Enter("register", "scan")
  /\ UNCHANGED wait
  /\ UnchangedAgent /\ UNCHANGED chat

WaitRegister ==
  /\ Enter("register", "scan")
  /\ wait' = [wait EXCEPT !.registered = TRUE]
  /\ UnchangedAgent /\ UNCHANGED chat

(* Telethon hands over the next message of the chat; on_new_message queues *)
(* incoming ones, old or new.                                              *)
Dispatch ==
  /\ step \notin {"idle", "connect"} /\ wait.dispatched < Len(chat)
  /\ LET next == wait.dispatched + 1 IN
       wait' = [wait EXCEPT !.dispatched = next,
                            !.queue = IF wait.registered /\ next \in Incoming
                                      THEN Append(@, next) ELSE @]
  /\ UNCHANGED step
  /\ UnchangedAgent /\ UNCHANGED chat

(* iter_messages(min_id, reverse): the oldest incoming one there is.       *)
WaitScan ==
  LET new == {i \in Incoming : i > wait.baseline} IN
  /\ \/ new = {} /\ Enter("scan", "live") /\ UNCHANGED wait
     \/ \E i \in new :
          /\ \A j \in new : i <= j
          /\ Enter("scan", "arrived")
          /\ wait' = [wait EXCEPT !.found = i]
  /\ UnchangedAgent /\ UNCHANGED chat

TakeAny ==                            \* mutant: the cursor is not looked at
  /\ wait.queue # <<>>
  /\ Enter("live", "arrived")
  /\ wait' = [wait EXCEPT !.queue = Tail(@), !.found = Head(wait.queue)]
  /\ UnchangedAgent /\ UNCHANGED chat

(* queue.get: messages up to the baseline are passed over.                 *)
WaitNext ==
  /\ wait.queue # <<>>
  /\ LET next == Head(wait.queue) IN
       /\ Enter("live", IF next <= wait.baseline THEN "live" ELSE "arrived")
       /\ wait' = [wait EXCEPT !.queue = Tail(@), !.found = next]
  /\ UnchangedAgent /\ UNCHANGED chat

TimeoutAtNewest ==                    \* mutant: the newest ID for a cursor
  /\ step = "live"
  /\ Return(Len(chat))
  /\ UNCHANGED <<got, fails, chat>>

(* The deadline, also when it comes together with a message.               *)
WaitTimeout ==
  /\ step = "live"
  /\ Return(wait.baseline)
  /\ UNCHANGED <<got, fails, chat>>

(* arrived: get_sender, store, answer; the cursor stays where it was.      *)
WaitArrived ==
  /\ step = "arrived"
  /\ Return(wait.baseline)
  /\ got' = got \cup {wait.found}
  /\ UNCHANGED <<fails, chat>>

(* Any request to Telegram or statement fails, or the call is killed: the  *)
(* agent learns nothing and calls again with the cursor it had.            *)
WaitFails ==
  /\ step # "idle" /\ fails < MaxFails
  /\ step' = "idle"
  /\ wait' = NewWait(NoCursor)
  /\ fails' = fails + 1
  /\ UNCHANGED <<cursor, origin, got, chat>>

WaitStep ==
  \/ WaitConnect \/ WaitBaseline \/ WaitRegister \/ WaitScan \/ WaitNext \/ WaitTimeout
  \/ WaitArrived \/ WaitFails

WaitNextState == WaitBegin \/ WaitStep \/ Dispatch

-----------------------------------------------------------------------------
(* While a call waits, everything it has still to look at is in its queue  *)
(* or on its way: the handler was registered before the history was read   *)
(* (wait_for_message, "Close the gap").                                    *)
NothingBetween ==
  step = "live" =>
    \A i \in Incoming : i > wait.baseline =>
      i > wait.dispatched \/ \E k \in DOMAIN wait.queue : wait.queue[k] = i

(* The answer is the oldest incoming message after the cursor, wherever it *)
(* was found: `tele wait` promises "the first incoming message newer than  *)
(* a per-chat cursor" (wait_for_message).                                  *)
AnswerIsNext ==
  step = "arrived" =>
    /\ wait.found \in Incoming /\ wait.found > wait.baseline
    /\ \A i \in Incoming : i > wait.baseline => i >= wait.found

(* Whichever cursor the agent goes on from, the returned one or the ID of  *)
(* a message it was given, through timeouts and failed calls: it has been  *)
(* given every incoming message between where it started and there.        *)
NothingMissed ==
  \A i \in Incoming : origin # NoCursor /\ origin < i /\ i <= cursor => i \in got

=============================================================================
