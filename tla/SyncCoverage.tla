---------------------------- MODULE SyncCoverage ----------------------------
(***************************************************************************)
(* `tele get` on one chat: the local store (rows of messages, sync_ranges  *)
(* and sync_state) against the chat Telegram keeps, while messages arrive, *)
(* are deleted, and are stored one by one by other processes (the          *)
(* listener, `tele send`, `tele wait`).                                    *)
(*                                                                         *)
(* Every SQL statement outside a transaction, every Telegram request and   *)
(* every transaction is a step of its own, so several getters interleave   *)
(* exactly where the code lets them.  Message rows are their IDs; checked_at *)
(* is abstracted to "any age", because max_age is chosen per call.         *)
(***************************************************************************)
EXTENDS Integers, FiniteSets

CONSTANTS Getters,      \* processes running get_messages on this chat
          Limits,       \* values of the message limit a call may ask for
          MaxMessageId  \* 2**63 - 1 in the code: above every message ID

ASSUME LimitsAssumption == Limits \subseteq Nat \ {0}
ASSUME MaxIdAssumption == MaxMessageId \in Nat \ {0}

VARIABLES
  telegram,  \* IDs Telegram would return for the chat
  last,      \* newest ID ever assigned in the chat
  messages,  \* IDs of the rows of table messages
  ranges,    \* rows of table sync_ranges
  head,      \* sync_state.head_message_id, or NoHead without a row
  pc,        \* where each getter stands
  run        \* each getter's arguments and local variables

store == <<messages, ranges, head>>
chat == <<telegram, last>>
vars == <<telegram, last, messages, ranges, head, pc, run>>

NoHead == -1
Ids == 1..MaxMessageId
Ranges == {r \in [lo : Nat, hi : Nat] : r.lo <= r.hi}
NoRange == [lo |-> 0, hi |-> 0]

(* limit and the outcome of the last read: `mark` a head or range start,   *)
(* `span` the head range, `want` how many older messages, `batch` the IDs  *)
(* fetched, or the rows returned once the call is done.                    *)
Runs == [limit : Limits, online : BOOLEAN, mark : Nat, span : Ranges,
         want : Int, batch : SUBSET Ids]

Steps == {"idle", "state", "newest", "covers", "count", "window", "rows",
          "newer", "newerFetch", "newerSave", "older", "olderCount",
          "olderFetch", "olderSave", "refresh", "refreshSave", "done"}

TypeOK ==
  /\ telegram \subseteq Ids
  /\ last \in Nat
  /\ messages \subseteq Ids
  /\ ranges \subseteq Ranges
  /\ head \in Nat \cup {NoHead}
  /\ pc \in [Getters -> Steps]
  /\ run \in [Getters -> Runs]

-----------------------------------------------------------------------------
(* iter_messages(limit=n): the n newest of the candidate messages.         *)
IsNewest(batch, candidates, n) ==
  /\ batch \subseteq candidates
  /\ \A x \in batch, y \in candidates \ batch : y < x
  /\ \/ batch = candidates /\ Cardinality(batch) <= n
     \/ Cardinality(batch) = n

IsLowest(x, S) == x \in S /\ \A y \in S : x <= y
IsHighest(x, S) == x \in S /\ \A y \in S : y <= x

(* add_range: one row replaces `cover` and every row that overlaps it.     *)
AddRangeStrictly(cover) ==            \* mutant: < for <= in the overlap test
  LET joined == {r \in ranges : r.lo < cover.hi /\ r.hi > cover.lo} \cup {cover}
  IN  \E lo \in {r.lo : r \in joined}, hi \in {r.hi : r \in joined} :
        /\ \A r \in joined : lo <= r.lo /\ r.hi <= hi
        /\ ranges' = (ranges \ joined) \cup {[lo |-> lo, hi |-> hi]}

AddRangeReplacing(cover) ==           \* mutant: the rows replaced are not merged
  LET joined == {r \in ranges : r.lo <= cover.hi /\ r.hi >= cover.lo}
  IN  ranges' = (ranges \ joined) \cup {cover}

AddRange(cover) ==
  LET joined == {r \in ranges : r.lo <= cover.hi /\ r.hi >= cover.lo} \cup {cover}
  IN  \E lo \in {r.lo : r \in joined}, hi \in {r.hi : r \in joined} :
        /\ \A r \in joined : lo <= r.lo /\ r.hi <= hi
        /\ ranges' = (ranges \ joined) \cup {[lo |-> lo, hi |-> hi]}

HeadRanges == {r \in ranges : r.lo <= head /\ head <= r.hi}

(* _Sync._save, one transaction under lock_chat: delete_messages_except,   *)
(* save_messages, add_range.                                               *)
Save(batch, from, to, lo, hi) ==
  /\ messages' = (messages \ from..to) \cup batch
  /\ AddRange([lo |-> lo, hi |-> hi])

Held(r) == {m \in messages : r.lo <= m /\ m <= r.hi}

LowEndIfFull(low, batch, n, bottom) == \* mutant: a full batch counts as complete
  IF Cardinality(batch) <= n THEN low = bottom ELSE IsLowest(low, batch)

(* Where the cover of a batch of at most n starts: a full batch reaches    *)
(* its oldest message only, a smaller one everything from `bottom` on.     *)
LowEnd(low, batch, n, bottom) ==
  IF Cardinality(batch) < n THEN low = bottom ELSE IsLowest(low, batch)

HighEndOldest(newest, batch, otherwise) == \* mutant: the oldest message for the newest
  IsLowest(newest, batch \cup {otherwise})

HighEnd(newest, batch, otherwise) == IsHighest(newest, batch \cup {otherwise})

MissingTooFew(g) ==                   \* mutant: one message too few is asked for
  run[g].limit - 1 - Cardinality(Held(run[g].span))

Missing(g) == run[g].limit - Cardinality(Held(run[g].span))

Window(batch, g) ==
  IsNewest(batch, {m \in messages : m >= run[g].span.lo}, run[g].limit)

-----------------------------------------------------------------------------
Goto(g, from, to) == pc[g] = from /\ pc' = [pc EXCEPT ![g] = to]

(* A call's record before any read, and again when the function that held  *)
(* the other values returns.                                               *)
Call(n, connected) ==
  [limit |-> n, online |-> connected, mark |-> 0, span |-> NoRange, want |-> 0, batch |-> {}]

Return(g, connected) == run' = [run EXCEPT ![g] = Call(run[g].limit, connected)]

Init ==
  /\ telegram = {}
  /\ last = 0
  /\ messages = {}
  /\ ranges = {}
  /\ head = NoHead
  /\ pc = [g \in Getters |-> "idle"]
  /\ run \in [Getters -> {Call(n, FALSE) : n \in Limits}]

(* A message is sent to the chat.                                          *)
Arrive ==
  /\ last < MaxMessageId
  /\ last' = last + 1
  /\ telegram' = telegram \cup {last'}
  /\ UNCHANGED <<store, pc, run>>

(* A message is deleted on Telegram; nothing tells the local store.        *)
Delete(m) ==
  /\ m \in telegram
  /\ telegram' = telegram \ {m}
  /\ UNCHANGED <<last, store, pc, run>>

(* Another process stores one message it obtained some time ago: the       *)
(* listener's capture, a matched `tele wait` or the reply of a send.       *)
Capture(m) ==
  /\ m \in Ids /\ m <= last
  /\ messages' = messages \cup {m}
  /\ UNCHANGED <<chat, ranges, head, pc, run>>

(* get_messages: a call with its limit, --refresh or not.                  *)
Begin(g) ==
  /\ pc[g] \in {"idle", "done"}
  /\ \E n \in Limits, to \in {"state", "refresh"} :
       /\ pc' = [pc EXCEPT ![g] = to]
       /\ run' = [run EXCEPT ![g] = Call(n, FALSE)]
  /\ UNCHANGED <<chat, store>>

(* The call fails or its process is killed: what it stored stays.          *)
Abort(g) ==
  /\ pc[g] # "idle"
  /\ pc' = [pc EXCEPT ![g] = "idle"]
  /\ Return(g, FALSE)
  /\ UNCHANGED <<chat, store>>

(* Not fresh: connect and ask again, or, once connected, fetch newer ones. *)
NotLocal(g, at) ==
  /\ Goto(g, at, IF run[g].online THEN "newer" ELSE "state")
  /\ Return(g, TRUE)

(* _is_fresh, first statement: sync_state.  Whether checked_at is within   *)
(* the call's max_age is left open.                                        *)
FreshState(g) ==
  /\ \/ /\ head # NoHead
        /\ Goto(g, "state", "newest")
        /\ run' = [run EXCEPT ![g].mark = head]
     \/ NotLocal(g, "state")
  /\ UNCHANGED <<chat, store>>

FreshUnchecked(g) ==                  \* mutant: stored messages are not compared with the head
  /\ Goto(g, "newest", IF run[g].online THEN "older" ELSE "covers")
  /\ Return(g, run[g].online)
  /\ UNCHANGED <<chat, store>>

(* _is_fresh, second statement: newest_message_id against the head read.   *)
FreshNewest(g) ==
  /\ IF \A m \in messages : m <= run[g].mark
       THEN /\ Goto(g, "newest", IF run[g].online THEN "older" ELSE "covers")
            /\ Return(g, run[g].online)
       ELSE NotLocal(g, "newest")
  /\ UNCHANGED <<chat, store>>

(* _covers_latest: head_range.                                             *)
CoversRange(g) ==
  /\ \/ HeadRanges = {} /\ NotLocal(g, "covers")
     \/ \E r \in HeadRanges :
          /\ Goto(g, "covers", IF r.lo = 0 THEN "window" ELSE "count")
          /\ run' = [run EXCEPT ![g].span = r]
  /\ UNCHANGED <<chat, store>>

(* _covers_latest: count_messages over the range read before.              *)
CoversCount(g) ==
  /\ IF Cardinality(Held(run[g].span)) >= run[g].limit
       THEN Goto(g, "count", "window") /\ UNCHANGED run
       ELSE NotLocal(g, "count")
  /\ UNCHANGED <<chat, store>>

(* _latest_window: head_range, then latest_messages above its start.       *)
WindowRange(g) ==
  /\ Goto(g, "window", "rows")
  /\ \E r \in IF HeadRanges = {} THEN {NoRange} ELSE HeadRanges :
       run' = [run EXCEPT ![g].span = r]
  /\ UNCHANGED <<chat, store>>

(* The call returns these rows, reads the window again for resolved media  *)
(* paths, or (still offline) connects because attachments are missing.     *)
WindowRows(g) ==
  /\ \E batch \in SUBSET messages :
       /\ Window(batch, g)
       /\ \/ /\ Goto(g, "rows", "done")
             /\ run' = [run EXCEPT ![g].batch = batch]
          \/ Goto(g, "rows", "window") /\ UNCHANGED run
          \/ ~run[g].online /\ NotLocal(g, "rows")
  /\ UNCHANGED <<chat, store>>

(* newer: sync_state and head_range give the ID to fetch after.            *)
NewerFrom(g) ==
  /\ Goto(g, "newer", "newerFetch")
  /\ run' = [run EXCEPT ![g].mark = IF HeadRanges = {} THEN 0 ELSE head]
  /\ UNCHANGED <<chat, store>>

NewerFetch(g) ==
  /\ Goto(g, "newerFetch", "newerSave")
  /\ \E batch \in SUBSET telegram :
       /\ IsNewest(batch, {m \in telegram : m > run[g].mark}, run[g].limit)
       /\ run' = [run EXCEPT ![g].batch = batch]
  /\ UNCHANGED <<chat, store>>

(* A full batch may leave a gap above `after`: its range stands alone.     *)
NewerSave(g) ==
  LET batch == run[g].batch
      after == run[g].mark
      complete == Cardinality(batch) < run[g].limit
  IN  /\ Goto(g, "newerSave", "older")
      /\ \E low, newest \in batch \cup {after} :
           /\ LowEnd(low, batch, run[g].limit, after)
           /\ HighEnd(newest, batch, after)
           /\ Save(batch, IF complete THEN after + 1 ELSE low, MaxMessageId, low, newest)
           /\ head' = newest
      /\ Return(g, TRUE)
      /\ UNCHANGED chat

(* older: nothing to do without a head range or at the start of the chat.  *)
OlderRange(g) ==
  /\ \/ /\ \A r \in HeadRanges : r.lo = 0
        /\ Goto(g, "older", "window")
        /\ UNCHANGED run
     \/ \E r \in HeadRanges :
          /\ r.lo # 0
          /\ Goto(g, "older", "olderCount")
          /\ run' = [run EXCEPT ![g].span = r]
  /\ UNCHANGED <<chat, store>>

OlderCount(g) ==
  /\ Goto(g, "olderCount", IF Missing(g) <= 0 THEN "window" ELSE "olderFetch")
  /\ run' = [run EXCEPT ![g].want = Missing(g)]
  /\ UNCHANGED <<chat, store>>

OlderFetch(g) ==
  /\ Goto(g, "olderFetch", "olderSave")
  /\ \E batch \in SUBSET telegram :
       /\ IsNewest(batch, {m \in telegram : m < run[g].span.lo}, run[g].want)
       /\ run' = [run EXCEPT ![g].batch = batch]
  /\ UNCHANGED <<chat, store>>

OlderSave(g) ==
  LET batch == run[g].batch
      start == run[g].span.lo
  IN  /\ Goto(g, "olderSave", "window")
      /\ \E low \in batch \cup {0} :
           /\ LowEnd(low, batch, run[g].want, 0)
           /\ Save(batch, low, start - 1, low, start)
      /\ Return(g, TRUE)
      /\ UNCHANGED <<chat, head>>

RefreshFetch(g) ==
  /\ Goto(g, "refresh", "refreshSave")
  /\ \E batch \in SUBSET telegram :
       /\ IsNewest(batch, telegram, run[g].limit)
       /\ run' = [run EXCEPT ![g].batch = batch]
  /\ UNCHANGED <<chat, store>>

RefreshSave(g) ==
  LET batch == run[g].batch
  IN  /\ Goto(g, "refreshSave", "window")
      /\ \E low, newest \in batch \cup {0} :
           /\ LowEnd(low, batch, run[g].limit, 0)
           /\ HighEnd(newest, batch, 0)
           /\ Save(batch, low, MaxMessageId, low, newest)
           /\ head' = newest
      /\ Return(g, TRUE)
      /\ UNCHANGED chat

Step(g) ==
  \/ Begin(g) \/ Abort(g)
  \/ FreshState(g) \/ FreshNewest(g)
  \/ CoversRange(g) \/ CoversCount(g)
  \/ WindowRange(g) \/ WindowRows(g)
  \/ NewerFrom(g) \/ NewerFetch(g) \/ NewerSave(g)
  \/ OlderRange(g) \/ OlderCount(g) \/ OlderFetch(g) \/ OlderSave(g)
  \/ RefreshFetch(g) \/ RefreshSave(g)

Next ==
  \/ Arrive
  \/ \E m \in Ids : Delete(m) \/ Capture(m)
  \/ \E g \in Getters : Step(g)

Spec == Init /\ [][Next]_vars

-----------------------------------------------------------------------------
(* No two rows of sync_ranges share an ID, whatever getters overlap: the   *)
(* head range is then unique and add_range may merge with one pass.        *)
RangesDisjoint ==
  \A r, s \in ranges : r # s => r.hi < s.lo \/ s.hi < r.lo

(* The head always lies in a stored range, also when getters overwrite     *)
(* each other's head: `newer` may fetch after the head and cover from it.  *)
HeadCovered == head # NoHead => HeadRanges # {}

(* sync_ranges lists "Message ID ranges stored without gaps: every message *)
(* of the chat with start_id <= id <= end_id is in `messages`"             *)
(* (store/migrations.py): every one Telegram still has.                    *)
RangesGapFree ==
  \A r \in ranges, m \in telegram : r.lo <= m /\ m <= r.hi => m \in messages

(* A finished call returns `limit` messages, or all the chat has up to the *)
(* end of the head range.                                                  *)
WindowFull ==
  \A g \in Getters : pc[g] = "done" =>
    \/ Cardinality(run[g].batch) = run[g].limit
    \/ \A m \in telegram : m <= run[g].span.hi => m \in run[g].batch

(* delete_messages_except drops "local messages in [low, high] that        *)
(* Telegram no longer returns (deleted)" (store/repository.py): no step    *)
(* loses a row whose message Telegram still has.                           *)
DropsOnlyDeleted ==
  [][\A m \in messages \ messages' : m \notin telegram]_vars
=============================================================================
