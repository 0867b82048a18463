------------------------- MODULE ConversationProofs -------------------------
(***************************************************************************)
(* Proofs about `tele wait` in a conversation, for any number of requests, *)
(* messages and failed calls.                                              *)
(***************************************************************************)
EXTENDS Conversation, TLAPS

(* What has been read of the chat is in it, and the handler queues in the  *)
(* order of the chat.                                                      *)
WithinChat ==
  /\ cursor <= Len(chat) /\ wait.baseline <= Len(chat)
  /\ wait.dispatched <= Len(chat) /\ wait.found <= Len(chat)

Ascending(q) == \A j, k \in DOMAIN q : j < k => q[j] < q[k]

QueueOrdered ==
  /\ \A k \in DOMAIN wait.queue : wait.queue[k] \in Incoming /\ wait.queue[k] <= wait.dispatched
  /\ Ascending(wait.queue)

(* A call goes on from the agent's cursor; its handler is there before the *)
(* history is read.                                                        *)
CallInv ==
  /\ step # "idle" => wait.after = cursor
  /\ step \in {"register", "scan", "live", "arrived"} /\ wait.after # NoCursor =>
       wait.baseline = wait.after
  /\ step \in {"scan", "live"} => wait.registered
  /\ step = "connect" => ~wait.registered
  /\ ~wait.registered => wait.queue = <<>>

(* What the agent was given is next to its cursor or before it: to go on   *)
(* from there passes nothing else.                                         *)
GivenNext == \A i \in got, j \in Incoming : cursor < j => i <= j

Inv ==
  /\ TypeOK /\ WithinChat /\ QueueOrdered /\ CallInv /\ GivenNext /\ got \subseteq Incoming
  /\ NothingBetween /\ AnswerIsNext /\ NothingMissed

LEMMA ChatFacts ==
  ASSUME TypeOK
  PROVE  /\ Len(chat) \in Nat /\ Len(chat) <= MaxChat /\ MaxChat \in Nat
         /\ DOMAIN chat = 1..Len(chat)
         /\ Incoming \subseteq 1..Len(chat)
BY ChatAssumption DEF TypeOK, Incoming

LEMMA NewWaitType == ASSUME NEW c \in MessageCursors PROVE NewWait(c) \in Waits
BY ChatAssumption DEF NewWait, Waits, Ids

LEMMA CursorTypes == NoCursor \in MessageCursors /\ MessageCursors \subseteq Int
                     /\ 0..MaxChat \subseteq MessageCursors /\ NoCursor < 0
BY ChatAssumption DEF MessageCursors, NoCursor

LEMMA InitInv == Init => Inv
<1> SUFFICES ASSUME Init PROVE Inv
  OBVIOUS
<1>1. TypeOK
  BY NewWaitType, CursorTypes, ChatAssumption, WaitAssumption
  DEF Init, TypeOK, WaitInit, WaitTypeOK, Once!OnceInit, Once!Outcomes, Authors
<1>2. Incoming = {} /\ Len(chat) = 0
  BY DEF Init, Incoming
<1>3. /\ wait.baseline = 0 /\ wait.dispatched = 0 /\ wait.found = 0 /\ wait.queue = <<>>
      /\ cursor = -1
  BY DEF Init, WaitInit, NewWait, NoCursor
<1> QED
  BY <1>1, <1>2, <1>3
  DEF Init, WaitInit, Inv, WithinChat, QueueOrdered, Ascending, CallInv, NothingBetween, AnswerIsNext,
      NothingMissed, GivenNext

(* Somebody writes: the message is newer than everything the call knows.   *)
LEMMA ChatGrows ==
  ASSUME Inv, NEW a \in Authors, Accepted(a), UNCHANGED waitVars, TypeOK'
  PROVE  Inv'
<1>1. /\ Len(chat) \in Nat /\ Incoming \subseteq 1..Len(chat) /\ DOMAIN chat = 1..Len(chat)
  BY ChatFacts DEF Inv
<1>2. /\ Len(chat') = Len(chat) + 1 /\ DOMAIN chat' = 1..(Len(chat) + 1)
      /\ \A i \in 1..Len(chat) : chat'[i] = chat[i]
  BY <1>1 DEF Accepted, Inv, TypeOK
<1>3. Incoming \subseteq Incoming' /\ Incoming' \subseteq Incoming \cup {Len(chat) + 1}
  BY <1>1, <1>2 DEF Incoming
<1>4. /\ wait.baseline \in Nat /\ wait.found \in Nat /\ wait.dispatched \in Nat
      /\ cursor \in Int /\ origin \in Int
  BY CursorTypes, ChatAssumption DEF Inv, TypeOK, WaitTypeOK, Waits
<1>5. WithinChat' /\ QueueOrdered' /\ CallInv'
  <2>1. WithinChat'
    BY <1>1, <1>2, <1>4 DEF Inv, waitVars, WithinChat
  <2>2. QueueOrdered'
    BY <1>3 DEF Inv, waitVars, QueueOrdered
  <2>3. CallInv'
    BY DEF Inv, waitVars, CallInv
  <2> QED
    BY <2>1, <2>2, <2>3
<1>6. NothingBetween'
  BY <1>1, <1>3, <1>4 DEF Inv, waitVars, NothingBetween, WithinChat
<1>7. AnswerIsNext'
  BY <1>1, <1>3, <1>4 DEF Inv, waitVars, AnswerIsNext, WithinChat
<1>8. NothingMissed'
  BY <1>1, <1>3, <1>4 DEF Inv, waitVars, NothingMissed, WithinChat
<1>9. GivenNext' /\ got' \subseteq Incoming'
  BY <1>1, <1>3, <1>4 DEF Inv, waitVars, GivenNext
<1> QED
  BY <1>5, <1>6, <1>7, <1>8, <1>9 DEF Inv

(* The call ends; the cursor it returns is the agent's own, or the newest  *)
(* ID when the agent had none.                                             *)
LEMMA ReturnKeeps ==
  ASSUME Inv, Return(wait.baseline), UNCHANGED <<sendVars, fails, chat>>,
         \/ step = "live" /\ got' = got
         \/ step = "arrived" /\ got' = got \cup {wait.found}
  PROVE  Inv'
<1>0. /\ Len(chat) \in Nat /\ Len(chat) <= MaxChat /\ Incoming \subseteq 1..Len(chat)
      /\ MaxChat \in Nat
  BY ChatFacts DEF Inv
<1>1. /\ wait \in Waits /\ wait.baseline \in 0..MaxChat /\ wait.found \in 0..MaxChat
      /\ cursor \in Int /\ origin \in Int /\ cursor \in MessageCursors
      /\ wait.baseline <= Len(chat) /\ got \subseteq Incoming
  BY <1>0, CursorTypes DEF Inv, TypeOK, WaitTypeOK, Waits, WithinChat
<1>2. wait' = NewWait(NoCursor) /\ step' = "idle" /\ cursor' = wait.baseline /\ chat' = chat
      /\ Incoming' = Incoming
  BY DEF Return, Incoming
<1>3. step = "arrived" => wait.found \in Incoming /\ \A j \in Incoming : wait.baseline < j => wait.found <= j
  <2>1. \A j \in Incoming : j \in Int
    BY <1>0
  <2> QED
    BY <1>0, <1>1, <2>1 DEF Inv, AnswerIsNext
<1>4. TypeOK'
  <2>1. wait' \in Waits /\ cursor' \in MessageCursors /\ origin' \in MessageCursors
    BY <1>1, <1>2, NewWaitType, CursorTypes DEF Return, Inv, TypeOK, WaitTypeOK
  <2>2. got' \subseteq Incoming
    BY <1>1, <1>3
  <2>3. got' \subseteq Ids
    BY <1>0, <2>2 DEF Ids
  <2> QED
    BY <1>2, <2>1, <2>3 DEF Inv, TypeOK, WaitTypeOK, sendVars
<1>5. WithinChat' /\ QueueOrdered' /\ CallInv' /\ NothingBetween' /\ AnswerIsNext'
  BY <1>0, <1>1, <1>2
  DEF WithinChat, QueueOrdered, Ascending, CallInv, NothingBetween, AnswerIsNext, NewWait
<1>6. cursor <= wait.baseline /\ (cursor = NoCursor => origin' = wait.baseline)
      /\ (cursor # NoCursor => wait.baseline = cursor /\ origin' = origin)
  <2>1. wait.after = cursor
    BY DEF Inv, CallInv
  <2> QED
    BY <1>1, <2>1, CursorTypes DEF Inv, CallInv, Return, NoCursor
<1>7. NothingMissed'
  BY <1>0, <1>1, <1>2, <1>6 DEF Inv, NothingMissed
<1>8. GivenNext' /\ got' \subseteq Incoming'
  <2>1. ASSUME NEW i \in got', NEW j \in Incoming, wait.baseline < j
        PROVE  i <= j
    <3>1. cursor < j /\ j \in Int
      BY <1>0, <1>1, <1>6, <2>1
    <3>2. CASE i \in got
      BY <3>1, <3>2 DEF Inv, GivenNext
    <3>3. CASE i \notin got
      BY <1>3, <2>1, <3>3
    <3> QED
      BY <3>2, <3>3
  <2> QED
    BY <1>1, <1>2, <1>3, <2>1 DEF GivenNext
<1> QED
  BY <1>4, <1>5, <1>7, <1>8 DEF Inv

(* The queue: its head is the oldest, its tail stays in order.             *)

LEMMA TailFacts ==
  ASSUME NEW q \in Seq(Ids), q # <<>>
  PROVE  /\ Tail(q) \in Seq(Ids) /\ Head(q) = q[1] /\ 1 \in DOMAIN q /\ Head(q) \in Ids
         /\ \A k \in DOMAIN Tail(q) :
              k \in Nat /\ k + 1 \in DOMAIN q /\ Tail(q)[k] = q[k + 1]
         /\ \A k \in DOMAIN q :
              /\ k \in Nat /\ k >= 1 /\ q[k] \in Ids
              /\ k # 1 => k - 1 \in DOMAIN Tail(q) /\ q[k] = Tail(q)[k - 1]
<1>1. /\ Len(q) \in Nat /\ Len(q) >= 1 /\ DOMAIN q = 1..Len(q)
      /\ \A k \in 1..Len(q) : q[k] \in Ids
  OBVIOUS
<1>2. /\ Tail(q) \in Seq(Ids) /\ Len(Tail(q)) = Len(q) - 1 /\ Head(q) = q[1]
      /\ DOMAIN Tail(q) = 1..(Len(q) - 1)
  BY <1>1
<1>3. \A k \in 1..(Len(q) - 1) : Tail(q)[k] = q[k + 1]
  BY <1>1
<1>4. ASSUME NEW k \in DOMAIN q, k # 1
      PROVE  k - 1 \in DOMAIN Tail(q) /\ q[k] = Tail(q)[k - 1]
  <2>1. k - 1 \in 1..(Len(q) - 1) /\ (k - 1) + 1 = k
    BY <1>1, <1>4
  <2> QED
    BY <1>2, <1>3, <2>1
<1> QED
  BY <1>1, <1>2, <1>3, <1>4

LEMMA TailAscends ==
  ASSUME NEW q \in Seq(Ids), q # <<>>, Ascending(q), MaxChat \in Nat
  PROVE  Ascending(Tail(q)) /\ \A k \in DOMAIN q : Head(q) <= q[k]
<1>1. ASSUME NEW j \in DOMAIN Tail(q), NEW k \in DOMAIN Tail(q), j < k
      PROVE  Tail(q)[j] < Tail(q)[k]
  <2>1. j + 1 < k + 1
    BY <1>1, TailFacts
  <2> QED
    BY <1>1, <2>1, TailFacts DEF Ascending
<1>2. ASSUME NEW k \in DOMAIN q PROVE Head(q) <= q[k]
  <2>1. CASE k = 1
    BY <2>1, TailFacts DEF Ids
  <2>2. CASE k # 1
    <3>1. 1 < k /\ q[1] \in Int /\ q[k] \in Int
      BY <2>2, TailFacts DEF Ids
    <3> QED
      BY <3>1, TailFacts DEF Ascending
  <2> QED
    BY <2>1, <2>2
<1> QED
  BY <1>1, <1>2 DEF Ascending

LEMMA AppendFacts ==
  ASSUME NEW q \in Seq(Ids), NEW x \in Ids
  PROVE  /\ Append(q, x) \in Seq(Ids)
         /\ DOMAIN q = 1..Len(q) /\ Len(q) \in Nat
         /\ DOMAIN Append(q, x) = 1..(Len(q) + 1)
         /\ \A k \in 1..Len(q) : Append(q, x)[k] = q[k]
         /\ Append(q, x)[Len(q) + 1] = x
OBVIOUS

(* A step of the call, or a message handed over, while the agent waits.    *)
LEMMA CallKeeps ==
  ASSUME Inv, UNCHANGED sendVars,
         \/ WaitBegin \/ WaitConnect \/ WaitBaseline \/ WaitRegister \/ WaitScan \/ WaitNext
         \/ Dispatch \/ WaitFails
  PROVE  Inv'
<1>0. /\ Len(chat) \in Nat /\ Len(chat) <= MaxChat /\ Incoming \subseteq 1..Len(chat)
      /\ MaxChat \in Nat /\ DOMAIN chat = 1..Len(chat)
  BY ChatFacts DEF Inv
<1>1. /\ wait \in Waits /\ wait.baseline \in 0..MaxChat /\ wait.found \in 0..MaxChat
      /\ wait.dispatched \in 0..MaxChat /\ wait.queue \in Seq(Ids)
      /\ wait.after \in MessageCursors /\ cursor \in MessageCursors /\ cursor \in Int
      /\ cursor <= Len(chat) /\ wait.baseline <= Len(chat)
      /\ wait.dispatched <= Len(chat) /\ wait.found <= Len(chat)
  BY CursorTypes DEF Inv, TypeOK, WaitTypeOK, Waits, WithinChat
<1>2. /\ UNCHANGED <<cursor, origin, got, chat>> /\ Incoming' = Incoming
      /\ fails' \in 0..MaxFails
  BY WaitAssumption
  DEF WaitBegin, WaitConnect, WaitBaseline, WaitRegister, WaitScan, WaitNext, Dispatch,
      WaitFails, UnchangedAgent, Incoming, Inv, TypeOK, WaitTypeOK
<1>3. NothingMissed' /\ GivenNext' /\ got' \subseteq Incoming'
  BY <1>2 DEF Inv, NothingMissed, GivenNext
<1>4. ASSUME wait' \in Waits, step' \in {"idle", "connect", "baseline", "register", "scan",
                                        "live", "arrived"}
      PROVE  TypeOK'
  BY <1>2, <1>4 DEF Inv, TypeOK, WaitTypeOK, sendVars
<1>5. ASSUME NEW c \in MessageCursors, wait' = NewWait(c),
             \/ step' = "idle"
             \/ step' = "connect" /\ c = cursor
      PROVE  Inv'
  <2>1. wait' \in Waits /\ TypeOK'
    BY <1>4, <1>5, NewWaitType
  <2>2. WithinChat' /\ QueueOrdered' /\ CallInv' /\ NothingBetween' /\ AnswerIsNext'
    BY <1>0, <1>1, <1>2, <1>5
    DEF WithinChat, QueueOrdered, Ascending, CallInv, NothingBetween, AnswerIsNext, NewWait
  <2> QED
    BY <1>3, <2>1, <2>2 DEF Inv
<1>6. CASE WaitBegin
  BY <1>1, <1>5, <1>6 DEF WaitBegin, Enter
<1>7. CASE WaitFails
  BY <1>5, <1>7, CursorTypes DEF WaitFails
<1>8. CASE WaitConnect
  <2>1. PICK n \in 0..Len(chat) : wait' = [wait EXCEPT !.dispatched = n]
    BY <1>8 DEF WaitConnect
  <2>2. step = "connect" /\ step' = "baseline" /\ wait.queue = <<>>
    BY <1>8 DEF WaitConnect, Enter, Inv, CallInv
  <2>3. wait' \in Waits /\ TypeOK'
    BY <1>0, <1>1, <1>4, <2>1, <2>2 DEF Waits
  <2>4. WithinChat' /\ QueueOrdered' /\ CallInv' /\ NothingBetween' /\ AnswerIsNext'
    BY <1>0, <1>1, <1>2, <2>1, <2>2
    DEF Waits, Inv, WithinChat, QueueOrdered, CallInv, NothingBetween, AnswerIsNext
  <2> QED
    BY <1>3, <2>3, <2>4 DEF Inv
<1>9. CASE WaitBaseline
  <2> DEFINE b == IF wait.after = NoCursor THEN Len(chat) ELSE wait.after
  <2>1. /\ wait' = [wait EXCEPT !.baseline = b] /\ step = "baseline" /\ step' = "register"
        /\ wait.after = cursor
    BY <1>9 DEF WaitBaseline, Enter, Inv, CallInv
  <2>2. b \in 0..MaxChat /\ b <= Len(chat)
    BY <1>0, <1>1, <2>1 DEF MessageCursors
  <2>3. wait' \in Waits /\ TypeOK'
    BY <1>1, <1>4, <2>1, <2>2 DEF Waits
  <2>4. WithinChat' /\ QueueOrdered' /\ NothingBetween' /\ AnswerIsNext'
    BY <1>0, <1>1, <1>2, <2>1, <2>2
    DEF Waits, Inv, WithinChat, QueueOrdered, NothingBetween, AnswerIsNext
  <2>5. CallInv'
    BY <1>1, <1>2, <2>1 DEF Waits, Inv, CallInv
  <2> QED
    BY <1>3, <2>3, <2>4, <2>5 DEF Inv
<1>10. CASE WaitRegister
  <2>1. wait' = [wait EXCEPT !.registered = TRUE] /\ step = "register" /\ step' = "scan"
    BY <1>10 DEF WaitRegister, Enter
  <2>2. wait' \in Waits /\ TypeOK'
    BY <1>1, <1>4, <2>1 DEF Waits
  <2>3. WithinChat' /\ QueueOrdered' /\ CallInv' /\ NothingBetween' /\ AnswerIsNext'
    BY <1>1, <1>2, <2>1
    DEF Waits, Inv, WithinChat, QueueOrdered, CallInv, NothingBetween, AnswerIsNext
  <2> QED
    BY <1>3, <2>2, <2>3 DEF Inv
<1>11. CASE WaitScan
  <2>1. CASE /\ \A i \in Incoming : ~(i > wait.baseline)
             /\ step = "scan" /\ step' = "live" /\ wait' = wait
    <3>1. TypeOK' /\ WithinChat' /\ QueueOrdered' /\ CallInv' /\ AnswerIsNext'
      BY <1>1, <1>2, <1>4, <2>1 DEF Inv, WithinChat, QueueOrdered, CallInv, AnswerIsNext
    <3>2. NothingBetween'
      BY <1>2, <2>1 DEF NothingBetween
    <3> QED
      BY <1>3, <3>1, <3>2 DEF Inv
  <2>2. ASSUME NEW i \in Incoming, i > wait.baseline, step = "scan", step' = "arrived",
               \A j \in Incoming : j > wait.baseline => i <= j,
               wait' = [wait EXCEPT !.found = i]
        PROVE  Inv'
    <3>1. i \in 0..MaxChat /\ i <= Len(chat)
      BY <1>0
    <3>2. wait' \in Waits /\ TypeOK'
      BY <1>1, <1>4, <2>2, <3>1 DEF Waits
    <3>3. WithinChat' /\ QueueOrdered' /\ CallInv' /\ NothingBetween'
      BY <1>1, <1>2, <2>2, <3>1
      DEF Waits, Inv, WithinChat, QueueOrdered, CallInv, NothingBetween
    <3>4. wait'.found = i /\ wait'.baseline = wait.baseline
      BY <1>1, <2>2 DEF Waits
    <3>5. AnswerIsNext'
      BY <1>0, <1>1, <1>2, <2>2, <3>4 DEF AnswerIsNext
    <3> QED
      BY <1>3, <3>2, <3>3, <3>5 DEF Inv
  <2> QED
    BY <1>11, <2>1, <2>2 DEF WaitScan, Enter
<1>12. CASE WaitNext
  <2> DEFINE next == Head(wait.queue)
  <2>1. /\ wait.queue # <<>> /\ step = "live"
        /\ step' = IF next <= wait.baseline THEN "live" ELSE "arrived"
        /\ wait' = [wait EXCEPT !.queue = Tail(@), !.found = next]
    BY <1>12 DEF WaitNext, Enter
  <2>2. /\ next \in Ids /\ Tail(wait.queue) \in Seq(Ids)
        /\ next = wait.queue[1] /\ 1 \in DOMAIN wait.queue
        /\ \A k \in DOMAIN Tail(wait.queue) :
             k + 1 \in DOMAIN wait.queue /\ Tail(wait.queue)[k] = wait.queue[k + 1]
        /\ \A k \in DOMAIN wait.queue :
             k # 1 => k - 1 \in DOMAIN Tail(wait.queue) /\ wait.queue[k] = Tail(wait.queue)[k - 1]
    BY <1>1, <2>1, TailFacts
  <2>3. /\ next \in Incoming /\ next <= wait.dispatched
        /\ \A k \in DOMAIN wait.queue : next <= wait.queue[k]
        /\ Ascending(Tail(wait.queue))
    <3>1. Ascending(Tail(wait.queue)) /\ \A k \in DOMAIN wait.queue : next <= wait.queue[k]
      BY <1>0, <1>1, <2>1, TailAscends DEF Inv, QueueOrdered
    <3> QED
      BY <2>2, <3>1 DEF Inv, QueueOrdered
  <2>4. /\ wait'.queue = Tail(wait.queue) /\ wait'.found = next
        /\ wait'.baseline = wait.baseline /\ wait'.dispatched = wait.dispatched
        /\ wait'.after = wait.after /\ wait'.registered = wait.registered
    BY <1>1, <2>1 DEF Waits
  <2>5. wait' \in Waits /\ TypeOK'
    <3>1. next \in 0..MaxChat
      BY <2>2 DEF Ids
    <3>2. wait' \in Waits
      BY <1>1, <2>1, <2>2, <3>1 DEF Waits
    <3> QED
      BY <1>4, <2>1, <3>2
  <2>6. WithinChat'
    <3>1. next \in 1..Len(chat)
      BY <1>0, <2>3
    <3> QED
      BY <1>1, <1>2, <2>4, <3>1 DEF WithinChat
  <2>7. QueueOrdered'
    <3>1. ASSUME NEW k \in DOMAIN Tail(wait.queue)
          PROVE  Tail(wait.queue)[k] \in Incoming /\ Tail(wait.queue)[k] <= wait.dispatched
      BY <2>2 DEF Inv, QueueOrdered
    <3> QED
      BY <1>2, <2>3, <2>4, <3>1 DEF QueueOrdered
  <2>8. CallInv'
    BY <1>2, <2>1, <2>4 DEF Inv, CallInv
  <2>9. NothingBetween'
    <3> SUFFICES ASSUME next <= wait.baseline, NEW i \in Incoming, i > wait.baseline,
                        ~(i > wait.dispatched)
                 PROVE  \E k \in DOMAIN wait'.queue : wait'.queue[k] = i
      BY <1>2, <2>1, <2>4 DEF NothingBetween
    <3>1. PICK k \in DOMAIN wait.queue : wait.queue[k] = i
      BY <2>1 DEF Inv, NothingBetween
    <3>2. k # 1
      BY <1>0, <1>1, <2>2, <2>3, <3>1
    <3> QED
      <4>1. k - 1 \in DOMAIN Tail(wait.queue) /\ Tail(wait.queue)[k - 1] = i
        BY <2>2, <3>1, <3>2
      <4> QED
        BY <2>4, <4>1
  <2>10. AnswerIsNext'
    <3> SUFFICES ASSUME ~(next <= wait.baseline), NEW i \in Incoming, i > wait.baseline
                 PROVE  next > wait.baseline /\ i >= next
      BY <1>2, <2>1, <2>3, <2>4, <2>2, <1>1 DEF AnswerIsNext, Ids
    <3>1. CASE i > wait.dispatched
      BY <1>0, <1>1, <2>2, <2>3, <3>1 DEF Ids
    <3>2. CASE \E k \in DOMAIN wait.queue : wait.queue[k] = i
      BY <1>0, <1>1, <2>2, <2>3, <3>2 DEF Ids
    <3> QED
      BY <2>1, <3>1, <3>2 DEF Inv, NothingBetween
  <2> QED
    BY <1>3, <2>5, <2>6, <2>7, <2>8, <2>9, <2>10 DEF Inv
<1>13. CASE Dispatch
  <2> DEFINE next == wait.dispatched + 1
             queued == IF wait.registered /\ next \in Incoming
                       THEN Append(wait.queue, next) ELSE wait.queue
  <2>1. /\ step \notin {"idle", "connect"} /\ step' = step /\ next <= Len(chat)
        /\ wait' = [wait EXCEPT !.dispatched = next, !.queue = queued]
    BY <1>0, <1>1, <1>13 DEF Dispatch
  <2>2. next \in Ids /\ next \in 0..MaxChat /\ next \in Nat
    BY <1>0, <1>1, <2>1 DEF Ids
  <2>3. /\ queued \in Seq(Ids) /\ DOMAIN wait.queue \subseteq DOMAIN queued
        /\ \A k \in DOMAIN wait.queue : queued[k] = wait.queue[k] /\ k \in Nat
        /\ \A k \in DOMAIN queued \ DOMAIN wait.queue :
             /\ k \in Nat /\ queued[k] = next /\ next \in Incoming
             /\ \A j \in DOMAIN queued : j <= k
        /\ wait.registered /\ next \in Incoming => \E k \in DOMAIN queued : queued[k] = next
    <3>1. CASE wait.registered /\ next \in Incoming
      <4>1. queued = Append(wait.queue, next)
        BY <3>1
      <4> HIDE DEF queued, next
      <4>2. /\ queued \in Seq(Ids) /\ DOMAIN wait.queue = 1..Len(wait.queue)
            /\ Len(wait.queue) \in Nat /\ DOMAIN queued = 1..(Len(wait.queue) + 1)
            /\ \A k \in 1..Len(wait.queue) : queued[k] = wait.queue[k]
            /\ queued[Len(wait.queue) + 1] = next
        BY <1>1, <2>2, <4>1, AppendFacts
      <4>3. \A k \in DOMAIN queued \ DOMAIN wait.queue : k = Len(wait.queue) + 1
        BY <4>2
      <4> QED
        BY <3>1, <4>2, <4>3
    <3>2. CASE ~(wait.registered /\ next \in Incoming)
      <4>1. queued = wait.queue
        BY <3>2
      <4> HIDE DEF queued
      <4> QED
        BY <1>1, <3>2, <4>1
    <3> QED
      BY <3>1, <3>2
  <2>4. /\ wait'.queue = queued /\ wait'.found = wait.found
        /\ wait'.baseline = wait.baseline /\ wait'.dispatched = next
        /\ wait'.after = wait.after /\ wait'.registered = wait.registered
    BY <1>1, <2>1 DEF Waits
  <2>5. wait' \in Waits /\ TypeOK'
    <3>1. wait' \in Waits
      BY <1>1, <2>1, <2>2, <2>3 DEF Waits
    <3> QED
      BY <1>4, <2>1, <3>1 DEF Inv, TypeOK, WaitTypeOK
  <2>6. WithinChat'
    BY <1>1, <1>2, <2>1, <2>4 DEF WithinChat
  <2>7. QueueOrdered'
    <3>1. ASSUME NEW k \in DOMAIN wait.queue
          PROVE  wait.queue[k] < next /\ wait.queue[k] \in Incoming /\ wait.queue[k] \in Nat
      <4>1. wait.queue[k] \in Incoming /\ wait.queue[k] <= wait.dispatched
        BY DEF Inv, QueueOrdered
      <4>2. wait.queue[k] \in 1..Len(chat)
        BY <1>0, <4>1
      <4> QED
        BY <1>0, <1>1, <4>1, <4>2
    <3>2. ASSUME NEW k \in DOMAIN queued PROVE queued[k] \in Incoming /\ queued[k] <= next
      BY <2>2, <2>3, <3>1
    <3>3. ASSUME NEW j \in DOMAIN queued, NEW k \in DOMAIN queued, j < k
          PROVE  queued[j] < queued[k]
      <4>1. j \in DOMAIN wait.queue
        <5>1. ASSUME j \notin DOMAIN wait.queue PROVE FALSE
          BY <2>3, <3>3, <5>1
        <5> QED
          BY <5>1
      <4> QED
        BY <2>3, <3>1, <3>3, <4>1 DEF Inv, QueueOrdered, Ascending
    <3> QED
      BY <1>2, <2>4, <3>2, <3>3 DEF QueueOrdered, Ascending
  <2>8. CallInv'
    BY <1>2, <2>1, <2>4 DEF Inv, CallInv
  <2>9. NothingBetween'
    <3> SUFFICES ASSUME step = "live", NEW i \in Incoming, i > wait.baseline, ~(i > next)
                 PROVE  \E k \in DOMAIN queued : queued[k] = i
      BY <1>2, <2>1, <2>4 DEF NothingBetween
    <3>1. wait.registered
      BY DEF Inv, CallInv
    <3>2. CASE i = next
      BY <2>3, <3>1, <3>2
    <3>3. CASE i # next
      <4>1. ~(i > wait.dispatched)
        BY <1>0, <1>1, <3>3
      <4> QED
        BY <2>3, <4>1 DEF Inv, NothingBetween
    <3> QED
      BY <3>2, <3>3
  <2>10. AnswerIsNext'
    BY <1>2, <2>1, <2>4 DEF Inv, AnswerIsNext
  <2> QED
    BY <1>3, <2>5, <2>6, <2>7, <2>8, <2>9, <2>10 DEF Inv
<1> QED
  BY <1>6, <1>7, <1>8, <1>9, <1>10, <1>11, <1>12, <1>13

LEMMA StepInv == Inv /\ [Next]_vars => Inv'
<1> SUFFICES ASSUME Inv, [Next]_vars PROVE Inv'
  OBVIOUS
<1>1. ASSUME NEW a \in Authors, Accepted(a) PROVE chat' \in Seq(Authors) /\ Len(chat') <= MaxChat
  BY <1>1, ChatAssumption DEF Accepted, Inv, TypeOK
<1>2. CASE PeerWrites
  <2>1. TypeOK'
    BY <1>1, <1>2 DEF PeerWrites, Authors, Inv, TypeOK, WaitTypeOK, sendVars, waitVars
  <2> QED
    BY <1>2, <2>1, ChatGrows DEF PeerWrites, Authors
<1>3. ASSUME NEW r \in Requests, TelegramAccepts(r) PROVE Inv'
  <2>1. outcome' = outcome /\ asking' = asking /\ UNCHANGED waitVars /\ Accepted(r)
    BY <1>3 DEF TelegramAccepts, Once!Accept
  <2>2. TypeOK'
    BY <1>1, <2>1 DEF Authors, Inv, TypeOK, WaitTypeOK, waitVars
  <2> QED
    BY <2>1, <2>2, ChatGrows DEF Authors
<1>4. ASSUME asking' \in Requests \cup {None}, outcome' \in [Requests -> Once!Outcomes],
             UNCHANGED <<chat, waitVars>>
      PROVE  Inv'
  BY <1>4
  DEF Inv, TypeOK, WaitTypeOK, waitVars, WithinChat, QueueOrdered, CallInv, NothingBetween,
      AnswerIsNext, NothingMissed, GivenNext, Incoming
<1>5. CASE SendEnds
  <2>1. outcome' \in [Requests -> Once!Outcomes]
    BY <1>5 DEF SendEnds, Once!Report, Inv, TypeOK
  <2> QED
    BY <1>4, <1>5, <2>1 DEF SendEnds
<1>6. ASSUME NEW r \in Requests, AgentSends(r) PROVE Inv'
  BY <1>4, <1>6 DEF AgentSends, Inv, TypeOK
<1>7. ASSUME NEW r \in Requests, AgentFollows(r) PROVE Inv'
  <2>1. PICK i \in DOMAIN chat : cursor' = i /\ origin' = i
    BY <1>7 DEF AgentFollows, Copies
  <2>2. /\ step = "idle" /\ UNCHANGED <<step, wait, got, fails, chat, sendVars>>
        /\ Incoming' = Incoming
    BY <1>7 DEF AgentFollows, Incoming
  <2>3. i \in 0..MaxChat /\ i <= Len(chat) /\ Incoming \subseteq 1..Len(chat) /\ Len(chat) \in Nat
    BY ChatFacts DEF Inv
  <2>4. TypeOK'
    BY <2>1, <2>2, <2>3, CursorTypes DEF Inv, TypeOK, WaitTypeOK, sendVars
  <2>5. NothingMissed'
    BY <2>1, <2>2, <2>3 DEF NothingMissed
  <2>6. cursor < i
    BY <1>7, <2>1 DEF AgentFollows
  <2>7. GivenNext' /\ got' \subseteq Incoming'
    <3>1. ASSUME NEW j \in Incoming, i < j
          PROVE  cursor < j
      BY <2>3, <2>6, <3>1, CursorTypes DEF Inv, TypeOK, WaitTypeOK
    <3> QED
      BY <2>1, <2>2, <3>1 DEF Inv, GivenNext
  <2> QED
    BY <2>1, <2>2, <2>3, <2>4, <2>5, <2>7
    DEF Inv, WithinChat, QueueOrdered, CallInv, NothingBetween, AnswerIsNext
<1>8. CASE WaitTimeout /\ UNCHANGED sendVars
  BY <1>8, ReturnKeeps DEF WaitTimeout
<1>9. CASE WaitArrived /\ UNCHANGED sendVars
  BY <1>9, ReturnKeeps DEF WaitArrived
<1>11. CASE AgentGoesOn
  <2>1. PICK i \in got : i > cursor /\ cursor' = i
    BY <1>11 DEF AgentGoesOn
  <2>2. /\ step = "idle" /\ UNCHANGED <<step, wait, origin, got, fails, chat, sendVars>>
        /\ Incoming' = Incoming
    BY <1>11 DEF AgentGoesOn, Incoming
  <2>3. /\ Incoming \subseteq 1..Len(chat) /\ Len(chat) \in Nat /\ Len(chat) <= MaxChat
        /\ i \in 0..MaxChat /\ i <= Len(chat) /\ cursor \in Int /\ i \in Incoming
    BY ChatFacts, CursorTypes DEF Inv, TypeOK, WaitTypeOK
  <2>4. TypeOK'
    BY <2>1, <2>2, <2>3, CursorTypes DEF Inv, TypeOK, WaitTypeOK, sendVars
  <2>5. ASSUME NEW j \in Incoming, cursor < j, j <= i
        PROVE  j = i
    <3>1. i <= j
      BY <2>5 DEF Inv, GivenNext
    <3> QED
      BY <2>3, <2>5, <3>1
  <2>6. NothingMissed'
    <3> SUFFICES ASSUME NEW j \in Incoming, origin # NoCursor, origin < j, j <= i
                 PROVE  j \in got
      BY <2>1, <2>2 DEF NothingMissed
    <3>1. j <= cursor \/ cursor < j
      BY <2>3
    <3> QED
      BY <2>5, <3>1 DEF Inv, NothingMissed
  <2>7. GivenNext' /\ got' \subseteq Incoming'
    <3>1. ASSUME NEW j \in Incoming, i < j
          PROVE  cursor < j
      BY <2>1, <2>3, <3>1
    <3> QED
      BY <2>1, <2>2, <3>1 DEF Inv, GivenNext
  <2> QED
    BY <2>1, <2>2, <2>3, <2>4, <2>6, <2>7
    DEF Inv, WithinChat, QueueOrdered, CallInv, NothingBetween, AnswerIsNext
<1>10. CASE UNCHANGED vars
  BY <1>4, <1>10 DEF vars, sendVars, Inv, TypeOK
<1> QED
  BY <1>2, <1>3, <1>5, <1>6, <1>7, <1>8, <1>9, <1>10, <1>11, CallKeeps
  DEF Next, AgentWaits, CallWait, WaitStep

LEMMA SpecInv == Spec => []Inv
BY InitInv, StepInv, PTL DEF Spec

(* Every state of a conversation is well typed, its waits included.        *)
THEOREM TypeCorrect == Spec => []TypeOK
BY SpecInv, PTL DEF Inv

(* The handler, registered before the history is read, closes the gap      *)
(* (wait_for_message), whatever Telegram takes for new.                    *)
THEOREM GapClosed == Spec => []NothingBetween
BY SpecInv, PTL DEF Inv

(* The answer is the first incoming message after the cursor               *)
(* (wait_for_message), from the history or from the queue.                 *)
THEOREM FirstAnswered == Spec => []AnswerIsNext
BY SpecInv, PTL DEF Inv

(* An agent that goes on from the cursors and message IDs `tele wait`      *)
(* returns was given every incoming message up to its cursor, through      *)
(* timeouts, failed calls and messages that arrive at any moment.          *)
THEOREM NoneSkipped == Spec => []NothingMissed
BY SpecInv, PTL DEF Inv
=============================================================================
