--------------------------- MODULE IpcSendProofs ---------------------------
(***************************************************************************)
(* `tele send` keeps the promise of SendOnce, for any number of requests,  *)
(* whatever becomes of the listener, its socket and its connections.       *)
(***************************************************************************)
EXTENDS IpcSend, FiniteSetTheorems, TLAPS

Before == {"idle", "inspect", "connect", "write", "written", "reading", "received", "direct"}
Silent == {"none", "refused"}

(* A place has called send_message only if it got that far, has stored     *)
(* only what was acknowledged, and answers when it is done.                *)
PlaceInv(w) ==
  /\ at[w] \in Before => call[w] = "none"
  /\ at[w] = "storing" => call[w] = "accepted"
  /\ at[w] # "done" <=> answer[w] = NoCode

(* Only one place ever sends: the client does not once it has connected,   *)
(* and the handler does nothing before it has the whole request.           *)
RouteInv(r) ==
  /\ at[Handler(r)] # "idle" =>
       at[Client(r)] \in {"write", "written", "done"} /\ call[Client(r)] = "none"
  /\ at[Client(r)] = "write" =>
       at[Handler(r)] \in {"reading", "done", "gone"} /\ call[Handler(r)] = "none"

(* What the answers say of the calls, for good.                            *)
AnswerInv(r) ==
  /\ answer[Handler(r)] = "sent" => call[Handler(r)] = "accepted"
  /\ answer[Handler(r)] \in NotSent => call[Handler(r)] \in Silent
  /\ answer[Client(r)] = "sent" =>
       call[Client(r)] = "accepted" \/ call[Handler(r)] = "accepted"
  /\ answer[Client(r)] \in NotSent =>
       /\ call[Client(r)] \in Silent /\ call[Handler(r)] \in Silent
       /\ at[Handler(r)] \in {"idle", "reading", "done", "gone"}

Sent(r) == call[Client(r)] = "accepted" \/ call[Handler(r)] = "accepted"

CopiesInv(r) ==
  /\ Sent(r) => \E i \in DOMAIN chat : Copies(r) = {i}
  /\ ~Sent(r) => Copies(r) = {}

RequestInv(r) ==
  PlaceInv(Client(r)) /\ PlaceInv(Handler(r)) /\ RouteInv(r) /\ AnswerInv(r)

Inv == TypeOK /\ \A r \in Requests : RequestInv(r) /\ CopiesInv(r)

Same(q) ==
  /\ at'[Client(q)] = at[Client(q)] /\ at'[Handler(q)] = at[Handler(q)]
  /\ answer'[Client(q)] = answer[Client(q)] /\ answer'[Handler(q)] = answer[Handler(q)]
  /\ call'[Client(q)] = call[Client(q)] /\ call'[Handler(q)] = call[Handler(q)]

LEMMA PlacesApart ==
  /\ \A r \in Requests : Client(r) \in Runs /\ Handler(r) \in Runs
  /\ \A q, r \in Requests : Client(q) # Handler(r)
  /\ \A q, r \in Requests : q # r => Client(q) # Client(r) /\ Handler(q) # Handler(r)
  /\ \A w \in Runs : w[1] \in Requests /\ (w = Client(w[1]) \/ w = Handler(w[1]))
BY DEF Client, Handler, Runs, Places

LEMMA SameInv ==
  ASSUME NEW q \in Requests, RequestInv(q), Same(q) PROVE RequestInv(q)'
BY DEF RequestInv, Same, PlaceInv, RouteInv, AnswerInv

(* Nothing but one request moves, and Telegram does not take a message.    *)
LEMMA Frame ==
  ASSUME Inv, TypeOK', NEW r \in Requests, RequestInv(r)',
         \A q \in Requests \ {r} : Same(q),
         chat' = chat, Sent(r)' <=> Sent(r)
  PROVE  Inv'
<1> SUFFICES ASSUME NEW q \in Requests PROVE RequestInv(q)' /\ CopiesInv(q)'
  BY DEF Inv
<1>1. RequestInv(q)'
  BY SameInv DEF Inv
<1>2. Copies(q)' = Copies(q)
  BY DEF Copies
<1>3. Sent(q)' <=> Sent(q)
  BY DEF Same, Sent
<1> QED
  BY <1>1, <1>2, <1>3 DEF Inv, CopiesInv

LEMMA InitInv == Init => Inv
<1> SUFFICES ASSUME Init PROVE Inv
  OBVIOUS
<1>1. TypeOK
  BY ChatAssumption DEF Init, TypeOK, Steps, Codes, NotSent, NoCode
<1>2. ASSUME NEW r \in Requests PROVE RequestInv(r) /\ CopiesInv(r)
  <2>1. /\ at[Client(r)] = "idle" /\ at[Handler(r)] = "idle"
        /\ answer[Client(r)] = NoCode /\ answer[Handler(r)] = NoCode
        /\ call[Client(r)] = "none" /\ call[Handler(r)] = "none"
    BY PlacesApart DEF Init
  <2>2. RequestInv(r)
    BY <2>1 DEF RequestInv, PlaceInv, RouteInv, AnswerInv, NoCode, NotSent
  <2>3. Copies(r) = {} /\ ~Sent(r)
    BY <2>1 DEF Init, Copies, Sent
  <2> QED
    BY <2>2, <2>3 DEF CopiesInv
<1> QED
  BY <1>1, <1>2 DEF Inv

(* A place ends, or goes on; the rest of its request and the other ones    *)
(* stay.                                                                   *)
LEMMA Ending ==
  ASSUME TypeOK, NEW w \in Runs, NEW code \in Codes, Finish(w, code)
  PROVE  /\ at' \in [Runs -> Steps] /\ answer' \in [Runs -> Codes \cup {NoCode}]
         /\ at'[w] = "done" /\ answer'[w] = code
         /\ \A v \in Runs : v # w => at'[v] = at[v] /\ answer'[v] = answer[v]
BY DEF Finish, TypeOK, Steps

LEMMA Going ==
  ASSUME TypeOK, NEW w \in Runs, NEW to \in Steps, at' = [at EXCEPT ![w] = to]
  PROVE  /\ at' \in [Runs -> Steps] /\ at'[w] = to
         /\ \A v \in Runs : v # w => at'[v] = at[v]
BY DEF TypeOK

(* One place of one request moves.                                         *)
Only(w) ==
  \A v \in Runs \ {w} : at'[v] = at[v] /\ answer'[v] = answer[v] /\ call'[v] = call[v]

LEMMA OthersSame ==
  ASSUME NEW r \in Requests, NEW w \in {Client(r), Handler(r)}, Only(w)
  PROVE  \A q \in Requests \ {r} : Same(q)
BY PlacesApart DEF Only, Same

LEMMA OnePlace ==
  ASSUME Inv, TypeOK', NEW r \in Requests, NEW w \in {Client(r), Handler(r)}, Only(w),
         chat' = chat, call'[w] = "accepted" <=> call[w] = "accepted",
         RequestInv(r)'
  PROVE  Inv'
<1>1. \A q \in Requests \ {r} : Same(q)
  BY OthersSame
<1>2. Sent(r)' <=> Sent(r)
  BY PlacesApart DEF Sent, Only
<1> QED
  BY <1>1, <1>2, Frame

(* A place ends with a code that its request's invariant allows.           *)
LEMMA Ends ==
  ASSUME Inv, NEW r \in Requests, NEW w \in {Client(r), Handler(r)}, NEW code \in Codes,
         Finish(w, code), UnchangedListener, UNCHANGED <<call, chat>>
  PROVE  /\ TypeOK' /\ Only(w) /\ at'[w] = "done" /\ answer'[w] = code
<1>1. w \in Runs
  BY PlacesApart
<1> QED
  BY <1>1, Ending DEF Inv, TypeOK, Only, UnchangedListener

LEMMA Goes ==
  ASSUME Inv, NEW r \in Requests, NEW w \in {Client(r), Handler(r)}, NEW to \in Steps,
         at' = [at EXCEPT ![w] = to], UnchangedListener, UNCHANGED <<answer, call, chat>>
  PROVE  /\ TypeOK' /\ Only(w) /\ at'[w] = to
<1>1. w \in Runs
  BY PlacesApart
<1> QED
  BY <1>1, Going DEF Inv, TypeOK, Only, UnchangedListener

-----------------------------------------------------------------------------
(* The client's own steps.                                                 *)

LEMMA ClientInv ==
  ASSUME Inv, NEW r \in Requests,
         Begin(r) \/ Inspect(r) \/ Connect(r) \/ Write(r) \/ ReadAnswer(r) \/ GiveUp(r)
           \/ Interrupt(r)
  PROVE  Inv'
<1> DEFINE w == Client(r)
           v == Handler(r)
<1>0. /\ w \in Runs /\ v \in Runs /\ w # v /\ RequestInv(r) /\ TypeOK
      /\ w = <<r, "client">> /\ v = <<r, "ipc">>
  BY PlacesApart DEF Inv, Client, Handler
<1>a. ASSUME NEW to \in {"inspect", "connect", "direct"}, at[w] \in {"idle", "inspect", "connect"},
             at' = [at EXCEPT ![w] = to],
             UnchangedListener, UNCHANGED <<answer, call, chat>>
      PROVE  Inv'
  <2>1. TypeOK' /\ Only(w) /\ at'[w] = to
    <3> to \in Steps
      BY DEF Steps
    <3> QED
      BY <1>a, Goes
  <2>2. at'[v] = at[v] /\ answer' = answer /\ call' = call
    BY <1>0, <1>a, <2>1 DEF Only
  <2>3. RequestInv(r)'
    BY <1>0, <1>a, <2>1, <2>2
    DEF RequestInv, PlaceInv, RouteInv, AnswerInv, Before, NoCode, NotSent
  <2> QED
    BY <1>a, <2>1, <2>3, OnePlace
<1>b. ASSUME NEW code \in Codes, at[w] # "done", Finish(w, code),
             UnchangedListener, UNCHANGED <<call, chat>>,
             code \in NotSent \cup {"sent"} =>
               \/ at[w] \in {"inspect", "write"} /\ code # "sent"
               \/ at[w] = "written" /\ at[v] = "done" /\ code = answer[v]
      PROVE  Inv'
  <2>1. TypeOK' /\ Only(w) /\ at'[w] = "done" /\ answer'[w] = code
    BY <1>b, Ends
  <2>2. at'[v] = at[v] /\ answer'[v] = answer[v] /\ call' = call
    BY <1>0, <1>b, <2>1 DEF Only
  <2>3. PlaceInv(w)' /\ PlaceInv(v)' /\ RouteInv(r)'
    BY <1>0, <1>b, <2>1, <2>2
    DEF RequestInv, PlaceInv, RouteInv, Before, Codes, NotSent, NoCode
  <2>4. AnswerInv(r)'
    BY <1>0, <1>b, <2>1, <2>2
    DEF RequestInv, PlaceInv, RouteInv, AnswerInv, Before, Silent, NotSent
  <2> QED
    BY <1>b, <2>1, <2>2, <2>3, <2>4, OnePlace DEF RequestInv
<1>1. CASE Begin(r)
  BY <1>0, <1>1, <1>a DEF Begin, Goto
<1>2. CASE Inspect(r)
  <2>1. CASE at[w] = "inspect" /\ Finish(w, "unavailable")
    BY <1>0, <1>2, <1>b, <2>1 DEF Inspect, Codes, NotSent
  <2>2. CASE Goto(w, "inspect", IF socket = "none" THEN "direct" ELSE "connect")
             /\ UNCHANGED answer
    BY <1>0, <1>2, <1>a, <2>2 DEF Inspect, Goto
  <2> QED
    BY <1>0, <1>2, <2>1, <2>2 DEF Inspect
<1>3. CASE Connect(r)
  <2>1. CASE at' = [at EXCEPT ![w] = "direct"]
    BY <1>0, <1>3, <1>a, <2>1 DEF Connect
  <2>2. CASE at' = [at EXCEPT ![w] = "write", ![v] = "reading"]
    <3>1. /\ at' \in [Runs -> Steps] /\ at'[w] = "write" /\ at'[v] = "reading"
          /\ \A u \in Runs \ {w, v} : at'[u] = at[u]
      BY <1>0, <2>2 DEF TypeOK, Steps
    <3>2. at[w] = "connect" /\ UnchangedListener /\ UNCHANGED <<answer, call, chat>>
      BY <1>0, <1>3 DEF Connect
    <3>3. TypeOK'
      BY <1>0, <3>1, <3>2 DEF TypeOK, UnchangedListener
    <3>4. \A q \in Requests \ {r} : Same(q)
      BY <3>1, <3>2, PlacesApart DEF Same
    <3>5. RequestInv(r)'
      BY <1>0, <3>1, <3>2
      DEF RequestInv, PlaceInv, RouteInv, AnswerInv, Before, NoCode, NotSent
    <3> QED
      BY <3>2, <3>3, <3>4, <3>5, Frame DEF Sent
  <2> QED
    BY <1>0, <1>3, <2>1, <2>2 DEF Connect
<1>4. CASE Write(r)
  <2>1. CASE Finish(w, "unavailable")
    BY <1>0, <1>4, <1>b, <2>1 DEF Write, Codes, NotSent
  <2>2. CASE /\ at' = [at EXCEPT ![w] = "written",
                                ![v] = IF @ = "reading" THEN "received" ELSE @]
             /\ UNCHANGED answer
    <3>1. /\ at' \in [Runs -> Steps] /\ at'[w] = "written"
          /\ at'[v] = IF at[v] = "reading" THEN "received" ELSE at[v]
          /\ \A u \in Runs \ {w, v} : at'[u] = at[u]
      BY <1>0, <2>2 DEF TypeOK, Steps
    <3>2. at[w] = "write" /\ UnchangedListener /\ UNCHANGED <<answer, call, chat>>
      BY <1>0, <1>4, <2>2 DEF Write
    <3>3. TypeOK'
      BY <1>0, <3>1, <3>2 DEF TypeOK, UnchangedListener
    <3>4. \A q \in Requests \ {r} : Same(q)
      BY <3>1, <3>2, PlacesApart DEF Same
    <3>5. RequestInv(r)'
      BY <1>0, <3>1, <3>2
      DEF RequestInv, PlaceInv, RouteInv, AnswerInv, Before, NoCode, NotSent
    <3> QED
      BY <3>2, <3>3, <3>4, <3>5, Frame DEF Sent
  <2> QED
    BY <1>0, <1>4, <2>1, <2>2 DEF Write
<1>5. CASE ReadAnswer(r)
  <2>1. at[w] = "written" /\ at[v] = "done" /\ Finish(w, answer[v])
        /\ UnchangedListener /\ UNCHANGED <<call, chat>>
    BY <1>0, <1>5 DEF ReadAnswer
  <2>2. answer[v] \in Codes
    BY <1>0, <2>1 DEF TypeOK, RequestInv, PlaceInv
  <2> QED
    BY <2>1, <2>2, <1>b
<1>6. CASE GiveUp(r)
  BY <1>0, <1>6, <1>b DEF GiveUp, Codes, NotSent
<1>7. CASE Interrupt(r)
  BY <1>0, <1>7, <1>b DEF Interrupt, Codes, NotSent
<1> QED
  BY <1>1, <1>2, <1>3, <1>4, <1>5, <1>6, <1>7

-----------------------------------------------------------------------------
(* Sending, at either place.                                               *)

LEMMA SendingInv ==
  ASSUME Inv, NEW r \in Requests, NEW w \in {Client(r), Handler(r)}, Sending(w)
  PROVE  Inv'
<1>0. /\ Client(r) \in Runs /\ Handler(r) \in Runs /\ Client(r) # Handler(r)
      /\ w \in Runs /\ RequestInv(r) /\ TypeOK
  BY PlacesApart DEF Inv
<1>1. \A q \in Runs \ {w} : Only(w) => at'[q] = at[q] /\ answer'[q] = answer[q] /\ call'[q] = call[q]
  BY DEF Only
<1>2. ASSUME NEW code \in Codes, Finish(w, code), UnchangedListener, UNCHANGED <<call, chat>>,
             at[w] \in {"received", "direct", "sending", "storing"},
             code \in NotSent => call[w] \in Silent,
             code = "sent" => call[w] = "accepted"
      PROVE  Inv'
  <2>1. TypeOK' /\ Only(w) /\ at'[w] = "done" /\ answer'[w] = code
    BY <1>2, Ends
  <2>2. call' = call
    BY <1>2
  <2>3. CASE w = Client(r)
    <3>1. at'[Handler(r)] = at[Handler(r)] /\ answer'[Handler(r)] = answer[Handler(r)]
      BY <1>0, <1>1, <2>1, <2>3
    <3>2. PlaceInv(Client(r))' /\ PlaceInv(Handler(r))' /\ RouteInv(r)'
      BY <1>0, <1>2, <2>1, <2>2, <2>3, <3>1
      DEF RequestInv, PlaceInv, RouteInv, Before, Codes, NotSent, NoCode
    <3>3. AnswerInv(r)'
      BY <1>0, <1>2, <2>1, <2>2, <2>3, <3>1
      DEF RequestInv, PlaceInv, RouteInv, AnswerInv, Before, Silent, NotSent
    <3> QED
      BY <3>2, <3>3, <2>1, <1>2, OnePlace DEF RequestInv
  <2>4. CASE w = Handler(r)
    <3>1. at'[Client(r)] = at[Client(r)] /\ answer'[Client(r)] = answer[Client(r)]
      BY <1>0, <1>1, <2>1, <2>4
    <3>2. PlaceInv(Client(r))' /\ PlaceInv(Handler(r))' /\ RouteInv(r)'
      BY <1>0, <1>2, <2>1, <2>2, <2>4, <3>1
      DEF RequestInv, PlaceInv, RouteInv, Before, Codes, NotSent, NoCode
    <3>3. AnswerInv(r)'
      BY <1>0, <1>2, <2>1, <2>2, <2>4, <3>1
      DEF RequestInv, PlaceInv, RouteInv, AnswerInv, Before, Silent, NotSent
    <3> QED
      BY <3>2, <3>3, <2>1, <1>2, OnePlace DEF RequestInv
  <2> QED
    BY <2>3, <2>4
<1>3. Unexpected(w) \in Codes /\ Unexpected(w) \notin NotSent \cup {"sent"}
  BY DEF Unexpected, Codes, NotSent
<1>4. ASSUME Resolve(w) PROVE Inv'
  <2>0. at[w] \in {"received", "direct"} /\ call[w] = "none" /\ answer[w] = NoCode
    BY <1>0, <1>4 DEF Resolve, RequestInv, PlaceInv, Before
  <2>1. CASE \E code \in {"refused", "dry_run", Unexpected(w)} : Finish(w, code)
             /\ UNCHANGED <<call, chat>> /\ UnchangedListener
    BY <1>2, <1>3, <2>0, <2>1 DEF Codes, NotSent, Silent
  <2>2. CASE /\ at' = [at EXCEPT ![w] = "sending"]
             /\ call' = [call EXCEPT ![w] = "inflight"]
             /\ UNCHANGED <<answer, chat>> /\ UnchangedListener
    <3>1. /\ TypeOK' /\ Only(w) /\ at'[w] = "sending" /\ call'[w] = "inflight"
      BY <1>0, <2>2 DEF TypeOK, UnchangedListener, Steps, Only
    <3>2. CASE w = Client(r)
      <4>1. at'[Handler(r)] = at[Handler(r)] /\ call'[Handler(r)] = call[Handler(r)]
        BY <1>0, <1>1, <3>1, <3>2
      <4>2. at[w] = "direct"
        BY <1>0, <1>4, <3>2 DEF Resolve, Client
      <4>3. RequestInv(r)'
        BY <1>0, <2>0, <2>2, <3>1, <3>2, <4>1, <4>2
        DEF RequestInv, PlaceInv, RouteInv, AnswerInv, Before, Silent, NotSent, NoCode
      <4> QED
        BY <2>0, <2>2, <3>1, <4>3, OnePlace
    <3>3. CASE w = Handler(r)
      <4>1. at'[Client(r)] = at[Client(r)] /\ call'[Client(r)] = call[Client(r)]
        BY <1>0, <1>1, <3>1, <3>3
      <4>2. at[w] = "received"
        BY <1>0, <1>4, <3>3 DEF Resolve, Handler
      <4>3. RequestInv(r)'
        BY <1>0, <2>0, <2>2, <3>1, <3>3, <4>1, <4>2
        DEF RequestInv, PlaceInv, RouteInv, AnswerInv, Before, Silent, NotSent, NoCode
      <4> QED
        BY <2>0, <2>2, <3>1, <4>3, OnePlace
    <3> QED
      BY <3>2, <3>3
  <2> QED
    BY <1>4, <2>1, <2>2 DEF Resolve
<1>5. ASSUME Acknowledged(w) PROVE Inv'
  <2>1. /\ TypeOK' /\ Only(w) /\ at'[w] = "storing" /\ at[w] = "sending"
        /\ call[w] = "accepted" /\ UNCHANGED <<answer, call, chat>>
    <3>1. "storing" \in Steps
      BY DEF Steps
    <3> QED
      BY <1>5, <3>1, Goes DEF Acknowledged, Goto
  <2>2. CASE w = Client(r)
    <3>1. at'[Handler(r)] = at[Handler(r)]
      BY <1>0, <1>1, <2>1, <2>2
    <3>2. RequestInv(r)'
      BY <1>0, <2>1, <2>2, <3>1
      DEF RequestInv, PlaceInv, RouteInv, AnswerInv, Before, NotSent, NoCode
    <3> QED
      BY <2>1, <3>2, OnePlace
  <2>3. CASE w = Handler(r)
    <3>1. at'[Client(r)] = at[Client(r)]
      BY <1>0, <1>1, <2>1, <2>3
    <3>2. RequestInv(r)'
      BY <1>0, <2>1, <2>3, <3>1
      DEF RequestInv, PlaceInv, RouteInv, AnswerInv, Before, NotSent, NoCode
    <3> QED
      BY <2>1, <3>2, OnePlace
  <2> QED
    BY <2>2, <2>3
<1>6. ASSUME SendFails(w) PROVE Inv'
  <2>1. PICK code : /\ code \in {"delivery_unknown", Unexpected(w), "refused"}
                    /\ code = "refused" => call[w] = "refused"
                    /\ Finish(w, code)
    BY <1>3, <1>6 DEF SendFails, NotSent
  <2> QED
    BY <1>2, <1>3, <1>6, <2>1 DEF SendFails, Codes, NotSent, Silent
<1>7. ASSUME Store(w) PROVE Inv'
  <2>1. call[w] = "accepted"
    BY <1>0, <1>7 DEF Store, RequestInv, PlaceInv
  <2> QED
    BY <1>2, <1>3, <1>7, <2>1 DEF Store, Codes, NotSent
<1> QED
  BY <1>4, <1>5, <1>6, <1>7 DEF Sending

-----------------------------------------------------------------------------
(* A handler's other ends, Telegram, and the listener's process.           *)

LEMMA HandlerEndsInv ==
  ASSUME Inv, NEW r \in Requests, Reject(r) \/ CancelHandler(r)
  PROVE  Inv'
<1> DEFINE w == Client(r)
           v == Handler(r)
<1>0. /\ w \in Runs /\ v \in Runs /\ w # v /\ RequestInv(r) /\ TypeOK
  BY PlacesApart DEF Inv
<1>1. PICK code \in {"refused", "listener_error"} :
        /\ Finish(v, code) /\ UnchangedListener /\ UNCHANGED <<call, chat>>
        /\ at[v] \in {"reading", "received", "sending", "storing"}
        /\ code = "refused" => at[v] \in {"reading", "received"}
  BY DEF Reject, CancelHandler, Active
<1>2. code \in Codes
  BY DEF Codes, NotSent
<1>3. TypeOK' /\ Only(v) /\ at'[v] = "done" /\ answer'[v] = code
  BY <1>1, <1>2, Ends
<1>4. at'[w] = at[w] /\ answer'[w] = answer[w] /\ call' = call
  BY <1>0, <1>1, <1>3 DEF Only
<1>5. PlaceInv(w)' /\ PlaceInv(v)' /\ RouteInv(r)'
  BY <1>0, <1>1, <1>3, <1>4 DEF RequestInv, PlaceInv, RouteInv, Before, NoCode
<1>6. AnswerInv(r)'
  BY <1>0, <1>1, <1>3, <1>4
  DEF RequestInv, PlaceInv, RouteInv, AnswerInv, Before, Silent, NotSent
<1> QED
  BY <1>1, <1>3, <1>4, <1>5, <1>6, OnePlace DEF RequestInv

(* While a call is in flight, nothing of its request has been accepted,    *)
(* and no answer says that it was not sent.                                *)
LEMMA InFlight ==
  ASSUME Inv, NEW r \in Requests, NEW w \in {Client(r), Handler(r)}, call[w] = "inflight"
  PROVE  /\ ~Sent(r) /\ at[w] \notin Before
         /\ answer[w] \notin NotSent \cup {"sent"}
         /\ answer[Client(r)] \notin NotSent \cup {"sent"}
<1>0. /\ Client(r) \in Runs /\ Handler(r) \in Runs /\ RequestInv(r) /\ TypeOK
  BY PlacesApart DEF Inv
<1>1. at[w] \notin Before
  BY <1>0 DEF RequestInv, PlaceInv
<1>2. CASE w = Client(r)
  <2>1. at[Handler(r)] = "idle" /\ call[Handler(r)] = "none" /\ ~Sent(r)
    BY <1>0, <1>2 DEF RequestInv, PlaceInv, RouteInv, Before, Sent
  <2> QED
    BY <1>0, <1>1, <1>2, <2>1 DEF RequestInv, AnswerInv, Silent, Sent
<1>3. CASE w = Handler(r)
  <2>1. call[Client(r)] = "none" /\ ~Sent(r)
    BY <1>0, <1>1, <1>3 DEF RequestInv, RouteInv, Before, Sent
  <2> QED
    BY <1>0, <1>1, <1>3, <2>1 DEF RequestInv, AnswerInv, Silent, Sent
<1> QED
  BY <1>2, <1>3

(* What Telegram's decision on a call leaves of its request's invariant.   *)
LEMMA Decided ==
  ASSUME Inv, NEW r \in Requests, NEW w \in {Client(r), Handler(r)}, call[w] = "inflight",
         NEW c \in {"accepted", "refused"}, call' = [call EXCEPT ![w] = c],
         UnchangedListener, UNCHANGED <<at, answer>>
  PROVE  RequestInv(r)' /\ Only(w) /\ call'[w] = c
<1>0. /\ Client(r) \in Runs /\ Handler(r) \in Runs /\ Client(r) # Handler(r)
      /\ w \in Runs /\ RequestInv(r) /\ TypeOK
  BY PlacesApart DEF Inv
<1>1. call'[w] = c /\ \A u \in Runs \ {w} : call'[u] = call[u]
  BY <1>0 DEF TypeOK
<1>2. Only(w)
  BY <1>1 DEF Only
<1>3. ~Sent(r) /\ at[w] \notin Before /\ answer[w] \notin NotSent \cup {"sent"}
      /\ answer[Client(r)] \notin NotSent \cup {"sent"}
  BY InFlight
<1>4. CASE w = Client(r)
  <2>1. call'[Handler(r)] = call[Handler(r)]
    BY <1>0, <1>1, <1>4
  <2>2. PlaceInv(Client(r))' /\ PlaceInv(Handler(r))' /\ RouteInv(r)'
    BY <1>0, <1>1, <1>3, <1>4, <2>1 DEF RequestInv, PlaceInv, RouteInv, Before
  <2>3. AnswerInv(r)'
    BY <1>0, <1>1, <1>3, <1>4, <2>1 DEF RequestInv, AnswerInv, Silent
  <2> QED
    BY <1>1, <1>2, <2>2, <2>3 DEF RequestInv
<1>5. CASE w = Handler(r)
  <2>1. call'[Client(r)] = call[Client(r)]
    BY <1>0, <1>1, <1>5
  <2>2. PlaceInv(Client(r))' /\ PlaceInv(Handler(r))' /\ RouteInv(r)'
    BY <1>0, <1>1, <1>3, <1>5, <2>1 DEF RequestInv, PlaceInv, RouteInv, Before
  <2>3. AnswerInv(r)'
    BY <1>0, <1>1, <1>3, <1>5, <2>1 DEF RequestInv, AnswerInv, Silent
  <2> QED
    BY <1>1, <1>2, <2>2, <2>3 DEF RequestInv
<1> QED
  BY <1>4, <1>5

LEMMA RefusedInv ==
  ASSUME Inv, NEW w \in Runs, TelegramRefuses(w)
  PROVE  Inv'
<1>1. PICK r \in Requests : w \in {Client(r), Handler(r)}
  BY PlacesApart
<1>2. RequestInv(r)' /\ Only(w) /\ call'[w] = "refused"
  BY <1>1, Decided DEF TelegramRefuses
<1>3. TypeOK'
  BY DEF Inv, TypeOK, TelegramRefuses, UnchangedListener
<1> QED
  BY <1>1, <1>2, <1>3, OnePlace DEF TelegramRefuses

(* The message is one more in the chat, and of nobody else.                *)
LEMMA AppendCopies ==
  ASSUME TypeOK, NEW r \in Requests, Accepted(r)
  PROVE  /\ chat' \in Seq(Requests) /\ Len(chat') <= MaxChat
         /\ Len(chat') \in DOMAIN chat'
         /\ Copies(r)' = Copies(r) \cup {Len(chat')}
         /\ \A q \in Requests \ {r} : Copies(q)' = Copies(q)
         /\ DOMAIN chat \subseteq DOMAIN chat'
<1>1. chat' \in Seq(Requests) /\ Len(chat') = Len(chat) + 1 /\ Len(chat) \in Nat
  BY DEF Accepted, TypeOK
<1>2. /\ chat'[Len(chat) + 1] = r
      /\ \A i \in 1..Len(chat) : chat'[i] = chat[i]
  BY DEF Accepted, TypeOK
<1>3. DOMAIN chat = 1..Len(chat) /\ DOMAIN chat' = 1..Len(chat')
  BY <1>1 DEF TypeOK
<1>4. Copies(r)' = Copies(r) \cup {Len(chat')}
  BY <1>1, <1>2, <1>3 DEF Copies
<1>5. ASSUME NEW q \in Requests \ {r} PROVE Copies(q)' = Copies(q)
  BY <1>1, <1>2, <1>3 DEF Copies
<1>6. Len(chat') <= MaxChat
  BY <1>1, ChatAssumption DEF Accepted
<1> QED
  BY <1>1, <1>3, <1>4, <1>5, <1>6

LEMMA AcceptedInv ==
  ASSUME Inv, NEW w \in Runs, TelegramAccepts(w)
  PROVE  Inv'
<1>1. PICK r \in Requests : w \in {Client(r), Handler(r)} /\ r = w[1]
  BY PlacesApart
<1>2. RequestInv(r)' /\ Only(w) /\ call'[w] = "accepted"
  BY <1>1, Decided DEF TelegramAccepts
<1>3. /\ chat' \in Seq(Requests) /\ Len(chat') <= MaxChat
      /\ Len(chat') \in DOMAIN chat'
      /\ Copies(r)' = Copies(r) \cup {Len(chat')}
      /\ \A q \in Requests \ {r} : Copies(q)' = Copies(q)
      /\ DOMAIN chat \subseteq DOMAIN chat'
  BY <1>1, AppendCopies DEF Inv, TelegramAccepts
<1>4. TypeOK'
  BY <1>3 DEF Inv, TypeOK, TelegramAccepts, UnchangedListener
<1>5. Copies(r) = {}
  BY <1>1, InFlight DEF Inv, CopiesInv, TelegramAccepts
<1>6. CopiesInv(r)'
  BY <1>1, <1>2, <1>3, <1>5 DEF CopiesInv, Sent
<1>7. ASSUME NEW q \in Requests \ {r} PROVE RequestInv(q)' /\ CopiesInv(q)'
  <2>1. Same(q)
    BY <1>1, <1>2, OthersSame
  <2>2. RequestInv(q)'
    BY <2>1, SameInv DEF Inv
  <2>3. Sent(q)' <=> Sent(q)
    BY <2>1 DEF Same, Sent
  <2> QED
    BY <1>3, <2>2, <2>3 DEF Inv, CopiesInv
<1> QED
  BY <1>2, <1>4, <1>6, <1>7 DEF Inv

(* The handlers of a listener that dies are gone; what they have sent is.  *)
LEMMA DiedInv ==
  ASSUME Inv, NEW s \in {"none", "stale", "live", "other"}, Died(s)
  PROVE  Inv'
<1>1. TypeOK'
  BY DEF Inv, Died, TypeOK, Steps
<1>2. ASSUME NEW r \in Requests PROVE RequestInv(r)' /\ CopiesInv(r)'
  <2>0. Client(r) \in Runs /\ Handler(r) \in Runs /\ RequestInv(r) /\ CopiesInv(r) /\ TypeOK
    BY PlacesApart DEF Inv
  <2>1. /\ at'[Client(r)] = at[Client(r)]
        /\ at'[Handler(r)] = IF Active(r) THEN "gone" ELSE at[Handler(r)]
        /\ answer' = answer /\ call' = call /\ chat' = chat
    BY <2>0 DEF Died, Client, Handler
  <2>2. RequestInv(r)'
    BY <2>0, <2>1
    DEF RequestInv, PlaceInv, RouteInv, AnswerInv, Active, Before
  <2> QED
    BY <2>0, <2>1, <2>2 DEF CopiesInv, Sent, Copies
<1> QED
  BY <1>1, <1>2 DEF Inv

LEMMA StepInv == Inv /\ [Next]_vars => Inv'
<1> SUFFICES ASSUME Inv, [Next]_vars PROVE Inv'
  OBVIOUS
<1>1. ASSUME NEW r \in Requests, Begin(r) \/ ClientStep(r) \/ Interrupt(r) \/ HandlerStep(r)
      PROVE  Inv'
  BY <1>1, ClientInv, SendingInv, HandlerEndsInv DEF ClientStep, HandlerStep, Client, Handler
<1>2. ASSUME NEW w \in Runs, TelegramAccepts(w) \/ TelegramRefuses(w) PROVE Inv'
  BY <1>2, AcceptedInv, RefusedInv
<1>3. CASE StartListener \/ SocketRemoved \/ StopListener
  <2>1. UNCHANGED <<chat, at, answer, call>> /\ TypeOK'
    BY <1>3 DEF Inv, TypeOK, StartListener, SocketRemoved, StopListener
  <2>2. ASSUME NEW r \in Requests PROVE RequestInv(r)' /\ CopiesInv(r)'
    BY <2>1, SameInv DEF Inv, Same, CopiesInv, Sent, Copies
  <2> QED
    BY <2>1, <2>2 DEF Inv
<1>4. CASE ListenerExits \/ ListenerCrashes
  BY <1>4, DiedInv DEF ListenerExits, ListenerCrashes, Inv, TypeOK
<1>5. CASE UNCHANGED vars
  <2>1. UNCHANGED <<chat, at, answer, call>> /\ TypeOK'
    BY <1>5 DEF Inv, TypeOK, vars
  <2>2. ASSUME NEW r \in Requests PROVE RequestInv(r)' /\ CopiesInv(r)'
    BY <2>1, SameInv DEF Inv, Same, CopiesInv, Sent, Copies
  <2> QED
    BY <2>1, <2>2 DEF Inv
<1> QED
  BY <1>1, <1>2, <1>3, <1>4, <1>5 DEF Next

LEMMA SpecInv == Spec => []Inv
BY InitInv, StepInv, PTL DEF Spec

(* Every state of `tele send` has the types that the model declares: no    *)
(* answer, no step and no socket but those of ipc.py and messaging.py.     *)
THEOREM TypeCorrect == Spec => []TypeOK
BY SpecInv, PTL DEF Inv

-----------------------------------------------------------------------------
(* The promise of SendOnce.                                                *)

CopiesOf == [r \in Requests |-> Cardinality(Copies(r))]
OutcomeOf == [r \in Requests |-> Outcome(Result(r))]

LEMMA HowOften ==
  ASSUME NEW r \in Requests, CopiesInv(r)
  PROVE  Cardinality(Copies(r)) = IF Sent(r) THEN 1 ELSE 0
BY FS_EmptySet, FS_Singleton DEF CopiesInv

LEMMA Quiet ==
  ASSUME chat' = chat, \A r \in Requests : answer'[Client(r)] = answer[Client(r)]
  PROVE  CopiesOf' = CopiesOf /\ OutcomeOf' = OutcomeOf
BY DEF CopiesOf, OutcomeOf, Copies, Result

(* What the client of a request tells is true, whatever it tells.          *)
LEMMA Told ==
  ASSUME Inv, Inv', NEW r \in Requests, NEW code \in Codes, chat' = chat,
         Finish(Client(r), code), answer[Client(r)] = NoCode
  PROVE  Once!Report(r)
<1>1. Client(r) \in Runs /\ TypeOK
  BY PlacesApart DEF Inv
<1>2. answer'[Client(r)] = code
      /\ \A q \in Requests \ {r} : answer'[Client(q)] = answer[Client(q)]
  BY <1>1, PlacesApart DEF Finish, TypeOK
<1>3. CopiesOf' = CopiesOf
  BY DEF CopiesOf, Copies
<1>4. OutcomeOf' = [OutcomeOf EXCEPT ![r] = Outcome(code)]
  BY <1>2 DEF OutcomeOf, Result
<1>5. Outcome(code) \in Once!Outcomes \ {"none"} /\ OutcomeOf[r] = "none"
  BY DEF Outcome, Once!Outcomes, Codes, NotSent, NoCode, OutcomeOf, Result
<1>6. CopiesOf[r] = IF Sent(r)' THEN 1 ELSE 0
  BY <1>3, HowOften DEF Inv, CopiesOf, CopiesInv, Sent, Copies
<1>7. Outcome(code) = "sent" => CopiesOf[r] = 1
  BY <1>2, <1>6 DEF Inv, RequestInv, AnswerInv, Sent, Outcome, NoCode, Codes, NotSent
<1>8. Outcome(code) = "not_sent" => CopiesOf[r] = 0
  BY <1>2, <1>6 DEF Inv, RequestInv, AnswerInv, Sent, Outcome, Silent, NoCode
<1> QED
  BY <1>3, <1>4, <1>5, <1>7, <1>8 DEF Once!Report, CopiesOf, OutcomeOf

LEMMA StepImplements ==
  Inv /\ Inv' /\ [Next]_vars => [Once!OnceNext]_<<CopiesOf, OutcomeOf>>
<1> SUFFICES ASSUME Inv, Inv', [Next]_vars
             PROVE  Once!OnceNext \/ UNCHANGED <<CopiesOf, OutcomeOf>>
  OBVIOUS
<1>1. ASSUME NEW r \in Requests, NEW code \in Codes, chat' = chat,
             Finish(Client(r), code), at[Client(r)] # "done"
      PROVE  Once!OnceNext
  <2>1. answer[Client(r)] = NoCode
    BY <1>1 DEF Inv, RequestInv, PlaceInv
  <2> QED
    BY <1>1, <2>1, Told DEF Once!OnceNext
<1>2. ASSUME NEW r \in Requests, NEW code, chat' = chat, Finish(Handler(r), code)
      PROVE  UNCHANGED <<CopiesOf, OutcomeOf>>
  BY <1>2, PlacesApart, Quiet DEF Inv, TypeOK, Finish
<1>3. ASSUME chat' = chat, answer' = answer PROVE UNCHANGED <<CopiesOf, OutcomeOf>>
  BY <1>3, Quiet
<1>4. ASSUME NEW r \in Requests, Begin(r) \/ Inspect(r) \/ Connect(r) \/ Write(r)
                                   \/ ReadAnswer(r) \/ GiveUp(r) \/ Interrupt(r)
      PROVE  Once!OnceNext \/ UNCHANGED <<CopiesOf, OutcomeOf>>
  <2>1. CASE Begin(r)
    BY <1>3, <2>1 DEF Begin
  <2>2. CASE Inspect(r)
    BY <1>1, <1>3, <2>2 DEF Inspect, Client, Codes, NotSent
  <2>3. CASE Connect(r)
    BY <1>3, <2>3 DEF Connect
  <2>4. CASE Write(r)
    BY <1>1, <1>3, <2>4 DEF Write, Codes, NotSent
  <2>5. CASE ReadAnswer(r)
    <3>1. answer[Handler(r)] \in Codes
      BY <2>5, PlacesApart DEF ReadAnswer, Inv, RequestInv, PlaceInv, TypeOK
    <3> QED
      BY <1>1, <2>5, <3>1 DEF ReadAnswer
  <2>6. CASE GiveUp(r)
    BY <1>1, <2>6 DEF GiveUp, Codes, NotSent
  <2>7. CASE Interrupt(r)
    BY <1>1, <2>7 DEF Interrupt, Codes, NotSent
  <2> QED
    BY <1>4, <2>1, <2>2, <2>3, <2>4, <2>5, <2>6, <2>7
<1>5. ASSUME NEW r \in Requests, NEW w \in {Client(r), Handler(r)}, Sending(w)
      PROVE  Once!OnceNext \/ UNCHANGED <<CopiesOf, OutcomeOf>>
  <2>1. CASE answer' = answer /\ chat' = chat
    BY <1>3, <2>1
  <2>2. CASE \E code \in Codes : Finish(w, code) /\ at[w] # "done" /\ chat' = chat
    BY <1>1, <1>2, <2>2
  <2>3. Unexpected(w) \in Codes
    BY DEF Unexpected, Codes
  <2>4. CASE Resolve(w)
    BY <2>1, <2>2, <2>3, <2>4 DEF Resolve, Codes, NotSent
  <2>5. CASE Acknowledged(w)
    BY <2>1, <2>5 DEF Acknowledged
  <2>6. CASE SendFails(w)
    BY <2>2, <2>3, <2>6 DEF SendFails, Codes, NotSent
  <2>7. CASE Store(w)
    BY <2>2, <2>3, <2>7 DEF Store, Codes
  <2> QED
    BY <1>5, <2>4, <2>5, <2>6, <2>7 DEF Sending
<1>6. ASSUME NEW r \in Requests, Reject(r) \/ CancelHandler(r)
      PROVE  UNCHANGED <<CopiesOf, OutcomeOf>>
  BY <1>2, <1>6 DEF Reject, CancelHandler
<1>7. ASSUME NEW w \in Runs, TelegramAccepts(w)
      PROVE  Once!OnceNext
  <2>1. PICK r \in Requests : w \in {Client(r), Handler(r)} /\ r = w[1]
    BY PlacesApart
  <2>2. ~Sent(r) /\ answer[Client(r)] \notin NotSent
    BY <1>7, <2>1, InFlight DEF TelegramAccepts
  <2>3. OutcomeOf' = OutcomeOf /\ OutcomeOf[r] # "not_sent"
    BY <1>7, <2>2 DEF TelegramAccepts, OutcomeOf, Outcome, Result, NoCode, NotSent
  <2>4. CopiesOf[r] = 0
    BY <2>2, HowOften DEF Inv, CopiesOf
  <2>5. Copies(r)' = {Len(chat')} /\ \A q \in Requests \ {r} : Copies(q)' = Copies(q)
    BY <1>7, <2>1, <2>2, AppendCopies DEF Inv, CopiesInv, TelegramAccepts
  <2>6. CopiesOf' = [CopiesOf EXCEPT ![r] = 1]
    BY <2>5, FS_Singleton DEF CopiesOf
  <2> QED
    BY <2>3, <2>4, <2>6 DEF Once!OnceNext, Once!Accept, CopiesOf, OutcomeOf
<1>8. CASE Next
  <2>1. ASSUME NEW w \in Runs, TelegramRefuses(w) PROVE UNCHANGED <<CopiesOf, OutcomeOf>>
    BY <1>3, <2>1 DEF TelegramRefuses
  <2>2. CASE StartListener \/ SocketRemoved \/ StopListener \/ ListenerExits \/ ListenerCrashes
    BY <1>3, <2>2
    DEF StartListener, SocketRemoved, StopListener, ListenerExits, ListenerCrashes, Died
  <2>3. ASSUME NEW r \in Requests, ClientStep(r) \/ HandlerStep(r)
        PROVE  Once!OnceNext \/ UNCHANGED <<CopiesOf, OutcomeOf>>
    BY <1>4, <1>5, <1>6, <2>3 DEF ClientStep, HandlerStep, Client, Handler
  <2> QED
    BY <1>4, <1>7, <1>8, <2>1, <2>2, <2>3 DEF Next
<1> QED
  BY <1>3, <1>8 DEF vars

(* `tele send` keeps the promise of SendOnce for any number of requests:   *)
(* whatever becomes of the socket, the listener and the connections, and   *)
(* however late Telegram decides, it gets a message at most once, has it   *)
(* when the command says "sent", and never gets it when the command says   *)
(* that it was not sent.                                                   *)
THEOREM SendIsOnce == Spec => ImplementsSendOnce
<1>1. Init => Once!OnceInit
  <2> SUFFICES ASSUME Init PROVE Once!OnceInit
    OBVIOUS
  <2>1. ASSUME NEW r \in Requests
        PROVE  Cardinality(Copies(r)) = 0 /\ Outcome(Result(r)) = "none"
    BY PlacesApart, FS_EmptySet DEF Init, Copies, Outcome, Result, NoCode
  <2> QED
    BY <2>1 DEF Once!OnceInit
<1>2. [Once!OnceNext]_<<CopiesOf, OutcomeOf>>
        <=> [Once!OnceNext]_<<[r \in Requests |-> Cardinality(Copies(r))],
                              [r \in Requests |-> Outcome(Result(r))]>>
  BY DEF CopiesOf, OutcomeOf
<1> QED
  BY <1>1, <1>2, SpecInv, StepImplements, PTL DEF Spec, ImplementsSendOnce, Once!OnceSpec
=============================================================================
