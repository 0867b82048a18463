------------------------------ MODULE IpcSend -------------------------------
(***************************************************************************)
(* `tele send`: through the socket of a running listener, which keeps the  *)
(* Telegram connection, and directly only while nothing has been written   *)
(* to that socket.  Sockets die, listeners stop or crash, acknowledgements *)
(* are lost or late; Telegram may accept a message after its sender has    *)
(* given up.                                                               *)
(*                                                                         *)
(* A request runs at two places: in its own process ("client") and, if it  *)
(* gets that far, in a handler of the listener ("ipc").  Both send with    *)
(* the same code, send_text_with_client.                                   *)
(***************************************************************************)
EXTENDS ChatLog, FiniteSets

VARIABLES
  socket,     \* what is at the socket path
  listener,   \* the listener's process
  at,         \* where a request stands at each place
  answer,     \* the code a place has ended with
  call        \* each place's send_message, as Telegram sees it

vars == <<chat, socket, listener, at, answer, call>>

Places == {"client", "ipc"}
Runs == Requests \X Places
Client(r) == <<r, "client">>
Handler(r) == <<r, "ipc">>

Steps == {"idle", "inspect", "connect", "write", "written", "reading", "received",
          "direct", "sending", "storing", "gone", "done"}

(* Codes, as far as they differ in what they say about the message:        *)
(* "refused" stands for peer_not_found, flood_wait, telegram_error,        *)
(* connection_error and invalid_listener_request, "unavailable" for        *)
(* listener_unavailable and listener_socket_error, "raw" for an exception  *)
(* that the command lets out.                                              *)
NotSent == {"dry_run", "refused", "unavailable"}
Codes == NotSent \cup {"sent", "store_error", "listener_error", "delivery_unknown",
                       "raw", "interrupted"}
NoCode == "none"

TypeOK ==
  /\ chat \in Seq(Requests) /\ Len(chat) <= MaxChat
  /\ socket \in {"none", "stale", "live", "other"}
  /\ listener \in {"down", "up", "stopping"}
  /\ at \in [Runs -> Steps]
  /\ answer \in [Runs -> Codes \cup {NoCode}]
  /\ call \in [Runs -> {"none", "inflight", "accepted", "refused"}]

Init ==
  /\ chat = <<>>
  /\ socket \in {"none", "stale", "other"}
  /\ listener = "down"
  /\ at = [w \in Runs |-> "idle"]
  /\ answer = [w \in Runs |-> NoCode]
  /\ call = [w \in Runs |-> "none"]

Goto(w, from, to) == at[w] = from /\ at' = [at EXCEPT ![w] = to]

Finish(w, code) ==
  /\ at' = [at EXCEPT ![w] = "done"]
  /\ answer' = [answer EXCEPT ![w] = code]

Result(r) == answer[Client(r)]

UnchangedListener == UNCHANGED <<socket, listener>>

-----------------------------------------------------------------------------
(* send_via_listener, and _send_text around it.                            *)

Begin(r) ==
  /\ Goto(Client(r), "idle", "inspect")
  /\ UnchangedListener /\ UNCHANGED <<answer, call, chat>>

(* stat: no file, a file that is no socket or cannot be inspected, or a    *)
(* socket, served or left by a crash.                                      *)
Inspect(r) ==
  LET w == Client(r) IN
  /\ \/ /\ Goto(w, "inspect", IF socket = "none" THEN "direct" ELSE "connect")
        /\ socket # "other"
        /\ UNCHANGED answer
     \/ /\ at[w] = "inspect"
        /\ Finish(w, "unavailable")
  /\ UnchangedListener /\ UNCHANGED <<call, chat>>

(* A refused or slow connection: the direct way.  Otherwise the listener   *)
(* starts a handler.                                                       *)
Connect(r) ==
  LET w == Client(r) IN
  /\ at[w] = "connect"
  /\ \/ at' = [at EXCEPT ![w] = "direct"]
     \/ /\ socket = "live"
        /\ at' = [at EXCEPT ![w] = "write", ![Handler(r)] = "reading"]
  /\ UnchangedListener /\ UNCHANGED <<answer, call, chat>>

(* writer.write: the bytes are in the handler's stream, or nothing is.     *)
Write(r) ==
  LET w == Client(r) IN
  /\ at[w] = "write"
  /\ \/ /\ at' = [at EXCEPT ![w] = "written",
                            ![Handler(r)] = IF @ = "reading" THEN "received" ELSE @]
        /\ UNCHANGED answer
     \/ Finish(w, "unavailable")
  /\ UnchangedListener /\ UNCHANGED <<call, chat>>

(* The handler's answer, decoded; an error keeps its code.                 *)
ReadAnswer(r) ==
  LET w == Client(r) IN
  /\ at[w] = "written" /\ at[Handler(r)] = "done"
  /\ Finish(w, answer[Handler(r)])
  /\ UnchangedListener /\ UNCHANGED <<call, chat>>

RetryDirectly(r) ==                   \* mutant: no answer, so send it oneself
  LET w == Client(r) IN
  /\ Goto(w, "written", "direct")
  /\ UnchangedListener /\ UNCHANGED <<answer, call, chat>>

TimeoutLeaks(r) ==                    \* mutant: TimeoutError as a code of its own
  LET w == Client(r) IN
  /\ at[w] = "written"
  /\ Finish(w, "timeout")
  /\ UnchangedListener /\ UNCHANGED <<call, chat>>

NoReadTimeout(r) ==                   \* mutant: wait for the answer or its end
  LET w == Client(r) IN
  /\ at[w] = "written" /\ at[Handler(r)] = "gone"
  /\ Finish(w, "delivery_unknown")
  /\ UnchangedListener /\ UNCHANGED <<call, chat>>

(* No answer: a broken connection, its end, 30 seconds, or no JSON object. *)
GiveUp(r) ==
  LET w == Client(r) IN
  /\ at[w] = "written"
  /\ Finish(w, "delivery_unknown")
  /\ UnchangedListener /\ UNCHANGED <<call, chat>>

(* The command is killed; what it asked for goes on without it.            *)
Interrupt(r) ==
  LET w == Client(r) IN
  /\ at[w] \notin {"idle", "done"}
  /\ Finish(w, "interrupted")
  /\ UnchangedListener /\ UNCHANGED <<call, chat>>

-----------------------------------------------------------------------------
(* handle_ipc, and send_text with send_text_with_client at either place.   *)

(* What an exception that is no TeleError becomes.                         *)
Unexpected(w) == IF w[2] = "ipc" THEN "listener_error" ELSE "raw"

(* readline: 5 seconds, the end of the stream, no JSON object.             *)
Reject(r) ==
  LET w == Handler(r) IN
  /\ at[w] \in {"reading", "received"}
  /\ Finish(w, "refused")
  /\ UnchangedListener /\ UNCHANGED <<call, chat>>

(* send_lock: one request at a time, from resolving to storing.            *)
LockFree(w) ==
  w[2] = "ipc" => \A r \in Requests : at[Handler(r)] \notin {"sending", "storing"}

(* Connect (the client only) and resolve the chat; a dry run ends here, an *)
(* error before anything was sent too.                                     *)
Resolve(w) ==
  /\ at[w] = IF w[2] = "ipc" THEN "received" ELSE "direct"
  /\ LockFree(w)
  /\ \/ /\ \E code \in {"refused", "dry_run", Unexpected(w)} : Finish(w, code)
        /\ UNCHANGED call
     \/ /\ at' = [at EXCEPT ![w] = "sending"]
        /\ call' = [call EXCEPT ![w] = "inflight"]
        /\ UNCHANGED answer
  /\ UnchangedListener /\ UNCHANGED chat

(* Telegram gets the request, at any time after it went out.               *)
TelegramAccepts(w) ==
  /\ call[w] = "inflight"
  /\ call' = [call EXCEPT ![w] = "accepted"]
  /\ Accepted(w[1])
  /\ UnchangedListener /\ UNCHANGED <<at, answer>>

TelegramRefuses(w) ==
  /\ call[w] = "inflight"
  /\ call' = [call EXCEPT ![w] = "refused"]
  /\ UnchangedListener /\ UNCHANGED <<at, answer, chat>>

Acknowledged(w) ==
  /\ call[w] = "accepted"
  /\ Goto(w, "sending", "storing")
  /\ UnchangedListener /\ UNCHANGED <<answer, call, chat>>

(* An RPC error, which the client alone reports as one; a connection that  *)
(* fails before the answer; or Telethon's retries used up.                 *)
SendFails(w) ==
  /\ at[w] = "sending"
  /\ \E code \in {"delivery_unknown", Unexpected(w)}
                   \cup (IF call[w] = "refused" /\ w[2] = "client" THEN {"refused"} ELSE {}) :
       Finish(w, code)
  /\ UnchangedListener /\ UNCHANGED <<call, chat>>

(* _stored_payload: save the message and read it back; the client then     *)
(* closes its connection.  Both can fail after Telegram has the message.   *)
Store(w) ==
  /\ at[w] = "storing"
  /\ \E code \in {"sent", "store_error", Unexpected(w)} : Finish(w, code)
  /\ UnchangedListener /\ UNCHANGED <<call, chat>>

-----------------------------------------------------------------------------
(* The listener's process.                                                 *)

Active(r) == at[Handler(r)] \in {"reading", "received", "sending", "storing"}

(* _serve_ipc: a socket at the path is replaced, anything else stops it.   *)
StartListener ==
  /\ listener = "down" /\ socket # "other"
  /\ listener' = "up" /\ socket' = "live"
  /\ UNCHANGED <<at, answer, call, chat>>

(* Another listener's shutdown has removed the file (ListenerLease).       *)
SocketRemoved ==
  /\ socket = "live" /\ socket' = "none"
  /\ UNCHANGED <<listener, at, answer, call, chat>>

(* ipc_server.close(): no new connection; handlers go on.                  *)
StopListener ==
  /\ listener = "up" /\ listener' = "stopping"
  /\ socket' = IF socket = "live" THEN "stale" ELSE socket
  /\ UNCHANGED <<at, answer, call, chat>>

(* The end of asyncio.run cancels handlers; `except BaseException` answers *)
(* for them.                                                               *)
CancelHandler(r) ==
  /\ listener = "stopping" /\ Active(r)
  /\ Finish(Handler(r), "listener_error")
  /\ UnchangedListener /\ UNCHANGED <<call, chat>>

Died(socketLeft) ==
  /\ listener' = "down" /\ socket' = socketLeft
  /\ at' = [w \in Runs |-> IF w[2] = "ipc" /\ Active(w[1]) THEN "gone" ELSE at[w]]
  /\ UNCHANGED <<answer, call, chat>>

(* wait_closed and the removal of the socket file.                         *)
ListenerExits ==
  /\ listener = "stopping" /\ \A r \in Requests : ~Active(r)
  /\ Died(IF socket = "stale" THEN "none" ELSE socket)

ListenerCrashes ==
  /\ listener # "down"
  /\ Died(IF socket = "live" THEN "stale" ELSE socket)

-----------------------------------------------------------------------------
Sending(w) == Resolve(w) \/ Acknowledged(w) \/ SendFails(w) \/ Store(w)

ClientStep(r) ==
  Inspect(r) \/ Connect(r) \/ Write(r) \/ ReadAnswer(r) \/ GiveUp(r) \/ Sending(Client(r))

HandlerStep(r) ==
  listener # "down" /\ (Reject(r) \/ Sending(Handler(r)) \/ CancelHandler(r))

Next ==
  \/ \E r \in Requests : Begin(r) \/ ClientStep(r) \/ Interrupt(r) \/ HandlerStep(r)
  \/ \E w \in Runs : TelegramAccepts(w) \/ TelegramRefuses(w)
  \/ StartListener \/ SocketRemoved \/ StopListener \/ ListenerExits \/ ListenerCrashes

(* Each step of the command has a limit (3 s to connect, 30 s to read, 20  *)
(* s to connect to Telegram) or breaks with its connection.  Nothing is    *)
(* assumed of the listener, nor of Telegram.                               *)
Spec == Init /\ [][Next]_vars /\ \A r \in Requests : WF_vars(ClientStep(r))

-----------------------------------------------------------------------------
(* What the caller may conclude from an answer.                            *)
Outcome(code) ==
  IF code \in {NoCode, "sent"} THEN code
  ELSE IF code \in NotSent THEN "not_sent" ELSE "unknown"

Once == INSTANCE SendOnce WITH
          copies <- [r \in Requests |-> Cardinality(Copies(r))],
          outcome <- [r \in Requests |-> Outcome(Result(r))]

(* A request reaches Telegram at most once, through whichever way; "sent"  *)
(* and errors other than delivery_unknown, store_error, listener_error and *)
(* an interruption tell the truth about it, then and for ever              *)
(* (send_via_listener, handle_ipc, send_text_with_client).                 *)
ImplementsSendOnce == Once!OnceSpec

(* Every `tele send` ends, whatever becomes of the listener.               *)
RequestsEnd ==
  \A r \in Requests : at[Client(r)] = "inspect" ~> at[Client(r)] = "done"
=============================================================================
