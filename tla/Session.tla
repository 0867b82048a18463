------------------------------ MODULE Session -------------------------------
(***************************************************************************)
(* One machine's Telethon session files and the account its programs work  *)
(* for.  `tele listen` and `tele auth` use a session file itself; every    *)
(* other command works on a copy in memory and merges the entities it      *)
(* learned back into the file.  Table nodes remembers the account of the   *)
(* machine, and a program stores messages under the account it found there *)
(* when it opened the store.                                               *)
(*                                                                         *)
(* How captures fail and are tried again is InboxCapture's; here the       *)
(* listener captures each update that comes while its handler is           *)
(* registered.                                                             *)
(***************************************************************************)
EXTENDS Naturals, FiniteSets

CONSTANTS
  Commands,    \* processes of short commands and of `tele auth`
  Listener,    \* the process of `tele listen`
  Sessions,    \* session files (TELE_SESSION)
  Accounts,    \* Telegram accounts
  Chats,       \* chats whose entities are cached in a session
  None,        \* no account
  MaxSent,     \* bound: messages sent to each account
  MaxChanges   \* bound: sessions terminated and databases deleted

ASSUME SessionAssumption ==
  /\ Listener \notin Commands /\ None \notin Accounts /\ Sessions # {}
  /\ MaxSent \in Nat /\ MaxChanges \in Nat

Procs == Commands \cup {Listener}

VARIABLES
  sent,       \* messages sent to each account
  file,       \* session files: the account they are logged in to, how far its
              \* updates are processed, the entities in the cache
  node,       \* the machine's row of table nodes: its account
  pc,         \* where each process stands
  run,        \* the session it uses, what it has of it, store.account_id
  captured,   \* each account's messages the listener has captured
  excused,    \* history: those from before a login, or shown to a connection
              \* on the file itself, without a handler
  changes     \* terminations and deletions so far

vars == <<sent, file, node, pc, run, captured, excused, changes>>

Positions == 0..MaxSent
Copies == [account : Accounts \cup {None}, position : Positions, entities : SUBSET Chats]
Runs == [session : Sessions, kind : {"get", "dialogs", "status", "auth", "listen"},
         copy : Copies, learned : SUBSET Chats,
         store : Accounts \cup {None}, inbox : Accounts \cup {None}]

TypeOK ==
  /\ sent \in [Accounts -> Positions]
  /\ file \in [Sessions -> Copies]
  /\ node \in Accounts \cup {None}
  /\ pc \in [Procs -> {"off", "opened", "connected", "registered", "running", "stopping",
                       "closed", "raised"}]
  /\ run \in [Procs -> Runs]
  /\ captured \in [Accounts -> SUBSET (1..MaxSent)]
  /\ excused \in [Accounts -> SUBSET (1..MaxSent)]
  /\ changes \in 0..MaxChanges

NoCopy == [account |-> None, position |-> 0, entities |-> {}]
NoRun == [session |-> CHOOSE s \in Sessions : TRUE, kind |-> "get", copy |-> NoCopy,
          learned |-> {}, store |-> None, inbox |-> None]

Init ==
  /\ sent = [a \in Accounts |-> 0]
  /\ file = [s \in Sessions |-> NoCopy]
  /\ node = None
  /\ pc = [p \in Procs |-> "off"]
  /\ run = [p \in Procs |-> NoRun]
  /\ captured = [a \in Accounts |-> {}]
  /\ excused = [a \in Accounts |-> {}]
  /\ changes = 0

Goto(p, from, to) == pc[p] = from /\ pc' = [pc EXCEPT ![p] = to]
Finish(p) == pc' = [pc EXCEPT ![p] = "off"] /\ run' = [run EXCEPT ![p] = NoRun]

UnchangedHistory == UNCHANGED <<captured, excused, changes>>

-----------------------------------------------------------------------------
(* Telegram delivers a message to an account.                              *)
Send(a) ==
  /\ sent[a] < MaxSent /\ sent' = [sent EXCEPT ![a] = @ + 1]
  /\ UnchangedHistory /\ UNCHANGED <<file, node, pc, run>>

(* The session is terminated from another device.  The file stays; what    *)
(* is connected through it ends by Abort.                                  *)
Terminate(s) ==
  /\ changes < MaxChanges /\ changes' = changes + 1
  /\ file[s].account # None
  /\ file' = [file EXCEPT ![s].account = None]
  /\ UNCHANGED <<sent, node, pc, run, captured, excused>>

(* The database is deleted or another one configured, while nothing runs.  *)
NewDatabase ==
  /\ changes < MaxChanges /\ changes' = changes + 1
  /\ \A p \in Procs : pc[p] = "off"
  /\ node # None /\ node' = None
  /\ UNCHANGED <<sent, file, pc, run, captured, excused>>

(* Store.open: the machine's account is read once.                         *)
Open(p, kind, s) ==
  /\ Goto(p, "off", "opened")
  /\ p = Listener <=> kind = "listen"
  /\ run' = [run EXCEPT ![p] = [NoRun EXCEPT !.session = s, !.kind = kind, !.store = node]]
  /\ UnchangedHistory /\ UNCHANGED <<sent, file, node>>

(* authorized_client: a copy of the file (_SessionSnapshot), or the file   *)
(* itself.  Without a login the command ends with not_authorized.          *)
Connect(p) ==
  LET s == run[p].session IN
  /\ run[p].kind # "auth"
  /\ \/ /\ file[s].account # None /\ Goto(p, "opened", "connected")
        /\ run' = [run EXCEPT ![p].copy = file[s]]
     \/ file[s].account = None /\ pc[p] = "opened" /\ Finish(p)
  /\ UnchangedHistory /\ UNCHANGED <<sent, file, node>>

(* client.start of `tele auth`: the login of the file, or a new one, which *)
(* knows nothing of earlier messages.                                      *)
Login(p) ==
  LET s == run[p].session IN
  /\ run[p].kind = "auth" /\ Goto(p, "opened", "connected")
  /\ \/ /\ file[s].account # None
        /\ run' = [run EXCEPT ![p].copy = file[s]]
        /\ UNCHANGED <<file, excused>>
     \/ /\ file[s].account = None
        /\ \E a \in Accounts :
             /\ file' = [file EXCEPT ![s].account = a, ![s].position = sent[a]]
             /\ excused' = [excused EXCEPT ![a] = @ \cup 1..sent[a]]
        /\ run' = [run EXCEPT ![p].copy = file'[s]]
  /\ UNCHANGED <<sent, node, captured, changes>>

(* register_node by `tele auth`, `status`, `listen` and, on the first      *)
(* connection, resolve_chat.  `tele dialogs` does not register.            *)
Register(p) ==
  /\ Goto(p, "connected", "registered")
  /\ IF run[p].kind \in {"auth", "status", "listen"}
          \/ (run[p].kind = "get" /\ run[p].store = None)
       THEN /\ node' = run[p].copy.account
            /\ run' = [run EXCEPT ![p].store = node']
       ELSE UNCHANGED <<node, run>>
  /\ UnchangedHistory /\ UNCHANGED <<sent, file>>

(* An entity is resolved, and cached in the copy.                          *)
Learn(p) ==
  /\ pc[p] = "registered" /\ run[p].kind \in {"get", "dialogs"}
  /\ \E c \in Chats :
       run' = [run EXCEPT ![p].learned = @ \cup {c}, ![p].copy.entities = @ \cup {c}]
  /\ UnchangedHistory /\ UNCHANGED <<sent, file, node, pc>>

(* A connection that is not the listener's with its handler registered:    *)
(* `tele wait`, `tele auth`, and `tele listen` while it starts or stops.   *)
Unheard(p) ==
  /\ pc[p] \in {"connected", "registered", "stopping"}
  /\ run[p].kind \in {"get", "auth", "listen"}

(* `tele auth` and `tele listen` use the session file itself.              *)
Excuse(p, n) ==
  LET a == run[p].copy.account IN
  IF run[p].kind \in {"auth", "listen"}
    THEN excused' = [excused EXCEPT ![a] = @ \cup {n}]
    ELSE UNCHANGED excused

ReceiveTwice(p) ==                    \* mutant: an update is counted twice
  /\ Unheard(p)
  /\ run[p].copy.position < sent[run[p].copy.account]
  /\ run' = [run EXCEPT ![p].copy.position = @ + 2]
  /\ Excuse(p, run[p].copy.position + 1)
  /\ UNCHANGED <<sent, file, node, pc, captured, changes>>

(* The next update moves the connection's own position, and nothing        *)
(* captures the message.                                                   *)
Receive(p) ==
  /\ Unheard(p)
  /\ run[p].copy.position < sent[run[p].copy.account]
  /\ run' = [run EXCEPT ![p].copy.position = @ + 1]
  /\ Excuse(p, run[p].copy.position + 1)
  /\ UNCHANGED <<sent, file, node, pc, captured, changes>>

WriteBack(p) ==                       \* mutant: the copy is saved, not what was learned
  LET s == run[p].session IN
  /\ run[p].kind \in {"get", "dialogs", "status"} /\ Goto(p, "registered", "closed")
  /\ \/ UNCHANGED file
     \/ file' = [file EXCEPT ![s].position = run[p].copy.position,
                             ![s].entities = run[p].copy.entities]
  /\ UnchangedHistory /\ UNCHANGED <<sent, node, run>>

(* _SessionSnapshot.close, on every way out: what was learned is merged,   *)
(* unless the file is locked.                                              *)
Merge(p) ==
  LET s == run[p].session IN
  /\ run[p].kind \in {"get", "dialogs", "status"} /\ Goto(p, "registered", "closed")
  /\ \/ UNCHANGED file
     \/ file' = [file EXCEPT ![s].entities = @ \cup run[p].learned]
  /\ UnchangedHistory /\ UNCHANGED <<sent, node, run>>

(* fetch_dialogs stores after it has disconnected: without an account,     *)
(* Store.account raises RuntimeError.                                      *)
End(p) ==
  /\ pc[p] = "closed"
  /\ IF run[p].kind = "dialogs" /\ run[p].store = None
       THEN pc' = [pc EXCEPT ![p] = "raised"] /\ UNCHANGED run
       ELSE Finish(p)
  /\ UnchangedHistory /\ UNCHANGED <<sent, file, node>>

(* `tele auth` disconnects: the file is the one it was using.              *)
EndAuth(p) ==
  LET s == run[p].session
      a == run[p].copy.account IN
  /\ run[p].kind = "auth" /\ pc[p] = "registered" /\ file[s].account = a
  /\ file' = [file EXCEPT ![s].position = run[p].copy.position]
  /\ Finish(p)
  /\ UnchangedHistory /\ UNCHANGED <<sent, node>>

(* The listener opens a second store for the inbox, which reads the row of *)
(* the machine again, and registers its handler; catch_up goes on from     *)
(* the position that its connection has reached by then.                   *)
OpenInbox ==
  /\ run[Listener].kind = "listen" /\ Goto(Listener, "registered", "running")
  /\ run' = [run EXCEPT ![Listener].inbox = node]
  /\ UnchangedHistory /\ UNCHANGED <<sent, file, node>>

(* The next update is captured.                                            *)
Capture ==
  LET a == run[Listener].copy.account
      n == run[Listener].copy.position + 1 IN
  /\ pc[Listener] = "running" /\ n <= sent[a]
  /\ captured' = [captured EXCEPT ![a] = @ \cup {n}]
  /\ \E c \in Chats :
       run' = [run EXCEPT ![Listener].copy.position = n, ![Listener].copy.entities = @ \cup {c}]
  /\ UNCHANGED <<sent, file, node, pc, excused, changes>>

(* New entities and the position go to the file the listener uses.         *)
WriteSession ==
  LET s == run[Listener].session IN
  /\ file[s].account = run[Listener].copy.account
  /\ file' = [file EXCEPT ![s].position = run[Listener].copy.position,
                          ![s].entities = @ \cup run[Listener].copy.entities]

(* session.save(): after catch_up and captures, before heartbeats.         *)
SaveSession ==
  /\ pc[Listener] = "running" /\ WriteSession
  /\ UnchangedHistory /\ UNCHANGED <<sent, node, pc, run>>

(* The listener stops: first its handler is removed.                       *)
StopListening ==
  /\ Goto(Listener, "running", "stopping")
  /\ UnchangedHistory /\ UNCHANGED <<sent, file, node, run>>

(* It leaves authorized_client, stopped or because it could not start:     *)
(* disconnecting saves the session.                                        *)
DisconnectListener ==
  /\ pc[Listener] \in {"connected", "registered", "stopping"} /\ WriteSession
  /\ Finish(Listener)
  /\ UnchangedHistory /\ UNCHANGED <<sent, node>>

(* Errors, interrupts and kills, at any step.                              *)
Abort(p) ==
  /\ pc[p] # "off"
  /\ Finish(p)
  /\ UnchangedHistory /\ UNCHANGED <<sent, file, node>>

Next ==
  \/ \E a \in Accounts : Send(a)
  \/ \E s \in Sessions : Terminate(s)
  \/ NewDatabase
  \/ \E p \in Procs :
       \/ \E s \in Sessions, kind \in {"get", "dialogs", "status", "auth", "listen"} :
            Open(p, kind, s)
       \/ Connect(p) \/ Login(p) \/ Register(p) \/ Learn(p) \/ Receive(p)
       \/ Merge(p) \/ End(p) \/ EndAuth(p) \/ Abort(p)
  \/ OpenInbox \/ Capture \/ SaveSession \/ StopListening \/ DisconnectListener

Spec == Init /\ [][Next]_vars

-----------------------------------------------------------------------------
(* The update position of a session file is past a message the listener    *)
(* has not captured only if the message is from before the login or was    *)
(* shown to a connection on the file itself that had no handler: `tele     *)
(* auth`, or `tele listen` while it starts or stops.  No other command     *)
(* makes the listener miss one, though it may receive the message first    *)
(* and closes while the listener runs (_SessionSnapshot: "never overwrites *)
(* the listener's update state").                                          *)
NothingPassed ==
  \A s \in Sessions : LET a == file[s].account IN
    a # None => 1..file[s].position \subseteq captured[a] \cup excused[a]

(* The entity cache of a file only grows: neither a command that started   *)
(* from an older copy nor the listener drops what the other one learned.   *)
EntitiesKept == [][\A s \in Sessions : file[s].entities \subseteq file'[s].entities]_vars

(* "All reads and writes of the message store, scoped to one Telegram      *)
(* account": a command that stores messages stores them under the account  *)
(* they come from (Store, resolve_chat).                                   *)
FiledUnderOwn ==
  \A p \in Procs :
    pc[p] = "registered" /\ run[p].kind = "get" => run[p].store = run[p].copy.account
=============================================================================
