--------------------------- MODULE ListenerLease ----------------------------
(***************************************************************************)
(* The lease that keeps one `tele listen` per Telegram account: table      *)
(* listeners, claimed under a lock, refreshed by heartbeats, released on a *)
(* graceful stop and taken over when its heartbeat is stale or its process *)
(* is dead; and the Unix socket a listener binds on its node.              *)
(*                                                                         *)
(* A process is a (node, PID) pair, the key of a lease row, so a slot that *)
(* crashes and starts again is also a PID used twice.  Time is counted in  *)
(* heartbeat periods and kept as the age of each heartbeat; clocks of      *)
(* different nodes differ by a fixed offset.                               *)
(***************************************************************************)
EXTENDS Integers, FiniteSets

CONSTANTS
  Procs,      \* processes: a PID on a node
  Nodes,      \* (host, OS user) pairs
  None,       \* no process
  NodeOf,     \* the node of each process
  Offset,     \* how far each node's clock is ahead
  Stale,      \* LISTENER_STALE_SECONDS, in heartbeat periods
  MaxBeat,    \* an owner that is not late beats before its row gets older
  MaxAge,     \* bound: older rows are not told apart
  MaxLate,    \* bound: periods an owner may be late, in one behaviour
  MaxFaults   \* bound: crashes, failures and unrelated uses of a PID

ASSUME ProcsAssumption ==
  /\ None \notin Procs
  /\ NodeOf \in [Procs -> Nodes]
  /\ Offset \in [Nodes -> Int]
ASSUME TimeAssumption ==
  /\ Stale \in Nat /\ MaxBeat \in Nat /\ MaxAge \in Nat /\ MaxLate \in Nat /\ MaxFaults \in Nat
  /\ \A m, n \in Nodes : Stale + Offset[m] - Offset[n] < MaxAge

VARIABLES
  pc,          \* where each process stands; "off": no process has the PID
  listeners,   \* rows of table listeners: the owner and its heartbeat's age
  registered,  \* nodes with an account in table nodes
  socket,      \* the process whose socket file is at a node's socket path
  late,        \* periods owners have been late so far
  faults       \* failures so far

vars == <<pc, listeners, registered, socket, late, faults>>

Rows == [owner : Procs, age : 0..MaxAge]
Owners == {row.owner : row \in listeners}

TypeOK ==
  /\ pc \in [Procs -> {"off", "foreign", "connecting", "claiming", "claimed",
                       "running", "stopping", "releasing"}]
  /\ listeners \subseteq Rows
  /\ registered \subseteq Nodes
  /\ socket \in [Nodes -> Procs \cup {None}]
  /\ late \in 0..MaxLate
  /\ faults \in 0..MaxFaults

-----------------------------------------------------------------------------
DeadWhenRemote(row, p) ==             \* mutant: remote PIDs are probed here
  NodeOf[row.owner] # NodeOf[p] \/ pc[row.owner] = "off"

(* _local_listener_is_dead: only a process of the same node can be probed. *)
LocallyDead(row, p) == NodeOf[row.owner] = NodeOf[p] /\ pc[row.owner] = "off"

RecentForever(row, p) == TRUE         \* mutant: no cutoff

(* heartbeat_at >= now - LISTENER_STALE_SECONDS, each by its own clock.    *)
Recent(row, p) == row.age <= Stale + Offset[NodeOf[row.owner]] - Offset[NodeOf[p]]

(* active_listener, as process p sees it.                                  *)
Active(p) == {row \in listeners : Recent(row, p) /\ ~LocallyDead(row, p)}

Init ==
  /\ pc = [p \in Procs |-> "off"]
  /\ listeners = {}
  /\ registered = {}
  /\ socket = [n \in Nodes |-> None]
  /\ late = 0
  /\ faults = 0

Goto(p, to) == pc' = [pc EXCEPT ![p] = to]

Fault == faults < MaxFaults /\ faults' = faults + 1

(* assert_listener_available: skipped on a node that never logged in.      *)
(* Otherwise a listener that is still healthy makes the process exit.      *)
Start(p) ==
  /\ pc[p] = "off"
  /\ NodeOf[p] \in registered => Active(p) = {}
  /\ Goto(p, "connecting")
  /\ UNCHANGED <<listeners, registered, socket, late, faults>>

(* Connect, register_node and resolve the allowed chats.                   *)
Connect(p) ==
  /\ pc[p] = "connecting"
  /\ registered' = registered \cup {NodeOf[p]}
  /\ Goto(p, "claiming")
  /\ UNCHANGED <<listeners, socket, late, faults>>

ClaimKeepingRows(p) ==                \* mutant: the old rows are not deleted
  /\ pc[p] = "claiming"
  /\ IF Active(p) # {}
       THEN Goto(p, "off") /\ UNCHANGED listeners
       ELSE /\ Goto(p, "claimed")
            /\ listeners' = listeners \cup {[owner |-> p, age |-> 0]}
  /\ UNCHANGED <<registered, socket, late, faults>>

ClaimWithExpiry(p) ==                 \* mutant: the expiry for the heartbeat time
  /\ pc[p] = "claiming"
  /\ IF Active(p) # {}
       THEN Goto(p, "off") /\ UNCHANGED listeners
       ELSE /\ Goto(p, "claimed")
            /\ listeners' = {[owner |-> p, age |-> 0 - Stale]}
  /\ UNCHANGED <<registered, socket, late, faults>>

(* claim_listener: one transaction under the account's listener lock.      *)
Claim(p) ==
  /\ pc[p] = "claiming"
  /\ IF Active(p) # {}
       THEN Goto(p, "off") /\ UNCHANGED listeners
       ELSE /\ Goto(p, "claimed")
            /\ listeners' = {[owner |-> p, age |-> 0]}
  /\ UNCHANGED <<registered, socket, late, faults>>

(* Open the inbox store, register the handler and serve the socket, in     *)
(* place of any socket already at the path.                                *)
Serve(p) ==
  /\ pc[p] = "claimed"
  /\ socket' = [socket EXCEPT ![NodeOf[p]] = p]
  /\ Goto(p, "running")
  /\ UNCHANGED <<listeners, registered, late, faults>>

HeartbeatUnchecked(p) ==              \* mutant: the row count is not looked at
  /\ pc[p] = "running"
  /\ listeners' = {IF row.owner = p THEN [row EXCEPT !.age = 0] ELSE row : row \in listeners}
  /\ UNCHANGED <<pc, registered, socket, late, faults>>

(* heartbeat_listener must update exactly one row, else the process stops. *)
Heartbeat(p) ==
  /\ pc[p] = "running"
  /\ IF p \in Owners
       THEN /\ listeners' = {IF row.owner = p THEN [row EXCEPT !.age = 0] ELSE row
                             : row \in listeners}
            /\ UNCHANGED pc
       ELSE Goto(p, "stopping") /\ UNCHANGED listeners
  /\ UNCHANGED <<registered, socket, late, faults>>

FailReleasing(p) ==                   \* mutant: the lease goes before the socket
  /\ Fault
  /\ \/ pc[p] = "claimed" /\ Goto(p, "releasing") /\ UNCHANGED listeners
     \/ /\ pc[p] = "running" /\ Goto(p, "stopping")
        /\ listeners' = {row \in listeners : row.owner # p}
  /\ UNCHANGED <<registered, socket, late>>

(* Disconnected, interrupted, a fatal capture error or a failure to open   *)
(* the inbox: `finally` runs.                                              *)
Fail(p) ==
  /\ Fault
  /\ \/ pc[p] = "claimed" /\ Goto(p, "releasing")
     \/ pc[p] = "running" /\ Goto(p, "stopping")
  /\ UNCHANGED <<listeners, registered, socket, late>>

(* finally: the file at the socket path is removed, whoever bound it.      *)
Unlink(p) ==
  /\ pc[p] = "stopping"
  /\ socket' = [socket EXCEPT ![NodeOf[p]] = None]
  /\ Goto(p, "releasing")
  /\ UNCHANGED <<listeners, registered, late, faults>>

ReleaseAll(p) ==                      \* mutant: every row of the account goes
  /\ pc[p] = "releasing"
  /\ listeners' = {}
  /\ Goto(p, "off")
  /\ UNCHANGED <<registered, socket, late, faults>>

(* release_listener deletes this process's row only.                       *)
Release(p) ==
  /\ pc[p] = "releasing"
  /\ listeners' = {row \in listeners : row.owner # p}
  /\ Goto(p, "off")
  /\ UNCHANGED <<registered, socket, late, faults>>

(* SIGKILL, OOM or power loss at any point; rows and socket file stay.     *)
Crash(p) ==
  /\ Fault
  /\ pc[p] \notin {"off", "foreign"}
  /\ Goto(p, "off")
  /\ UNCHANGED <<listeners, registered, socket, late>>

(* The PID is given to an unrelated process, which may end.                *)
Reuse(p) ==
  /\ \/ pc[p] = "off" /\ Fault /\ Goto(p, "foreign")
     \/ pc[p] = "foreign" /\ Goto(p, "off") /\ UNCHANGED faults
  /\ UNCHANGED <<listeners, registered, socket, late>>

(* A heartbeat period passes.  An owner whose row is already MaxBeat old   *)
(* is late, because its database thread, the database or its end is slow.  *)
Overdue ==
  {row \in listeners : row.age >= MaxBeat /\ pc[row.owner] \in {"claimed", "running", "stopping"}}

Tick ==
  /\ \E row \in listeners : row.age < MaxAge
  /\ IF Overdue = {} THEN UNCHANGED late ELSE late < MaxLate /\ late' = late + 1
  /\ listeners' = {IF row.age < MaxAge THEN [row EXCEPT !.age = @ + 1] ELSE row
                   : row \in listeners}
  /\ UNCHANGED <<pc, registered, socket, faults>>

Next ==
  \/ Tick
  \/ \E p \in Procs :
       \/ Start(p) \/ Connect(p) \/ Claim(p) \/ Serve(p) \/ Heartbeat(p)
       \/ Fail(p) \/ Unlink(p) \/ Release(p) \/ Crash(p) \/ Reuse(p)

(* systemd starts the service again after every exit of this kind, a       *)
(* started process keeps running, and time passes.                         *)
Fairness ==
  /\ WF_vars(Tick)
  /\ \A p \in Procs :
       /\ WF_vars(Start(p)) /\ WF_vars(Connect(p)) /\ WF_vars(Claim(p))
       /\ WF_vars(Serve(p)) /\ WF_vars(Heartbeat(p))
       /\ WF_vars(Unlink(p)) /\ WF_vars(Release(p))

Spec == Init /\ [][Next]_vars

FairSpec == Spec /\ Fairness

-----------------------------------------------------------------------------
(* "one active listener lease per account" (store/migrations.py): the      *)
(* primary key allows many rows, the claim must leave one.                 *)
OneLease == \A r, s \in listeners : r = s

(* Clocks agree well enough for a timely heartbeat to look recent to all.  *)
SmallSkew == \A m, n \in Nodes : MaxBeat <= Stale + Offset[m] - Offset[n]

(* While no owner has been late and clocks agree, at most one process      *)
(* captures messages, through crashes, restarts and PIDs used twice.       *)
TimelyExclusion ==
  SmallSkew /\ late = 0 =>
    \A p, q \in Procs : pc[p] = "running" /\ pc[q] = "running" => p = q

(* Meanwhile the socket at a node's path is that of the listener running   *)
(* there, although starting and stopping listeners remove whatever they    *)
(* find (_serve_ipc; `finally` unlinks before it releases the lease).      *)
TimelySocket ==
  SmallSkew /\ late = 0 => \A p \in Procs : pc[p] = "running" => socket[NodeOf[p]] = p

(* A listener whose lease another process took stops by itself.            *)
LoserStops ==
  \A p \in Procs : pc[p] = "running" /\ p \notin Owners ~> pc[p] # "running"

(* A process that lost its lease never takes the new owner's away: a row   *)
(* disappears at a claim, or by its own owner's release.                   *)
OnlyOwnerReleases ==
  [][\A p \in Owners : p \notin Owners' =>
       \/ pc[p] = "releasing" /\ pc'[p] = "off"
       \/ \E q \in Procs : pc[q] = "claiming" /\ pc'[q] = "claimed"]_vars

(* Once failures and late heartbeats end, one listener keeps the lease     *)
(* for good: stale rows and PIDs in use never lock every listener out, as  *)
(* long as some listener has a PID of its own to start with.               *)
EventuallyOwned ==
  (\E p \in Procs : []<>(pc[p] # "foreign"))
    => <>[](\E p \in Procs : pc[p] = "running" /\ p \in Owners)
=============================================================================
