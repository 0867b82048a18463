------------------------ MODULE ListenerLeaseProofs -------------------------
(* The lease for any processes, nodes, clock offsets and periods.          *)
EXTENDS ListenerLease, TLAPS

USE ProcsAssumption, TimeAssumption

(* A step keeps the state well typed.                                      *)
LEMMA TypeStep == TypeOK /\ [Next]_vars => TypeOK'
<1> SUFFICES ASSUME TypeOK, [Next]_vars
             PROVE  TypeOK'
  OBVIOUS
<1> USE DEF TypeOK, Goto, Fault, Rows
<1>1. CASE Tick
  <2>1. ASSUME NEW row \in Rows
        PROVE  (IF row.age < MaxAge THEN [row EXCEPT !.age = @ + 1] ELSE row) \in Rows
    OBVIOUS
  <2>2. listeners' \subseteq Rows
    BY <1>1, <2>1 DEF Tick
  <2>3. late' \in 0..MaxLate
    BY <1>1 DEF Tick
  <2> QED
    BY <1>1, <2>2, <2>3 DEF Tick
<1>2. ASSUME NEW p \in Procs, Heartbeat(p)
      PROVE  TypeOK'
  <2>1. ASSUME NEW row \in Rows
        PROVE  (IF row.owner = p THEN [row EXCEPT !.age = 0] ELSE row) \in Rows
    OBVIOUS
  <2>2. CASE p \in Owners
    <3>1. listeners' \subseteq Rows
      BY <1>2, <2>1, <2>2 DEF Heartbeat
    <3> QED
      BY <1>2, <2>2, <3>1 DEF Heartbeat
  <2>3. CASE p \notin Owners
    BY <1>2, <2>3 DEF Heartbeat
  <2> QED
    BY <2>2, <2>3
<1>3. ASSUME NEW p \in Procs, Claim(p)
      PROVE  TypeOK'
  <2>1. [owner |-> p, age |-> 0] \in Rows
    OBVIOUS
  <2> QED
    BY <1>3, <2>1 DEF Claim
<1>4. ASSUME NEW p \in Procs, Start(p) \/ Connect(p) \/ Serve(p) \/ Unlink(p)
      PROVE  TypeOK'
  BY <1>4 DEF Start, Connect, Serve, Unlink
<1>6. ASSUME NEW p \in Procs, Release(p)
      PROVE  TypeOK'
  BY <1>6 DEF Release
<1>7. ASSUME NEW p \in Procs, Fail(p) \/ Crash(p) \/ Reuse(p)
      PROVE  TypeOK'
  <2>1. faults' \in 0..MaxFaults
    BY <1>7 DEF Fail, Crash, Reuse
  <2>2. pc' \in [Procs -> {"off", "foreign", "connecting", "claiming", "claimed",
                          "running", "stopping", "releasing"}]
    BY <1>7 DEF Fail, Crash, Reuse
  <2> QED
    BY <1>7, <2>1, <2>2 DEF Fail, Crash, Reuse
<1>5. CASE UNCHANGED vars
  BY <1>5 DEF vars
<1> QED
  BY <1>1, <1>2, <1>3, <1>4, <1>5, <1>6, <1>7 DEF Next

(* Every reachable state is well typed.                                    *)
THEOREM TypeCorrect == Spec => []TypeOK
<1>1. Init => TypeOK
  BY DEF Init, TypeOK
<1> QED
  BY <1>1, TypeStep, PTL DEF Spec

(* No step adds a row without dropping the others.                         *)
LEMMA OneLeaseStep == OneLease /\ [Next]_vars => OneLease'
<1> SUFFICES ASSUME OneLease, [Next]_vars
             PROVE  OneLease'
  OBVIOUS
<1> USE DEF OneLease
<1>1. CASE Tick
  BY <1>1 DEF Tick
<1>2. ASSUME NEW p \in Procs, Claim(p) \/ Heartbeat(p) \/ Release(p)
      PROVE  OneLease'
  BY <1>2 DEF Claim, Heartbeat, Release
<1>3. ASSUME NEW p \in Procs,
             Start(p) \/ Connect(p) \/ Serve(p) \/ Fail(p) \/ Unlink(p) \/ Crash(p) \/ Reuse(p)
      PROVE  OneLease'
  BY <1>3 DEF Start, Connect, Serve, Fail, Unlink, Crash, Reuse
<1>4. CASE UNCHANGED vars
  BY <1>4 DEF vars
<1> QED
  BY <1>1, <1>2, <1>3, <1>4 DEF Next

(* At most one lease row per account, whatever crashes and clock offsets.  *)
THEOREM LeaseUnique == Spec => []OneLease
<1>1. Init => OneLease
  BY DEF Init, OneLease
<1> QED
  BY <1>1, OneLeaseStep, PTL DEF Spec

-----------------------------------------------------------------------------
(* Until some owner is late, whoever has claimed and not released still    *)
(* has a row, young enough to look recent to every claimer.                    *)
TimelyOwners ==
  late = 0 => \A p \in Procs : pc[p] \in {"claimed", "running", "stopping"} =>
    \E row \in listeners : row.owner = p /\ row.age <= MaxBeat

LeaseInv == TypeOK /\ OneLease /\ TimelyOwners

(* A claim is refused while a timely owner exists.                         *)
LEMMA ClaimRefused ==
  ASSUME SmallSkew, LeaseInv, late = 0, NEW p \in Procs, NEW q \in Procs,
         pc[p] \in {"claimed", "running", "stopping"}
  PROVE  Active(q) # {}
<1>1. PICK row \in listeners : row.owner = p /\ row.age <= MaxBeat
  BY DEF LeaseInv, TimelyOwners
<1>2. Recent(row, q)
  <2>1. NodeOf[p] \in Nodes /\ NodeOf[q] \in Nodes /\ row.age \in Int
    BY DEF LeaseInv, TypeOK, Rows
  <2>2. Offset[NodeOf[p]] \in Int /\ Offset[NodeOf[q]] \in Int
    BY <2>1
  <2>3. MaxBeat <= Stale + Offset[NodeOf[p]] - Offset[NodeOf[q]]
    BY <2>1 DEF SmallSkew
  <2> QED
    BY <1>1, <2>1, <2>2, <2>3 DEF Recent
<1>3. ~LocallyDead(row, q)
  BY <1>1 DEF LocallyDead
<1> QED
  BY <1>2, <1>3 DEF Active

(* Only a late heartbeat can make an owner's row look old to a claimer.    *)
LEMMA TimelyStep ==
  ASSUME SmallSkew, LeaseInv, [Next]_vars
  PROVE  TimelyOwners'
<1> SUFFICES ASSUME late' = 0, NEW p \in Procs, pc'[p] \in {"claimed", "running", "stopping"}
             PROVE  \E row \in listeners' : row.owner = p /\ row.age <= MaxBeat
  BY DEF TimelyOwners
<1> USE DEF LeaseInv, TypeOK, Goto
<1>1. CASE Tick
  <2>1. late = 0 /\ Overdue = {}
    BY <1>1 DEF Tick
  <2>2. PICK row \in listeners : row.owner = p /\ row.age <= MaxBeat
    BY <1>1, <2>1 DEF Tick, TimelyOwners
  <2>3. row.age < MaxBeat /\ row \in Rows
    BY <1>1, <2>1, <2>2 DEF Overdue, Tick, Rows
  <2> DEFINE older == IF row.age < MaxAge THEN [row EXCEPT !.age = @ + 1] ELSE row
  <2>4. older \in listeners'
    BY <1>1 DEF Tick
  <2>5. older.owner = p /\ older.age <= MaxBeat
    BY <2>2, <2>3 DEF Rows
  <2> QED
    BY <2>4, <2>5
<1>2. ASSUME NEW q \in Procs, Claim(q)
      PROVE  \E row \in listeners' : row.owner = p /\ row.age <= MaxBeat
  <2>1. CASE p = q
    <3>1. Active(q) = {}
      BY <1>2, <2>1 DEF Claim
    <3>2. [owner |-> q, age |-> 0] \in listeners'
      BY <1>2, <3>1 DEF Claim
    <3> QED
      BY <2>1, <3>2
  <2>2. CASE p # q
    <3>1. late = 0 /\ pc[p] \in {"claimed", "running", "stopping"}
      BY <1>2, <2>2 DEF Claim
    <3>2. UNCHANGED listeners
      BY <1>2, <3>1, ClaimRefused DEF Claim
    <3> QED
      BY <3>1, <3>2 DEF TimelyOwners
  <2> QED
    BY <2>1, <2>2
<1>3. ASSUME NEW q \in Procs, Heartbeat(q)
      PROVE  \E row \in listeners' : row.owner = p /\ row.age <= MaxBeat
  <2>1. late = 0 /\ pc[p] \in {"claimed", "running", "stopping"}
    BY <1>3 DEF Heartbeat
  <2>2. PICK row \in listeners : row.owner = p /\ row.age <= MaxBeat
    BY <2>1 DEF TimelyOwners
  <2> DEFINE beaten == IF row.owner = q THEN [row EXCEPT !.age = 0] ELSE row
  <2>3. CASE q \in Owners
    <3>1. beaten \in listeners'
      BY <1>3, <2>3 DEF Heartbeat
    <3>2. beaten.owner = p /\ beaten.age <= MaxBeat
      BY <2>2 DEF Rows
    <3> QED
      BY <3>1, <3>2
  <2>4. CASE q \notin Owners
    BY <1>3, <2>2, <2>4 DEF Heartbeat
  <2> QED
    BY <2>3, <2>4
<1>4. ASSUME NEW q \in Procs, Release(q)
      PROVE  \E row \in listeners' : row.owner = p /\ row.age <= MaxBeat
  BY <1>4 DEF Release, TimelyOwners
<1>5. ASSUME NEW q \in Procs,
             Start(q) \/ Connect(q) \/ Serve(q) \/ Fail(q) \/ Unlink(q) \/ Crash(q) \/ Reuse(q)
      PROVE  \E row \in listeners' : row.owner = p /\ row.age <= MaxBeat
  BY <1>5 DEF Start, Connect, Serve, Fail, Unlink, Crash, Reuse, TimelyOwners
<1>6. CASE UNCHANGED vars
  BY <1>6 DEF vars, TimelyOwners
<1> QED
  BY <1>1, <1>2, <1>3, <1>4, <1>5, <1>6 DEF Next

(* While heartbeats are timely and clocks agree, no two processes capture  *)
(* at once, for any number of processes, nodes and failures.               *)
THEOREM TimelyListenersExclusive == Spec => []TimelyExclusion
<1>1. CASE ~SmallSkew
  <2>1. TimelyExclusion
    BY <1>1 DEF TimelyExclusion
  <2> QED
    BY <2>1, PTL
<1>2. CASE SmallSkew
  <2>1. Init => LeaseInv
    BY DEF Init, LeaseInv, TypeOK, OneLease, TimelyOwners
  <2>2. LeaseInv /\ [Next]_vars => LeaseInv'
    BY <1>2, TypeStep, OneLeaseStep, TimelyStep DEF LeaseInv
  <2>3. LeaseInv => TimelyExclusion
    BY DEF LeaseInv, TimelyExclusion, TimelyOwners, OneLease
  <2> QED
    BY <2>1, <2>2, <2>3, PTL DEF Spec
<1> QED
  BY <1>1, <1>2

-----------------------------------------------------------------------------
(* Of two processes that have claimed and not released, neither late, both *)
(* have a row, and there is one.                                           *)
LEMMA OneTimelyOwner ==
  ASSUME LeaseInv, late = 0, NEW p \in Procs, NEW q \in Procs,
         pc[p] \in {"claimed", "running", "stopping"},
         pc[q] \in {"claimed", "running", "stopping"}
  PROVE  p = q
BY DEF LeaseInv, TimelyOwners, OneLease

SocketHeld ==
  late = 0 => \A p \in Procs : pc[p] = "running" => socket[NodeOf[p]] = p

(* Whoever binds or removes a socket holds the lease, so the other process *)
(* on its node does not run.                                               *)
LEMMA SocketStep ==
  ASSUME LeaseInv, SocketHeld, [Next]_vars
  PROVE  SocketHeld'
<1> SUFFICES ASSUME late' = 0, NEW p \in Procs, pc'[p] = "running"
             PROVE  socket'[NodeOf[p]] = p
  BY DEF SocketHeld
<1> USE DEF SocketHeld, Goto
<1>t. TypeOK
  BY DEF LeaseInv
<1>1. CASE Tick
  <2>1. late = 0
    BY <1>1, <1>t DEF Tick, TypeOK
  <2> QED
    BY <1>1, <2>1 DEF Tick
<1>2. ASSUME NEW q \in Procs, Serve(q)
      PROVE  socket'[NodeOf[p]] = p
  <2>1. CASE p = q
    BY <1>2, <1>t, <2>1 DEF Serve, TypeOK
  <2>2. CASE p # q
    <3>1. late = 0 /\ pc[p] = "running" /\ pc[q] = "claimed"
      BY <1>2, <1>t, <2>2 DEF Serve, TypeOK
    <3> QED
      BY <2>2, <3>1, OneTimelyOwner
  <2> QED
    BY <2>1, <2>2
<1>3. ASSUME NEW q \in Procs, Unlink(q)
      PROVE  socket'[NodeOf[p]] = p
  <2>1. late = 0 /\ pc[p] = "running" /\ pc[q] = "stopping"
    BY <1>3, <1>t DEF Unlink, TypeOK
  <2> QED
    BY <2>1, OneTimelyOwner
<1>4. ASSUME NEW q \in Procs,
             \/ Start(q) \/ Connect(q) \/ Claim(q) \/ Heartbeat(q) \/ Fail(q)
             \/ Release(q) \/ Crash(q) \/ Reuse(q)
      PROVE  socket'[NodeOf[p]] = p
  <2>1. late = 0 /\ socket' = socket
    BY <1>4 DEF Start, Connect, Claim, Heartbeat, Fail, Release, Crash, Reuse
  <2>2. pc[p] = "running"
    BY <1>4, <1>t DEF Start, Connect, Claim, Heartbeat, Fail, Release, Crash, Reuse, TypeOK
  <2> QED
    BY <2>1, <2>2
<1>5. CASE UNCHANGED vars
  BY <1>5 DEF vars
<1> QED
  BY <1>1, <1>2, <1>3, <1>4, <1>5 DEF Next

(* While owners are timely and clocks agree, the socket of a running       *)
(* listener is never replaced or removed by another one.                   *)
THEOREM TimelySocketKept == Spec => []TimelySocket
<1>1. CASE ~SmallSkew
  <2>1. TimelySocket
    BY <1>1 DEF TimelySocket
  <2> QED
    BY <2>1, PTL
<1>2. CASE SmallSkew
  <2>1. Init => LeaseInv /\ SocketHeld
    BY DEF Init, LeaseInv, TypeOK, OneLease, TimelyOwners, SocketHeld
  <2>2. LeaseInv /\ SocketHeld /\ [Next]_vars => LeaseInv' /\ SocketHeld'
    BY <1>2, TypeStep, OneLeaseStep, TimelyStep, SocketStep DEF LeaseInv
  <2>3. SocketHeld => TimelySocket
    BY DEF SocketHeld, TimelySocket
  <2> QED
    BY <2>1, <2>2, <2>3, PTL DEF Spec
<1> QED
  BY <1>1, <1>2

-----------------------------------------------------------------------------
(* A row disappears when its owner releases it or another process claims;  *)
(* a heartbeat, a late one too, and the shutdown of a loser leave it.      *)
LEMMA DropStep ==
  ASSUME TypeOK, [Next]_vars, NEW o \in Procs, o \in Owners, o \notin Owners'
  PROVE  \/ pc[o] = "releasing" /\ pc'[o] = "off"
         \/ \E q \in Procs : pc[q] = "claiming" /\ pc'[q] = "claimed"
<1> USE DEF Goto, Owners
<1>0. PICK gone \in listeners : gone.owner = o
  OBVIOUS
<1>1. CASE Tick
  <2> DEFINE aged(row) == IF row.age < MaxAge THEN [row EXCEPT !.age = @ + 1] ELSE row
  <2>1. aged(gone) \in listeners' /\ aged(gone).owner = o
    BY <1>0, <1>1 DEF Tick, TypeOK, Rows
  <2> QED
    BY <2>1
<1>2. ASSUME NEW p \in Procs, Heartbeat(p)
      PROVE  FALSE
  <2> DEFINE beaten(row) == IF row.owner = p THEN [row EXCEPT !.age = 0] ELSE row
  <2>1. CASE p \in Owners
    <3>1. beaten(gone) \in listeners' /\ beaten(gone).owner = o
      BY <1>0, <1>2, <2>1 DEF Heartbeat, TypeOK, Rows
    <3> QED
      BY <3>1
  <2> QED
    BY <1>0, <1>2, <2>1 DEF Heartbeat
<1>3. ASSUME NEW p \in Procs, Claim(p)
      PROVE  pc[p] = "claiming" /\ pc'[p] = "claimed"
  BY <1>0, <1>3 DEF Claim, TypeOK
<1>4. ASSUME NEW p \in Procs, Release(p)
      PROVE  p = o /\ pc[o] = "releasing" /\ pc'[o] = "off"
  BY <1>0, <1>4 DEF Release, TypeOK
<1>5. ASSUME UNCHANGED listeners
      PROVE  FALSE
  BY <1>0, <1>5
<1>6. ASSUME NEW p \in Procs,
             Start(p) \/ Connect(p) \/ Serve(p) \/ Fail(p) \/ Unlink(p) \/ Crash(p) \/ Reuse(p)
      PROVE  FALSE
  BY <1>5, <1>6 DEF Start, Connect, Serve, Fail, Unlink, Crash, Reuse
<1>7. CASE UNCHANGED vars
  BY <1>5, <1>7 DEF vars
<1> QED
  BY <1>1, <1>2, <1>3, <1>4, <1>6, <1>7 DEF Next

(* A process that lost its lease never takes the new owner's away, however *)
(* late it runs its shutdown.                                              *)
THEOREM OwnersReleaseOwn == Spec => OnlyOwnerReleases
<1>1. ASSUME TypeOK, [Next]_vars
      PROVE  [\A p \in Owners : p \notin Owners' =>
                \/ pc[p] = "releasing" /\ pc'[p] = "off"
                \/ \E q \in Procs : pc[q] = "claiming" /\ pc'[q] = "claimed"]_vars
  <2>1. Owners \subseteq Procs
    BY <1>1 DEF Owners, TypeOK, Rows
  <2> QED
    BY <1>1, <2>1, DropStep
<1> QED
  BY <1>1, TypeCorrect, PTL DEF Spec, OnlyOwnerReleases
=============================================================================
