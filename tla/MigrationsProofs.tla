-------------------------- MODULE MigrationsProofs --------------------------
(***************************************************************************)
(* Proofs about Migrations, for any programs, versions, numbers of         *)
(* statements and faults.                                                  *)
(***************************************************************************)
EXTENDS Migrations, TLAPS

-----------------------------------------------------------------------------
(* Logs of statements.                                                     *)

Sorted(log) == \A i, j \in DOMAIN log : i <= j => log[i][1] <= log[j][1]

(* What comes next after a log.                                            *)
NextAfter(log, t) ==
  /\ log = <<>> => t = <<1, 1>>
  /\ log # <<>> => Follows(log[Len(log)], t)

LEMMA PartsNat == Parts \in Nat /\ Parts >= 1
BY MigrationsAssumption

LEMMA StatementParts ==
  ASSUME NEW s \in Statements
  PROVE  s[1] \in Nat /\ s[1] >= 1 /\ s[2] \in 1..Parts /\ s = <<s[1], s[2]>>
BY DEF Statements

LEMMA AfterFollows ==
  ASSUME NEW s \in Statements
  PROVE  After(s) \in Statements /\ Follows(s, After(s)) /\ After(s)[1] \in {s[1], s[1] + 1}
<1>1. s[1] \in Nat /\ s[1] >= 1 /\ s[2] \in 1..Parts
  BY StatementParts
<1>2. CASE s[2] = Parts
  BY <1>1, <1>2, PartsNat DEF After, Follows, Statements
<1>3. CASE s[2] # Parts
  <2>1. s[2] + 1 \in 1..Parts
    BY <1>1, <1>3, PartsNat
  <2> QED
    BY <1>1, <1>3, <2>1, PartsNat DEF After, Follows, Statements
<1> QED
  BY <1>2, <1>3

LEMMA FollowsFacts ==
  ASSUME NEW s \in Statements, NEW t \in Statements, Follows(s, t)
  PROVE  /\ s[2] = Parts => t[1] = s[1] + 1
         /\ t[1] > s[1] => s[2] = Parts
<1>1. s[1] \in Nat /\ s[2] \in 1..Parts /\ t[1] \in Nat
  BY StatementParts
<1>2. CASE s[2] < Parts /\ t = <<s[1], s[2] + 1>>
  BY <1>1, <1>2, PartsNat
<1>3. CASE s[2] = Parts /\ t = <<s[1] + 1, 1>>
  BY <1>1, <1>3
<1> QED
  BY <1>2, <1>3 DEF Follows

LEMMA AppendLog ==
  ASSUME NEW log \in Seq(Statements), NEW t \in Statements
  PROVE  /\ Append(log, t) \in Seq(Statements) /\ Append(log, t) # <<>>
         /\ Len(Append(log, t)) = Len(log) + 1 /\ Len(log) \in Nat
         /\ DOMAIN Append(log, t) = 1..(Len(log) + 1) /\ DOMAIN log = 1..Len(log)
         /\ \A i \in 1..Len(log) : Append(log, t)[i] = log[i] /\ log[i] \in Statements
         /\ Append(log, t)[Len(log) + 1] = t
         /\ log # <<>> => Len(log) >= 1
OBVIOUS

LEMMA Extended ==
  ASSUME NEW log \in Seq(Statements), NEW t \in Statements,
         InOrder(log), Sorted(log), NextAfter(log, t)
  PROVE  InOrder(Append(log, t)) /\ Sorted(Append(log, t)) /\ NextAfter(Append(log, t), After(t))
<1> DEFINE new == Append(log, t)
<1>1. /\ new # <<>> /\ Len(new) = Len(log) + 1 /\ Len(log) \in Nat
      /\ DOMAIN new = 1..(Len(log) + 1) /\ DOMAIN log = 1..Len(log)
      /\ \A i \in 1..Len(log) : new[i] = log[i] /\ log[i] \in Statements
      /\ new[Len(log) + 1] = t
      /\ log # <<>> => Len(log) >= 1
  BY AppendLog
<1>2. log = <<>> => Len(log) = 0
  OBVIOUS
<1> HIDE DEF new
<1>3. NextAfter(new, After(t))
  BY <1>1, AfterFollows DEF NextAfter
<1>4. new[1] = <<1, 1>>
  BY <1>1, <1>2 DEF InOrder, NextAfter
<1>5. ASSUME NEW i \in 1..Len(log) PROVE Follows(new[i], new[i + 1])
  <2>1. CASE i = Len(log)
    BY <1>1, <1>2, <2>1 DEF NextAfter
  <2>2. CASE i # Len(log)
    <3>1. i \in 1..(Len(log) - 1) /\ i + 1 \in 1..Len(log)
      <4>1. Len(log) \in Nat
        BY <1>1
      <4> QED
        BY <4>1, <2>2
    <3> QED
      BY <1>1, <3>1 DEF InOrder
  <2> QED
    BY <2>1, <2>2
<1>6. InOrder(new)
  BY <1>1, <1>4, <1>5 DEF InOrder
<1>7. ASSUME log # <<>> PROVE log[Len(log)][1] <= t[1] /\ log[Len(log)] \in Statements
  <2>1. log[Len(log)] \in Statements /\ Follows(log[Len(log)], t)
    BY <1>1, <1>7 DEF NextAfter
  <2> QED
    BY <2>1, StatementParts DEF Follows
<1>8. ASSUME NEW i \in DOMAIN new, NEW j \in DOMAIN new, i <= j PROVE new[i][1] <= new[j][1]
  <2>1. CASE j \in 1..Len(log)
    BY <1>1, <1>8, <2>1 DEF Sorted
  <2>2. CASE i = Len(log) + 1
    <3>1. j = i
      BY <1>1, <1>8, <2>2
    <3> QED
      BY <1>1, <2>2, <3>1, StatementParts
  <2>3. CASE i \in 1..Len(log) /\ j = Len(log) + 1
    <3>1. log # <<>> /\ i <= Len(log) /\ Len(log) \in 1..Len(log)
      BY <1>1, <1>2, <2>3
    <3>2. log[i][1] <= log[Len(log)][1]
      BY <1>1, <2>3, <3>1 DEF Sorted
    <3> QED
      BY <1>1, <1>7, <2>3, <3>1, <3>2, StatementParts
  <2> QED
    BY <1>1, <2>1, <2>2, <2>3
<1>9. Sorted(new)
  BY <1>8 DEF Sorted
<1> QED
  BY <1>3, <1>6, <1>9 DEF new

(* The version of a log of whole migrations is that of its last statement. *)
LEMMA VersionOf ==
  ASSUME NEW log \in Seq(Statements), Sorted(log),
         log # <<>> => log[Len(log)][2] = Parts
  PROVE  /\ Version(log) = IF log = <<>> THEN 0 ELSE log[Len(log)][1]
         /\ Version(log) \in Nat
<1> DEFINE v == IF log = <<>> THEN 0 ELSE log[Len(log)][1]
<1>1. /\ DOMAIN log = 1..Len(log) /\ Len(log) \in Nat
      /\ \A i \in 1..Len(log) : log[i] \in Statements
      /\ log # <<>> => Len(log) \in 1..Len(log)
      /\ log = <<>> => Len(log) = 0
  OBVIOUS
<1>2. \A w \in Recorded(log) : w \in Nat
  BY <1>1, StatementParts DEF Recorded
<1>3. v \in Recorded(log) \cup {0} /\ v \in Nat
  BY <1>1, StatementParts DEF Recorded
<1>4. ASSUME NEW w \in Recorded(log) PROVE w <= v
  <2>1. PICK i \in DOMAIN log : w = log[i][1]
    BY <1>4 DEF Recorded
  <2>2. log # <<>> /\ i <= Len(log) /\ Len(log) \in DOMAIN log
    BY <1>1, <2>1
  <2> QED
    BY <2>1, <2>2 DEF Sorted
<1>5. ASSUME NEW u \in Recorded(log) \cup {0}, \A w \in Recorded(log) : w <= u
      PROVE  u = v
  <2>1. u \in Nat /\ u <= v
    BY <1>2, <1>3, <1>4, <1>5
  <2>2. v <= u
    BY <1>3, <1>5, <2>1
  <2> QED
    BY <1>3, <2>1, <2>2
<1> HIDE DEF v
<1>6. Version(log) = v
  BY <1>3, <1>4, <1>5 DEF Version
<1> QED
  BY <1>3, <1>6 DEF v

LEMMA Concat ==
  ASSUME NEW a \in Seq(Statements), NEW b \in Seq(Statements), NEW t \in Statements
  PROVE  /\ a \o b \in Seq(Statements) /\ a \o <<>> = a
         /\ a \o Append(b, t) = Append(a \o b, t)
         /\ b # <<>> => a \o b # <<>> /\ (a \o b)[Len(a \o b)] = b[Len(b)]
OBVIOUS

-----------------------------------------------------------------------------
(* The lock: whoever applies migrations over an intact connection has it.  *)
LockInv ==
  /\ lock # None => pc[lock] = "apply" /\ lock \in up
  /\ \A p \in Programs :
       /\ pc[p] = "apply" /\ p \in up => lock = p
       /\ p # lock => tx[p] = <<>>

(* What its holder has done and does next continues the schema.            *)
HolderInv(p) ==
  LET log == schema \o tx[p] IN
  /\ InOrder(log) /\ Sorted(log) /\ NextAfter(log, todo[p])
  /\ Version(schema) < todo[p][1] /\ todo[p][1] <= Needs[p] + 1
  /\ tx[p] = <<>> => todo[p][2] = 1
  /\ tx[p] # <<>> =>
       Version(schema) < Needs[p] /\ tx[p][Len(tx[p])][1] <= Needs[p]

Inv ==
  /\ TypeOK /\ Whole /\ Sorted(schema) /\ LockInv
  /\ lock # None => HolderInv(lock)

LEMMA SchemaFacts ==
  ASSUME TypeOK, Whole, Sorted(schema)
  PROVE  /\ Version(schema) = IF schema = <<>> THEN 0 ELSE schema[Len(schema)][1]
         /\ Version(schema) \in Nat
BY VersionOf DEF TypeOK, Whole

LEMMA InitInv == Init => Inv
<1> SUFFICES ASSUME Init PROVE Inv
  OBVIOUS
<1>1. TypeOK
  <2>1. <<>> \in Seq(Statements) /\ <<1, 1>> \in Statements
    BY PartsNat DEF Statements
  <2> QED
    BY <2>1, MigrationsAssumption DEF Init, TypeOK
<1>2. Whole /\ Sorted(schema)
  BY DEF Init, Whole, InOrder, Sorted
<1>3. LockInv
  BY MigrationsAssumption DEF Init, LockInv
<1> QED
  BY <1>1, <1>2, <1>3 DEF Init, Inv

LEMMA FaultCounted == ASSUME Inv, Fault PROVE faults' \in 0..MaxFaults
BY MigrationsAssumption DEF Fault, Inv, TypeOK

(* A program other than the holder moves, or the holder loses the lock.    *)
LEMMA Frame ==
  ASSUME Inv, TypeOK', LockInv', schema' = schema, lock' \in {lock, None},
         lock' # None => tx'[lock] = tx[lock] /\ todo'[lock] = todo[lock]
  PROVE  Inv'
<1>1. Whole' /\ Sorted(schema)'
  BY DEF Inv, Whole
<1>2. lock' # None => HolderInv(lock)'
  BY DEF Inv, HolderInv
<1> QED
  BY <1>1, <1>2 DEF Inv

LEMMA EndedKeeps ==
  ASSUME Inv, NEW p \in Programs, Ended(p)
  PROVE  /\ tx' \in [Programs -> Seq(Statements)] /\ tx'[p] = <<>>
         /\ \A q \in Programs : q # p => tx'[q] = tx[q]
         /\ lock' \in {lock, None} /\ lock' # p
         /\ lock # p => lock' = lock
         /\ lock' \in Programs \cup {None}
<1>1. <<>> \in Seq(Statements)
  OBVIOUS
<1> QED
  BY <1>1, MigrationsAssumption DEF Ended, Inv, TypeOK

(* Steps that neither take the lock nor write to the schema.               *)
LEMMA OutsideInv ==
  ASSUME Inv, NEW p \in Programs,
         \/ Open(p) \/ TableExists(p) \/ ReadVersion(p) \/ Begin(p) \/ NotRetried(p)
         \/ Close(p)
  PROVE  Inv'
<1>1. p # lock /\ pc'[p] # "apply" /\ \A q \in Programs : q # p => pc'[q] = pc[q]
  BY MigrationsAssumption
  DEF Open, TableExists, ReadVersion, Begin, NotRetried, Close, Goto, Inv, LockInv, TypeOK
<1>2. UNCHANGED <<schema, tx, lock>>
  BY DEF Open, TableExists, ReadVersion, Begin, NotRetried, Close, UnchangedTx
<1>3. /\ \A q \in Programs : q # p => todo'[q] = todo[q] /\ (q \in up' <=> q \in up)
      /\ todo' \in [Programs -> Statements] /\ up' \subseteq Programs /\ faults' = faults
  <2>1. <<1, 1>> \in Statements
    BY PartsNat DEF Statements
  <2> QED
    BY <2>1 DEF Open, TableExists, ReadVersion, Begin, NotRetried, Close, Inv, TypeOK
<1>4. pc' \in [Programs -> {"closed", "exists", "version", "begin", "lock", "apply",
                           "working", "failed"}]
  BY DEF Open, TableExists, ReadVersion, Begin, NotRetried, Close, Goto, Inv, TypeOK
<1>5. TypeOK'
  BY <1>2, <1>3, <1>4 DEF Inv, TypeOK
<1>6. LockInv'
  BY <1>1, <1>2, <1>3 DEF Inv, LockInv, TypeOK
<1>7. lock' # None => todo'[lock] = todo[lock]
  BY <1>1, <1>2, <1>3 DEF Inv, TypeOK
<1> QED
  BY <1>2, <1>5, <1>6, <1>7, Frame

(* Steps that end a transaction without a commit.                          *)
LEMMA RollbackInv ==
  ASSUME Inv, NEW p \in Programs, Break(p) \/ Fails(p) \/ Kill(p)
  PROVE  Inv'
<1>1. /\ tx' \in [Programs -> Seq(Statements)] /\ tx'[p] = <<>>
      /\ \A q \in Programs : q # p => tx'[q] = tx[q]
      /\ lock' \in {lock, None} /\ lock' # p
      /\ lock # p => lock' = lock
      /\ lock' \in Programs \cup {None}
  BY EndedKeeps DEF Break, Fails, Kill
<1>f. faults' \in 0..MaxFaults
  BY FaultCounted DEF Break, Fails, Kill
<1>2. /\ UNCHANGED <<schema, todo>>
      /\ pc'[p] = "apply" => p \notin up'
      /\ \A q \in Programs : q # p => pc'[q] = pc[q] /\ (q \in up' <=> q \in up)
      /\ up' \subseteq Programs
      /\ pc' \in [Programs -> {"closed", "exists", "version", "begin", "lock", "apply",
                              "working", "failed"}]
  BY DEF Break, Fails, Kill, Inv, TypeOK
<1>3. TypeOK'
  BY <1>f, <1>1, <1>2 DEF Inv, TypeOK
<1>4. LockInv'
  BY <1>1, <1>2 DEF Inv, LockInv, TypeOK
<1>5. lock' # None => tx'[lock] = tx[lock] /\ todo'[lock] = todo[lock]
  BY <1>1, <1>2
<1> QED
  BY <1>1, <1>2, <1>3, <1>4, <1>5, Frame

(* The lock is granted: what comes next is the first statement of the      *)
(* version after the schema's.                                             *)
LEMMA LockedInv ==
  ASSUME Inv, NEW p \in Programs, Lock(p)
  PROVE  Inv'
<1>0. /\ p \in up /\ lock = None /\ UNCHANGED <<schema, tx, up, faults>> /\ pc[p] = "lock"
      /\ tx[p] = <<>> /\ Version(schema) \in Nat /\ Needs[p] \in Nat /\ p # None
      /\ Version(schema) = IF schema = <<>> THEN 0 ELSE schema[Len(schema)][1]
  BY SchemaFacts, MigrationsAssumption DEF Lock, Goto, Inv, LockInv
<1>1. CASE Goto(p, "lock", "failed") /\ UNCHANGED <<lock, todo>>
  <2>1. TypeOK' /\ LockInv'
    BY <1>0, <1>1 DEF Inv, TypeOK, LockInv, Goto
  <2> QED
    BY <1>0, <1>1, <2>1, Frame
<1>2. CASE /\ Version(schema) <= Needs[p] /\ Goto(p, "lock", "apply")
           /\ lock' = p
           /\ todo' = [todo EXCEPT ![p] = <<Version(schema) + 1, 1>>]
  <2>1. <<Version(schema) + 1, 1>> \in Statements
    BY <1>0, PartsNat DEF Statements
  <2>2. TypeOK' /\ todo'[p] = <<Version(schema) + 1, 1>>
    BY <1>0, <1>2, <2>1 DEF Inv, TypeOK, Goto
  <2>3. LockInv'
    <3>1. \A q \in Programs : q # None /\ tx[q] = <<>> /\ ~(pc[q] = "apply" /\ q \in up)
      BY <1>0, MigrationsAssumption DEF Inv, LockInv
    <3> QED
      BY <1>0, <1>2, <3>1 DEF Inv, TypeOK, LockInv, Goto
  <2>4. schema \o tx[p] = schema
    BY <1>0 DEF Inv, TypeOK
  <2>5. NextAfter(schema, <<Version(schema) + 1, 1>>)
    BY <1>0 DEF Inv, Whole, NextAfter, Follows
  <2>6. HolderInv(p)'
    BY <1>0, <1>2, <2>2, <2>4, <2>5 DEF Inv, Whole, HolderInv
  <2> QED
    BY <1>0, <1>2, <2>2, <2>3, <2>6 DEF Inv, Whole
<1> QED
  BY <1>1, <1>2 DEF Lock

LEMMA AppliedInv ==
  ASSUME Inv, NEW p \in Programs, Apply(p)
  PROVE  Inv'
<1> DEFINE t == todo[p]
           log == schema \o tx[p]
<1>0. /\ lock = p /\ p # None /\ HolderInv(p) /\ p \in up
      /\ t \in Statements /\ tx[p] \in Seq(Statements) /\ schema \in Seq(Statements)
      /\ t[1] <= Needs[p] /\ Needs[p] \in Nat
      /\ Version(schema) \in Nat /\ t[1] \in Nat
  BY SchemaFacts, StatementParts, MigrationsAssumption DEF Apply, Inv, LockInv, TypeOK
<1>1. After(t) \in Statements /\ After(t)[1] \in {t[1], t[1] + 1}
  BY <1>0, AfterFollows
<1>2. /\ tx'[p] = Append(tx[p], t) /\ todo'[p] = After(t)
      /\ \A q \in Programs : q # p => tx'[q] = tx[q]
      /\ UNCHANGED <<schema, lock, up, pc, faults>>
      /\ tx' \in [Programs -> Seq(Statements)] /\ todo' \in [Programs -> Statements]
  BY <1>0, <1>1, AppendLog DEF Apply, Inv, TypeOK
<1>3. TypeOK' /\ LockInv'
  BY <1>0, <1>2 DEF Inv, TypeOK, LockInv
<1>4. /\ log \in Seq(Statements)
      /\ schema \o Append(tx[p], t) = Append(log, t)
  BY <1>0, Concat
<1>5. InOrder(Append(log, t)) /\ Sorted(Append(log, t)) /\ NextAfter(Append(log, t), After(t))
  BY <1>0, <1>4, Extended DEF HolderInv
<1>6. tx'[p] # <<>> /\ tx'[p][Len(tx'[p])] = t
  BY <1>0, <1>2, AppendLog
<1>7. HolderInv(p)'
  BY <1>0, <1>1, <1>2, <1>4, <1>5, <1>6 DEF HolderInv
<1> QED
  BY <1>0, <1>2, <1>3, <1>7 DEF Inv, Whole

(* What is committed is whole: it ends with the last statement of the      *)
(* program's own version.                                                  *)
LEMMA Committed ==
  ASSUME Inv, NEW p \in Programs, Commit(p)
  PROVE  /\ lock = p /\ p # None /\ schema' = schema \o tx[p]
         /\ schema' \in Seq(Statements) /\ InOrder(schema') /\ Sorted(schema')
         /\ schema' # <<>> => schema'[Len(schema')][2] = Parts
         /\ Version(schema') = Needs[p]
         /\ Version(schema) = Needs[p] \/ Version(schema) < Needs[p]
<1> DEFINE t == todo[p]
           log == schema \o tx[p]
<1>0. /\ lock = p /\ p # None /\ HolderInv(p) /\ schema' = log
      /\ t \in Statements /\ tx[p] \in Seq(Statements) /\ schema \in Seq(Statements)
      /\ Needs[p] \in Nat /\ Needs[p] >= 1
      /\ Version(schema) \in Nat /\ t[1] \in Nat /\ t[2] \in 1..Parts
      /\ t[1] > Needs[p]
      /\ Version(schema) = IF schema = <<>> THEN 0 ELSE schema[Len(schema)][1]
  BY SchemaFacts, StatementParts, MigrationsAssumption DEF Commit, Goto, Inv, LockInv, TypeOK
<1>1. t[1] = Needs[p] + 1
  BY <1>0 DEF HolderInv
<1>2. log \in Seq(Statements) /\ InOrder(log) /\ Sorted(log) /\ NextAfter(log, t)
  BY <1>0, Concat DEF HolderInv
<1>3. log # <<>>
  BY <1>0, <1>1, <1>2 DEF NextAfter
<1>4. log[Len(log)] \in Statements /\ Follows(log[Len(log)], t)
  BY <1>2, <1>3 DEF NextAfter
<1> HIDE DEF log, t
<1>5. log[Len(log)][1] = Needs[p] /\ log[Len(log)][2] = Parts
  <2>1. log[Len(log)][1] \in Nat
    BY <1>4, StatementParts
  <2>2. CASE tx[p] = <<>>
    <3>1. log = schema
      BY <1>0, <2>2, Concat DEF log
    <3>2. log[Len(log)][2] = Parts
      BY <1>3, <3>1 DEF Inv, Whole
    <3>3. t[1] = log[Len(log)][1] + 1
      BY <1>0, <1>4, <3>2, FollowsFacts
    <3> QED
      BY <1>0, <1>1, <2>1, <3>2, <3>3
  <2>3. CASE tx[p] # <<>>
    <3>1. log[Len(log)] = tx[p][Len(tx[p])]
      BY <1>0, <2>3, Concat DEF log
    <3>2. log[Len(log)][1] <= Needs[p]
      BY <1>0, <2>3, <3>1 DEF HolderInv
    <3>3. log[Len(log)][2] = Parts
      BY <1>0, <1>1, <1>4, <2>1, <3>2, FollowsFacts
    <3>4. t[1] = log[Len(log)][1] + 1
      BY <1>0, <1>4, <3>3, FollowsFacts
    <3> QED
      BY <1>0, <1>1, <2>1, <3>3, <3>4
  <2> QED
    BY <2>2, <2>3
<1>6. Version(log) = Needs[p]
  <2>1. Version(log) = IF log = <<>> THEN 0 ELSE log[Len(log)][1]
    BY <1>2, <1>5, VersionOf
  <2> QED
    BY <1>3, <1>5, <2>1
<1>7. Version(schema) = Needs[p] \/ Version(schema) < Needs[p]
  BY <1>0, <1>1 DEF HolderInv, t
<1> QED
  BY <1>0, <1>2, <1>5, <1>6, <1>7 DEF log

LEMMA CommittedInv ==
  ASSUME Inv, NEW p \in Programs, Commit(p)
  PROVE  Inv'
<1>1. /\ lock = p /\ p # None /\ schema' \in Seq(Statements)
      /\ InOrder(schema') /\ Sorted(schema')
      /\ schema' # <<>> => schema'[Len(schema')][2] = Parts
  BY Committed
<1>2. /\ tx' \in [Programs -> Seq(Statements)] /\ tx'[p] = <<>>
      /\ \A q \in Programs : q # p => tx'[q] = tx[q]
      /\ lock' = None
  BY <1>1, EndedKeeps DEF Commit, Ended
<1>f. faults' \in 0..MaxFaults
  BY FaultCounted DEF Commit, Inv, TypeOK
<1>3. /\ pc'[p] # "apply" /\ todo' = todo
      /\ \A q \in Programs : q # p => pc'[q] = pc[q] /\ (q \in up' <=> q \in up)
      /\ up' \subseteq Programs
      /\ pc' \in [Programs -> {"closed", "exists", "version", "begin", "lock", "apply",
                              "working", "failed"}]
  BY DEF Commit, Goto, Inv, TypeOK
<1>4. TypeOK'
  BY <1>f, <1>1, <1>2, <1>3 DEF Inv, TypeOK
<1>5. LockInv'
  BY <1>1, <1>2, <1>3 DEF Inv, LockInv, TypeOK
<1> QED
  BY <1>1, <1>2, <1>4, <1>5 DEF Inv, Whole

LEMMA StepInv == Inv /\ [Next]_vars => Inv'
<1> SUFFICES ASSUME Inv, [Next]_vars PROVE Inv'
  OBVIOUS
<1>1. CASE Next
  BY <1>1, OutsideInv, RollbackInv, LockedInv, AppliedInv, CommittedInv DEF Next, Step
<1>2. CASE UNCHANGED vars
  <2>1. TypeOK' /\ LockInv'
    BY <1>2 DEF vars, Inv, TypeOK, LockInv
  <2> QED
    BY <1>2, <2>1, Frame DEF vars
<1> QED
  BY <1>1, <1>2

LEMMA SpecInv == Spec => []Inv
BY InitInv, StepInv, PTL DEF Spec

(* Every state in which programs open the database is well typed.          *)
THEOREM TypeCorrect == Spec => []TypeOK
BY SpecInv, PTL DEF Inv

(* Migrations run whole, once and in order (migrate), for any programs of  *)
(* any versions, and whatever breaks.                                      *)
THEOREM SchemaWhole == Spec => []Whole
BY SpecInv, PTL DEF Inv

-----------------------------------------------------------------------------
(* The promise of SchemaVersion.                                           *)

Working == {p \in Programs : pc[p] = "working"}

LEMMA StepImplements ==
  Inv /\ [Next]_vars => [Schema!SchemaNext]_<<Version(schema), Working>>
<1> SUFFICES ASSUME Inv, [Next]_vars
             PROVE  Schema!SchemaNext \/ UNCHANGED <<Version(schema), Working>>
  OBVIOUS
<1>1. ASSUME NEW p \in Programs, Commit(p)
      PROVE  Schema!SchemaNext \/ UNCHANGED <<Version(schema), Working>>
  <2>1. /\ Version(schema)' = Needs[p]
        /\ Version(schema) = Needs[p] \/ Version(schema) < Needs[p]
    BY <1>1, Committed
  <2>2. Working' = Working \/ Working' = Working \cup {p}
    BY <1>1 DEF Commit, Goto, Working, Inv, TypeOK
  <2>3. CASE Version(schema) < Needs[p]
    BY <2>1, <2>2, <2>3 DEF Schema!SchemaNext, Schema!Upgrade, Working
  <2>4. CASE Version(schema) = Needs[p]
    BY <2>1, <2>2, <2>4 DEF Schema!SchemaNext, Schema!Enter, Working
  <2> QED
    BY <2>1, <2>3, <2>4
<1>2. ASSUME schema' = schema PROVE Version(schema)' = Version(schema)
  BY <1>2
<1>3. ASSUME NEW p \in Programs, ReadVersion(p)
      PROVE  Schema!SchemaNext \/ UNCHANGED <<Version(schema), Working>>
  <2>1. schema' = schema
    BY <1>3 DEF ReadVersion
  <2>2. CASE Version(schema) = Needs[p] /\ Goto(p, "version", "working")
    <3>1. Working' = Working \cup {p}
      BY <2>2 DEF Goto, Working, Inv, TypeOK
    <3> QED
      BY <1>2, <2>1, <2>2, <3>1 DEF Schema!SchemaNext, Schema!Enter, Working
  <2>3. CASE Goto(p, "version", "begin")
    <3>1. Working' = Working
      BY <2>3 DEF Goto, Working, Inv, TypeOK
    <3> QED
      BY <1>2, <2>1, <3>1
  <2> QED
    BY <1>3, <2>2, <2>3 DEF ReadVersion
<1>4. ASSUME NEW p \in Programs, Close(p) \/ Kill(p)
      PROVE  Schema!SchemaNext \/ UNCHANGED <<Version(schema), Working>>
  <2>1. schema' = schema /\ Working' = Working \ {p}
    BY <1>4 DEF Close, Kill, Goto, Working, Inv, TypeOK
  <2> QED
    BY <1>2, <2>1 DEF Schema!SchemaNext, Schema!Leave, Working
<1>5. ASSUME NEW p \in Programs,
             \/ Open(p) \/ TableExists(p) \/ Begin(p) \/ Apply(p) \/ NotRetried(p)
             \/ Lock(p) \/ Break(p) \/ Fails(p)
      PROVE  UNCHANGED <<Version(schema), Working>>
  <2>1. schema' = schema
    BY <1>5 DEF Open, TableExists, Begin, Apply, NotRetried, Lock, Break, Fails
  <2>2. Working' = Working
    BY <1>5 DEF Open, TableExists, Begin, Apply, NotRetried, Lock, Break, Fails, Goto,
                Working, Inv, TypeOK
  <2> QED
    BY <1>2, <2>1, <2>2
<1>6. CASE UNCHANGED vars
  BY <1>2, <1>6 DEF vars, Working
<1> QED
  BY <1>1, <1>3, <1>4, <1>5, <1>6 DEF Next, Step

(* The schema has one version at a time, which jumps to that of the        *)
(* program that migrates it, and no program starts to work on a schema     *)
(* that is not its own (migrate), for any programs and faults.             *)
THEOREM SchemaImplemented == Spec => ImplementsSchema
<1>1. Init => Schema!SchemaInit
  <2> SUFFICES ASSUME Init PROVE Schema!SchemaInit
    OBVIOUS
  <2>1. Version(schema) = 0
    BY InitInv, SchemaFacts DEF Inv, Init
  <2>2. {p \in Programs : pc[p] = "working"} = {}
    BY DEF Init
  <2> QED
    BY <2>1, <2>2 DEF Schema!SchemaInit
<1>2. [Schema!SchemaNext]_<<Version(schema), Working>>
        <=> [Schema!SchemaNext]_<<Version(schema), {p \in Programs : pc[p] = "working"}>>
  BY DEF Working
<1> QED
  BY <1>1, <1>2, SpecInv, StepImplements, PTL DEF Spec, ImplementsSchema, Schema!SchemaSpec
=============================================================================
