-------------------------- MODULE MediaStoreProofs ---------------------------
(***************************************************************************)
(* Proofs about MediaStore, for any nodes, messages, attachments and       *)
(* bounds.                                                                 *)
(***************************************************************************)
EXTENDS MediaStore, WellFoundedInduction, TLAPS

USE MediaAssumption

(* A copy's file is on its node's disk, with all its bytes.                *)
Kept(r, disks) ==
  LET file == disks[r.node][r.path] IN
  /\ file # None
  /\ r.for \notin Unsized => file.whole /\ (r.status = "existing" => file.of = r.for)

(* The two tables, also in the middle of a transaction.                    *)
StoreOK(copies, rows, disks) ==
  /\ copies \subseteq FileRows /\ rows \in [Messages -> MediaRows]
  /\ \A r \in copies :
       /\ rows[r.message].attachment # None
       /\ r.overtaken \/ Key(r.for) = Key(rows[r.message].attachment)
       /\ r.node \in Nodes => Kept(r, disks)

Downloading == {"open", "receive", "finish"}

(* A call: what it has yet to download it knows the message of, and while  *)
(* it writes a file, no copy is recorded at that path.                     *)
CallOK(n, point, c, d, copies) ==
  /\ \A m \in Messages : c.rows[m] # NoRow => c.rows[m].attachment # None
  /\ point \in {"next"} \cup Downloading =>
       \A m \in Messages : c.rows[m] # NoRow => c.known[m] # Unknown
  /\ point \in Downloading =>
       /\ c.current \in Messages /\ c.rows[c.current] # NoRow /\ c.known[c.current] # None
       /\ c.path \in Paths
       /\ \A r \in copies : r.node = n => r.path # c.path
  /\ point = "open" => d[c.path] = None
  /\ point = "receive" => d[c.path] # None
  /\ point = "finish" /\ c.status = "downloaded" => d[c.path] # None /\ d[c.path].whole

Inv ==
  /\ TypeOK
  /\ StoreOK(files, media, disk)
  /\ \A n \in Nodes : CallOK(n, pc[n], call[n], disk[n], files)

-----------------------------------------------------------------------------
(* Numbers.                                                                *)

(* What is true of some number is true of a least one.                     *)
LEMMA LeastNat ==
  ASSUME NEW S \in SUBSET Nat, S # {}
  PROVE  \E x \in S : \A y \in S : x <= y
<1>1. \E x \in S : \A y \in S : ~(<<y, x>> \in OpToRel(<, Nat))
  BY NatLessThanWellFounded, WFMin
<1>2. \A x, y \in Nat : y < x => <<y, x>> \in OpToRel(<, Nat)
  <2> SUFFICES ASSUME NEW x \in Nat, NEW y \in Nat, y < x
               PROVE  <<y, x>> \in {ss \in Nat \X Nat : ss[1] < ss[2]}
    BY DEF OpToRel
  <2> QED
    OBVIOUS
<1>3. PICK x \in S : \A y \in S : ~(<<y, x>> \in OpToRel(<, Nat))
  BY <1>1
<1>4. \A y \in S : ~(y < x)
  BY <1>2, <1>3
<1> QED
  BY <1>4

(* While names are left, _destination finds one: the message's own, with   *)
(* the very file or nothing there, or a further one with nothing there.    *)
LEMMA DestinationFacts ==
  ASSUME NEW n \in Nodes, NEW m \in Messages, NEW a, Room(n)
  PROVE  /\ Destination(n, m, a) \in Paths
         /\ disk[n][Destination(n, m, a)] # None => IsComplete(disk[n][Destination(n, m, a)], a)
<1>1. CASE disk[n][<<m, 0>>] = None \/ IsComplete(disk[n][<<m, 0>>], a)
  <2>1. Destination(n, m, a) = <<m, 0>>
    BY <1>1 DEF Destination
  <2> QED
    BY <1>1, <2>1 DEF Paths
<1>2. CASE ~(disk[n][<<m, 0>>] = None \/ IsComplete(disk[n][<<m, 0>>], a))
  <2> DEFINE free == {k \in 1..MaxSuffix : disk[n][<<m, k>>] = None}
             P(p) == disk[n][p] = None /\ \A k \in 1..(p[2] - 1) : disk[n][<<m, k>>] # None
  <2>1. PICK k \in free : \A l \in free : k <= l
    <3>1. PICK l \in 1..MaxSuffix : disk[n][<<m, l>>] = None
      BY DEF Room
    <3>2. l \in free /\ free \subseteq Nat
      BY <3>1
    <3> QED
      BY <3>2, LeastNat
  <2>2. <<m, k>> \in {m} \X (1..MaxSuffix) /\ P(<<m, k>>)
    BY <2>1
  <2>3. Destination(n, m, a) = CHOOSE p \in {m} \X (1..MaxSuffix) : P(p)
    BY <1>2 DEF Destination
  <2> HIDE DEF P
  <2>4. Destination(n, m, a) \in {m} \X (1..MaxSuffix) /\ P(Destination(n, m, a))
    BY <2>2, <2>3
  <2> QED
    BY <2>4 DEF Paths, P
<1> QED
  BY <1>1, <1>2

-----------------------------------------------------------------------------
(* Settling attachments from what is on the disk.                          *)

States == [files : SUBSET FileRows, media : [Messages -> MediaRows], left : SUBSET Messages]

(* A transaction of node n under way: outcomes and copies of n are new,    *)
(* attachments are not touched, and what is left to download is there.     *)
Underway(s, n) ==
  /\ s \in States
  /\ StoreOK(s.files, s.media, disk)
  /\ \A m \in Messages : s.media[m].attachment = media[m].attachment
  /\ \A m \in s.left : media[m].attachment # None
  /\ \A r \in s.files : r \in files \/ r.node = n

LEMMA TablesUnderway == ASSUME StoreOK(files, media, disk), NEW n PROVE Underway(Tables, n)
BY DEF Underway, Tables, States, StoreOK

LEMMA SetStatusFacts ==
  ASSUME NEW rows \in [Messages -> MediaRows], NEW m \in Messages, NEW status \in Statuses, NEW a
  PROVE  /\ SetStatus(rows, m, status, a) \in [Messages -> MediaRows]
         /\ \A l \in Messages : SetStatus(rows, m, status, a)[l].attachment = rows[l].attachment
         /\ rows[m].attachment = None => SetStatus(rows, m, status, a) = rows
<1>1. CASE rows[m].attachment = None
  BY <1>1 DEF SetStatus
<1>2. CASE rows[m].attachment # None
  <2> DEFINE late == rows[m].attachment # a \/ (rows[m].overtaken /\ rows[m].status = status)
             new == [attachment |-> rows[m].attachment, status |-> status, overtaken |-> late]
  <2>1. late \in BOOLEAN
    OBVIOUS
  <2>2. rows[m] \in MediaRows /\ rows[m].attachment \in Attachments \cup {None}
    BY DEF MediaRows
  <2>3. SetStatus(rows, m, status, a) = [rows EXCEPT ![m] = new]
    BY <1>2 DEF SetStatus
  <2> HIDE DEF late
  <2>4. new \in MediaRows /\ new.attachment = rows[m].attachment
    BY <2>1, <2>2 DEF MediaRows
  <2> QED
    BY <1>2, <2>3, <2>4
<1> QED
  BY <1>1, <1>2

(* An outcome without a copy.                                              *)
LEMMA OutcomeUnderway ==
  ASSUME NEW n, NEW s, Underway(s, n), NEW m \in Messages, NEW status \in Statuses, NEW a
  PROVE  Underway([s EXCEPT !.media = SetStatus(@, m, status, a)], n)
<1> DEFINE rows == SetStatus(s.media, m, status, a)
           t == [s EXCEPT !.media = rows]
<1>1. rows \in [Messages -> MediaRows] /\ \A l \in Messages : rows[l].attachment = s.media[l].attachment
  BY SetStatusFacts DEF Underway, States
<1> HIDE DEF rows
<1>2. t \in States /\ t.files = s.files /\ t.media = rows /\ t.left = s.left
  BY <1>1 DEF Underway, States
<1> HIDE DEF t
<1>3. StoreOK(t.files, t.media, disk)
  <2>1. \A r \in s.files : r.message \in Messages
    BY DEF Underway, States, FileRows
  <2> QED
    BY <1>1, <1>2, <2>1 DEF Underway, StoreOK
<1>4. Underway(t, n)
  BY <1>1, <1>2, <1>3 DEF Underway
<1> QED
  BY <1>4 DEF t, rows

(* A copy: this node's earlier one of the message gives way.               *)
LEMMA RecordUnderway ==
  ASSUME NEW n \in Nodes \cup Others, NEW s, Underway(s, n), NEW m \in Messages,
         media[m].attachment # None,
         NEW row \in MediaRows, row.attachment # None, NEW path \in Paths, NEW status \in Statuses,
         n \in Nodes =>
           /\ disk[n][path] # None
           /\ row.attachment \notin Unsized =>
                disk[n][path].whole /\ (status = "existing" => disk[n][path].of = row.attachment)
  PROVE  Underway(Record(s, n, m, row, path, status), n)
<1> DEFINE rows == SetStatus(s.media, m, status, row.attachment)
           late == s.media[m].attachment # row.attachment
           new == [message |-> m, node |-> n, path |-> path, status |-> status,
                   for |-> row.attachment, overtaken |-> late]
           kept == {r \in s.files : r.node # n \/ r.message # m}
           t == Record(s, n, m, row, path, status)
<1>1. rows \in [Messages -> MediaRows] /\ \A l \in Messages : rows[l].attachment = s.media[l].attachment
  BY SetStatusFacts DEF Underway, States
<1>2. late \in BOOLEAN /\ (~late => s.media[m].attachment = row.attachment)
  OBVIOUS
<1>3. t = [files |-> kept \cup {new}, media |-> rows, left |-> s.left]
  BY DEF Record
<1>4. kept \subseteq s.files
  OBVIOUS
<1> HIDE DEF rows, late, kept
<1>5. new \in FileRows
  BY <1>2 DEF FileRows, MediaRows
<1>6. /\ new.message = m /\ new.node = n /\ new.path = path /\ new.status = status
      /\ new.for = row.attachment /\ new.overtaken = late
  OBVIOUS
<1> HIDE DEF new, t
<1>7. t \in States /\ t.files = kept \cup {new} /\ t.media = rows /\ t.left = s.left
  BY <1>1, <1>3, <1>4, <1>5 DEF Underway, States
<1>8. StoreOK(t.files, t.media, disk)
  <2> SUFFICES ASSUME NEW r \in t.files
               PROVE  /\ rows[r.message].attachment # None
                      /\ r.overtaken \/ Key(r.for) = Key(rows[r.message].attachment)
                      /\ r.node \in Nodes => Kept(r, disk)
    BY <1>1, <1>7 DEF StoreOK, States
  <2>1. CASE r \in s.files
    <3>1. r.message \in Messages
      BY <2>1 DEF Underway, States, FileRows
    <3> QED
      BY <1>1, <2>1, <3>1 DEF Underway, StoreOK
  <2>2. CASE r = new
    <3>1. rows[m].attachment = s.media[m].attachment /\ s.media[m].attachment # None
      BY <1>1 DEF Underway
    <3>2. r.overtaken \/ Key(r.for) = Key(rows[r.message].attachment)
      BY <1>2, <1>6, <2>2, <3>1
    <3>3. r.node \in Nodes => Kept(r, disk)
      BY <1>6, <2>2 DEF Kept
    <3> QED
      BY <1>6, <2>2, <3>1, <3>2, <3>3
  <2> QED
    BY <1>4, <1>7, <2>1, <2>2
<1>9. Underway(t, n)
  BY <1>1, <1>4, <1>6, <1>7, <1>8 DEF Underway
<1> QED
  BY <1>9 DEF t

(* A copy that _resolve goes by is a recorded file of this node.           *)
LEMMA CopiesFacts ==
  ASSUME NEW n, NEW s, Underway(s, n), NEW m, NEW a
  PROVE  Copies(s, n, m, a) \subseteq Paths
BY DEF Copies, Underway, States, FileRows

LEMMA SettleUnderway ==
  ASSUME TypeOK, NEW n \in Nodes, Room(n), NEW s, Underway(s, n), NEW m \in Messages,
         NEW row \in MediaRows, row.attachment # None => media[m].attachment # None,
         NEW limit
  PROVE  Underway(Settle(s, n, m, row, limit), n)
<1> DEFINE a == row.attachment
           complete == {p \in Copies(s, n, m, a) : IsComplete(disk[n][p], a)}
           destination == Destination(n, m, a)
           t == Settle(s, n, m, row, limit)
<1>0. "existing" \in Statuses /\ "skipped_too_large" \in Statuses /\ "not_downloadable" \in Statuses
  BY DEF Statuses
<1>1. CASE a = None
  BY <1>1 DEF Settle
<1>2. ASSUME a # None, NEW path \in Paths, IsComplete(disk[n][path], a),
             t = Record(s, n, m, row, path, "existing")
      PROVE  Underway(t, n)
  <2>1. /\ disk[n][path] # None
        /\ a \notin Unsized => disk[n][path].whole /\ disk[n][path].of = a
    BY <1>2 DEF IsComplete
  <2> QED
    BY <1>0, <1>2, <2>1, RecordUnderway
<1>3. CASE a # None /\ complete # {}
  <2>1. PICK path \in complete : t = Record(s, n, m, row, path, "existing")
    BY <1>3 DEF Settle
  <2> QED
    BY <1>2, <1>3, <2>1, CopiesFacts
<1>4. CASE a # None /\ complete = {} /\ disk[n][destination] # None
  <2>1. t = Record(s, n, m, row, destination, "existing")
    BY <1>4 DEF Settle
  <2>2. destination \in Paths /\ IsComplete(disk[n][destination], a)
    BY <1>4, DestinationFacts
  <2> QED
    BY <1>2, <1>4, <2>1, <2>2
<1>5. CASE a # None /\ complete = {} /\ disk[n][destination] = None
  <2>1. ASSUME NEW status \in Statuses, t = [s EXCEPT !.media = SetStatus(@, m, status, a)]
        PROVE  Underway(t, n)
    BY <2>1, OutcomeUnderway
  <2>2. CASE t = [s EXCEPT !.left = @ \cup {m}]
    <3>1. /\ t \in States /\ t.files = s.files /\ t.media = s.media
          /\ t.left = s.left \cup {m}
      BY <2>2 DEF Underway, States
    <3> QED
      BY <1>5, <3>1 DEF Underway
  <2>3. \/ t = [s EXCEPT !.media = SetStatus(@, m, "skipped_too_large", a)]
        \/ t = [s EXCEPT !.media = SetStatus(@, m, "not_downloadable", a)]
        \/ t = [s EXCEPT !.left = @ \cup {m}]
    BY <1>5 DEF Settle
  <2> QED
    BY <1>0, <2>1, <2>2, <2>3
<1> QED
  BY <1>1, <1>3, <1>4, <1>5

-----------------------------------------------------------------------------
(* resolve_locally: the rows in turn.  That the function `after` of        *)
(* Resolved exists, and that all its values are as they should be, is      *)
(* shown by the least message for which it is not so.                      *)
LEMMA ResolvedUnderway ==
  ASSUME TypeOK, NEW n \in Nodes, Room(n), StoreOK(files, media, disk)
  PROVE  Underway(Resolved(n), n)
<1> DEFINE Turn(s, k) == Settle(s, n, NewestFirst(k), media[NewestFirst(k)], call[n].limit)
           IsUpTo(f, j) == f = [k \in 0..j |-> IF k = 0 THEN Tables ELSE Turn(f[k - 1], k)]
           after[k \in 0..MaxMessage] == IF k = 0 THEN Tables ELSE Turn(after[k - 1], k)
<1>1. Resolved(n) = after[MaxMessage]
  BY DEF Resolved
<1>2. ASSUME NEW k \in 1..MaxMessage, NEW s, Underway(s, n)
      PROVE  Underway(Turn(s, k), n)
  <2>1. NewestFirst(k) \in Messages
    BY DEF NewestFirst, Messages
  <2>2. media[NewestFirst(k)] \in MediaRows
    BY <2>1 DEF TypeOK
  <2> QED
    BY <1>2, <2>1, <2>2, SettleUnderway
<1> HIDE DEF Turn
<1>3. \A j \in Nat : \E f : IsUpTo(f, j)
  <2> DEFINE Bad == {j \in Nat : ~\E f : IsUpTo(f, j)}
  <2> SUFFICES ASSUME Bad # {} PROVE FALSE
    OBVIOUS
  <2>1. PICK j \in Bad : \A l \in Bad : j <= l
    BY LeastNat
  <2>2. j \in Nat
    OBVIOUS
  <2>3. CASE j = 0
    <3>1. IsUpTo([k \in 0..0 |-> Tables], 0)
      OBVIOUS
    <3> QED
      BY <2>1, <2>3, <3>1
  <2>4. CASE j # 0
    <3>1. j - 1 \in Nat /\ j - 1 \notin Bad
      <4> HIDE DEF Bad
      <4> QED
        BY <2>1, <2>2, <2>4
    <3>2. PICK g : IsUpTo(g, j - 1)
      BY <3>1
    <3> DEFINE f == [k \in 0..j |-> IF k = j THEN Turn(g[j - 1], j) ELSE g[k]]
    <3>3. \A k \in 0..j : f[k] = IF k = 0 THEN Tables ELSE Turn(f[k - 1], k)
      <4> TAKE k \in 0..j
      <4>1. CASE k = j
        BY <2>2, <2>4, <4>1
      <4>2. CASE k # j /\ k = 0
        BY <2>2, <2>4, <3>2, <4>2
      <4>3. CASE k # j /\ k # 0
        <5>1. k \in 0..(j - 1) /\ k - 1 \in 0..(j - 1) /\ k - 1 # j /\ k - 1 \in 0..j
          BY <2>2, <4>3
        <5>2. f[k - 1] = g[k - 1] /\ f[k] = g[k]
          BY <4>3, <5>1
        <5>3. g[k] = Turn(g[k - 1], k)
          BY <3>2, <4>3, <5>1
        <5> QED
          BY <4>3, <5>2, <5>3
      <4> QED
        BY <4>1, <4>2, <4>3
    <3>4. IsUpTo(f, j)
      BY <3>3
    <3> QED
      BY <2>1, <3>4
  <2> QED
    BY <2>3, <2>4
<1>4. after = [k \in 0..MaxMessage |-> IF k = 0 THEN Tables ELSE Turn(after[k - 1], k)]
  BY <1>3
<1> HIDE DEF after
<1>5. \A k \in 0..MaxMessage : Underway(after[k], n)
  <2> DEFINE Bad == {k \in 0..MaxMessage : ~Underway(after[k], n)}
  <2> SUFFICES ASSUME Bad # {} PROVE FALSE
    OBVIOUS
  <2>1. PICK k \in Bad : \A l \in Bad : k <= l
    <3>1. Bad \in SUBSET Nat
      OBVIOUS
    <3> HIDE DEF Bad
    <3> QED
      BY <3>1, LeastNat
  <2>2. CASE k = 0
    <3>1. after[0] = Tables
      BY <1>4
    <3> QED
      BY <2>1, <2>2, <3>1, TablesUnderway
  <2>3. CASE k # 0
    <3>1. k \in 1..MaxMessage /\ k - 1 \in 0..MaxMessage /\ k - 1 < k
      BY <2>3
    <3>2. Underway(after[k - 1], n)
      BY <2>1, <3>1
    <3>3. after[k] = Turn(after[k - 1], k)
      BY <1>4, <3>1
    <3> QED
      BY <1>2, <2>1, <3>1, <3>2, <3>3
  <2> QED
    BY <2>2, <2>3
<1> QED
  BY <1>1, <1>5

-----------------------------------------------------------------------------
(* The steps of a call.                                                    *)

USE DEF Points

LEMMA InvFacts ==
  ASSUME Inv, NEW n \in Nodes
  PROVE  /\ pc[n] \in Points /\ call[n] \in Calls /\ disk[n] \in [Paths -> Files \cup {None}]
         /\ CallOK(n, pc[n], call[n], disk[n], files)
         /\ StoreOK(files, media, disk)
         /\ call[n].rows \in [Messages -> MediaRows] /\ call[n].limit \in Limits
         /\ call[n].known \in [Messages -> Attachments \cup {None, Unknown}]
         /\ call[n].current \in Messages \cup {None} /\ call[n].path \in Paths \cup {None}
         /\ call[n].status \in Statuses
BY DEF Inv, TypeOK, Calls

LEMMA NodeStep ==
  ASSUME Inv, TypeOK', StoreOK(files', media', disk'), NEW n \in Nodes,
         \A o \in Nodes \ {n} : pc'[o] = pc[o] /\ call'[o] = call[o] /\ disk'[o] = disk[o],
         \A r \in files' : r \in files \/ r.node = n,
         CallOK(n, pc'[n], call'[n], disk'[n], files')
  PROVE  Inv'
<1>1. ASSUME NEW o \in Nodes, o # n
      PROVE  CallOK(o, pc'[o], call'[o], disk'[o], files')
  <2>1. CallOK(o, pc[o], call[o], disk[o], files)
    BY DEF Inv
  <2> QED
    BY <1>1, <2>1 DEF CallOK
<1> QED
  BY <1>1 DEF Inv

LEMMA NewCallFacts ==
  ASSUME NEW limit \in Limits
  PROVE  /\ NewCall(limit) \in Calls
         /\ \A m \in Messages : NewCall(limit).rows[m] = NoRow
BY DEF NewCall, Calls, NoRows, NoRow, Fresh, MediaRows, Statuses

LEMMA NoCallFacts == NoCall \in Calls /\ \A m \in Messages : NoCall.rows[m] = NoRow
<1>1. (CHOOSE l \in Limits : TRUE) \in Limits
  OBVIOUS
<1> QED
  BY <1>1, NewCallFacts DEF NoCall

(* A call that ends.                                                       *)
LEMMA EndKeeps ==
  ASSUME Inv, NEW n \in Nodes, End(n), UNCHANGED <<telegram, media, files>>,
         disk' \in [Nodes -> [Paths -> Files \cup {None}]], StoreOK(files, media, disk'),
         \A o \in Nodes \ {n} : disk'[o] = disk[o],
         edits' \in 0..MaxEdits, faults' \in 0..MaxFaults, partial' \in 0..MaxPartial
  PROVE  Inv'
<1>1. TypeOK'
  BY NoCallFacts DEF End, Inv, TypeOK
<1>2. pc'[n] = "idle" /\ call'[n] = NoCall
  BY DEF End, Inv, TypeOK
<1>3. CallOK(n, pc'[n], call'[n], disk'[n], files')
  BY <1>2, NoCallFacts DEF CallOK, Downloading
<1>4. \A o \in Nodes \ {n} : pc'[o] = pc[o] /\ call'[o] = call[o]
  BY DEF End, Inv, TypeOK
<1> QED
  BY <1>1, <1>3, <1>4, NodeStep

(* The tables move on under a call that goes on without writing.           *)
Between == {"idle", "browse", "fetch", "save", "resolve", "missing", "next"}

Moves(n, to, c) ==
  /\ pc' = [pc EXCEPT ![n] = to] /\ call' = [call EXCEPT ![n] = c]
  /\ UNCHANGED <<telegram, disk, edits, faults>> /\ partial' \in 0..MaxPartial

CopiesOf(n) == \A r \in files' : r \in files \/ r.node = n

Ready(to, c) ==
  \A m \in Messages : c.rows[m] # NoRow =>
    c.rows[m].attachment # None /\ (to = "next" => c.known[m] # Unknown)

LEMMA MoveKeeps ==
  ASSUME Inv, NEW n \in Nodes, NEW to \in Between, NEW c \in Calls, Moves(n, to, c),
         StoreOK(files', media', disk), CopiesOf(n), Ready(to, c)
  PROVE  Inv'
<1> USE DEF Moves, CopiesOf
<1>1. TypeOK'
  BY DEF Inv, TypeOK, StoreOK, Between
<1>2. pc'[n] = to /\ call'[n] = c
  BY DEF Inv, TypeOK
<1>3. CallOK(n, pc'[n], call'[n], disk'[n], files')
  BY <1>2 DEF CallOK, Between, Downloading, Ready
<1>4. \A o \in Nodes \ {n} : pc'[o] = pc[o] /\ call'[o] = call[o] /\ disk'[o] = disk[o]
  BY DEF Inv, TypeOK
<1> QED
  BY <1>1, <1>3, <1>4, NodeStep

LEMMA BeginKeeps ==
  ASSUME Inv, NEW n \in Nodes, NEW to \in {"browse", "fetch"}, Begin(n, to)
  PROVE  Inv'
<1>1. PICK limit \in Limits : call' = [call EXCEPT ![n] = NewCall(limit)]
  BY DEF Begin
<1>2. Moves(n, to, NewCall(limit))
  BY <1>1 DEF Begin, Goto, UnchangedTables, UnchangedWorld, Moves, Inv, TypeOK
<1>3. StoreOK(files', media', disk) /\ CopiesOf(n)
  BY InvFacts DEF Begin, UnchangedTables, CopiesOf
<1>4. NewCall(limit) \in Calls /\ Ready(to, NewCall(limit)) /\ to \in Between
  BY NewCallFacts DEF Ready, Between
<1> QED
  BY <1>2, <1>3, <1>4, MoveKeeps

LEMMA LocalKeeps ==
  ASSUME Inv, NEW n \in Nodes, Browse(n) \/ Resolve(n)
  PROVE  Inv'
<1> DEFINE R == Resolved(n)
<1>1. Underway(R, n)
  BY ResolvedUnderway DEF Inv, Browse, Resolve
<1> HIDE DEF R
<1>2. files' = R.files /\ media' = R.media
  BY DEF Browse, Resolve, Commit, R
<1>3. /\ StoreOK(files', media', disk) /\ CopiesOf(n)
      /\ \A m \in R.left : media[m].attachment # None
      /\ R.left \subseteq Messages
  BY <1>1, <1>2 DEF Underway, States, CopiesOf
<1>4. UNCHANGED <<telegram, edits, faults, partial, disk>> /\ partial \in 0..MaxPartial
  BY DEF Browse, Resolve, UnchangedWorld, Inv, TypeOK
<1>5. CASE End(n)
  <2>1. Moves(n, "idle", NoCall) /\ Ready("idle", NoCall) /\ NoCall \in Calls
    BY <1>4, <1>5, NoCallFacts DEF End, Moves, Ready
  <2> QED
    BY <1>3, <2>1, MoveKeeps DEF Between
<1>6. CASE Browse(n) /\ ~End(n)
  <2>1. pc' = [pc EXCEPT ![n] = "fetch"] /\ call' = [call EXCEPT ![n] = call[n]]
    BY <1>6 DEF Browse, Inv, TypeOK
  <2>2. Moves(n, "fetch", call[n])
    BY <1>4, <2>1 DEF Moves
  <2>3. call[n] \in Calls /\ Ready("fetch", call[n])
    BY InvFacts DEF CallOK, Ready
  <2> QED
    BY <1>3, <2>2, <2>3, MoveKeeps DEF Between
<1>7. CASE Resolve(n) /\ ~End(n)
  <2> DEFINE rows == [m \in Messages |-> IF m \in R.left THEN media[m] ELSE NoRow]
             c == [call[n] EXCEPT !.rows = rows]
  <2>1. pc' = [pc EXCEPT ![n] = "missing"] /\ call' = [call EXCEPT ![n] = c]
    BY <1>7 DEF Resolve, R, Inv, TypeOK
  <2>2. NoRow \in MediaRows
    BY DEF NoRow, Fresh, MediaRows, Statuses
  <2>3. rows \in [Messages -> MediaRows]
    BY <2>2 DEF Inv, TypeOK
  <2>4. c \in Calls /\ c.rows = rows
    BY <2>3, InvFacts DEF Calls
  <2>5. Ready("missing", c)
    BY <1>3, <2>4 DEF Ready
  <2> HIDE DEF c, rows
  <2>6. Moves(n, "missing", c)
    BY <1>4, <2>1 DEF Moves
  <2> QED
    BY <1>3, <2>4, <2>5, <2>6, MoveKeeps DEF Between
<1> QED
  BY <1>5, <1>6, <1>7

(* What the call gets to know of Telegram's messages.                      *)
LEMMA KnowKeeps ==
  ASSUME Inv, NEW n \in Nodes, Fetch(n) \/ Missing(n)
  PROVE  Inv'
<1>0. /\ UNCHANGED <<telegram, media, files, edits, faults, disk>>
      /\ partial' \in 0..MaxPartial
  <2>1. CASE Fetch(n)
    <3>1. partial' = partial \/ (partial < MaxPartial /\ partial' = partial + 1)
      BY <2>1 DEF Fetch
    <3>2. partial \in 0..MaxPartial
      BY DEF Inv, TypeOK
    <3> QED
      BY <2>1, <3>1, <3>2 DEF Fetch, UnchangedTables
  <2>2. CASE Missing(n)
    BY <2>2 DEF Missing, UnchangedTables, UnchangedWorld, Inv, TypeOK
  <2> QED
    BY <2>1, <2>2
<1>1. \A m \in Messages : telegram[m] \in Attachments \cup {None} /\ telegram[m] # Unknown
  BY DEF Inv, TypeOK
<1>2. PICK known \in [Messages -> Attachments \cup {None, Unknown}] :
        /\ call' = [call EXCEPT ![n].known = known]
        /\ Missing(n) => \A m \in Pending(n) : known[m] # Unknown
  <2>1. CASE Fetch(n)
    <3>1. PICK fetched \in SUBSET Messages :
            call' = [call EXCEPT ![n].known =
                       [m \in Messages |-> IF m \in fetched THEN telegram[m] ELSE Unknown]]
      BY <2>1 DEF Fetch
    <3>2. [m \in Messages |-> IF m \in fetched THEN telegram[m] ELSE Unknown]
            \in [Messages -> Attachments \cup {None, Unknown}]
      BY <1>1
    <3>3. ~Missing(n)
      BY <2>1, InvFacts DEF Fetch, Missing, Goto, Inv, TypeOK
    <3> QED
      BY <3>1, <3>2, <3>3
  <2>2. CASE Missing(n)
    <3> DEFINE known == [m \in Messages |-> IF m \in Pending(n) /\ call[n].known[m] = Unknown
                                           THEN telegram[m] ELSE call[n].known[m]]
    <3>1. call' = [call EXCEPT ![n].known = known]
      BY <2>2 DEF Missing, Inv, TypeOK
    <3>2. known \in [Messages -> Attachments \cup {None, Unknown}]
      BY <1>1, InvFacts
    <3>3. \A m \in Pending(n) : known[m] # Unknown
      BY <1>1 DEF Pending
    <3> QED
      BY <3>1, <3>2, <3>3
  <2> QED
    BY <2>1, <2>2
<1> DEFINE c == [call[n] EXCEPT !.known = known]
<1>3. c \in Calls /\ c.known = known /\ c.rows = call[n].rows
  BY InvFacts DEF Calls
<1>4. call' = [call EXCEPT ![n] = c]
  BY <1>2 DEF Inv, TypeOK
<1> HIDE DEF c
<1>5. PICK to \in {"save", "next"} :
        /\ pc' = [pc EXCEPT ![n] = to]
        /\ to = "next" => Missing(n)
  BY DEF Fetch, Missing, Goto
<1>6. Ready(to, c)
  <2>1. \A m \in Messages : call[n].rows[m] # NoRow => call[n].rows[m].attachment # None
    BY InvFacts DEF CallOK
  <2>2. \A m \in Messages : call[n].rows[m] # NoRow => m \in Pending(n)
    BY DEF Pending
  <2>3. to = "next" => \A m \in Pending(n) : c.known[m] # Unknown
    BY <1>2, <1>3, <1>5
  <2> QED
    BY <1>3, <2>1, <2>2, <2>3 DEF Ready
<1>7. Moves(n, to, c)
  <2>1. pc' = [pc EXCEPT ![n] = to]
    BY <1>5
  <2> QED
    BY <1>0, <1>4, <2>1 DEF Moves
<1>8. to \in Between /\ StoreOK(files', media', disk) /\ CopiesOf(n)
  BY <1>0, InvFacts DEF Between, CopiesOf
<1> QED
  BY <1>3, <1>6, <1>7, <1>8, MoveKeeps

(* save_messages keeps the copies whose attachment stays.                  *)
LEMMA SaveKeepsStore ==
  ASSUME StoreOK(files, media, disk),
         NEW known \in [Messages -> Attachments \cup {None, Unknown}], SaveMessages(known)
  PROVE  StoreOK(files', media', disk) /\ files' \subseteq files
<1> DEFINE saved == {m \in Messages : known[m] # Unknown}
           changed == {m \in saved : Changed(media[m].attachment, known[m])}
<1>1. /\ media' = [m \in Messages |->
                     IF m \in changed THEN Fresh(known[m])
                     ELSE IF m \in saved THEN [media[m] EXCEPT !.attachment = known[m]]
                     ELSE media[m]]
      /\ files' = {r \in files : r.message \notin changed}
  BY DEF SaveMessages
<1>2. ASSUME NEW m \in Messages
      PROVE  /\ media'[m] \in MediaRows
             /\ m \notin changed => media'[m].attachment =
                                      IF m \in saved THEN known[m] ELSE media[m].attachment
  <2>1. media[m] \in MediaRows
    BY DEF StoreOK
  <2>2. m \in saved => known[m] \in Attachments \cup {None}
    OBVIOUS
  <2>3. CASE m \in changed
    BY <1>1, <2>2, <2>3 DEF Fresh, MediaRows, Statuses
  <2>4. CASE m \in saved /\ m \notin changed
    <3>1. media'[m] = [media[m] EXCEPT !.attachment = known[m]]
      BY <1>1, <2>4
    <3> QED
      BY <2>1, <2>2, <2>4, <3>1 DEF MediaRows
  <2>5. CASE m \notin saved /\ m \notin changed
    BY <1>1, <2>1, <2>5
  <2> QED
    BY <2>3, <2>4, <2>5
<1>3. media' \in [Messages -> MediaRows]
  BY <1>1, <1>2
<1>4. ASSUME NEW r \in files'
      PROVE  /\ media'[r.message].attachment # None
             /\ r.overtaken \/ Key(r.for) = Key(media'[r.message].attachment)
  <2> DEFINE m == r.message
  <2>1. r \in files /\ m \in Messages /\ m \notin changed
    BY <1>1 DEF StoreOK, FileRows
  <2>2. /\ media[m].attachment # None
        /\ r.overtaken \/ Key(r.for) = Key(media[m].attachment)
    BY <2>1 DEF StoreOK
  <2>3. CASE m \in saved
    <3>1. media'[m].attachment = known[m] /\ ~Changed(media[m].attachment, known[m])
      BY <1>2, <2>1, <2>3
    <3>2. known[m] # None /\ Key(known[m]) = Key(media[m].attachment)
      BY <2>2, <3>1 DEF Changed
    <3> QED
      BY <2>2, <3>1, <3>2
  <2>4. CASE m \notin saved
    BY <1>2, <2>1, <2>2, <2>4
  <2> QED
    BY <2>3, <2>4
<1>5. files' \subseteq files
  BY <1>1
<1> HIDE DEF saved, changed
<1> QED
  BY <1>3, <1>4, <1>5 DEF StoreOK

LEMMA SaveKeeps ==
  ASSUME Inv, NEW n \in Nodes, Save(n)
  PROVE  Inv'
<1>1. StoreOK(files', media', disk) /\ CopiesOf(n)
  BY InvFacts, SaveKeepsStore DEF Save, CopiesOf
<1>2. Moves(n, "resolve", call[n])
  BY DEF Save, Goto, UnchangedWorld, Moves, Inv, TypeOK
<1>3. call[n] \in Calls /\ Ready("resolve", call[n])
  BY InvFacts DEF CallOK, Ready
<1> QED
  BY <1>1, <1>2, <1>3, MoveKeeps DEF Between

(* The rows of other nodes, and Telegram.                                  *)
LEMMA OutsideKeeps ==
  ASSUME Inv, (\E m \in Messages : Edit(m)) \/ (\E n \in Others : Elsewhere(n))
  PROVE  Inv'
<1>0. UNCHANGED <<disk, pc, call, faults, partial>>
  BY DEF Edit, Elsewhere, UnchangedWorld
<1>1. telegram' \in [Messages -> Attachments \cup {None}] /\ edits' \in 0..MaxEdits
  BY DEF Edit, Elsewhere, UnchangedWorld, Inv, TypeOK
<1>2. StoreOK(files', media', disk) /\ \A r \in files' : r \in files \/ r.node \notin Nodes
  <2>1. CASE \E m \in Messages : Edit(m)
    BY <2>1 DEF Edit, UnchangedTables, Inv
  <2>2. ASSUME NEW n \in Others, Elsewhere(n), SaveMessages(telegram)
        PROVE  StoreOK(files', media', disk) /\ files' \subseteq files
    BY <2>2, SaveKeepsStore DEF Inv, TypeOK
  <2>3. ASSUME NEW n \in Others, NEW m \in Messages, media[m].attachment # None,
               Commit(Record(Tables, n, m, media[m], <<m, 0>>, "downloaded"))
        PROVE  StoreOK(files', media', disk) /\ \A r \in files' : r \in files \/ r.node \notin Nodes
    <3> DEFINE t == Record(Tables, n, m, media[m], <<m, 0>>, "downloaded")
    <3>1. n \notin Nodes /\ <<m, 0>> \in Paths /\ "downloaded" \in Statuses /\ media[m] \in MediaRows
      BY DEF Paths, Statuses, Inv, TypeOK
    <3>2. Underway(Tables, n)
      BY TablesUnderway DEF Inv
    <3>3. Underway(t, n)
      BY <2>3, <3>1, <3>2, RecordUnderway
    <3> HIDE DEF t
    <3>4. files' = t.files /\ media' = t.media
      BY <2>3 DEF Commit, t
    <3> QED
      BY <3>1, <3>3, <3>4 DEF Underway
  <2> QED
    BY <2>1, <2>2, <2>3 DEF Elsewhere
<1>3. TypeOK'
  BY <1>0, <1>1, <1>2 DEF Inv, TypeOK, StoreOK
<1>4. ASSUME NEW n \in Nodes
      PROVE  CallOK(n, pc[n], call[n], disk[n], files')
  <2>1. CallOK(n, pc[n], call[n], disk[n], files)
    BY InvFacts
  <2> QED
    BY <1>2, <2>1 DEF CallOK
<1> QED
  BY <1>0, <1>2, <1>3, <1>4 DEF Inv

(* The transaction that settles a message of the call.                     *)
LEMMA ConcludeKeeps ==
  ASSUME Inv, NEW n \in Nodes, NEW m \in Messages, NEW s, Conclude(n, m, s),
         pc[n] \in {"next", "finish"},
         IF media[m].attachment = None THEN s.media = media ELSE Underway(s, n),
         UnchangedWorld, UNCHANGED disk
  PROVE  Inv'
<1>0. UNCHANGED <<telegram, edits, faults, partial, disk>> /\ partial \in 0..MaxPartial
  BY DEF UnchangedWorld, Inv, TypeOK
<1>1. CASE s.files # files /\ media[m].attachment = None
  <2>1. End(n) /\ UNCHANGED <<media, files>>
    BY <1>1 DEF Conclude, UnchangedTables
  <2>2. Moves(n, "idle", NoCall) /\ Ready("idle", NoCall) /\ NoCall \in Calls
    BY <1>0, <2>1, NoCallFacts DEF End, Moves, Ready
  <2>3. StoreOK(files', media', disk) /\ CopiesOf(n)
    BY <2>1, InvFacts DEF CopiesOf
  <2> QED
    BY <2>2, <2>3, MoveKeeps DEF Between
<1>2. CASE ~(s.files # files /\ media[m].attachment = None)
  <2> DEFINE rows == [call[n].rows EXCEPT ![m] = NoRow]
             c == [call[n] EXCEPT !.rows[m] = NoRow, !.current = None, !.path = None, !.status = None]
  <2>1. /\ files' = s.files /\ media' = s.media
        /\ pc' = [pc EXCEPT ![n] = "next"] /\ call' = [call EXCEPT ![n] = c]
    BY <1>2 DEF Conclude, Commit
  <2>2. StoreOK(files', media', disk) /\ CopiesOf(n)
    <3>1. CASE media[m].attachment = None
      BY <1>2, <2>1, <3>1, InvFacts DEF CopiesOf
    <3>2. CASE media[m].attachment # None
      BY <2>1, <3>2 DEF Underway, CopiesOf
    <3> QED
      BY <3>1, <3>2
  <2>3. NoRow \in MediaRows /\ None \in Statuses
    BY DEF NoRow, Fresh, MediaRows, Statuses
  <2>4. rows \in [Messages -> MediaRows]
    BY <2>3, InvFacts
  <2>5. c \in Calls /\ c.rows = rows /\ c.known = call[n].known
    <3>1. c = [call[n] EXCEPT !.rows = rows, !.current = None, !.path = None, !.status = None]
      OBVIOUS
    <3> HIDE DEF c, rows
    <3> QED
      BY <2>3, <2>4, <3>1, InvFacts DEF Calls
  <2>6. Ready("next", c)
    <3>1. \A l \in Messages : rows[l] # NoRow => rows[l] = call[n].rows[l]
      BY InvFacts
    <3>2. \A l \in Messages : call[n].rows[l] # NoRow =>
            call[n].rows[l].attachment # None /\ call[n].known[l] # Unknown
      BY InvFacts DEF CallOK, Downloading
    <3> HIDE DEF rows, c
    <3> QED
      BY <2>5, <3>1, <3>2 DEF Ready
  <2> HIDE DEF c
  <2>7. Moves(n, "next", c)
    BY <1>0, <2>1 DEF Moves
  <2> QED
    BY <2>2, <2>5, <2>6, <2>7, MoveKeeps DEF Between
<1> QED
  BY <1>1, <1>2

(* A message whose row is gone has no outcome to set.                      *)
LEMMA SettleGone ==
  ASSUME Inv, NEW n, NEW m \in Messages, NEW row, NEW limit, media[m].attachment = None
  PROVE  Settle(Tables, n, m, row, limit).media = media
<1> DEFINE t == Settle(Tables, n, m, row, limit)
<1>1. Tables.media = media /\ media \in [Messages -> MediaRows]
  BY DEF Tables, Inv, TypeOK
<1>2. "existing" \in Statuses /\ "skipped_too_large" \in Statuses /\ "not_downloadable" \in Statuses
  BY DEF Statuses
<1>3. ASSUME NEW status \in Statuses, NEW a
      PROVE  SetStatus(media, m, status, a) = media
  BY <1>1, SetStatusFacts
<1>4. ASSUME NEW status \in Statuses, NEW a
      PROVE  [Tables EXCEPT !.media = SetStatus(@, m, status, a)].media = media
  BY <1>3 DEF Tables
<1>5. ASSUME NEW path
      PROVE  Record(Tables, n, m, row, path, "existing").media = media
  BY <1>1, <1>2, <1>3 DEF Record
<1>6. \/ t = Tables \/ t = [Tables EXCEPT !.left = @ \cup {m}]
      \/ \E path : t = Record(Tables, n, m, row, path, "existing")
      \/ t = [Tables EXCEPT !.media = SetStatus(@, m, "skipped_too_large", row.attachment)]
      \/ t = [Tables EXCEPT !.media = SetStatus(@, m, "not_downloadable", row.attachment)]
  BY DEF Settle
<1>7. [Tables EXCEPT !.left = @ \cup {m}].media = media
  BY DEF Tables
<1> HIDE DEF t
<1>8. t.media = media
  BY <1>1, <1>2, <1>4, <1>5, <1>6, <1>7
<1> QED
  BY <1>8 DEF t

(* What Settle leaves has no file at the place it would be written to.     *)
LEMMA LeftFacts ==
  ASSUME NEW n, NEW m, NEW row, NEW limit, Settle(Tables, n, m, row, limit).left # {}
  PROVE  row.attachment # None /\ disk[n][Destination(n, m, row.attachment)] = None
BY DEF Settle, Tables, Record

LEMMA AgainKeeps ==
  ASSUME Inv, NEW n \in Nodes, NEW m \in Messages, Again(n, m)
  PROVE  Inv'
<1> DEFINE row == call[n].rows[m]
           s == Settle(Tables, n, m, row, call[n].limit)
           t == [Tables EXCEPT !.media = SetStatus(@, m, "error", row.attachment)]
           path == Destination(n, m, row.attachment)
           c == [call[n] EXCEPT !.current = m, !.path = path]
<1>1. /\ pc[n] = "next" /\ m \in Pending(n) /\ Room(n)
      /\ UnchangedWorld /\ UNCHANGED disk
      /\ \/ Conclude(n, m, s)
         \/ Conclude(n, m, t)
         \/ /\ s.left # {} /\ call[n].known[m] # None
            /\ pc' = [pc EXCEPT ![n] = "open"]
            /\ call' = [call EXCEPT ![n] = c]
            /\ UnchangedTables
  BY DEF Again
<1>2. row \in MediaRows /\ row # NoRow /\ row.attachment # None /\ call[n].known[m] # Unknown
  BY <1>1, InvFacts DEF CallOK, Pending
<1>3. Underway(Tables, n)
  BY InvFacts, TablesUnderway
<1>4. IF media[m].attachment = None THEN s.media = media ELSE Underway(s, n)
  <2>1. CASE media[m].attachment = None
    BY <2>1, SettleGone
  <2>2. CASE media[m].attachment # None
    BY <1>1, <1>2, <1>3, <2>2, SettleUnderway DEF Inv
  <2> QED
    BY <2>1, <2>2
<1>5. IF media[m].attachment = None THEN t.media = media ELSE Underway(t, n)
  <2>0. "error" \in Statuses
    BY DEF Statuses
  <2>1. CASE media[m].attachment = None
    <3>1. SetStatus(media, m, "error", row.attachment) = media
      BY <2>0, <2>1, SetStatusFacts DEF Inv, TypeOK
    <3> QED
      BY <2>1, <3>1 DEF Tables
  <2>2. CASE media[m].attachment # None
    BY <1>3, <2>0, <2>2, OutcomeUnderway
  <2> QED
    BY <2>1, <2>2
<1>6. CASE s.left # {} /\ call[n].known[m] # None /\ call' = [call EXCEPT ![n] = c]
           /\ pc' = [pc EXCEPT ![n] = "open"] /\ UnchangedTables
  <2>1. disk[n][path] = None /\ path \in Paths
    BY <1>1, <1>6, LeftFacts, DestinationFacts
  <2> HIDE DEF path
  <2>2. /\ c \in Calls /\ c.current = m /\ c.path = path
        /\ c.known = call[n].known /\ c.rows = call[n].rows
    <3>1. call[n] \in Calls
      BY InvFacts
    <3> QED
      BY <2>1, <3>1 DEF Calls
  <2> HIDE DEF c
  <2>3. /\ UNCHANGED <<telegram, media, files, disk, edits, faults, partial>>
        /\ pc'[n] = "open" /\ call'[n] = c
    BY <1>1, <1>6 DEF UnchangedTables, UnchangedWorld, Inv, TypeOK
  <2>4. TypeOK'
    BY <1>6, <2>2, <2>3 DEF Inv, TypeOK
  <2>5. \A r \in files : r.node = n => r.path # path
    BY <2>1, InvFacts DEF StoreOK, Kept
  <2>6. CallOK(n, "open", c, disk[n], files)
    <3>1. \A l \in Messages : c.rows[l] # NoRow =>
            c.rows[l].attachment # None /\ c.known[l] # Unknown
      BY <1>1, <2>2, InvFacts DEF CallOK
    <3> QED
      BY <1>2, <1>6, <2>1, <2>2, <2>5, <3>1 DEF CallOK
  <2>7. \A o \in Nodes \ {n} : pc'[o] = pc[o] /\ call'[o] = call[o] /\ disk'[o] = disk[o]
    BY <1>6, <2>3 DEF Inv, TypeOK
  <2> QED
    BY <2>3, <2>4, <2>6, <2>7, InvFacts, NodeStep
<1> HIDE DEF s, t
<1> QED
  BY <1>1, <1>4, <1>5, <1>6, ConcludeKeeps

LEMMA FinishKeeps ==
  ASSUME Inv, NEW n \in Nodes, Finish(n)
  PROVE  Inv'
<1> DEFINE m == call[n].current
           row == call[n].rows[m]
           status == call[n].status
           s == IF status = "downloaded"
                THEN Record(Tables, n, m, row, call[n].path, status)
                ELSE [Tables EXCEPT !.media = SetStatus(@, m, status, call[n].known[m])]
<1>1. pc[n] = "finish" /\ Conclude(n, m, s) /\ UnchangedWorld /\ UNCHANGED disk
  BY DEF Finish
<1>2. /\ m \in Messages /\ row # NoRow /\ row.attachment # None /\ call[n].path \in Paths
      /\ status = "downloaded" => disk[n][call[n].path] # None /\ disk[n][call[n].path].whole
      /\ row \in MediaRows /\ status \in Statuses
  BY <1>1, InvFacts DEF CallOK, Downloading
<1>3. Underway(Tables, n)
  BY InvFacts, TablesUnderway
<1>4. IF media[m].attachment = None THEN s.media = media ELSE Underway(s, n)
  <2>1. CASE media[m].attachment = None
    <3>1. \A a : SetStatus(media, m, status, a) = media
      BY <1>2, <2>1, SetStatusFacts DEF Inv, TypeOK
    <3> QED
      BY <2>1, <3>1 DEF Tables, Record
  <2>2. CASE media[m].attachment # None /\ status = "downloaded"
    <3>1. s = Record(Tables, n, m, row, call[n].path, status) /\ status # "existing"
      BY <2>2
    <3> QED
      BY <1>2, <1>3, <2>2, <3>1, RecordUnderway
  <2>3. CASE media[m].attachment # None /\ status # "downloaded"
    <3>1. s = [Tables EXCEPT !.media = SetStatus(@, m, status, call[n].known[m])]
      BY <2>3
    <3> HIDE DEF s
    <3> QED
      BY <1>2, <1>3, <2>3, <3>1, OutcomeUnderway
  <2> QED
    BY <2>1, <2>2, <2>3
<1> HIDE DEF s
<1> QED
  BY <1>1, <1>2, <1>4, ConcludeKeeps

-----------------------------------------------------------------------------
(* Writing a file.                                                         *)

(* The file a call is writing is nobody's copy.                            *)
LEMMA WriteFacts ==
  ASSUME Inv, NEW n \in Nodes, pc[n] \in Downloading, NEW v \in Files \cup {None},
         disk' = [disk EXCEPT ![n][call[n].path] = v]
  PROVE  /\ disk' \in [Nodes -> [Paths -> Files \cup {None}]]
         /\ disk'[n][call[n].path] = v
         /\ \A o \in Nodes \ {n} : disk'[o] = disk[o]
         /\ StoreOK(files, media, disk')
<1>1. call[n].path \in Paths /\ \A r \in files : r.node = n => r.path # call[n].path
  BY InvFacts DEF CallOK
<1>2. /\ disk' \in [Nodes -> [Paths -> Files \cup {None}]]
      /\ disk'[n][call[n].path] = v
      /\ \A o \in Nodes \ {n} : disk'[o] = disk[o]
      /\ \A p \in Paths : p # call[n].path => disk'[n][p] = disk[n][p]
  BY <1>1 DEF Inv, TypeOK
<1>3. \A r \in files : r.node \in Nodes => disk'[r.node][r.path] = disk[r.node][r.path]
  BY <1>1, <1>2, InvFacts DEF StoreOK, FileRows
<1>4. StoreOK(files, media, disk')
  <2>1. StoreOK(files, media, disk)
    BY InvFacts
  <2> QED
    BY <1>3, <2>1 DEF StoreOK, Kept
<1> QED
  BY <1>2, <1>4

(* A download that goes on.                                                *)
Writes(n, to, v, status) ==
  /\ pc' = [pc EXCEPT ![n] = to]
  /\ disk' = [disk EXCEPT ![n][call[n].path] = v]
  /\ call' = [call EXCEPT ![n].status = status]
  /\ UNCHANGED <<telegram, media, files, edits, partial>> /\ faults' \in 0..MaxFaults

LEMMA WriteKeeps ==
  ASSUME Inv, NEW n \in Nodes, pc[n] \in Downloading, NEW to \in {"receive", "finish"},
         NEW v \in Files \cup {None}, NEW status \in Statuses, Writes(n, to, v, status),
         to = "receive" => v # None,
         to = "finish" /\ status = "downloaded" => v # None /\ v.whole
  PROVE  Inv'
<1> USE DEF Writes
<1> DEFINE c == [call[n] EXCEPT !.status = status]
<1>1. /\ disk' \in [Nodes -> [Paths -> Files \cup {None}]]
      /\ disk'[n][call[n].path] = v
      /\ \A o \in Nodes \ {n} : disk'[o] = disk[o]
      /\ StoreOK(files, media, disk')
  BY WriteFacts
<1>2. /\ c \in Calls /\ c.status = status /\ c.path = call[n].path /\ c.current = call[n].current
      /\ c.rows = call[n].rows /\ c.known = call[n].known
  BY InvFacts DEF Calls
<1>3. call' = [call EXCEPT ![n] = c]
  BY DEF Inv, TypeOK
<1> HIDE DEF c
<1>4. TypeOK'
  <2>1. call' \in [Nodes -> Calls] /\ pc' \in [Nodes -> Points]
    BY <1>2, <1>3 DEF Inv, TypeOK
  <2> QED
    BY <1>1, <2>1 DEF Inv, TypeOK
<1>5. pc'[n] = to /\ call'[n] = c
  BY <1>3 DEF Inv, TypeOK
<1>6. CallOK(n, to, c, disk'[n], files)
  <2>1. CallOK(n, pc[n], call[n], disk[n], files)
    BY InvFacts
  <2> QED
    BY <1>1, <1>2, <2>1 DEF CallOK, Downloading
<1>7. \A o \in Nodes \ {n} : pc'[o] = pc[o] /\ call'[o] = call[o] /\ disk'[o] = disk[o]
  BY <1>1, <1>3 DEF Inv, TypeOK
<1> QED
  BY <1>1, <1>4, <1>5, <1>6, <1>7, NodeStep

(* What is downloaded is an attachment that the message had.               *)
LEMMA CurrentFacts ==
  ASSUME Inv, NEW n \in Nodes, pc[n] \in Downloading
  PROVE  call[n].current \in Messages /\ call[n].known[call[n].current] \in Attachments
<1>1. /\ call[n].current \in Messages /\ call[n].known[call[n].current] # None
      /\ call[n].known[call[n].current] # Unknown
  BY InvFacts DEF CallOK
<1> QED
  BY <1>1, InvFacts

LEMMA TransferKeeps ==
  ASSUME Inv, NEW n \in Nodes, Open(n) \/ Receive(n)
  PROVE  Inv'
<1> DEFINE a == call[n].known[call[n].current]
<1>0. /\ UNCHANGED <<telegram, media, files, edits, faults, partial>> /\ faults \in 0..MaxFaults
      /\ pc[n] \in Downloading
  BY DEF Open, Receive, UnchangedTables, UnchangedWorld, Goto, Downloading, Inv, TypeOK
<1>1. a \in Attachments
  BY <1>0, CurrentFacts
<1>2. CASE Open(n)
  <2> DEFINE v == [of |-> a, whole |-> FALSE]
  <2>1. v \in Files
    BY <1>1 DEF Files
  <2>2. /\ disk' = [disk EXCEPT ![n][call[n].path] = v]
        /\ pc' = [pc EXCEPT ![n] = "receive"]
    BY <1>2 DEF Open, Goto
  <2>3. call' = [call EXCEPT ![n].status = call[n].status] /\ call[n].status \in Statuses
    BY <1>2, InvFacts DEF Open, Inv, TypeOK, Calls
  <2> HIDE DEF v, a
  <2>4. Writes(n, "receive", v, call[n].status)
    BY <1>0, <2>2, <2>3 DEF Writes
  <2> QED
    BY <1>0, <2>1, <2>3, <2>4, WriteKeeps
<1>3. CASE Receive(n)
  <2> DEFINE status == IF a \in Fileless THEN "not_downloadable"
                       ELSE IF TooLong(n) THEN "skipped_too_large" ELSE "downloaded"
             v == IF status = "downloaded" THEN [disk[n][call[n].path] EXCEPT !.whole = TRUE]
                  ELSE None
  <2>1. /\ call' = [call EXCEPT ![n].status = status]
        /\ pc' = [pc EXCEPT ![n] = "finish"] /\ pc[n] = "receive"
    BY <1>3 DEF Receive, Goto
  <2>2. call[n].path \in Paths /\ disk[n][call[n].path] # None
    BY <2>1, InvFacts DEF CallOK, Downloading
  <2>3. disk' = [disk EXCEPT ![n][call[n].path] = v]
    BY <1>3, <2>2 DEF Receive, Inv, TypeOK
  <2>4. status \in Statuses
    BY DEF Statuses
  <2>5. v \in Files \cup {None} /\ (status = "downloaded" => v # None /\ v.whole)
    <3>1. disk[n][call[n].path] \in Files
      BY <2>2, InvFacts
    <3>2. [disk[n][call[n].path] EXCEPT !.whole = TRUE] \in Files
      BY <3>1 DEF Files
    <3>3. [disk[n][call[n].path] EXCEPT !.whole = TRUE].whole
      BY <3>1 DEF Files
    <3> HIDE DEF status
    <3> QED
      BY <3>2, <3>3
  <2> HIDE DEF v, status
  <2>6. Writes(n, "finish", v, status)
    BY <1>0, <2>1, <2>3 DEF Writes
  <2> QED
    BY <1>0, <2>4, <2>5, <2>6, WriteKeeps
<1> QED
  BY <1>2, <1>3

LEMMA FaultKeeps ==
  ASSUME Inv, NEW n \in Nodes, Fail(n) \/ Crash(n) \/ Finished(n)
  PROVE  Inv'
<1>0. /\ UNCHANGED <<telegram, media, files, edits, partial>> /\ faults' \in 0..MaxFaults
      /\ edits \in 0..MaxEdits /\ partial \in 0..MaxPartial
  BY DEF Fail, Crash, Finished, UnchangedTables, UnchangedWorld, Inv, TypeOK
<1>1. CASE Crash(n) \/ Finished(n)
  <2>1. End(n) /\ UNCHANGED disk
    BY <1>1 DEF Crash, Finished
  <2>2. StoreOK(files, media, disk') /\ disk' \in [Nodes -> [Paths -> Files \cup {None}]]
    BY <2>1 DEF Inv, TypeOK
  <2> QED
    BY <1>0, <2>1, <2>2, EndKeeps
<1>2. CASE Fail(n)
  <2>1. pc[n] = "receive" /\ disk' = [disk EXCEPT ![n][call[n].path] = None]
    BY <1>2 DEF Fail
  <2>2. pc[n] \in Downloading
    BY <2>1 DEF Downloading
  <2>3. CASE End(n)
    BY <1>0, <2>1, <2>2, <2>3, WriteFacts, EndKeeps
  <2>4. CASE Goto(n, "receive", "finish") /\ call' = [call EXCEPT ![n].status = "error"]
    <3>1. "error" \in Statuses
      BY DEF Statuses
    <3>2. Writes(n, "finish", None, "error")
      BY <1>0, <2>1, <2>4 DEF Goto, Writes
    <3> QED
      BY <2>2, <3>1, <3>2, WriteKeeps
  <2> QED
    BY <1>2, <2>3, <2>4 DEF Fail
<1> QED
  BY <1>1, <1>2

LEMMA InitInv == Init => Inv
<1> SUFFICES ASSUME Init PROVE Inv
  OBVIOUS
<1>1. NoRow \in MediaRows
  BY DEF NoRow, Fresh, MediaRows, Statuses
<1>2. TypeOK
  BY <1>1, NoCallFacts DEF Init, TypeOK, NoRows
<1>3. StoreOK(files, media, disk)
  BY <1>2 DEF Init, StoreOK, TypeOK
<1>4. \A n \in Nodes : CallOK(n, pc[n], call[n], disk[n], files)
  BY NoCallFacts DEF Init, CallOK, Downloading
<1> QED
  BY <1>2, <1>3, <1>4 DEF Inv

LEMMA StepInv == Inv /\ [Next]_vars => Inv'
<1> SUFFICES ASSUME Inv, [Next]_vars PROVE Inv'
  OBVIOUS
<1>1. ASSUME NEW n \in Nodes, Step(n)
      PROVE  Inv'
  <2>1. CASE Begin(n, "browse") \/ Begin(n, "fetch")
    BY <2>1, BeginKeeps
  <2>2. CASE Browse(n) \/ Resolve(n)
    BY <2>2, LocalKeeps
  <2>3. CASE Fetch(n) \/ Missing(n)
    BY <2>3, KnowKeeps
  <2>4. CASE Save(n)
    BY <2>4, SaveKeeps
  <2>5. CASE \E m \in Messages : Again(n, m)
    BY <2>5, AgainKeeps
  <2>6. CASE Finished(n)
    BY <2>6, FaultKeeps
  <2>7. CASE Open(n) \/ Receive(n)
    BY <2>7, TransferKeeps
  <2>8. CASE Finish(n)
    BY <2>8, FinishKeeps
  <2> QED
    BY <1>1, <2>1, <2>2, <2>3, <2>4, <2>5, <2>6, <2>7, <2>8 DEF Step
<1>2. ASSUME NEW n \in Nodes, Fail(n) \/ Crash(n)
      PROVE  Inv'
  BY <1>2, FaultKeeps
<1>3. CASE (\E m \in Messages : Edit(m)) \/ (\E n \in Others : Elsewhere(n))
  BY <1>3, OutsideKeeps
<1>4. CASE UNCHANGED vars
  BY <1>4 DEF vars, Inv, TypeOK, CallOK, StoreOK, Kept
<1> QED
  BY <1>1, <1>2, <1>3, <1>4 DEF Next

LEMMA Invariant == Spec => []Inv
BY InitInv, StepInv, PTL DEF Spec

-----------------------------------------------------------------------------
(* The rows, the files and the calls keep their types; a call downloads    *)
(* only what it knows a message of (telegram/media.py, MediaDownloader).   *)
THEOREM TypeCorrect == Spec => []TypeOK
<1>1. Inv => TypeOK
  BY DEF Inv
<1> QED
  BY <1>1, Invariant, PTL

(* Every copy recorded for a node is a whole file there, and a file found  *)
(* rather than downloaded is of that attachment, however downloads break   *)
(* off and whatever other nodes do (telegram/media.py, _resolve, _finish   *)
(* and _download_one).                                                     *)
THEOREM CopiesStayWhole == Spec => []CopiesWhole
<1>1. Inv => CopiesWhole
  BY DEF Inv, StoreOK, CopiesWhole, Kept
<1> QED
  BY <1>1, Invariant, PTL

(* Every copy, on whatever node, is of the attachment its message has in   *)
(* the database, unless another call saved a change while the copy was on  *)
(* its way (store/repository.py, save_messages and record_file).           *)
THEOREM CopiesStayCurrent == Spec => []CopiesCurrent
<1>1. Inv => CopiesCurrent
  BY DEF Inv, StoreOK, CopiesCurrent
<1> QED
  BY <1>1, Invariant, PTL
=============================================================================
