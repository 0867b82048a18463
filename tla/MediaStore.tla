----------------------------- MODULE MediaStore -----------------------------
(***************************************************************************)
(* `tele get -m`: the attachments of a chat's messages on the disks of the *)
(* nodes that share a database.  A call settles what it can from its own   *)
(* disk, downloads the rest and records each copy; meanwhile messages get  *)
(* other attachments, another node's call saves them, downloads are cut    *)
(* off and processes die, leaving partial files behind.                    *)
(*                                                                         *)
(* One call at a time runs on a node, in the default directory; nobody     *)
(* else touches its files.  All attachments of a message compete for one   *)
(* file name.                                                              *)
(***************************************************************************)
EXTENDS Integers

CONSTANTS
  Nodes,        \* (host, OS user) pairs
  Others,       \* further nodes, of which only the rows they write are seen
  MaxMessage,   \* how many messages the chat has
  Attachments,  \* what a message may have attached
  None,         \* no attachment, no file, no outcome
  Bytes,        \* the length of each attachment's file
  Unsized,      \* attachments announced without a size
  Keyless,      \* those without a photo or document behind them
  Fileless,     \* keyless ones of FILELESS_MEDIA_TYPES
  Limits,       \* values of --max-media-mb, 0 for none
  First,        \* the attachments messages have at first
  MaxEdits,     \* bound: changes of an attachment
  MaxFaults,    \* bound: downloads and calls that fail
  MaxPartial,   \* bound: fetches of only some messages
  MaxSuffix     \* bound: files beside the first one of a name

Unknown == "unknown"
Messages == 1..MaxMessage      \* their IDs
Paths == Messages \X (0..MaxSuffix)
Files == [of : Attachments, whole : BOOLEAN]

ASSUME MediaAssumption ==
  /\ MaxMessage \in Nat /\ Nodes \cap Others = {}
  /\ None \notin Attachments /\ None \notin Messages /\ Unknown \notin Attachments \cup {None}
  /\ None \notin Files /\ None \notin Paths
  /\ Bytes \in [Attachments -> Nat \ {0}]
  /\ \A a, b \in Attachments : Bytes[a] = Bytes[b] => a = b
  /\ Fileless \subseteq Keyless /\ Keyless \subseteq Unsized /\ Unsized \subseteq Attachments
  /\ First \in [Messages -> Attachments]
  /\ Limits \subseteq Nat /\ Limits # {} /\ MaxEdits \in Nat /\ MaxFaults \in Nat
  /\ MaxPartial \in Nat /\ MaxSuffix \in Nat

VARIABLES
  telegram,   \* the attachment each message has on Telegram
  media,      \* rows of table media: attachment, download_status
  files,      \* rows of table media_files; `for` is history
  disk,       \* each node's files: whose bytes, and whether all of them
  pc,         \* where each node's call stands
  call,       \* its arguments and local variables
  edits,      \* changes so far
  faults,     \* failures so far
  partial     \* fetches of only some messages so far

vars == <<telegram, media, files, disk, pc, call, edits, faults, partial>>

Statuses == {None, "downloaded", "existing", "skipped_too_large", "not_downloadable", "error"}

(* overtaken, history: the outcome or copy is of another attachment than   *)
(* the one the message's row already had when it was recorded.             *)
MediaRows == [attachment : Attachments \cup {None}, status : Statuses, overtaken : BOOLEAN]

FileRows == [message : Messages, node : Nodes \cup Others, path : Paths, status : Statuses,
             for : Attachments, overtaken : BOOLEAN]

Calls == [limit : Limits, known : [Messages -> Attachments \cup {None, Unknown}],
          rows : [Messages -> MediaRows], current : Messages \cup {None},
          path : Paths \cup {None}, status : Statuses]

Points == {"idle", "browse", "fetch", "save", "resolve", "missing", "next", "open", "receive",
           "finish"}

TypeOK ==
  /\ telegram \in [Messages -> Attachments \cup {None}]
  /\ media \in [Messages -> MediaRows]
  /\ files \subseteq FileRows
  /\ disk \in [Nodes -> [Paths -> Files \cup {None}]]
  /\ pc \in [Nodes -> Points]
  /\ call \in [Nodes -> Calls]
  /\ edits \in 0..MaxEdits /\ faults \in 0..MaxFaults /\ partial \in 0..MaxPartial

Fresh(a) == [attachment |-> a, status |-> None, overtaken |-> FALSE]
NoRow == Fresh(None)
NoRows == [m \in Messages |-> NoRow]

NewCall(limit) ==
  [limit |-> limit, known |-> [m \in Messages |-> Unknown], rows |-> NoRows,
   current |-> None, path |-> None, status |-> None]
NoCall == NewCall(CHOOSE l \in Limits : TRUE)

Init ==
  /\ telegram = First
  /\ media = NoRows
  /\ files = {}
  /\ disk = [n \in Nodes |-> [p \in Paths |-> None]]
  /\ pc = [n \in Nodes |-> "idle"]
  /\ call = [n \in Nodes |-> NoCall]
  /\ edits = 0 /\ faults = 0 /\ partial = 0

-----------------------------------------------------------------------------
(* Resolving an attachment without Telegram.                               *)

Key(a) == IF a \in Keyless THEN None ELSE a

(* _is_complete: the announced size, if there is one.  A partial file is   *)
(* assumed to have the size of no attachment.                              *)
IsComplete(file, a) == file # None /\ (a \in Unsized \/ (file.whole /\ file.of = a))

(* _destination: the message's name, unless something else has it.         *)
Destination(n, m, a) ==
  IF disk[n][m, 0] = None \/ IsComplete(disk[n][m, 0], a) THEN <<m, 0>>
  ELSE CHOOSE p \in {m} \X (1..MaxSuffix) :
         disk[n][p] = None /\ \A k \in 1..(p[2] - 1) : disk[n][m, k] # None

(* node_copies: this node's copies of the message and of the same file.    *)
Copies(s, n, m, a) ==
  {r.path : r \in {r \in s.files : r.node = n /\
    (r.message = m \/ (Key(a) # None /\ s.media[r.message].attachment = a))}}

(* set_media_status: an UPDATE, so a row that is gone stays away.          *)
SetStatus(rows, m, status, a) ==
  IF rows[m].attachment = None THEN rows
  ELSE [rows EXCEPT ![m] =
          [attachment |-> @.attachment, status |-> status,
           overtaken |-> @.attachment # a \/ (@.overtaken /\ @.status = status)]]

(* record_file                                                             *)
Record(s, n, m, row, path, status) ==
  [files |-> {r \in s.files : r.node # n \/ r.message # m}
               \cup {[message |-> m, node |-> n, path |-> path, status |-> status,
                      for |-> row.attachment,
                      overtaken |-> s.media[m].attachment # row.attachment]},
   media |-> SetStatus(s.media, m, status, row.attachment),
   left |-> s.left]

(* _resolve and _finish for one attachment; what has to be downloaded is   *)
(* left.                                                                   *)
Settle(s, n, m, row, limit) ==
  LET a == row.attachment
      complete == {p \in Copies(s, n, m, a) : IsComplete(disk[n][p], a)}
      destination == Destination(n, m, a)
      without(status) == [s EXCEPT !.media = SetStatus(@, m, status, a)]
  IN  IF a = None THEN s
      ELSE IF complete # {} THEN Record(s, n, m, row, CHOOSE p \in complete : TRUE, "existing")
      ELSE IF disk[n][destination] # None THEN Record(s, n, m, row, destination, "existing")
      ELSE IF limit # 0 /\ a \notin Unsized /\ Bytes[a] > limit THEN without("skipped_too_large")
      ELSE IF row.status = "not_downloadable" \/ a \in Fileless THEN without("not_downloadable")
      ELSE [s EXCEPT !.left = @ \cup {m}]

Tables == [files |-> files, media |-> media, left |-> {}]

(* media_rows: the k-th newest message.                                    *)
NewestFirst(k) == MaxMessage + 1 - k

(* resolve_locally: one row after the other.                               *)
Resolved(n) ==
  LET after[k \in 0..MaxMessage] ==
        IF k = 0 THEN Tables
        ELSE LET m == NewestFirst(k) IN Settle(after[k - 1], n, m, media[m], call[n].limit)
  IN  after[MaxMessage]

(* A name is left for every file; without one, _destination raises.        *)
Room(n) == \A m \in Messages : \E k \in 1..MaxSuffix : disk[n][m, k] = None

Commit(s) == files' = s.files /\ media' = s.media

Goto(n, from, to) == pc[n] = from /\ pc' = [pc EXCEPT ![n] = to]

End(n) == pc' = [pc EXCEPT ![n] = "idle"] /\ call' = [call EXCEPT ![n] = NoCall]

UnchangedTables == UNCHANGED <<media, files>>
UnchangedWorld == UNCHANGED <<telegram, edits, faults, partial>>

-----------------------------------------------------------------------------
(* The message gets another attachment or loses it.                        *)
Edit(m) ==
  /\ edits < MaxEdits /\ edits' = edits + 1
  /\ \E a \in Attachments \cup {None} : a # telegram[m] /\ telegram' = [telegram EXCEPT ![m] = a]
  /\ UnchangedTables /\ UNCHANGED <<disk, pc, call, faults, partial>>

(* get_messages: what is stored is recent enough, or Telegram is asked.    *)
Begin(n, to) ==
  /\ Goto(n, "idle", to)
  /\ \E limit \in Limits :
       call' = [call EXCEPT ![n] = NewCall(limit)]
  /\ UnchangedTables /\ UnchangedWorld /\ UNCHANGED disk

(* The local answer, unless something has to be downloaded.                *)
Browse(n) ==
  /\ pc[n] = "browse" /\ Room(n)
  /\ Commit(Resolved(n))
  /\ IF Resolved(n).left = {} THEN End(n)
     ELSE pc' = [pc EXCEPT ![n] = "fetch"] /\ UNCHANGED call
  /\ UnchangedWorld /\ UNCHANGED disk

(* The sync's fetch of all messages or, `newer` and `older`, some ...      *)
Fetch(n) ==
  /\ Goto(n, "fetch", "save")
  /\ \E fetched \in SUBSET Messages :
     /\ IF fetched = Messages THEN UNCHANGED partial
        ELSE partial < MaxPartial /\ partial' = partial + 1
     /\ call' = [call EXCEPT ![n].known =
                  [m \in Messages |-> IF m \in fetched THEN telegram[m] ELSE Unknown]]
  /\ UnchangedTables /\ UNCHANGED <<telegram, edits, faults, disk>>

(* Another file_key; two attachments without one are not told apart.       *)
Changed(old, a) == old # None /\ (a = None \/ Key(a) # Key(old))

ForgetFilesOnly(known) ==             \* mutant: the outcome stays
  LET saved == {m \in Messages : known[m] # Unknown}
      changed == {m \in saved : Changed(media[m].attachment, known[m])}
  IN  /\ media' = [m \in Messages |-> IF m \in saved
                     THEN [media[m] EXCEPT !.attachment = known[m]] ELSE media[m]]
      /\ files' = {r \in files : r.message \notin changed}

ForgetOutcomeOnly(known) ==           \* mutant: the copies stay
  LET saved == {m \in Messages : known[m] # Unknown}
      changed == {m \in saved : Changed(media[m].attachment, known[m])}
  IN  /\ media' = [m \in Messages |->
                     IF m \in changed THEN Fresh(known[m])
                     ELSE IF m \in saved THEN [media[m] EXCEPT !.attachment = known[m]]
                     ELSE media[m]]
      /\ UNCHANGED files

(* save_messages: of a changed attachment, the copies on all nodes and the *)
(* outcome are forgotten.                                                  *)
SaveMessages(known) ==
  LET saved == {m \in Messages : known[m] # Unknown}
      changed == {m \in saved : Changed(media[m].attachment, known[m])}
  IN  /\ media' = [m \in Messages |->
                     IF m \in changed THEN Fresh(known[m])
                     ELSE IF m \in saved THEN [media[m] EXCEPT !.attachment = known[m]]
                     ELSE media[m]]
      /\ files' = {r \in files : r.message \notin changed}

(* ... and its save.                                                       *)
Save(n) ==
  /\ Goto(n, "save", "resolve")
  /\ SaveMessages(call[n].known)
  /\ UnchangedWorld /\ UNCHANGED <<disk, call>>

(* The same by another node, and a copy that node records.                 *)
Elsewhere(n) ==
  /\ \/ SaveMessages(telegram)
     \/ \E m \in Messages :
          /\ media[m].attachment # None
          /\ Commit(Record(Tables, n, m, media[m], <<m, 0>>, "downloaded"))
  /\ UnchangedWorld /\ UNCHANGED <<disk, pc, call>>

Resolve(n) ==
  LET left == Resolved(n).left IN
  /\ pc[n] = "resolve" /\ Room(n)
  /\ Commit(Resolved(n))
  /\ IF left = {} THEN End(n)
     ELSE /\ pc' = [pc EXCEPT ![n] = "missing"]
          /\ call' = [call EXCEPT ![n].rows =
                        [m \in Messages |-> IF m \in left THEN media[m] ELSE NoRow]]
  /\ UnchangedWorld /\ UNCHANGED disk

Pending(n) == {m \in Messages : call[n].rows[m] # NoRow}

NothingFetched(n) ==                  \* mutant: only messages of this run are there
  /\ Goto(n, "missing", "next")
  /\ UnchangedTables /\ UnchangedWorld /\ UNCHANGED <<disk, call>>

(* download: messages that this run has not fetched.                       *)
Missing(n) ==
  /\ Goto(n, "missing", "next")
  /\ call' = [call EXCEPT ![n].known = [m \in Messages |->
                IF m \in Pending(n) /\ @[m] = Unknown THEN telegram[m] ELSE @[m]]]
  /\ UnchangedTables /\ UnchangedWorld /\ UNCHANGED disk

(* The transaction that settles m.  A copy of a message whose row is gone   *)
(* violates a foreign key and fails the call.                              *)
Conclude(n, m, s) ==
  IF s.files # files /\ media[m].attachment = None
  THEN End(n) /\ UnchangedTables
  ELSE /\ Commit(s)
       /\ pc' = [pc EXCEPT ![n] = "next"]
       /\ call' = [call EXCEPT ![n] =
                     [@ EXCEPT !.rows[m] = NoRow, !.current = None, !.path = None, !.status = None]]

(* Each in turn is resolved again, from the row read before: the same file *)
(* may have come in with another message.                                  *)
Again(n, m) ==
  LET row == call[n].rows[m]
      s == Settle(Tables, n, m, row, call[n].limit)
  IN
  /\ pc[n] = "next" /\ m \in Pending(n) /\ Room(n)
  /\ \/ s.left = {} /\ Conclude(n, m, s)
     \/ /\ s.left # {} /\ call[n].known[m] = None
        /\ Conclude(n, m, [Tables EXCEPT !.media = SetStatus(@, m, "error", row.attachment)])
     \/ /\ s.left # {} /\ call[n].known[m] # None
        /\ pc' = [pc EXCEPT ![n] = "open"]
        /\ call' = [call EXCEPT ![n] =
                      [@ EXCEPT !.current = m, !.path = Destination(n, m, row.attachment)]]
        /\ UnchangedTables
  /\ UnchangedWorld /\ UNCHANGED disk

Finished(n) ==
  /\ pc[n] = "next" /\ Pending(n) = {}
  /\ End(n)
  /\ UnchangedTables /\ UnchangedWorld /\ UNCHANGED disk

(* download_media starts to write ...                                      *)
Open(n) ==
  /\ Goto(n, "open", "receive")
  /\ disk' = [disk EXCEPT ![n][call[n].path] =
                [of |-> call[n].known[call[n].current], whole |-> FALSE]]
  /\ UnchangedTables /\ UnchangedWorld /\ UNCHANGED call

(* enforce_size_limit; a contact is written in one piece.                  *)
TooLong(n) ==
  LET a == call[n].known[call[n].current] IN
  call[n].limit # 0 /\ a \notin Keyless /\ Bytes[a] > call[n].limit

(* ... and has it all, finds nothing to write, or more than the limit.     *)
Receive(n) ==
  LET a == call[n].known[call[n].current]
      status == IF a \in Fileless THEN "not_downloadable"
                ELSE IF TooLong(n) THEN "skipped_too_large" ELSE "downloaded"
  IN
  /\ Goto(n, "receive", "finish")
  /\ disk' = [disk EXCEPT ![n][call[n].path] =
                IF status = "downloaded" THEN [@ EXCEPT !.whole = TRUE] ELSE None]
  /\ call' = [call EXCEPT ![n].status = status]
  /\ UnchangedTables /\ UnchangedWorld

FailKeepingPart(n) ==                 \* mutant: the partial file is not removed
  /\ faults < MaxFaults /\ faults' = faults + 1
  /\ Goto(n, "receive", "finish")
  /\ call' = [call EXCEPT ![n].status = "downloaded"]
  /\ UnchangedTables /\ UNCHANGED <<telegram, edits, partial, disk>>

(* An error: the partial file is removed.  A flood wait ends the call.     *)
Fail(n) ==
  /\ faults < MaxFaults /\ faults' = faults + 1
  /\ pc[n] = "receive"
  /\ disk' = [disk EXCEPT ![n][call[n].path] = None]
  /\ \/ End(n)
     \/ Goto(n, "receive", "finish") /\ call' = [call EXCEPT ![n].status = "error"]
  /\ UnchangedTables /\ UNCHANGED <<telegram, edits, partial>>

(* _finish, in a transaction of its own: again the row read before.        *)
Finish(n) ==
  LET m == call[n].current
      status == call[n].status
  IN
  /\ pc[n] = "finish"
  /\ Conclude(n, m,
       IF status = "downloaded"
       THEN Record(Tables, n, m, call[n].rows[m], call[n].path, status)
       ELSE [Tables EXCEPT !.media = SetStatus(@, m, status, call[n].known[m])])
  /\ UnchangedWorld /\ UNCHANGED disk

(* The process dies, or a statement or request fails.                      *)
Crash(n) ==
  /\ faults < MaxFaults /\ faults' = faults + 1
  /\ pc[n] # "idle"
  /\ End(n)
  /\ UnchangedTables /\ UNCHANGED <<telegram, edits, partial, disk>>

Step(n) ==
  \/ Begin(n, "browse") \/ Begin(n, "fetch") \/ Browse(n) \/ Fetch(n) \/ Save(n)
  \/ Resolve(n) \/ Missing(n) \/ (\E m \in Messages : Again(n, m))
  \/ Finished(n) \/ Open(n) \/ Receive(n) \/ Finish(n)

Next ==
  \/ \E m \in Messages : Edit(m)
  \/ \E n \in Nodes : Step(n) \/ Fail(n) \/ Crash(n)
  \/ \E n \in Others : Elsewhere(n)

(* Every node keeps calling, and is not always content with what it has.   *)
Spec ==
  /\ Init /\ [][Next]_vars
  /\ \A n \in Nodes : WF_vars(Step(n)) /\ SF_vars(Begin(n, "fetch"))

-----------------------------------------------------------------------------
(* A recorded copy that is still there and that was announced with a size  *)
(* has all its bytes; one that was found rather than downloaded has those  *)
(* of its attachment (_is_complete, _download_one).                        *)
CopiesWhole ==
  \A r \in {r \in files : r.node \in Nodes} :
    LET file == disk[r.node][r.path] IN
    file # None /\ r.for \notin Unsized =>
      file.whole /\ (r.status = "existing" => file.of = r.for)

(* Copies are of the attachment the message has now ("a different file     *)
(* now: forget old copies and outcomes", save_messages), on every node,    *)
(* unless another call saved the change while the copy was downloaded.     *)
CopiesCurrent ==
  \A r \in files :
    r.overtaken \/ Key(r.for) = Key(media[r.message].attachment)

(* Every node gets every attachment in the end: partial files, earlier     *)
(* failures and outcomes of an earlier attachment do not keep it away      *)
(* (resolve_locally, download, save_messages) - unless a download that     *)
(* was overtaken by the change found nothing, and its outcome is stored    *)
(* with the attachment the message has now.                                *)
Downloadable(a) ==
  a \in Attachments \ Keyless /\ \A l \in Limits : l = 0 \/ Bytes[a] <= l

AllArrive ==
  \A n \in Nodes, m \in Messages :
    []<>(Downloadable(telegram[m])
           /\ ~(media[m].status = "not_downloadable" /\ media[m].overtaken) =>
           \E p \in Paths : disk[n][p] = [of |-> telegram[m], whole |-> TRUE])
=============================================================================
