----------------------------- MODULE Migrations -----------------------------
(***************************************************************************)
(* Programs of different versions, on different machines, open one         *)
(* database at once: Store.open, Database.migrate and the connections      *)
(* below them.  Connections break, programs die, statements fail, a commit *)
(* happens and its answer is lost.                                         *)
(*                                                                         *)
(* Both dialects at once: only PostgreSQL loses connections and queues for *)
(* the lock, only SQLite gives up waiting for it (its write lock is the    *)
(* lock).  fold() (after_migrate) is replaced every time and left out.     *)
(***************************************************************************)
EXTENDS Integers, Sequences

CONSTANTS
  Programs,   \* processes that open the database
  Needs,      \* the SCHEMA_VERSION each is built with
  Parts,      \* statements of a migration; the last one records its number
  None,       \* nobody has the lock
  MaxFaults   \* bound: breaks, kills and failures

ASSUME MigrationsAssumption ==
  /\ Needs \in [Programs -> Nat \ {0}] /\ Parts \in Nat \ {0} /\ None \notin Programs
  /\ MaxFaults \in Nat

VARIABLES
  schema,   \* the statements of migrations that are committed, in order
  tx,       \* those of each program's open transaction
  lock,     \* the program that holds "tele:schema"
  up,       \* programs whose connection is intact
  pc,       \* where each program stands
  todo,     \* the next statement of its migrations
  faults    \* breaks, kills and failures so far

vars == <<schema, tx, lock, up, pc, todo, faults>>

Statements == (Nat \ {0}) \X (1..Parts)

TypeOK ==
  /\ schema \in Seq(Statements)
  /\ tx \in [Programs -> Seq(Statements)]
  /\ lock \in Programs \cup {None}
  /\ up \subseteq Programs
  /\ pc \in [Programs -> {"closed", "exists", "version", "begin", "lock", "apply",
                          "working", "failed"}]
  /\ todo \in [Programs -> Statements]
  /\ faults \in 0..MaxFaults

(* SELECT MAX(version) FROM schema_migrations, 0 while there is none.      *)
Recorded(log) == {log[i][1] : i \in {i \in DOMAIN log : log[i][2] = Parts}}
Version(log) ==
  CHOOSE v \in Recorded(log) \cup {0} : \A w \in Recorded(log) : w <= v

AfterLast(s) == IF s[2] > Parts THEN <<s[1] + 1, 1>> ELSE <<s[1], s[2] + 1>>   \* mutant
After(s) == IF s[2] = Parts THEN <<s[1] + 1, 1>> ELSE <<s[1], s[2] + 1>>

Init ==
  /\ schema = <<>>
  /\ tx = [p \in Programs |-> <<>>]
  /\ lock = None
  /\ up = {}
  /\ pc = [p \in Programs |-> "closed"]
  /\ todo = [p \in Programs |-> <<1, 1>>]
  /\ faults = 0

Fault == faults < MaxFaults /\ faults' = faults + 1
Goto(p, from, to) == pc[p] = from /\ pc' = [pc EXCEPT ![p] = to]

LockKept(p) ==                        \* mutant: a lock of the session, not of the transaction
  /\ tx' = [tx EXCEPT ![p] = <<>>]
  /\ UNCHANGED lock

(* The transaction and its lock end.                                       *)
Ended(p) ==
  /\ tx' = [tx EXCEPT ![p] = <<>>]
  /\ lock' = IF lock = p THEN None ELSE lock
UnchangedTx == UNCHANGED <<tx, lock>>

(* open_database: a new process and a new connection.                      *)
Open(p) ==
  /\ pc[p] \in {"closed", "failed"} /\ pc' = [pc EXCEPT ![p] = "exists"]
  /\ up' = up \cup {p}
  /\ todo' = [todo EXCEPT ![p] = <<1, 1>>]
  /\ UnchangedTx /\ UNCHANGED <<schema, faults>>

-----------------------------------------------------------------------------
(* migrate, first without a transaction, when a statement reconnects:      *)
(* does schema_migrations exist?                                           *)
TableExists(p) ==
  /\ \/ schema # <<>> /\ Goto(p, "exists", "version")
     \/ schema = <<>> /\ Goto(p, "exists", "begin")
  /\ up' = up \cup {p}
  /\ UnchangedTx /\ UNCHANGED <<schema, todo, faults>>

(* Is its version ours?                                                    *)
ReadVersion(p) ==
  /\ \/ Version(schema) = Needs[p] /\ Goto(p, "version", "working")
     \/ Version(schema) # Needs[p] /\ Goto(p, "version", "begin")
  /\ up' = up \cup {p}
  /\ UnchangedTx /\ UNCHANGED <<schema, todo, faults>>

(* _transaction reconnects if the connection is known to be broken.        *)
Begin(p) ==
  /\ Goto(p, "begin", "lock")
  /\ up' = up \cup {p}
  /\ UnchangedTx /\ UNCHANGED <<schema, todo, faults>>

NoLock(p) ==                          \* mutant: migrations are not serialized
  /\ p \in up
  /\ \/ /\ Version(schema) > Needs[p] /\ Goto(p, "lock", "failed") /\ UNCHANGED <<lock, todo>>
     \/ /\ Version(schema) <= Needs[p] /\ Goto(p, "lock", "apply")
        /\ lock' = p
        /\ todo' = [todo EXCEPT ![p] = <<Version(schema) + 1, 1>>]
  /\ UNCHANGED <<schema, tx, up, faults>>

(* The lock is granted, the version read again; a newer schema is refused. *)
Lock(p) ==
  /\ p \in up /\ lock = None
  /\ \/ /\ Version(schema) > Needs[p] /\ Goto(p, "lock", "failed") /\ UNCHANGED <<lock, todo>>
     \/ /\ Version(schema) <= Needs[p] /\ Goto(p, "lock", "apply")
        /\ lock' = p
        /\ todo' = [todo EXCEPT ![p] = <<Version(schema) + 1, 1>>]
  /\ UNCHANGED <<schema, tx, up, faults>>

(* The next statement of MIGRATIONS, or the number of one that is done.    *)
Apply(p) ==
  /\ pc[p] = "apply" /\ p \in up /\ todo[p][1] <= Needs[p]
  /\ tx' = [tx EXCEPT ![p] = Append(@, todo[p])]
  /\ todo' = [todo EXCEPT ![p] = After(@)]
  /\ UNCHANGED <<schema, lock, up, pc, faults>>

(* All are done.  The program may not hear that they are committed.        *)
Commit(p) ==
  /\ p \in up /\ todo[p][1] > Needs[p]
  /\ schema' = schema \o tx[p]
  /\ Ended(p)
  /\ \/ Goto(p, "apply", "working") /\ UNCHANGED <<up, faults>>
     \/ Goto(p, "apply", "failed") /\ Fault /\ up' = up \ {p}
  /\ UNCHANGED todo

-----------------------------------------------------------------------------
(* A connection is lost: the server rolls back.                            *)
Break(p) ==
  /\ Fault
  /\ pc[p] \notin {"closed", "failed"} /\ p \in up /\ up' = up \ {p}
  /\ Ended(p)
  /\ UNCHANGED <<schema, pc, todo>>

RetriedInside(p) ==                   \* mutant: the transaction goes on without its beginning
  /\ pc[p] \in {"lock", "apply"} /\ p \notin up /\ up' = up \cup {p}
  /\ UNCHANGED <<schema, tx, lock, pc, todo, faults>>

(* Inside a transaction a statement is not retried (_execute).             *)
NotRetried(p) ==
  /\ pc[p] \in {"lock", "apply"} /\ p \notin up
  /\ pc' = [pc EXCEPT ![p] = "failed"]
  /\ UnchangedTx /\ UNCHANGED <<schema, up, todo, faults>>

(* A statement fails, the second attempt of _execute does, or SQLite has   *)
(* waited long enough: rolled back.                                        *)
Fails(p) ==
  /\ Fault
  /\ pc[p] \in {"exists", "version", "begin", "lock", "apply"}
  /\ pc' = [pc EXCEPT ![p] = "failed"]
  /\ Ended(p)
  /\ UNCHANGED <<schema, up, todo>>

(* The program ends, or is killed.                                         *)
Close(p) ==
  /\ Goto(p, "working", "closed")
  /\ up' = up \ {p}
  /\ UnchangedTx /\ UNCHANGED <<schema, todo, faults>>

Kill(p) ==
  /\ Fault
  /\ pc[p] # "closed" /\ pc' = [pc EXCEPT ![p] = "closed"]
  /\ up' = up \ {p}
  /\ Ended(p)
  /\ UNCHANGED <<schema, todo>>

Step(p) ==
  \/ TableExists(p) \/ ReadVersion(p) \/ Begin(p) \/ Apply(p) \/ Commit(p) \/ NotRetried(p)

Next ==
  \E p \in Programs :
    \/ Open(p) \/ Step(p) \/ Lock(p) \/ Break(p) \/ Fails(p) \/ Close(p) \/ Kill(p)

(* Programs go on; the lock is granted in the order it was asked for.      *)
Spec ==
  /\ Init /\ [][Next]_vars
  /\ \A p \in Programs : WF_vars(Step(p)) /\ SF_vars(Lock(p))

-----------------------------------------------------------------------------
(* The committed schema is that of some version: the statements of every   *)
(* migration up to it, each once and in order, and no part of a later one  *)
(* (migrate: "several machines may start at once").                        *)
Follows(s, t) ==
  \/ s[2] < Parts /\ t = <<s[1], s[2] + 1>>
  \/ s[2] = Parts /\ t = <<s[1] + 1, 1>>

InOrder(log) ==
  /\ log # <<>> => log[1] = <<1, 1>>
  /\ \A i \in 1..(Len(log) - 1) : Follows(log[i], log[i + 1])

Whole == InOrder(schema) /\ (schema # <<>> => schema[Len(schema)][2] = Parts)

(* Through kills, breaks and unheard commits, the schema moves only from   *)
(* a version to the newer one of the program that migrates it, and no      *)
(* program starts to work on a schema that is not its own (migrate).       *)
Schema == INSTANCE SchemaVersion WITH
  version <- Version(schema), working <- {p \in Programs : pc[p] = "working"}
ImplementsSchema == Schema!SchemaSpec

(* No program waits for the schema lock for ever: whoever opens the        *)
(* database works or fails in the end.                                     *)
OpeningEnds ==
  \A p \in Programs : pc[p] = "exists" ~> pc[p] \in {"working", "failed", "closed"}
=============================================================================
