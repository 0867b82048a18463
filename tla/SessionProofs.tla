--------------------------- MODULE SessionProofs ----------------------------
(***************************************************************************)
(* Proofs about Session, for any commands, session files, accounts and     *)
(* chats.                                                                  *)
(***************************************************************************)
EXTENDS Session, TLAPS

Connected == {"connected", "registered", "running", "stopping"}

(* Those that use a session file itself.                                   *)
Own == {"auth", "listen"}

(* What is connected has an account.                                       *)
CopyOwned == \A p \in Procs : pc[p] \in Connected => run[p].copy.account \in Accounts

ListenerListens == pc[Listener] # "off" => run[Listener].kind = "listen"

(* What will write its own position to a file is not past a message that   *)
(* is neither captured nor excused.                                        *)
OwnersPassedNothing ==
  \A p \in Procs : pc[p] \in Connected /\ run[p].kind \in Own =>
    LET a == run[p].copy.account IN
      1..run[p].copy.position \subseteq captured[a] \cup excused[a]

RunsInv == CopyOwned /\ ListenerListens /\ OwnersPassedNothing

Inv == TypeOK /\ RunsInv /\ NothingPassed

LEMMA NoRunType == NoRun \in Runs
BY SessionAssumption DEF NoRun, NoCopy, Runs, Copies, Positions

LEMMA ListenerProc == Listener \in Procs
BY DEF Procs

LEMMA InitInv == Init => Inv
<1> SUFFICES ASSUME Init PROVE Inv
  OBVIOUS
<1>1. TypeOK
  BY NoRunType, SessionAssumption DEF Init, TypeOK, NoCopy, Copies, Positions
<1>2. RunsInv
  BY ListenerProc DEF Init, RunsInv, CopyOwned, ListenerListens, OwnersPassedNothing, Connected
<1>3. NothingPassed
  BY DEF Init, NothingPassed, NoCopy
<1> QED
  BY <1>1, <1>2, <1>3 DEF Inv

(* Messages are captured or excused for good.                              *)
Grows ==
  \A a \in Accounts : captured[a] \cup excused[a] \subseteq captured'[a] \cup excused'[a]

LEMMA Kept ==
  ASSUME Inv, Grows, file' = file PROVE NothingPassed'
BY DEF Inv, NothingPassed, Grows, TypeOK, Copies

(* A step that connects nothing and receives nothing.                      *)
LEMMA RunsKept ==
  ASSUME Inv, Grows,
         \A q \in Procs : /\ run'[q].copy = run[q].copy /\ run'[q].kind = run[q].kind
                          /\ pc'[q] \in Connected => pc[q] \in Connected
                          /\ pc[q] = "off" => pc'[q] = "off"
  PROVE  RunsInv'
<1> USE ListenerProc DEF Inv, RunsInv
<1>1. CopyOwned'
  BY DEF CopyOwned
<1>2. ListenerListens'
  BY DEF ListenerListens
<1>3. OwnersPassedNothing'
  BY DEF OwnersPassedNothing, CopyOwned, Grows
<1> QED
  BY <1>1, <1>2, <1>3

(* A step of one process.                                                  *)
LEMMA OneRuns ==
  ASSUME Inv, Grows, NEW p \in Procs,
         \A q \in Procs \ {p} : pc'[q] = pc[q] /\ run'[q] = run[q],
         pc'[p] \in Connected => run'[p].copy.account \in Accounts,
         p = Listener /\ pc'[p] # "off" => run'[p].kind = "listen",
         pc'[p] \in Connected /\ run'[p].kind \in Own =>
           1..run'[p].copy.position \subseteq
             captured'[run'[p].copy.account] \cup excused'[run'[p].copy.account]
  PROVE  RunsInv'
<1> USE ListenerProc DEF Inv, RunsInv
<1>1. CopyOwned'
  BY DEF CopyOwned
<1>2. ListenerListens'
  BY DEF ListenerListens
<1>3. OwnersPassedNothing'
  <2>1. ASSUME NEW q \in Procs \ {p}, pc'[q] \in Connected, run'[q].kind \in Own
        PROVE  1..run'[q].copy.position \subseteq
                 captured'[run'[q].copy.account] \cup excused'[run'[q].copy.account]
    BY <2>1 DEF OwnersPassedNothing, CopyOwned, Grows
  <2> QED
    BY <2>1 DEF OwnersPassedNothing
<1> QED
  BY <1>1, <1>2, <1>3

(* A process that ends.                                                    *)
LEMMA Ends ==
  ASSUME Inv, Grows, NEW p \in Procs, Finish(p)
  PROVE  /\ RunsInv' /\ run' \in [Procs -> Runs]
         /\ pc' \in [Procs -> {"off", "opened", "connected", "registered", "running", "stopping",
                               "closed", "raised"}]
<1>1. /\ run' \in [Procs -> Runs]
      /\ pc' \in [Procs -> {"off", "opened", "connected", "registered", "running", "stopping",
                            "closed", "raised"}]
      /\ pc'[p] = "off" /\ \A q \in Procs \ {p} : pc'[q] = pc[q] /\ run'[q] = run[q]
  BY NoRunType DEF Inv, TypeOK, Finish
<1> QED
  BY <1>1, OneRuns DEF Connected

(* One file gets an account and a position that are nothing to hide.       *)
LEMMA OneFile ==
  ASSUME Inv, Grows, NEW s \in Sessions,
         \A t \in Sessions \ {s} : /\ file'[t].account = file[t].account
                                   /\ file'[t].position = file[t].position,
         file'[s].account # None =>
           1..file'[s].position \subseteq
             captured'[file'[s].account] \cup excused'[file'[s].account]
  PROVE  NothingPassed'
<1>1. ASSUME NEW t \in Sessions \ {s}, file'[t].account # None
      PROVE  1..file'[t].position \subseteq
               captured'[file'[t].account] \cup excused'[file'[t].account]
  <2>1. file[t].account \in Accounts
    BY <1>1 DEF Inv, TypeOK, Copies
  <2> QED
    BY <1>1, <2>1 DEF Inv, NothingPassed, Grows
<1> QED
  BY <1>1 DEF NothingPassed

LEMMA StepInv == Inv /\ [Next]_vars => Inv'
<1> SUFFICES ASSUME Inv, [Next]_vars PROVE Inv'
  OBVIOUS
<1> USE SessionAssumption, ListenerProc
<1>1. ASSUME NEW a \in Accounts, Send(a) PROVE Inv'
  <2>1. TypeOK'
    BY <1>1 DEF Inv, Send, TypeOK, UnchangedHistory, Positions
  <2>2. Grows
    BY <1>1 DEF Send, Grows, UnchangedHistory
  <2> QED
    BY <1>1, <2>1, <2>2, Kept, RunsKept DEF Inv, Send
<1>2. ASSUME NEW s \in Sessions, Terminate(s) PROVE Inv'
  <2>1. TypeOK'
    BY <1>2 DEF Inv, Terminate, TypeOK, Copies
  <2>2. Grows
    BY <1>2 DEF Terminate, Grows
  <2>3. NothingPassed'
    BY <1>2 DEF Inv, Terminate, NothingPassed, TypeOK, Copies
  <2> QED
    BY <1>2, <2>1, <2>2, <2>3, RunsKept DEF Inv, Terminate
<1>3. CASE NewDatabase
  <2>1. TypeOK'
    BY <1>3 DEF Inv, NewDatabase, TypeOK
  <2>2. Grows
    BY <1>3 DEF NewDatabase, Grows
  <2> QED
    BY <1>3, <2>1, <2>2, Kept, RunsKept DEF Inv, NewDatabase
<1>4. ASSUME NEW p \in Procs, NEW s \in Sessions,
             NEW kind \in {"get", "dialogs", "status", "auth", "listen"}, Open(p, kind, s)
      PROVE  Inv'
  <2>1. TypeOK'
    BY <1>4, NoRunType DEF Inv, Open, Goto, TypeOK, UnchangedHistory, Runs
  <2>2. Grows
    BY <1>4 DEF Open, Grows, UnchangedHistory
  <2>3. /\ pc'[p] = "opened" /\ run'[p].kind = kind
        /\ \A q \in Procs \ {p} : pc'[q] = pc[q] /\ run'[q] = run[q]
    BY <1>4, NoRunType DEF Inv, Open, Goto, TypeOK, Runs
  <2>4. RunsInv'
    BY <1>4, <2>2, <2>3, OneRuns DEF Open, Connected
  <2> QED
    BY <1>4, <2>1, <2>2, <2>4, Kept DEF Inv, Open
<1>5. ASSUME NEW p \in Procs, Connect(p) PROVE Inv'
  <2> DEFINE s == run[p].session
  <2>0. run[p] \in Runs /\ s \in Sessions /\ file[s] \in Copies
    BY DEF Inv, TypeOK, Runs
  <2>1. Grows
    BY <1>5 DEF Connect, Grows, UnchangedHistory
  <2>2. CASE Finish(p)
    <3>1. TypeOK' /\ RunsInv'
      BY <1>5, <2>1, <2>2, Ends DEF Inv, Connect, TypeOK, UnchangedHistory
    <3> QED
      BY <1>5, <2>1, <3>1, Kept DEF Inv, Connect
  <2>3. CASE /\ file[s].account # None /\ Goto(p, "opened", "connected")
             /\ run' = [run EXCEPT ![p].copy = file[s]]
    <3>1. /\ [run[p] EXCEPT !.copy = file[s]] \in Runs
          /\ [run[p] EXCEPT !.copy = file[s]].kind = run[p].kind
      BY <2>0 DEF Runs
    <3>2. /\ run' \in [Procs -> Runs] /\ run'[p].copy = file[s] /\ run'[p].kind = run[p].kind
          /\ \A q \in Procs \ {p} : run'[q] = run[q]
      BY <2>0, <2>3, <3>1 DEF Inv, TypeOK, Runs
    <3>3. /\ pc[p] = "opened" /\ pc'[p] = "connected"
          /\ \A q \in Procs \ {p} : pc'[q] = pc[q]
      BY <2>3 DEF Inv, TypeOK, Goto
    <3>4. TypeOK'
      BY <1>5, <2>3, <3>2 DEF Inv, Connect, Goto, TypeOK, UnchangedHistory
    <3>5. file[s].account \in Accounts
      BY <2>0, <2>3 DEF Copies
    <3>6. 1..file[s].position \subseteq captured'[file[s].account] \cup excused'[file[s].account]
      BY <1>5, <2>0, <2>3 DEF Inv, NothingPassed, Connect, UnchangedHistory
    <3>7. p = Listener => run[p].kind = "listen"
      BY <3>3 DEF Inv, RunsInv, ListenerListens
    <3>8. RunsInv'
      BY <2>1, <3>2, <3>3, <3>5, <3>6, <3>7, OneRuns
    <3> QED
      BY <1>5, <2>1, <3>4, <3>8, Kept DEF Inv, Connect
  <2> QED
    BY <1>5, <2>2, <2>3 DEF Connect
<1>6. ASSUME NEW p \in Procs, Login(p) PROVE Inv'
  <2> DEFINE s == run[p].session
  <2>0. run[p] \in Runs /\ s \in Sessions
    BY DEF Inv, TypeOK, Runs
  <2>1. p # Listener
    BY <1>6 DEF Inv, RunsInv, Login, Goto, ListenerListens
  <2>2. /\ file' \in [Sessions -> Copies] /\ run' = [run EXCEPT ![p].copy = file'[s]]
        /\ file'[s].account \in Accounts
        /\ excused' \in [Accounts -> SUBSET (1..MaxSent)]
        /\ Grows /\ NothingPassed'
    <3>1. CASE file[s].account # None /\ run' = [run EXCEPT ![p].copy = file[s]]
               /\ UNCHANGED <<file, excused>>
      <4>1. Grows
        BY <1>6, <3>1 DEF Login, Grows
      <4>2. file[s].account \in Accounts
        BY <2>0, <3>1 DEF Inv, TypeOK, Copies
      <4> QED
        BY <3>1, <4>1, <4>2, Kept DEF Inv, TypeOK
    <3>2. ASSUME NEW a \in Accounts,
                 file' = [file EXCEPT ![s].account = a, ![s].position = sent[a]],
                 excused' = [excused EXCEPT ![a] = @ \cup 1..sent[a]],
                 run' = [run EXCEPT ![p].copy = file'[s]]
          PROVE  /\ file' \in [Sessions -> Copies] /\ file'[s].account \in Accounts
                 /\ excused' \in [Accounts -> SUBSET (1..MaxSent)]
                 /\ Grows /\ NothingPassed'
      <4>1. sent[a] \in Positions /\ 1..sent[a] \subseteq 1..MaxSent
        BY DEF Inv, TypeOK, Positions
      <4>2. /\ file' \in [Sessions -> Copies]
            /\ file'[s].account = a /\ file'[s].position = sent[a]
            /\ \A t \in Sessions \ {s} : file'[t] = file[t]
        BY <2>0, <3>2, <4>1 DEF Inv, TypeOK, Copies
      <4>3. excused' \in [Accounts -> SUBSET (1..MaxSent)] /\ 1..sent[a] \subseteq excused'[a]
        BY <3>2, <4>1 DEF Inv, TypeOK
      <4>4. Grows
        BY <1>6, <3>2 DEF Inv, TypeOK, Login, Grows
      <4>5. NothingPassed'
        BY <2>0, <4>2, <4>3, <4>4, OneFile
      <4> QED
        BY <4>2, <4>3, <4>4, <4>5
    <3> QED
      BY <1>6, <3>1, <3>2 DEF Login
  <2>3. /\ run' \in [Procs -> Runs] /\ run'[p].copy = file'[s]
        /\ \A q \in Procs \ {p} : run'[q] = run[q]
    <3>1. [run[p] EXCEPT !.copy = file'[s]] \in Runs /\ file'[s] \in Copies
      BY <2>0, <2>2 DEF Runs
    <3> QED
      BY <2>0, <2>2, <3>1 DEF Inv, TypeOK, Runs
  <2>4. pc'[p] = "connected" /\ \A q \in Procs \ {p} : pc'[q] = pc[q]
    BY <1>6 DEF Inv, TypeOK, Login, Goto
  <2>5. TypeOK'
    BY <1>6, <2>2, <2>3 DEF Inv, Login, Goto, TypeOK
  <2>6. 1..file'[s].position \subseteq captured'[file'[s].account] \cup excused'[file'[s].account]
    BY <2>0, <2>2 DEF NothingPassed
  <2>7. RunsInv'
    BY <2>1, <2>2, <2>3, <2>4, <2>6, OneRuns
  <2> QED
    BY <2>2, <2>5, <2>7 DEF Inv
<1>7. ASSUME NEW p \in Procs, Register(p) PROVE Inv'
  <2>1. run[p].copy.account \in Accounts /\ run[p] \in Runs
    BY <1>7 DEF Inv, RunsInv, Register, Goto, CopyOwned, Connected, TypeOK
  <2>2. run' = run \/ run' = [run EXCEPT ![p].store = run[p].copy.account]
    BY <1>7 DEF Register
  <2>3. node' \in Accounts \cup {None}
    BY <1>7, <2>1 DEF Inv, Register, TypeOK
  <2>4. run' \in [Procs -> Runs] /\ \A q \in Procs : run'[q].copy = run[q].copy
                                     /\ run'[q].kind = run[q].kind
    <3>1. /\ [run[p] EXCEPT !.store = run[p].copy.account] \in Runs
          /\ [run[p] EXCEPT !.store = run[p].copy.account].copy = run[p].copy
          /\ [run[p] EXCEPT !.store = run[p].copy.account].kind = run[p].kind
      BY <2>1 DEF Runs
    <3>2. CASE run' = run
      BY <3>2 DEF Inv, TypeOK
    <3>3. CASE run' = [run EXCEPT ![p].store = run[p].copy.account]
      BY <3>1, <3>3 DEF Inv, TypeOK
    <3> QED
      BY <2>2, <3>2, <3>3
  <2>5. TypeOK'
    BY <1>7, <2>3, <2>4 DEF Inv, Register, Goto, TypeOK, UnchangedHistory
  <2>6. Grows
    BY <1>7 DEF Register, Grows, UnchangedHistory
  <2>7. \A q \in Procs : /\ pc'[q] \in Connected => pc[q] \in Connected
                         /\ pc[q] = "off" => pc'[q] = "off"
    BY <1>7 DEF Inv, TypeOK, Register, Goto, Connected
  <2>8. RunsInv'
    BY <2>4, <2>6, <2>7, RunsKept
  <2> QED
    BY <1>7, <2>5, <2>6, <2>8, Kept DEF Inv, Register
<1>8. ASSUME NEW p \in Procs, Learn(p) PROVE Inv'
  <2>1. run[p] \in Runs /\ p # Listener /\ run[p].kind \notin Own
    BY <1>8 DEF Inv, RunsInv, Learn, ListenerListens, TypeOK, Own
  <2>2. PICK c \in Chats :
          run' = [run EXCEPT ![p].learned = @ \cup {c}, ![p].copy.entities = @ \cup {c}]
    BY <1>8 DEF Learn
  <2>3. run[p].copy \in Copies /\ run[p].learned \cup {c} \in SUBSET Chats
    BY <2>1 DEF Runs
  <2>4. [run[p].copy EXCEPT !.entities = @ \cup {c}] \in Copies
    BY <2>3 DEF Copies
  <2>5. /\ run'[p] \in Runs /\ run'[p].kind = run[p].kind
        /\ run'[p].copy.account = run[p].copy.account
        /\ \A q \in Procs \ {p} : run'[q] = run[q]
        /\ run' = [q \in Procs |-> run'[q]]
    BY <2>1, <2>2, <2>3, <2>4 DEF Inv, TypeOK, Runs, Copies
  <2>6. run' \in [Procs -> Runs]
    BY <2>5 DEF Inv, TypeOK
  <2>7. TypeOK'
    BY <1>8, <2>6 DEF Inv, Learn, TypeOK, UnchangedHistory
  <2>8. Grows
    BY <1>8 DEF Learn, Grows, UnchangedHistory
  <2>9. pc' = pc /\ run[p].copy.account \in Accounts
    BY <1>8 DEF Inv, RunsInv, CopyOwned, Connected, Learn
  <2>10. RunsInv'
    BY <2>1, <2>5, <2>8, <2>9, OneRuns
  <2> QED
    BY <1>8, <2>7, <2>8, <2>10, Kept DEF Inv, Learn
<1>9. ASSUME NEW p \in Procs, Receive(p) PROVE Inv'
  <2> DEFINE a == run[p].copy.account
             n == run[p].copy.position + 1
  <2>1. run[p] \in Runs /\ run[p].copy \in Copies /\ pc[p] \in Connected /\ pc' = pc
    BY <1>9 DEF Inv, TypeOK, Runs, Receive, Unheard, Connected
  <2>2. a \in Accounts
    BY <2>1 DEF Inv, RunsInv, CopyOwned
  <2>3. /\ n \in 1..MaxSent /\ n \in Positions
        /\ 1..n = 1..run[p].copy.position \cup {n}
    <3>1. run[p].copy.position \in 0..MaxSent /\ sent[a] \in 0..MaxSent
      BY <2>1, <2>2 DEF Inv, TypeOK, Copies, Positions
    <3>2. run[p].copy.position < sent[a]
      BY <1>9 DEF Receive
    <3> QED
      BY <3>1, <3>2 DEF Positions
  <2>4. /\ run' \in [Procs -> Runs] /\ run'[p].kind = run[p].kind
        /\ run'[p].copy.account = a /\ run'[p].copy.position = n
        /\ \A q \in Procs \ {p} : run'[q] = run[q]
    <3>1. run' = [run EXCEPT ![p].copy.position = n]
      BY <1>9 DEF Receive
    <3> QED
      BY <2>1, <2>3, <3>1 DEF Inv, TypeOK, Runs, Copies
  <2>5. /\ excused' \in [Accounts -> SUBSET (1..MaxSent)] /\ Grows
        /\ run[p].kind \in Own => excused'[a] = excused[a] \cup {n}
    <3>1. captured' = captured
      BY <1>9 DEF Receive
    <3>2. CASE excused' = [excused EXCEPT ![a] = @ \cup {n}]
      BY <2>2, <2>3, <3>1, <3>2 DEF Inv, TypeOK, Grows
    <3>3. CASE UNCHANGED excused /\ run[p].kind \notin Own
      BY <3>1, <3>3 DEF Inv, TypeOK, Grows
    <3> QED
      BY <1>9, <3>2, <3>3 DEF Receive, Excuse, Own
  <2>6. TypeOK'
    BY <1>9, <2>4, <2>5 DEF Inv, Receive, TypeOK
  <2>7. run[p].kind \in Own => 1..n \subseteq captured'[a] \cup excused'[a]
    BY <2>1, <2>2, <2>3, <2>5 DEF Inv, RunsInv, OwnersPassedNothing, Grows
  <2>8. p = Listener /\ pc[p] # "off" => run[p].kind = "listen"
    BY DEF Inv, RunsInv, ListenerListens
  <2>9. RunsInv'
    BY <2>1, <2>2, <2>4, <2>5, <2>7, <2>8, OneRuns
  <2> QED
    BY <1>9, <2>5, <2>6, <2>9, Kept DEF Inv, Receive
<1>10. ASSUME NEW p \in Procs, Merge(p) PROVE Inv'
  <2>1. run[p] \in Runs /\ pc[p] = "registered" /\ run' = run
        /\ pc' = [pc EXCEPT ![p] = "closed"]
    BY <1>10 DEF Inv, Merge, Goto, TypeOK
  <2>2. file' \in [Sessions -> Copies] /\ \A s \in Sessions : /\ file'[s].account = file[s].account
                                                        /\ file'[s].position = file[s].position
    <3> DEFINE s == run[p].session
               all == file[s].entities \cup run[p].learned
    <3>1. s \in Sessions /\ file[s] \in Copies /\ run[p].learned \in SUBSET Chats
      BY <2>1 DEF Inv, TypeOK, Runs
    <3>2. /\ [file[s] EXCEPT !.entities = all] \in Copies
          /\ [file[s] EXCEPT !.entities = all].account = file[s].account
          /\ [file[s] EXCEPT !.entities = all].position = file[s].position
      BY <3>1 DEF Copies
    <3>3. file' = file \/ file' = [file EXCEPT ![s].entities = all]
      BY <1>10 DEF Merge
    <3> HIDE DEF all
    <3> QED
      BY <3>1, <3>2, <3>3 DEF Inv, TypeOK
  <2>3. TypeOK'
    BY <1>10, <2>2 DEF Inv, Merge, Goto, TypeOK, UnchangedHistory
  <2>4. Grows
    BY <1>10 DEF Merge, Grows, UnchangedHistory
  <2>5. \A q \in Procs : /\ pc'[q] \in Connected => pc[q] \in Connected
                         /\ pc[q] = "off" => pc'[q] = "off"
    BY <2>1 DEF Inv, TypeOK, Connected
  <2>6. RunsInv'
    BY <2>1, <2>4, <2>5, RunsKept
  <2>7. NothingPassed'
    BY <1>10, <2>2 DEF Inv, Merge, NothingPassed, UnchangedHistory
  <2> QED
    BY <2>3, <2>6, <2>7 DEF Inv
<1>11. ASSUME NEW p \in Procs, End(p) \/ Abort(p) PROVE Inv'
  <2>1. Grows
    BY <1>11 DEF End, Abort, Grows, UnchangedHistory
  <2>2. TypeOK' /\ RunsInv'
    <3>1. CASE Finish(p)
      BY <1>11, <2>1, <3>1, Ends DEF Inv, End, Abort, TypeOK, UnchangedHistory
    <3>2. CASE pc[p] = "closed" /\ pc' = [pc EXCEPT ![p] = "raised"] /\ UNCHANGED run
      <4>1. TypeOK'
        BY <1>11, <3>2 DEF Inv, End, Abort, TypeOK, UnchangedHistory
      <4>2. \A q \in Procs : /\ pc'[q] \in Connected => pc[q] \in Connected
                             /\ pc[q] = "off" => pc'[q] = "off"
        BY <3>2 DEF Inv, TypeOK, Connected
      <4> QED
        BY <2>1, <3>2, <4>1, <4>2, RunsKept
    <3> QED
      BY <1>11, <3>1, <3>2 DEF End, Abort
  <2> QED
    BY <1>11, <2>1, <2>2, Kept DEF Inv, End, Abort
<1>12. ASSUME NEW p \in Procs, EndAuth(p) PROVE Inv'
  <2> DEFINE s == run[p].session
             a == run[p].copy.account
             n == run[p].copy.position
  <2>1. run[p] \in Runs /\ s \in Sessions /\ n \in Positions
    BY DEF Inv, TypeOK, Runs, Copies
  <2>2. /\ file' \in [Sessions -> Copies]
        /\ file'[s].account = a /\ file'[s].position = n
        /\ \A t \in Sessions \ {s} : file'[t] = file[t]
    BY <1>12, <2>1 DEF Inv, TypeOK, EndAuth, Copies
  <2>3. Grows
    BY <1>12 DEF EndAuth, Grows, UnchangedHistory
  <2>4. TypeOK' /\ RunsInv'
    BY <1>12, <2>2, <2>3, Ends DEF Inv, EndAuth, TypeOK, UnchangedHistory
  <2>5. 1..n \subseteq captured'[a] \cup excused'[a]
    BY <1>12 DEF Inv, RunsInv, OwnersPassedNothing, EndAuth, Connected, Own, UnchangedHistory
  <2>6. NothingPassed'
    BY <2>1, <2>2, <2>3, <2>5, OneFile
  <2> QED
    BY <2>4, <2>6 DEF Inv
<1>13. CASE OpenInbox \/ StopListening
  <2>1. run[Listener] \in Runs
    BY DEF Inv, TypeOK
  <2>2. run' \in [Procs -> Runs] /\ \A q \in Procs : run'[q].copy = run[q].copy
                                     /\ run'[q].kind = run[q].kind
    BY <1>13, <2>1 DEF Inv, TypeOK, OpenInbox, StopListening, Runs
  <2>3. TypeOK'
    BY <1>13, <2>2 DEF Inv, OpenInbox, StopListening, Goto, TypeOK, UnchangedHistory
  <2>4. Grows
    BY <1>13 DEF OpenInbox, StopListening, Grows, UnchangedHistory
  <2>5. \A q \in Procs : /\ pc'[q] \in Connected => pc[q] \in Connected
                         /\ pc[q] = "off" => pc'[q] = "off"
    BY <1>13 DEF Inv, TypeOK, OpenInbox, StopListening, Goto, Connected
  <2>6. RunsInv'
    BY <2>2, <2>4, <2>5, RunsKept
  <2> QED
    BY <1>13, <2>3, <2>4, <2>6, Kept DEF Inv, OpenInbox, StopListening
<1>14. CASE Capture
  <2> DEFINE a == run[Listener].copy.account
             n == run[Listener].copy.position + 1
  <2>1. run[Listener] \in Runs /\ a \in Accounts /\ run[Listener].kind = "listen"
    BY <1>14 DEF Inv, RunsInv, Capture, CopyOwned, ListenerListens, Connected, TypeOK
  <2>2. n \in 1..MaxSent /\ n \in Positions /\ 1..n = 1..run[Listener].copy.position \cup {n}
    <3>1. run[Listener].copy.position \in 0..MaxSent /\ sent[a] \in 0..MaxSent
      BY <2>1 DEF Inv, TypeOK, Runs, Copies, Positions
    <3>2. n <= sent[a]
      BY <1>14 DEF Capture
    <3> QED
      BY <3>1, <3>2 DEF Positions
  <2>3. PICK c \in Chats :
          run' = [run EXCEPT ![Listener].copy.position = n,
                             ![Listener].copy.entities = @ \cup {c}]
    BY <1>14 DEF Capture
  <2>4. /\ run' \in [Procs -> Runs] /\ run'[Listener].copy.position = n
        /\ run'[Listener].copy.account = a /\ run'[Listener].kind = run[Listener].kind
        /\ \A q \in Procs \ {Listener} : run'[q] = run[q]
    BY <2>1, <2>2, <2>3 DEF Inv, TypeOK, Runs, Copies
  <2>5. captured' \in [Accounts -> SUBSET (1..MaxSent)] /\ captured'[a] = captured[a] \cup {n}
    BY <1>14, <2>1, <2>2 DEF Inv, TypeOK, Capture
  <2>6. TypeOK'
    BY <1>14, <2>4, <2>5 DEF Inv, Capture, TypeOK
  <2>7. Grows
    BY <1>14 DEF Inv, TypeOK, Capture, Grows
  <2>8. pc' = pc /\ pc[Listener] \in Connected
    BY <1>14 DEF Capture, Connected
  <2>9. 1..n \subseteq captured'[a] \cup excused'[a]
    BY <2>1, <2>2, <2>5, <2>7, <2>8 DEF Inv, RunsInv, OwnersPassedNothing, Own, Grows
  <2>10. RunsInv'
    BY <2>1, <2>4, <2>7, <2>8, <2>9, OneRuns
  <2> QED
    BY <1>14, <2>6, <2>7, <2>10, Kept DEF Inv, Capture
<1>15. CASE SaveSession \/ DisconnectListener
  <2> DEFINE s == run[Listener].session
             copy == run[Listener].copy
  <2>1. /\ run[Listener] \in Runs /\ s \in Sessions /\ copy \in Copies
        /\ pc[Listener] \in Connected /\ WriteSession
    BY <1>15 DEF Inv, TypeOK, Runs, SaveSession, DisconnectListener, Connected
  <2>2. /\ file' \in [Sessions -> Copies]
        /\ file'[s].account = copy.account /\ file'[s].position = copy.position
        /\ \A t \in Sessions \ {s} : file'[t] = file[t]
    BY <2>1 DEF Inv, TypeOK, WriteSession, Copies
  <2>3. Grows
    BY <1>15 DEF SaveSession, DisconnectListener, Grows, UnchangedHistory
  <2>4. TypeOK' /\ RunsInv'
    <3>1. CASE SaveSession
      BY <2>2, <2>3, <3>1, RunsKept DEF Inv, SaveSession, TypeOK, UnchangedHistory
    <3>2. CASE DisconnectListener
      BY <2>2, <2>3, <3>2, Ends DEF Inv, DisconnectListener, TypeOK, UnchangedHistory
    <3> QED
      BY <1>15, <3>1, <3>2
  <2>5. 1..copy.position \subseteq captured'[copy.account] \cup excused'[copy.account]
    <3>1. run[Listener].kind = "listen" /\ captured' = captured /\ excused' = excused
      BY <1>15, <2>1 DEF Inv, RunsInv, ListenerListens, Connected, SaveSession,
                         DisconnectListener, UnchangedHistory
    <3> QED
      BY <2>1, <3>1 DEF Inv, RunsInv, OwnersPassedNothing, Own
  <2>6. NothingPassed'
    BY <2>1, <2>2, <2>3, <2>5, OneFile
  <2> QED
    BY <2>4, <2>6 DEF Inv
<1>16. CASE UNCHANGED vars
  <2>1. TypeOK' /\ NothingPassed'
    BY <1>16 DEF Inv, vars, TypeOK, NothingPassed
  <2>2. Grows
    BY <1>16 DEF vars, Grows
  <2> QED
    BY <1>16, <2>1, <2>2, RunsKept DEF Inv, vars
<1> QED
  BY <1>1, <1>2, <1>3, <1>4, <1>5, <1>6, <1>7, <1>8, <1>9, <1>10, <1>11, <1>12, <1>13, <1>14,
     <1>15, <1>16
  DEF Next

LEMMA SpecInv == Spec => []Inv
BY InitInv, StepInv, PTL DEF Spec

(* The type invariant.                                                     *)
THEOREM TypeCorrect == Spec => []TypeOK
<1>1. Inv => TypeOK
  BY DEF Inv
<1> QED
  BY <1>1, SpecInv, PTL

(* A session file's update position is past an uncaptured message only if  *)
(* that is from before the login or was shown to `tele auth`, or to a      *)
(* listener that had no handler yet or no longer; a command on a copy      *)
(* never moves it (_SessionSnapshot, listen_forever).                      *)
THEOREM SessionPassesNothing == Spec => []NothingPassed
<1>1. Inv => NothingPassed
  BY DEF Inv
<1> QED
  BY <1>1, SpecInv, PTL

LEMMA EntitiesStep ==
  ASSUME Inv, [Next]_vars
  PROVE  \A s \in Sessions : file[s].entities \subseteq file'[s].entities
<1>1. CASE file' = file
  BY <1>1
<1>2. ASSUME NEW p \in Procs, Login(p) \/ Merge(p) \/ EndAuth(p)
      PROVE  \A s \in Sessions : file[s].entities \subseteq file'[s].entities
  <2>1. run[p].session \in Sessions
    BY DEF Inv, TypeOK, Runs
  <2>2. CASE Login(p)
    <3>1. CASE UNCHANGED file
      BY <3>1
    <3>2. ASSUME NEW a \in Accounts,
                 file' = [file EXCEPT ![run[p].session].account = a,
                                      ![run[p].session].position = sent[a]]
          PROVE  \A s \in Sessions : file[s].entities \subseteq file'[s].entities
      BY <2>1, <3>2 DEF Inv, TypeOK, Copies
    <3> QED
      BY <2>2, <3>1, <3>2 DEF Login
  <2>3. CASE Merge(p)
    BY <2>1, <2>3 DEF Inv, TypeOK, Copies, Merge
  <2>4. CASE EndAuth(p)
    BY <2>1, <2>4 DEF Inv, TypeOK, Copies, EndAuth
  <2> QED
    BY <1>2, <2>2, <2>3, <2>4
<1>3. ASSUME NEW s \in Sessions, Terminate(s)
      PROVE  \A t \in Sessions : file[t].entities \subseteq file'[t].entities
  BY <1>3 DEF Inv, TypeOK, Copies, Terminate
<1>4. CASE SaveSession \/ DisconnectListener
  <2>1. WriteSession
    BY <1>4 DEF SaveSession, DisconnectListener
  <2> QED
    BY <2>1 DEF Inv, TypeOK, Copies, WriteSession
<1> QED
  BY <1>1, <1>2, <1>3, <1>4
  DEF Next, vars, Send, NewDatabase, Open, Connect, Register, Learn, Receive, End, OpenInbox,
      Capture, StopListening, Abort

(* Neither a command nor the listener drops entities the other one learned *)
(* (_SessionSnapshot.close, session.save).                                 *)
THEOREM SessionKeepsEntities == Spec => EntitiesKept
<1>1. Inv /\ [Next]_vars =>
        [\A s \in Sessions : file[s].entities \subseteq file'[s].entities]_vars
  BY EntitiesStep
<1> QED
  BY <1>1, SpecInv, PTL DEF Spec, EntitiesKept

-----------------------------------------------------------------------------
(* FiledUnderOwn fails once a machine has been logged in to two accounts,  *)
(* whatever the logins were for.  With one account it holds, for any       *)
(* number of session files, logins, terminations and new databases.        *)
OnlyAccount(a) == \A s \in Sessions : file[s].account \in {None, a}

(* Whatever is remembered or connected is the account, and a command that  *)
(* is about to store has one.                                              *)
OneAccount(a) ==
  /\ node \in {None, a}
  /\ \A p \in Procs :
       /\ run[p].store \in {None, a}
       /\ pc[p] \in {"connected", "registered"} => run[p].copy.account = a
       /\ pc[p] = "registered" /\ run[p].kind = "get" => run[p].store = a

LEMMA NoRunEmpty == NoRun.store = None /\ NoRun.session \in Sessions
BY SessionAssumption DEF NoRun

(* A step that changes one process leaves OneAccount as it was for others. *)
LEMMA OneMoves ==
  ASSUME NEW a, OneAccount(a), NEW p \in Procs, node' \in {None, a},
         \A q \in Procs \ {p} : pc'[q] = pc[q] /\ run'[q] = run[q],
         run'[p].store \in {None, a},
         pc'[p] \in {"connected", "registered"} => run'[p].copy.account = a,
         pc'[p] = "registered" /\ run'[p].kind = "get" => run'[p].store = a
  PROVE  OneAccount(a)'
BY DEF OneAccount

LEMMA OneStep ==
  ASSUME NEW a \in Accounts, Inv, OneAccount(a), OnlyAccount(a), OnlyAccount(a)', [Next]_vars
  PROVE  OneAccount(a)'
<1> USE SessionAssumption, ListenerProc
<1>0. /\ pc \in [Procs -> {"off", "opened", "connected", "registered", "running",
                          "stopping", "closed", "raised"}]
      /\ run \in [Procs -> Runs] /\ a # None
  BY DEF Inv, TypeOK
<1>1. CASE pc' = pc /\ run' = run /\ node' \in {None, node}
  BY <1>1 DEF OneAccount
<1>2. ASSUME NEW p \in Procs,
             \/ \E s \in Sessions, kind \in {"get", "dialogs", "status", "auth", "listen"} :
                  Open(p, kind, s)
             \/ Connect(p) \/ Login(p) \/ Register(p) \/ Learn(p) \/ Receive(p)
             \/ Merge(p) \/ End(p) \/ EndAuth(p) \/ Abort(p)
      PROVE  OneAccount(a)'
  <2> DEFINE s == run[p].session
  <2>1. s \in Sessions /\ run[p].store \in {None, a} /\ node \in {None, a}
    BY <1>0 DEF OneAccount, Runs
  <2>2. CASE Finish(p) /\ node' = node
    <3>1. /\ pc'[p] = "off" /\ run'[p].store = None
          /\ \A q \in Procs \ {p} : pc'[q] = pc[q] /\ run'[q] = run[q]
      BY <1>0, <2>2, NoRunEmpty DEF Finish
    <3> QED
      BY <2>1, <2>2, <3>1, OneMoves
  <2>3. ASSUME NEW t \in Sessions, NEW kind, Open(p, kind, t)
        PROVE  OneAccount(a)'
    <3>1. [NoRun EXCEPT !.session = t, !.kind = kind, !.store = node].store = node
      BY DEF NoRun
    <3>2. /\ pc'[p] = "opened" /\ run'[p].store = node
          /\ \A q \in Procs \ {p} : pc'[q] = pc[q] /\ run'[q] = run[q]
      BY <1>0, <2>3, <3>1 DEF Open, Goto
    <3> QED
      BY <2>1, <2>3, <3>2, OneMoves DEF Open
  <2>4. CASE Connect(p)
    <3>1. CASE Goto(p, "opened", "connected") /\ run' = [run EXCEPT ![p].copy = file[s]]
               /\ file[s].account # None
      <4>1. /\ pc'[p] = "connected" /\ run'[p].copy = file[s]
            /\ run'[p].store = run[p].store
            /\ \A q \in Procs \ {p} : pc'[q] = pc[q] /\ run'[q] = run[q]
        BY <1>0, <3>1 DEF Goto, Runs
      <4>2. file[s].account = a
        BY <2>1, <3>1 DEF OnlyAccount
      <4> QED
        BY <2>1, <2>4, <4>1, <4>2, OneMoves DEF Connect
    <3> QED
      BY <2>2, <2>4, <3>1 DEF Connect
  <2>5. CASE Login(p)
    <3>1. run' = [run EXCEPT ![p].copy = file'[s]] /\ file'[s].account # None
      <4>1. CASE file[s].account # None /\ UNCHANGED <<file, excused>>
                 /\ run' = [run EXCEPT ![p].copy = file[s]]
        BY <4>1
      <4>2. ASSUME NEW b \in Accounts,
                   file' = [file EXCEPT ![s].account = b, ![s].position = sent[b]],
                   run' = [run EXCEPT ![p].copy = file'[s]]
            PROVE  run' = [run EXCEPT ![p].copy = file'[s]] /\ file'[s].account # None
        <5>1. file'[s].account = b
          BY <2>1, <4>2 DEF Inv, TypeOK, Copies
        <5> QED
          BY <4>2, <5>1
      <4> QED
        BY <2>5, <4>1, <4>2 DEF Login
    <3>2. /\ pc'[p] = "connected" /\ run'[p].copy = file'[s]
          /\ run'[p].store = run[p].store
          /\ \A q \in Procs \ {p} : pc'[q] = pc[q] /\ run'[q] = run[q]
      BY <1>0, <2>5, <3>1 DEF Login, Goto, Runs
    <3>3. file'[s].account = a
      BY <2>1, <3>1 DEF OnlyAccount
    <3> QED
      BY <2>1, <2>5, <3>2, <3>3, OneMoves DEF Login
  <2>6. CASE Register(p)
    <3>1. /\ pc[p] = "connected" /\ pc'[p] = "registered" /\ run[p].copy.account = a
          /\ \A q \in Procs \ {p} : pc'[q] = pc[q]
      BY <1>0, <2>6 DEF Register, Goto, OneAccount
    <3>2. CASE node' = a /\ run' = [run EXCEPT ![p].store = a]
      <4>1. /\ run'[p].store = a /\ run'[p].copy = run[p].copy
            /\ \A q \in Procs \ {p} : run'[q] = run[q]
        BY <1>0, <3>2 DEF Runs
      <4> QED
        BY <3>1, <3>2, <4>1, OneMoves
    <3>3. CASE UNCHANGED <<node, run>> /\ (run[p].kind = "get" => run[p].store # None)
      BY <2>1, <3>1, <3>3, OneMoves
    <3> QED
      BY <2>6, <3>1, <3>2, <3>3 DEF Register
  <2>7. CASE Learn(p) \/ Receive(p)
    <3> DEFINE Quiet == /\ pc' = pc /\ node' = node /\ run'[p].store = run[p].store
                        /\ run'[p].kind = run[p].kind
                        /\ run'[p].copy.account = run[p].copy.account
                        /\ \A q \in Procs \ {p} : run'[q] = run[q]
    <3>0. run[p] \in Runs /\ run[p].copy \in Copies
      BY <1>0 DEF Runs
    <3>1. Quiet
      <4>1. CASE Learn(p)
        <5>1. PICK c \in Chats :
                run' = [run EXCEPT ![p].learned = @ \cup {c}, ![p].copy.entities = @ \cup {c}]
          BY <4>1 DEF Learn
        <5>2. pc' = pc /\ node' = node
          BY <4>1 DEF Learn
        <5> QED
          BY <1>0, <3>0, <5>1, <5>2 DEF Runs, Copies
      <4>2. CASE Receive(p)
        <5>1. /\ run' = [run EXCEPT ![p].copy.position = @ + 1]
              /\ pc' = pc /\ node' = node
          BY <4>2 DEF Receive
        <5> QED
          BY <1>0, <3>0, <5>1 DEF Runs, Copies
      <4> QED
        BY <2>7, <4>1, <4>2
    <3> QED
      BY <2>1, <3>1, OneMoves DEF OneAccount
  <2>8. CASE Merge(p)
    <3>1. /\ pc'[p] = "closed" /\ run' = run /\ node' = node
          /\ \A q \in Procs \ {p} : pc'[q] = pc[q]
      BY <1>0, <2>8 DEF Merge, Goto
    <3> QED
      BY <2>1, <3>1, OneMoves
  <2>9. CASE End(p)
    <3>1. CASE pc' = [pc EXCEPT ![p] = "raised"] /\ UNCHANGED run
      <4>1. pc'[p] = "raised" /\ \A q \in Procs \ {p} : pc'[q] = pc[q]
        BY <1>0, <3>1
      <4> QED
        BY <2>1, <2>9, <3>1, <4>1, OneMoves DEF End
    <3> QED
      BY <2>2, <2>9, <3>1 DEF End
  <2>10. CASE EndAuth(p) \/ Abort(p)
    BY <2>2, <2>10 DEF EndAuth, Abort
  <2> QED
    BY <1>2, <2>3, <2>4, <2>5, <2>6, <2>7, <2>8, <2>9, <2>10
<1>3. CASE OpenInbox
  <2>1. /\ pc'[Listener] = "running" /\ node' = node
        /\ run'[Listener].store = run[Listener].store
        /\ \A q \in Procs \ {Listener} : pc'[q] = pc[q] /\ run'[q] = run[q]
    BY <1>0, <1>3 DEF OpenInbox, Goto, Runs
  <2> QED
    BY <2>1, OneMoves DEF OneAccount
<1>4. CASE Capture
  <2>1. /\ pc' = pc /\ pc[Listener] = "running" /\ node' = node
        /\ run'[Listener].store = run[Listener].store
        /\ \A q \in Procs \ {Listener} : run'[q] = run[q]
    BY <1>0, <1>4 DEF Capture, Runs
  <2> QED
    BY <2>1, OneMoves DEF OneAccount
<1>5. CASE NewDatabase
  BY <1>1, <1>5 DEF NewDatabase
<1>6. CASE StopListening
  <2>1. /\ pc'[Listener] = "stopping" /\ node' = node /\ run' = run
        /\ \A q \in Procs \ {Listener} : pc'[q] = pc[q]
    BY <1>0, <1>6 DEF StopListening, Goto
  <2> QED
    BY <2>1, OneMoves DEF OneAccount
<1>7. CASE DisconnectListener
  <2>1. /\ pc'[Listener] = "off" /\ node' = node /\ run'[Listener].store = None
        /\ \A q \in Procs \ {Listener} : pc'[q] = pc[q] /\ run'[q] = run[q]
    BY <1>0, <1>7, NoRunEmpty DEF DisconnectListener, Finish
  <2> QED
    BY <2>1, OneMoves DEF OneAccount
<1> QED
  BY <1>1, <1>2, <1>3, <1>4, <1>5, <1>6, <1>7 DEF Next, vars, Send, Terminate, SaveSession

(* On a machine whose session files are only ever logged in to one         *)
(* account, commands store its messages under it (resolve_chat): the       *)
(* failures of FiledUnderOwn need a second account.                        *)
THEOREM OneAccountFiledRight ==
  ASSUME NEW a \in Accounts
  PROVE  Spec /\ []OnlyAccount(a) => []FiledUnderOwn
<1>1. Init => OneAccount(a)
  BY NoRunEmpty DEF Init, OneAccount
<1>2. Inv /\ OneAccount(a) /\ OnlyAccount(a) /\ OnlyAccount(a)' /\ [Next]_vars => OneAccount(a)'
  BY OneStep
<1>3. OneAccount(a) => FiledUnderOwn
  BY DEF OneAccount, FiledUnderOwn
<1> QED
  BY <1>1, <1>2, <1>3, SpecInv, PTL DEF Spec

(* The listener reads the account of its machine twice, for the lease and  *)
(* for the inbox (listen_forever).  With one account both reads agree with *)
(* the connection.                                                         *)
OneListener(a) ==
  /\ pc[Listener] \in {"registered", "running"} => node = a /\ run[Listener].store = a
  /\ pc[Listener] = "running" => run[Listener].inbox = a /\ run[Listener].copy.account = a

LEMMA ListenerRests ==
  ASSUME NEW a, OneListener(a), pc'[Listener] = pc[Listener], run'[Listener] = run[Listener],
         node' = node \/ node' = a
  PROVE  OneListener(a)'
BY DEF OneListener

LEMMA ListenerStep ==
  ASSUME NEW a \in Accounts, Inv, OneAccount(a), OneListener(a), [Next]_vars
  PROVE  OneListener(a)'
<1> USE ListenerProc
<1>0. /\ pc \in [Procs -> {"off", "opened", "connected", "registered", "running",
                          "stopping", "closed", "raised"}]
      /\ run \in [Procs -> Runs]
  BY DEF Inv, TypeOK
<1>1. CASE UNCHANGED <<pc, run, node>>
  BY <1>1, ListenerRests
<1>2. CASE NewDatabase
  BY <1>2 DEF NewDatabase, OneListener
<1>3. CASE OpenInbox
  <2>1. /\ pc[Listener] = "registered" /\ pc'[Listener] = "running" /\ node' = node
        /\ run'[Listener].store = run[Listener].store
        /\ run'[Listener].inbox = node
        /\ run'[Listener].copy = run[Listener].copy
    BY <1>0, <1>3 DEF OpenInbox, Goto, Runs
  <2>2. node = a /\ run[Listener].store = a /\ run[Listener].copy.account = a
    BY <2>1 DEF OneListener, OneAccount
  <2> QED
    BY <2>1, <2>2 DEF OneListener
<1>4. CASE Capture
  <2>1. /\ pc' = pc /\ node' = node
        /\ run'[Listener].store = run[Listener].store
        /\ run'[Listener].inbox = run[Listener].inbox
        /\ run'[Listener].copy.account = run[Listener].copy.account
    BY <1>0, <1>4 DEF Capture, Runs, Copies
  <2> QED
    BY <2>1 DEF OneListener
<1>5. ASSUME NEW p \in Procs,
             \/ \E s \in Sessions, kind \in {"get", "dialogs", "status", "auth", "listen"} :
                  Open(p, kind, s)
             \/ Connect(p) \/ Login(p) \/ Register(p) \/ Learn(p) \/ Receive(p)
             \/ Merge(p) \/ End(p) \/ EndAuth(p) \/ Abort(p)
      PROVE  OneListener(a)'
  <2>1. node' = node \/ node' = a
    <3>1. CASE Register(p)
      BY <3>1 DEF Register, Goto, OneAccount
    <3>2. CASE ~Register(p)
      <4>1. \A s, kind : Open(p, kind, s) => node' = node
        BY DEF Open
      <4>2. Connect(p) \/ Login(p) \/ Learn(p) \/ Receive(p) => node' = node
        BY DEF Connect, Login, Learn, Receive
      <4>3. Merge(p) \/ End(p) \/ EndAuth(p) \/ Abort(p) => node' = node
        BY DEF Merge, End, EndAuth, Abort
      <4> QED
        BY <1>5, <3>2, <4>1, <4>2, <4>3
    <3> QED
      BY <3>1, <3>2
  <2>2. CASE p # Listener
    <3>1. pc'[Listener] = pc[Listener] /\ run'[Listener] = run[Listener]
      <4>1. \A s, kind : Open(p, kind, s) => pc'[Listener] = pc[Listener]
                                            /\ run'[Listener] = run[Listener]
        BY <1>0, <2>2 DEF Open, Goto
      <4>2. Connect(p) \/ Login(p) => pc'[Listener] = pc[Listener]
                                      /\ run'[Listener] = run[Listener]
        BY <1>0, <2>2 DEF Connect, Login, Goto, Finish
      <4>3. Register(p) \/ Merge(p) => pc'[Listener] = pc[Listener]
                                       /\ run'[Listener] = run[Listener]
        BY <1>0, <2>2 DEF Register, Merge, Goto
      <4>4. Learn(p) \/ Receive(p) => pc'[Listener] = pc[Listener]
                                      /\ run'[Listener] = run[Listener]
        BY <1>0, <2>2 DEF Learn, Receive
      <4>5. End(p) \/ EndAuth(p) \/ Abort(p) => pc'[Listener] = pc[Listener]
                                                /\ run'[Listener] = run[Listener]
        BY <1>0, <2>2 DEF End, EndAuth, Abort, Finish
      <4> QED
        BY <1>5, <4>1, <4>2, <4>3, <4>4, <4>5
    <3> QED
      BY <2>1, <3>1, ListenerRests
  <2>3. CASE p = Listener
    <3>1. CASE Register(p)
      <4>1. /\ pc[p] = "connected" /\ pc'[p] = "registered" /\ run[p].kind = "listen"
            /\ run[p].copy.account = a
        BY <1>0, <2>3, <3>1 DEF Register, Goto, Inv, RunsInv, ListenerListens, OneAccount
      <4>2. node' = a /\ run' = [run EXCEPT ![p].store = a]
        BY <3>1, <4>1 DEF Register
      <4>3. run'[p].store = a
        BY <1>0, <4>2 DEF Runs
      <4> QED
        BY <2>3, <4>1, <4>2, <4>3 DEF OneListener
    <3>2. CASE Receive(p)
      <4>1. /\ run[p] \in Runs /\ run[p].copy \in Copies /\ pc' = pc /\ node' = node
            /\ run' = [run EXCEPT ![p].copy.position = @ + 1]
            /\ pc[p] # "running"
        BY <1>0, <3>2 DEF Receive, Unheard, Runs
      <4>2. run'[p].store = run[p].store
        BY <1>0, <4>1 DEF Runs
      <4> QED
        BY <2>3, <4>1, <4>2 DEF OneListener
    <3>3. CASE ~Register(p) /\ ~Receive(p)
      <4>1. pc'[p] \notin {"registered", "running"}
        <5>1. run[p].kind = "listen" \/ pc[p] = "off"
          BY <2>3 DEF Inv, RunsInv, ListenerListens
        <5>2. \A s, kind : Open(p, kind, s) => pc'[p] = "opened"
          BY <1>0 DEF Open, Goto
        <5>3. Connect(p) => pc'[p] \in {"connected", "off"}
          BY <1>0 DEF Connect, Goto, Finish
        <5>4. ~Login(p) /\ ~Learn(p) /\ ~Merge(p) /\ ~EndAuth(p)
          BY <5>1 DEF Login, Learn, Merge, EndAuth, Goto
        <5>5. End(p) \/ Abort(p) => pc'[p] \in {"raised", "off"}
          BY <1>0 DEF End, Abort, Finish
        <5> QED
          BY <1>5, <3>3, <5>2, <5>3, <5>4, <5>5
      <4> QED
        BY <2>3, <4>1 DEF OneListener
    <3> QED
      BY <3>1, <3>2, <3>3
  <2> QED
    BY <2>2, <2>3
<1>6. CASE StopListening \/ DisconnectListener
  BY <1>0, <1>6 DEF StopListening, DisconnectListener, Goto, Finish, OneListener
<1> QED
  BY <1>1, <1>2, <1>3, <1>4, <1>5, <1>6 DEF Next, vars, Send, Terminate, SaveSession

(* While the session files of a machine are only logged in to one account, *)
(* the listener captures for the account it holds the lease of, and that   *)
(* is the account it is connected as (listen_forever).                     *)
THEOREM OneAccountCapturedRight ==
  ASSUME NEW a \in Accounts
  PROVE  Spec /\ []OnlyAccount(a) =>
           [](pc[Listener] = "running" =>
                /\ run[Listener].inbox = run[Listener].store
                /\ run[Listener].store = run[Listener].copy.account)
<1>1. Init => OneAccount(a) /\ OneListener(a)
  BY NoRunEmpty, ListenerProc DEF Init, OneAccount, OneListener
<1>2. /\ Inv /\ OneAccount(a) /\ OnlyAccount(a) /\ OnlyAccount(a)' /\ [Next]_vars => OneAccount(a)'
      /\ Inv /\ OneAccount(a) /\ OneListener(a) /\ [Next]_vars => OneListener(a)'
  BY OneStep, ListenerStep
<1>3. OneListener(a) =>
        (pc[Listener] = "running" =>
           /\ run[Listener].inbox = run[Listener].store
           /\ run[Listener].store = run[Listener].copy.account)
  BY DEF OneListener
<1> QED
  BY <1>1, <1>2, <1>3, SpecInv, PTL DEF Spec
=============================================================================
