------------------------- MODULE SyncCoverageProofs -------------------------
(* What holds of SyncCoverage, and of its answers (SyncAnswers), for any   *)
(* getters, limits and message IDs.                                        *)
EXTENDS SyncAnswers, FiniteSetTheorems, TLAPS

USE LimitsAssumption, MaxIdAssumption

(* add_range stores one well-formed row in the place of those it replaces: *)
(* what was covered stays covered and nothing else becomes covered.        *)
LEMMA AddRangeCovers ==
  ASSUME ranges \subseteq Ranges, NEW cover \in Ranges, AddRange(cover)
  PROVE  /\ ranges' \subseteq Ranges
         /\ \A r \in ranges \cup {cover} : \E s \in ranges' : s.lo <= r.lo /\ r.hi <= s.hi
         /\ \A s \in ranges', x \in Nat : s.lo <= x /\ x <= s.hi =>
              \E r \in ranges \cup {cover} : r.lo <= x /\ x <= r.hi
<1> DEFINE joined == {r \in ranges : r.lo <= cover.hi /\ r.hi >= cover.lo} \cup {cover}
<1>1. PICK a \in joined, b \in joined :
        /\ \A r \in joined : a.lo <= r.lo /\ r.hi <= b.hi
        /\ ranges' = (ranges \ joined) \cup {[lo |-> a.lo, hi |-> b.hi]}
  BY DEF AddRange
<1> DEFINE new == [lo |-> a.lo, hi |-> b.hi]
<1>2. joined \subseteq Ranges
  OBVIOUS
<1>3. new \in Ranges /\ new.lo = a.lo /\ new.hi = b.hi
  BY <1>1, <1>2 DEF Ranges
<1>4. ASSUME NEW x \in Nat, new.lo <= x, x <= new.hi
      PROVE  \E r \in ranges \cup {cover} : r.lo <= x /\ x <= r.hi
  <2>1. CASE x < cover.lo
    BY <2>1, <1>2, <1>3, <1>4 DEF Ranges
  <2>2. CASE x > cover.hi
    BY <2>2, <1>2, <1>3, <1>4 DEF Ranges
  <2>3. CASE cover.lo <= x /\ x <= cover.hi
    BY <2>3
  <2> QED
    BY <2>1, <2>2, <2>3 DEF Ranges
<1>5. ranges' \subseteq Ranges
  BY <1>1, <1>3
<1>6. \A r \in ranges \cup {cover} : \E s \in ranges' : s.lo <= r.lo /\ r.hi <= s.hi
  <2> SUFFICES ASSUME NEW r \in ranges \cup {cover}
               PROVE  \E s \in ranges' : s.lo <= r.lo /\ r.hi <= s.hi
    OBVIOUS
  <2>1. CASE r \in joined
    BY <2>1, <1>1, <1>3
  <2>2. CASE r \notin joined
    BY <2>2, <1>1 DEF Ranges
  <2> QED
    BY <2>1, <2>2
<1> QED
  BY <1>1, <1>4, <1>5, <1>6

(* add_range keeps the rows of sync_ranges pairwise disjoint.              *)
LEMMA AddRangeDisjoint ==
  ASSUME ranges \subseteq Ranges, NEW cover \in Ranges, AddRange(cover), RangesDisjoint
  PROVE  RangesDisjoint'
<1> DEFINE joined == {r \in ranges : r.lo <= cover.hi /\ r.hi >= cover.lo} \cup {cover}
<1>1. PICK a \in joined, b \in joined :
        /\ \A r \in joined : a.lo <= r.lo /\ r.hi <= b.hi
        /\ ranges' = (ranges \ joined) \cup {[lo |-> a.lo, hi |-> b.hi]}
  BY DEF AddRange
<1> DEFINE new == [lo |-> a.lo, hi |-> b.hi]
<1>2. joined \subseteq Ranges /\ new.lo = a.lo /\ new.hi = b.hi
  OBVIOUS
<1>3. ASSUME NEW r \in ranges \ joined
      PROVE  r.hi < new.lo \/ new.hi < r.lo
  <2>1. r.hi < cover.lo \/ cover.hi < r.lo
    BY DEF Ranges
  <2>2. a = cover \/ r.hi < a.lo \/ a.hi < r.lo
    BY DEF RangesDisjoint
  <2>3. b = cover \/ r.hi < b.lo \/ b.hi < r.lo
    BY DEF RangesDisjoint
  <2>4. /\ r.lo \in Nat /\ r.hi \in Nat /\ r.lo <= r.hi
        /\ a.lo \in Nat /\ a.hi \in Nat /\ a.lo <= a.hi
        /\ b.lo \in Nat /\ b.hi \in Nat /\ b.lo <= b.hi
        /\ cover.lo \in Nat /\ cover.hi \in Nat /\ cover.lo <= cover.hi
    BY <1>2 DEF Ranges
  <2>5. /\ a.lo <= cover.lo /\ a.hi >= cover.lo /\ a.lo <= cover.hi
        /\ b.hi >= cover.hi /\ b.lo <= cover.hi /\ b.hi >= cover.lo
    BY <1>1, <2>4
  <2> QED
    BY <2>1, <2>2, <2>3, <2>4, <2>5, <1>2
<1> QED
  BY <1>1, <1>3 DEF RangesDisjoint

-----------------------------------------------------------------------------
(* Type correctness needs one fact more: what `older` fetched lies below   *)
(* the range it extends, so that the range it stores is well formed.       *)
OlderBelow ==
  \A g \in Getters : pc[g] = "olderSave" =>
    \A b \in run[g].batch : b < run[g].span.lo

TypeInv == TypeOK /\ OlderBelow

LEMMA CallTyped ==
  ASSUME NEW n \in Limits, NEW c \in BOOLEAN
  PROVE  Call(n, c) \in Runs
BY DEF Call, Runs, NoRange, Ranges

(* Every record a step builds from a typed one by reading the store or     *)
(* Telegram is typed, and so is what a transaction saves.                  *)
LEMMA SaveTyped ==
  ASSUME TypeOK, NEW batch \in SUBSET Ids, NEW lo \in Nat, NEW hi \in Nat, lo <= hi,
         NEW from, NEW to, Save(batch, from, to, lo, hi)
  PROVE  messages' \subseteq Ids /\ ranges' \subseteq Ranges
<1>1. [lo |-> lo, hi |-> hi] \in Ranges
  BY DEF Ranges
<1> QED
  BY <1>1, AddRangeCovers DEF Save, TypeOK

LEMMA TypeStep == TypeInv /\ [Next]_vars => TypeInv'
<1> SUFFICES ASSUME TypeInv, [Next]_vars
             PROVE  TypeInv'
  OBVIOUS
<1> USE DEF TypeInv
<1>1. CASE Arrive
  BY <1>1 DEF Arrive, TypeOK, OlderBelow, store, Ids
<1>2. ASSUME NEW m \in Ids, Delete(m)
      PROVE  TypeInv'
  BY <1>2 DEF Delete, TypeOK, OlderBelow, store
<1>3. ASSUME NEW m \in Ids, Capture(m)
      PROVE  TypeInv'
  BY <1>3 DEF Capture, TypeOK, OlderBelow, chat
<1>4. ASSUME NEW g \in Getters, Step(g)
      PROVE  TypeInv'
  <2>0. /\ run[g] \in Runs /\ run[g].limit \in Limits /\ run[g].online \in BOOLEAN
        /\ run[g].mark \in Nat /\ run[g].span \in Ranges /\ run[g].batch \subseteq Ids
        /\ run[g].want \in Int
    BY DEF TypeOK, Runs
  <2>1. ASSUME NEW c \in BOOLEAN
        PROVE  Call(run[g].limit, c) \in Runs
    BY <2>0, CallTyped
  <2>19. ASSUME NEW to \in Steps \ {"olderSave"}, pc' = [pc EXCEPT ![g] = to],
                NEW r \in Runs, run' = [run EXCEPT ![g] = r]
         PROVE  pc' \in [Getters -> Steps] /\ run' \in [Getters -> Runs] /\ OlderBelow'
    BY <2>19 DEF TypeOK, OlderBelow
  <2>20. Missing(g) \in Int
    <3>1. IsFiniteSet(Ids)
      BY FS_Interval DEF Ids
    <3>2. Held(run[g].span) \in SUBSET Ids
      BY DEF TypeOK, Held
    <3>3. Cardinality(Held(run[g].span)) \in Nat
      BY <3>1, <3>2, FS_Subset, FS_CardinalityType
    <3>4. run[g].limit \in Nat
      BY <2>0
    <3> QED
      BY <3>3, <3>4 DEF Missing
  <2>2. CASE Begin(g)
    BY <2>2, CallTyped DEF Begin, TypeOK, OlderBelow, Steps, chat, store
  <2>3. CASE Abort(g)
    BY <2>3, <2>1 DEF Abort, Return, TypeOK, OlderBelow, Steps, chat, store
  <2>4. CASE FreshState(g)
    <3>1. CASE NotLocal(g, "state")
      BY <3>1, <2>0, <2>1, <2>4, <2>19 DEF FreshState, NotLocal, Goto, Return, Steps, chat, store, TypeOK
    <3>2. CASE /\ head # NoHead
               /\ Goto(g, "state", "newest")
               /\ run' = [run EXCEPT ![g].mark = head]
      <4>1. [run[g] EXCEPT !.mark = head] \in Runs
        BY <3>2, <2>0 DEF Runs, TypeOK
      <4> QED
        BY <3>2, <4>1, <2>4, <2>19 DEF FreshState, Goto, Steps, chat, store, TypeOK
    <3> QED
      BY <3>1, <3>2, <2>4 DEF FreshState
  <2>5. CASE FreshNewest(g)
    BY <2>5, <2>0, <2>1 DEF FreshNewest, NotLocal, Goto, Return, TypeOK, OlderBelow, Steps, chat, store
  <2>6. CASE CoversRange(g)
    <3>1. CASE NotLocal(g, "covers")
      BY <3>1, <2>0, <2>1, <2>6, <2>19 DEF CoversRange, NotLocal, Goto, Return, Steps, chat, store, TypeOK
    <3>2. ASSUME NEW r \in HeadRanges,
                 Goto(g, "covers", IF r.lo = 0 THEN "window" ELSE "count"),
                 run' = [run EXCEPT ![g].span = r]
          PROVE  TypeInv'
      <4>1. [run[g] EXCEPT !.span = r] \in Runs
        BY <3>2, <2>0 DEF Runs, TypeOK, HeadRanges
      <4> QED
        BY <3>2, <4>1, <2>6, <2>19 DEF CoversRange, Goto, Steps, chat, store, TypeOK
    <3> QED
      BY <3>1, <3>2, <2>6 DEF CoversRange
  <2>7. CASE CoversCount(g)
    BY <2>7, <2>1 DEF CoversCount, NotLocal, Goto, Return, TypeOK, OlderBelow, Steps, chat, store
  <2>8. CASE WindowRange(g)
    BY <2>8, <2>1 DEF WindowRange, Goto, TypeOK, OlderBelow, Steps, chat, store, Runs, HeadRanges, NoRange, Ranges
  <2>9. CASE WindowRows(g)
    <3>1. CASE UNCHANGED run
      BY <3>1, <2>9 DEF WindowRows, Goto, NotLocal, TypeOK, OlderBelow, Steps, chat, store
    <3>2. CASE NotLocal(g, "rows")
      BY <3>2, <2>0, <2>1, <2>9, <2>19 DEF WindowRows, NotLocal, Goto, Return, Steps, chat, store, TypeOK
    <3>3. ASSUME NEW batch \in SUBSET messages, Goto(g, "rows", "done"),
                 run' = [run EXCEPT ![g].batch = batch]
          PROVE  TypeInv'
      <4>1. [run[g] EXCEPT !.batch = batch] \in Runs
        BY <3>3, <2>0 DEF Runs, TypeOK
      <4> QED
        BY <3>3, <4>1, <2>9, <2>19 DEF WindowRows, Goto, Steps, chat, store, TypeOK
    <3> QED
      BY <3>1, <3>2, <3>3, <2>9 DEF WindowRows
  <2>10. CASE NewerFrom(g)
    BY <2>10 DEF NewerFrom, Goto, TypeOK, OlderBelow, Steps, chat, store, Runs, HeadRanges, NoHead, Ranges
  <2>11. CASE NewerFetch(g)
    BY <2>11 DEF NewerFetch, Goto, TypeOK, OlderBelow, Steps, chat, store, Runs
  <2>12. CASE NewerSave(g)
    <3>1. PICK low \in run[g].batch \cup {run[g].mark}, newest \in run[g].batch \cup {run[g].mark} :
            /\ LowEnd(low, run[g].batch, run[g].limit, run[g].mark)
            /\ HighEnd(newest, run[g].batch, run[g].mark)
            /\ \E from : Save(run[g].batch, from, MaxMessageId, low, newest)
            /\ head' = newest
      BY <2>12 DEF NewerSave
    <3>2. low \in Nat /\ newest \in Nat /\ low <= newest
      BY <2>0, <3>1 DEF HighEnd, IsHighest, Ids
    <3>3. messages' \subseteq Ids /\ ranges' \subseteq Ranges
      BY <3>1, <3>2, <2>0, SaveTyped
    <3> QED
      BY <2>12, <2>1, <2>19, <3>1, <3>2, <3>3 DEF NewerSave, Goto, Return, Steps, chat, TypeOK
  <2>13. CASE OlderRange(g)
    BY <2>13 DEF OlderRange, Goto, TypeOK, OlderBelow, Steps, chat, store, Runs, HeadRanges
  <2>14. CASE OlderCount(g)
    <3>1. [run[g] EXCEPT !.want = Missing(g)] \in Runs
      BY <2>0, <2>20 DEF Runs
    <3> QED
      BY <2>14, <2>19, <3>1 DEF OlderCount, Goto, Steps, chat, store, TypeOK
  <2>15. CASE OlderFetch(g)
    BY <2>15 DEF OlderFetch, Goto, TypeOK, OlderBelow, Steps, chat, store, Runs, IsNewest
  <2>16. CASE OlderSave(g)
    <3>1. PICK low \in run[g].batch \cup {0} :
            /\ LowEnd(low, run[g].batch, run[g].want, 0)
            /\ Save(run[g].batch, low, run[g].span.lo - 1, low, run[g].span.lo)
      BY <2>16 DEF OlderSave
    <3>2. low \in Nat /\ low <= run[g].span.lo /\ run[g].span.lo \in Nat
      BY <2>0, <2>16 DEF OlderSave, Goto, OlderBelow, Ids, Ranges
    <3>3. messages' \subseteq Ids /\ ranges' \subseteq Ranges
      BY <3>1, <3>2, <2>0, SaveTyped
    <3> QED
      BY <2>16, <2>1, <2>19, <3>3 DEF OlderSave, Goto, Return, Steps, chat, TypeOK
  <2>17. CASE RefreshFetch(g)
    BY <2>17 DEF RefreshFetch, Goto, TypeOK, OlderBelow, Steps, chat, store, Runs
  <2>18. CASE RefreshSave(g)
    <3>1. PICK low \in run[g].batch \cup {0}, newest \in run[g].batch \cup {0} :
            /\ LowEnd(low, run[g].batch, run[g].limit, 0)
            /\ HighEnd(newest, run[g].batch, 0)
            /\ \E from : Save(run[g].batch, from, MaxMessageId, low, newest)
            /\ head' = newest
      BY <2>18 DEF RefreshSave
    <3>2. low \in Nat /\ newest \in Nat /\ low <= newest
      BY <2>0, <3>1 DEF HighEnd, IsHighest, Ids
    <3>3. messages' \subseteq Ids /\ ranges' \subseteq Ranges
      BY <3>1, <3>2, <2>0, SaveTyped
    <3> QED
      BY <2>18, <2>1, <2>19, <3>1, <3>2, <3>3 DEF RefreshSave, Goto, Return, Steps, chat, TypeOK
  <2> QED
    BY <1>4, <2>2, <2>3, <2>4, <2>5, <2>6, <2>7, <2>8, <2>9, <2>10, <2>11, <2>12,
       <2>13, <2>14, <2>15, <2>16, <2>17, <2>18 DEF Step
<1>5. CASE UNCHANGED vars
  BY <1>5 DEF vars, TypeOK, OlderBelow
<1> QED
  BY <1>1, <1>2, <1>3, <1>4, <1>5 DEF Next

LEMMA InitTyped == Init => TypeInv
<1> SUFFICES ASSUME Init
             PROVE  TypeInv
  OBVIOUS
<1>1. run \in [Getters -> Runs]
  BY CallTyped DEF Init
<1> QED
  BY <1>1 DEF Init, TypeInv, TypeOK, OlderBelow, Steps

(* Every reachable state is well typed, for any getters and limits.        *)
THEOREM TypeCorrect == Spec => []TypeOK
<1> QED
  BY InitTyped, TypeStep, PTL DEF Spec, TypeInv

-----------------------------------------------------------------------------
(* sync_ranges and the head change only inside _save, by one add_range; a  *)
(* new head always lies in the cover stored with it.                       *)
StoresCover ==
  \E lo, hi \in Nat :
    /\ lo <= hi
    /\ AddRange([lo |-> lo, hi |-> hi])
    /\ head' = head \/ (head' \in Nat /\ lo <= head' /\ head' <= hi)

LEMMA CoverageStep ==
  ASSUME TypeInv, [Next]_vars
  PROVE  StoresCover \/ UNCHANGED <<ranges, head>>
<1>1. ASSUME NEW g \in Getters, Step(g)
      PROVE  StoresCover \/ UNCHANGED <<ranges, head>>
  <2>0. /\ run[g].mark \in Nat /\ run[g].span \in Ranges /\ run[g].batch \subseteq Ids
    BY DEF TypeInv, TypeOK, Runs
  <2>1. CASE NewerSave(g)
    <3>1. PICK low \in run[g].batch \cup {run[g].mark}, newest \in run[g].batch \cup {run[g].mark} :
            /\ HighEnd(newest, run[g].batch, run[g].mark)
            /\ AddRange([lo |-> low, hi |-> newest])
            /\ head' = newest
      BY <2>1 DEF NewerSave, Save
    <3> QED
      BY <3>1, <2>0 DEF HighEnd, IsHighest, Ids, StoresCover
  <2>2. CASE OlderSave(g)
    <3>1. PICK low \in run[g].batch \cup {0} :
            AddRange([lo |-> low, hi |-> run[g].span.lo])
      BY <2>2 DEF OlderSave, Save
    <3>2. low \in Nat /\ run[g].span.lo \in Nat /\ low <= run[g].span.lo /\ head' = head
      BY <2>0, <2>2 DEF OlderSave, Goto, TypeInv, OlderBelow, Ids, Ranges
    <3> QED
      BY <3>1, <3>2 DEF StoresCover
  <2>3. CASE RefreshSave(g)
    <3>1. PICK low \in run[g].batch \cup {0}, newest \in run[g].batch \cup {0} :
            /\ HighEnd(newest, run[g].batch, 0)
            /\ AddRange([lo |-> low, hi |-> newest])
            /\ head' = newest
      BY <2>3 DEF RefreshSave, Save
    <3> QED
      BY <3>1, <2>0 DEF HighEnd, IsHighest, Ids, StoresCover
  <2>4. CASE UNCHANGED store
    BY <2>4 DEF store
  <2> QED
    BY <1>1, <2>1, <2>2, <2>3, <2>4 DEF Step, Begin, Abort, FreshState, FreshNewest,
       CoversRange, CoversCount, WindowRange, WindowRows, NewerFrom, NewerFetch,
       OlderRange, OlderCount, OlderFetch, RefreshFetch
<1> QED
  BY <1>1 DEF Next, Arrive, Delete, Capture, vars, store

(* For any number of overlapping getters, sync_ranges stays pairwise       *)
(* disjoint.                                                               *)
THEOREM RangesStayDisjoint == Spec => []RangesDisjoint
<1>1. Init => TypeInv /\ RangesDisjoint
  BY InitTyped DEF Init, RangesDisjoint
<1>2. TypeInv /\ RangesDisjoint /\ [Next]_vars => (TypeInv /\ RangesDisjoint)'
  <2> SUFFICES ASSUME TypeInv, RangesDisjoint, [Next]_vars
               PROVE  TypeInv' /\ RangesDisjoint'
    OBVIOUS
  <2>1. ASSUME NEW lo \in Nat, NEW hi \in Nat, lo <= hi, AddRange([lo |-> lo, hi |-> hi])
        PROVE  RangesDisjoint'
    <3>1. [lo |-> lo, hi |-> hi] \in Ranges /\ ranges \subseteq Ranges
      BY <2>1 DEF Ranges, TypeInv, TypeOK
    <3> QED
      BY <2>1, <3>1, AddRangeDisjoint
  <2> QED
    BY <2>1, TypeStep, CoverageStep DEF StoresCover, RangesDisjoint
<1> QED
  BY <1>1, <1>2, PTL DEF Spec

(* For any number of overlapping getters, the head lies in a stored range. *)
THEOREM HeadStaysCovered == Spec => []HeadCovered
<1>1. Init => TypeInv /\ HeadCovered
  BY InitTyped DEF Init, HeadCovered
<1>2. TypeInv /\ HeadCovered /\ [Next]_vars => (TypeInv /\ HeadCovered)'
  <2> SUFFICES ASSUME TypeInv, HeadCovered, [Next]_vars
               PROVE  HeadCovered'
    BY TypeStep
  <2>1. CASE StoresCover
    <3>1. PICK lo \in Nat, hi \in Nat :
            /\ lo <= hi
            /\ AddRange([lo |-> lo, hi |-> hi])
            /\ head' = head \/ (head' \in Nat /\ lo <= head' /\ head' <= hi)
      BY <2>1 DEF StoresCover
    <3>2. [lo |-> lo, hi |-> hi] \in Ranges /\ ranges \subseteq Ranges
      BY <3>1 DEF Ranges, TypeInv, TypeOK
    <3>3. /\ ranges' \subseteq Ranges
          /\ \A r \in ranges \cup {[lo |-> lo, hi |-> hi]} :
               \E s \in ranges' : s.lo <= r.lo /\ r.hi <= s.hi
      BY <3>1, <3>2, AddRangeCovers
    <3>4. ASSUME head' = head, head # NoHead
          PROVE  HeadRanges' # {}
      <4>1. PICK r \in ranges : r.lo <= head /\ head <= r.hi
        BY <3>4 DEF HeadCovered, HeadRanges
      <4>2. PICK s \in ranges' : s.lo <= r.lo /\ r.hi <= s.hi
        BY <3>3
      <4>3. s.lo <= head /\ head <= s.hi
        BY <3>2, <3>3, <3>4, <4>1, <4>2 DEF Ranges, TypeInv, TypeOK
      <4> QED
        BY <3>4, <4>3 DEF HeadRanges
    <3>5. ASSUME head' \in Nat, lo <= head', head' <= hi
          PROVE  HeadRanges' # {}
      <4> DEFINE cover == [lo |-> lo, hi |-> hi]
      <4>0. \E s \in ranges' : s.lo <= cover.lo /\ cover.hi <= s.hi
        BY <3>3
      <4>1. PICK s \in ranges' : s.lo <= lo /\ hi <= s.hi
        BY <4>0
      <4>2. s.lo <= head' /\ head' <= s.hi
        BY <3>3, <3>5, <4>1 DEF Ranges
      <4> QED
        BY <4>2 DEF HeadRanges
    <3> QED
      BY <3>1, <3>4, <3>5 DEF HeadCovered
  <2>2. CASE UNCHANGED <<ranges, head>>
    BY <2>2 DEF HeadCovered, HeadRanges
  <2> QED
    BY <2>1, <2>2, CoverageStep
<1> QED
  BY <1>1, <1>2, PTL DEF Spec

-----------------------------------------------------------------------------
(* With one getter, nothing touches sync_ranges between its reads and its  *)
(* save.  What it fetched is then all that is live where its save deletes  *)
(* and covers, up to messages newer than every stored range.               *)
SoleGetter == \A g, h \in Getters : g = h

Covered(m) == \E r \in ranges : r.lo <= m /\ m <= r.hi

IdsAssigned ==
  /\ telegram \subseteq 1..last
  /\ \A r \in ranges : r.hi <= last

FetchedNewest(g) ==
  /\ \A b \in run[g].batch : run[g].mark < b /\ b <= last
  /\ \A m \in telegram \ run[g].batch : m > run[g].mark =>
       \/ ~Covered(m) /\ \A b \in run[g].batch : b < m
       \/ ~(Cardinality(run[g].batch) < run[g].limit) /\ \A b \in run[g].batch : m < b

FetchedOlder(g) ==
  \A m \in telegram \ run[g].batch : m < run[g].span.lo =>
    ~(Cardinality(run[g].batch) < run[g].want) /\ \A b \in run[g].batch : m < b

SoleInv ==
  /\ IdsAssigned
  /\ \A g \in Getters :
       /\ pc[g] \in {"newerFetch", "newerSave"} => run[g].mark = 0 \/ Covered(run[g].mark)
       /\ pc[g] \in {"refresh", "refreshSave"} => run[g].mark = 0
       /\ pc[g] \in {"newerSave", "refreshSave"} => FetchedNewest(g)
       /\ pc[g] \in {"olderCount", "olderFetch", "olderSave"} => run[g].span \in ranges
       /\ pc[g] = "olderSave" => FetchedOlder(g)

(* When a save deletes no live message of a stored range and every live    *)
(* message of its cover is stored afterwards, no range gains a hole.       *)
LEMMA SaveGapFree ==
  ASSUME TypeOK, RangesGapFree, telegram' = telegram,
         NEW batch \in SUBSET Ids, NEW lo \in Nat, NEW hi \in Nat, lo <= hi,
         NEW from \in Int, NEW to \in Int, Save(batch, from, to, lo, hi),
         \A m \in telegram \ batch : Covered(m) => ~(from <= m /\ m <= to),
         \A m \in telegram \ batch : lo <= m /\ m <= hi =>
           m \in messages /\ ~(from <= m /\ m <= to)
  PROVE  RangesGapFree'
<1> SUFFICES ASSUME NEW s \in ranges', NEW m \in telegram, s.lo <= m, m <= s.hi,
                    m \notin batch
             PROVE  m \in messages /\ m \notin from..to
  BY DEF RangesGapFree, Save
<1> DEFINE cover == [lo |-> lo, hi |-> hi]
<1>1. cover \in Ranges /\ cover.lo = lo /\ cover.hi = hi /\ ranges \subseteq Ranges /\ m \in Nat
  BY DEF Ranges, TypeOK, Ids
<1>2. PICK r \in ranges \cup {cover} : r.lo <= m /\ m <= r.hi
  BY <1>1, AddRangeCovers DEF Save
<1>3. CASE r \in ranges
  BY <1>1, <1>2, <1>3 DEF RangesGapFree, Covered
<1>4. CASE r = cover
  BY <1>1, <1>2, <1>4
<1> QED
  BY <1>2, <1>3, <1>4

(* The ranges a save leaves end at an assigned ID again.                   *)
LEMMA SaveAssigned ==
  ASSUME TypeOK, IdsAssigned, UNCHANGED chat,
         NEW batch, NEW from, NEW to, NEW lo \in Nat, NEW hi \in Nat, lo <= hi, hi <= last,
         Save(batch, from, to, lo, hi)
  PROVE  IdsAssigned'
<1> DEFINE cover == [lo |-> lo, hi |-> hi]
<1>1. cover \in Ranges /\ cover.hi = hi /\ ranges \subseteq Ranges
  BY DEF Ranges, TypeOK
<1>2. ASSUME NEW s \in ranges'
      PROVE  s.hi <= last
  <2>1. s \in Ranges /\ s.lo <= s.hi /\ s.hi \in Nat
    BY <1>1, AddRangeCovers DEF Save, Ranges
  <2>2. PICK r \in ranges \cup {cover} : r.lo <= s.hi /\ s.hi <= r.hi
    BY <1>1, <2>1, AddRangeCovers DEF Save
  <2> QED
    BY <1>1, <2>1, <2>2 DEF IdsAssigned, Ranges, TypeOK
<1> QED
  BY <1>2 DEF IdsAssigned, chat

GapInv == TypeInv /\ SoleInv /\ RangesGapFree

(* The save of a fetch above `mark`, whichever of newer and refresh it is. *)
LEMMA SaveNewest ==
  ASSUME GapInv, UNCHANGED chat, NEW g \in Getters, FetchedNewest(g),
         run[g].mark = 0 \/ Covered(run[g].mark),
         NEW low \in run[g].batch \cup {run[g].mark},
         NEW newest \in run[g].batch \cup {run[g].mark},
         LowEnd(low, run[g].batch, run[g].limit, run[g].mark),
         HighEnd(newest, run[g].batch, run[g].mark),
         NEW from \in Int, low <= from, run[g].mark = 0 \/ run[g].mark < from,
         Save(run[g].batch, from, MaxMessageId, low, newest)
  PROVE  RangesGapFree' /\ IdsAssigned'
<1> DEFINE mark == run[g].mark
           batch == run[g].batch
<1>0. /\ mark \in Nat /\ batch \subseteq Ids /\ last \in Nat /\ MaxMessageId \in Int
      /\ \A x \in batch \cup telegram : x \in Nat /\ x # 0
  BY DEF GapInv, TypeInv, TypeOK, Runs, Ids
<1>1. /\ low \in Nat /\ newest \in Nat /\ low <= newest /\ newest <= last /\ mark <= newest
      /\ \A b \in batch : b <= newest /\ low <= b
  <2>1. mark <= last
    <3>1. CASE mark = 0
      BY <3>1, <1>0
    <3>2. CASE Covered(mark)
      <4>1. PICK r \in ranges : mark <= r.hi
        BY <3>2 DEF Covered
      <4> QED
        BY <4>1, <1>0 DEF GapInv, TypeInv, TypeOK, SoleInv, IdsAssigned, Ranges
    <3> QED
      BY <3>1, <3>2
  <2>2. \A b \in batch : b \in Nat /\ mark < b /\ b <= last
    BY <1>0 DEF FetchedNewest
  <2>3. newest \in Nat /\ mark <= newest /\ newest <= last /\ \A b \in batch : b <= newest
    BY <1>0, <2>1, <2>2 DEF HighEnd, IsHighest
  <2>4. low \in Nat /\ low <= newest /\ \A b \in batch : low <= b
    BY <1>0, <2>2, <2>3 DEF LowEnd, IsLowest
  <2> QED
    BY <2>3, <2>4
<1>2. IdsAssigned'
  BY <1>0, <1>1, SaveAssigned DEF GapInv, TypeInv, SoleInv
<1>3. ASSUME NEW m \in telegram \ batch, m > mark
      PROVE  \/ ~Covered(m) /\ newest < m
             \/ m < low
  BY <1>0, <1>1, <1>3 DEF FetchedNewest, LowEnd, IsLowest
<1>4. ASSUME NEW m \in telegram \ batch, m <= mark
      PROVE  mark < from
  BY <1>0, <1>4
<1>5. ASSUME NEW m \in telegram \ batch, Covered(m)
      PROVE  ~(from <= m /\ m <= MaxMessageId)
  BY <1>0, <1>1, <1>3, <1>4, <1>5
<1>6. ASSUME NEW m \in telegram \ batch, low <= m, m <= newest
      PROVE  m \in messages /\ ~(from <= m /\ m <= MaxMessageId)
  <2>1. m <= mark /\ mark < from
    BY <1>0, <1>1, <1>3, <1>4, <1>6
  <2>2. low = mark
    <3>1. m \in Nat
      BY <1>0
    <3>2. \A b \in batch : mark < b
      BY DEF FetchedNewest
    <3> QED
      BY <1>0, <1>1, <1>6, <2>1, <3>1, <3>2
  <2>3. m = mark /\ m # 0
    BY <1>0, <1>6, <2>1, <2>2
  <2> QED
    BY <1>0, <2>1, <2>3 DEF GapInv, RangesGapFree, Covered
<1> QED
  BY <1>0, <1>1, <1>2, <1>5, <1>6, SaveGapFree DEF GapInv, TypeInv, chat

(* The save of a fetch below the head range.                               *)
LEMMA SaveOlder ==
  ASSUME GapInv, UNCHANGED chat, NEW g \in Getters, FetchedOlder(g),
         \A b \in run[g].batch : b < run[g].span.lo, run[g].span \in ranges,
         NEW low \in run[g].batch \cup {0}, LowEnd(low, run[g].batch, run[g].want, 0),
         Save(run[g].batch, low, run[g].span.lo - 1, low, run[g].span.lo)
  PROVE  RangesGapFree' /\ IdsAssigned'
<1> DEFINE start == run[g].span.lo
           batch == run[g].batch
<1>0. /\ start \in Nat /\ batch \subseteq Ids /\ last \in Nat
      /\ \A x \in batch \cup telegram : x \in Nat /\ x # 0
      /\ start <= run[g].span.hi /\ run[g].span.hi \in Nat
  BY DEF GapInv, TypeInv, TypeOK, Runs, Ids, Ranges
<1>1. low \in Nat /\ low <= start /\ start <= last
  <2>1. run[g].span.hi <= last
    BY DEF GapInv, SoleInv, IdsAssigned
  <2>2. low \in Nat /\ low <= start
    BY <1>0
  <2> QED
    BY <1>0, <2>1, <2>2
<1>2. IdsAssigned'
  BY <1>0, <1>1, SaveAssigned DEF GapInv, TypeInv, SoleInv
<1>3. ASSUME NEW m \in telegram \ batch, low <= m
      PROVE  start <= m
  <2>0. m \in Nat
    BY <1>0
  <2> SUFFICES ASSUME m < start
               PROVE  FALSE
    BY <1>0, <2>0
  <2>1. ~(Cardinality(batch) < run[g].want) /\ \A b \in batch : m < b
    BY DEF FetchedOlder
  <2>2. low \in batch
    BY <2>1 DEF LowEnd, IsLowest
  <2> QED
    BY <1>1, <1>3, <2>0, <2>1, <2>2
<1>4. ASSUME NEW m \in telegram \ batch, low <= m, m <= start
      PROVE  m \in messages
  BY <1>0, <1>3, <1>4 DEF GapInv, RangesGapFree
<1> QED
  BY <1>0, <1>1, <1>2, <1>3, <1>4, SaveGapFree DEF GapInv, TypeInv, chat

(* The reads and fetches of the only getter establish what its save needs. *)
LEMMA SoleLocalStep ==
  ASSUME SoleGetter, GapInv, NEW g \in Getters, Step(g), UNCHANGED <<chat, store>>
  PROVE  SoleInv'
<1>0. \A h \in Getters : h = g
  BY DEF SoleGetter
<1>1. /\ run[g] \in Runs /\ pc[g] \in Steps /\ run[g].limit \in Nat /\ run[g].want \in Int
      /\ run[g].mark \in Nat
      /\ pc \in [Getters -> Steps] /\ run \in [Getters -> Runs]
  BY DEF GapInv, TypeInv, TypeOK, Runs
<1>2. IdsAssigned' /\ \A m : Covered(m)' <=> Covered(m)
  BY DEF GapInv, SoleInv, IdsAssigned, Covered, chat, store
<1>3. ASSUME pc'[g] \in Steps \ {"newerFetch", "newerSave", "refreshSave", "olderCount",
                                 "olderFetch", "olderSave"},
             pc'[g] = "refresh" => run'[g].mark = 0
      PROVE  SoleInv'
  BY <1>0, <1>2, <1>3 DEF SoleInv, Steps
<1>4. CASE Begin(g)
  BY <1>1, <1>3, <1>4 DEF Begin, Call, Steps
<1>5. CASE Abort(g)
  BY <1>1, <1>3, <1>5 DEF Abort, Steps
<1>6. CASE FreshState(g) \/ FreshNewest(g) \/ CoversRange(g) \/ CoversCount(g)
           \/ WindowRange(g) \/ WindowRows(g)
  BY <1>1, <1>3, <1>6 DEF FreshState, FreshNewest, CoversRange, CoversCount, WindowRange,
     WindowRows, NotLocal, Goto, Steps
<1>7. CASE NewerFrom(g)
  <2>1. /\ pc'[g] = "newerFetch"
        /\ run'[g].mark = IF HeadRanges = {} THEN 0 ELSE head
    BY <1>1, <1>7 DEF NewerFrom, Goto, Runs
  <2>2. run'[g].mark = 0 \/ Covered(run'[g].mark)
    BY <2>1 DEF HeadRanges, Covered
  <2>3. (run[g].mark = 0 \/ Covered(run[g].mark))'
    BY <2>2 DEF Covered, store
  <2> QED
    BY <1>0, <1>2, <2>1, <2>3 DEF SoleInv
<1>8. CASE NewerFetch(g)
  <2>1. PICK batch \in SUBSET telegram :
          /\ IsNewest(batch, {m \in telegram : m > run[g].mark}, run[g].limit)
          /\ run' = [run EXCEPT ![g].batch = batch]
    BY <1>8 DEF NewerFetch
  <2>2. /\ pc[g] = "newerFetch" /\ pc'[g] = "newerSave" /\ run'[g].mark = run[g].mark
        /\ run'[g].limit = run[g].limit /\ run'[g].batch = batch
    BY <1>1, <1>8, <2>1 DEF NewerFetch, Goto, Runs
  <2>3. FetchedNewest(g)'
    BY <1>1, <1>2, <2>1, <2>2 DEF FetchedNewest, IsNewest, IdsAssigned, GapInv, SoleInv, chat
  <2>4. (run[g].mark = 0 \/ Covered(run[g].mark))'
    BY <2>2 DEF GapInv, SoleInv, Covered, store
  <2> QED
    BY <1>0, <1>2, <2>2, <2>3, <2>4 DEF SoleInv
<1>9. CASE RefreshFetch(g)
  <2>1. PICK batch \in SUBSET telegram :
          /\ IsNewest(batch, telegram, run[g].limit)
          /\ run' = [run EXCEPT ![g].batch = batch]
    BY <1>9 DEF RefreshFetch
  <2>2. /\ pc[g] = "refresh" /\ pc'[g] = "refreshSave" /\ run'[g].mark = run[g].mark
        /\ run'[g].limit = run[g].limit /\ run'[g].batch = batch
    BY <1>1, <1>9, <2>1 DEF RefreshFetch, Goto, Runs
  <2>3. run[g].mark = 0
    BY <2>2 DEF GapInv, SoleInv
  <2>4. FetchedNewest(g)'
    BY <1>1, <1>2, <2>1, <2>2, <2>3 DEF FetchedNewest, IsNewest, IdsAssigned, GapInv, SoleInv, chat
  <2> QED
    BY <1>0, <1>2, <2>2, <2>3, <2>4 DEF SoleInv
<1>10. CASE OlderRange(g)
  <2>1. CASE pc'[g] = "window"
    BY <1>3, <2>1 DEF Steps
  <2>2. ASSUME NEW r \in HeadRanges, Goto(g, "older", "olderCount"),
               run' = [run EXCEPT ![g].span = r]
        PROVE  SoleInv'
    <3>1. pc'[g] = "olderCount" /\ run'[g].span = r
      BY <1>1, <2>2 DEF Goto, Runs
    <3>2. run'[g].span \in ranges'
      BY <3>1 DEF HeadRanges, store
    <3> QED
      BY <1>0, <1>2, <3>1, <3>2 DEF SoleInv
  <2> QED
    BY <1>1, <1>10, <2>1, <2>2 DEF OlderRange, Goto
<1>11. CASE OlderCount(g)
  <2>1. pc[g] = "olderCount" /\ pc'[g] \in {"window", "olderFetch"} /\ run'[g].span = run[g].span
    BY <1>1, <1>11 DEF OlderCount, Goto, Runs
  <2>2. run'[g].span \in ranges'
    BY <2>1 DEF GapInv, SoleInv, store
  <2> QED
    BY <1>0, <1>2, <2>1, <2>2 DEF SoleInv
<1>12. CASE OlderFetch(g)
  <2>1. PICK batch \in SUBSET telegram :
          /\ IsNewest(batch, {m \in telegram : m < run[g].span.lo}, run[g].want)
          /\ run' = [run EXCEPT ![g].batch = batch]
    BY <1>12 DEF OlderFetch
  <2>2. /\ pc[g] = "olderFetch" /\ pc'[g] = "olderSave" /\ run'[g].span = run[g].span
        /\ run'[g].want = run[g].want /\ run'[g].batch = batch
    BY <1>1, <1>12, <2>1 DEF OlderFetch, Goto, Runs
  <2>3. FetchedOlder(g)'
    BY <1>1, <2>1, <2>2 DEF FetchedOlder, IsNewest, chat
  <2>4. run'[g].span \in ranges'
    BY <2>2 DEF GapInv, SoleInv, store
  <2> QED
    BY <1>0, <1>2, <2>2, <2>3, <2>4 DEF SoleInv
<1>13. CASE NewerSave(g) \/ OlderSave(g) \/ RefreshSave(g)
  BY <1>1, <1>3, <1>13 DEF NewerSave, OlderSave, RefreshSave, Goto, Steps
<1> QED
  BY <1>4, <1>5, <1>6, <1>7, <1>8, <1>9, <1>10, <1>11, <1>12, <1>13 DEF Step

(* The saves of the only getter leave no hole.                             *)
LEMMA SoleSaveStep ==
  ASSUME SoleGetter, GapInv, NEW g \in Getters, NewerSave(g) \/ OlderSave(g) \/ RefreshSave(g)
  PROVE  SoleInv' /\ RangesGapFree'
<1>0. \A h \in Getters : h = g
  BY DEF SoleGetter
<1>1. /\ run[g].mark \in Nat /\ run[g].span \in Ranges /\ run[g].batch \subseteq Ids
      /\ run[g].want \in Int /\ pc \in [Getters -> Steps]
      /\ \A x \in run[g].batch \cup {0} : x \in Nat
  BY DEF GapInv, TypeInv, TypeOK, Runs, Ids
<1>2. ASSUME IdsAssigned', pc'[g] \in {"older", "window"}
      PROVE  SoleInv'
  BY <1>0, <1>2 DEF SoleInv
<1>3. CASE NewerSave(g)
  <2> DEFINE complete == Cardinality(run[g].batch) < run[g].limit
             from(low) == IF complete THEN run[g].mark + 1 ELSE low
  <2>1. PICK low \in run[g].batch \cup {run[g].mark}, newest \in run[g].batch \cup {run[g].mark} :
          /\ LowEnd(low, run[g].batch, run[g].limit, run[g].mark)
          /\ HighEnd(newest, run[g].batch, run[g].mark)
          /\ Save(run[g].batch, from(low), MaxMessageId, low, newest)
    BY <1>3 DEF NewerSave
  <2>2. /\ FetchedNewest(g) /\ (run[g].mark = 0 \/ Covered(run[g].mark))
        /\ pc'[g] = "older" /\ UNCHANGED chat
    BY <1>1, <1>3 DEF NewerSave, Goto, GapInv, SoleInv
  <2>3. from(low) \in Int /\ low <= from(low) /\ run[g].mark < from(low)
    <3>1. CASE complete
      BY <1>1, <2>1, <3>1 DEF LowEnd
    <3>2. CASE ~complete
      <4>1. low \in run[g].batch
        BY <2>1, <3>2 DEF LowEnd, IsLowest
      <4>2. low \in Nat /\ run[g].mark < low
        BY <1>1, <2>2, <4>1 DEF FetchedNewest
      <4> QED
        BY <3>2, <4>2
    <3> QED
      BY <3>1, <3>2
  <2> HIDE DEF from
  <2>4. RangesGapFree' /\ IdsAssigned'
    BY <2>1, <2>2, <2>3, SaveNewest
  <2> QED
    BY <1>2, <2>2, <2>4
<1>4. CASE OlderSave(g)
  <2>1. PICK low \in run[g].batch \cup {0} :
          /\ LowEnd(low, run[g].batch, run[g].want, 0)
          /\ Save(run[g].batch, low, run[g].span.lo - 1, low, run[g].span.lo)
    BY <1>4 DEF OlderSave
  <2>2. /\ FetchedOlder(g) /\ run[g].span \in ranges /\ \A b \in run[g].batch : b < run[g].span.lo
        /\ pc'[g] = "window" /\ UNCHANGED chat
    BY <1>1, <1>4 DEF OlderSave, Goto, GapInv, SoleInv, TypeInv, OlderBelow
  <2>3. RangesGapFree' /\ IdsAssigned'
    BY <2>1, <2>2, SaveOlder
  <2> QED
    BY <1>2, <2>2, <2>3
<1>5. CASE RefreshSave(g)
  <2>1. PICK low \in run[g].batch \cup {0}, newest \in run[g].batch \cup {0} :
          /\ LowEnd(low, run[g].batch, run[g].limit, 0)
          /\ HighEnd(newest, run[g].batch, 0)
          /\ Save(run[g].batch, low, MaxMessageId, low, newest)
    BY <1>5 DEF RefreshSave
  <2>2. FetchedNewest(g) /\ run[g].mark = 0 /\ pc'[g] = "window" /\ UNCHANGED chat
    BY <1>1, <1>5 DEF RefreshSave, Goto, GapInv, SoleInv
  <2>3. low \in Int /\ low <= low
    <3>1. low \in Nat
      BY <1>1
    <3> QED
      BY <3>1
  <2>4. RangesGapFree' /\ IdsAssigned'
    BY <2>1, <2>2, <2>3, SaveNewest
  <2> QED
    BY <1>2, <2>2, <2>4
<1> QED
  BY <1>3, <1>4, <1>5

LEMMA GapStep ==
  ASSUME SoleGetter, GapInv, [Next]_vars
  PROVE  GapInv'
<1>0. TypeInv'
  BY TypeStep DEF GapInv
<1>1. CASE Arrive
  <2>1. last' = last + 1 /\ telegram' = telegram \cup {last + 1} /\ UNCHANGED <<store, pc, run>>
        /\ last \in Nat /\ telegram \subseteq 1..last /\ \A r \in ranges : r.hi <= last /\ r \in Ranges
    BY <1>1 DEF Arrive, GapInv, TypeInv, TypeOK, SoleInv, IdsAssigned
  <2>2. ~Covered(last + 1) /\ (\A m : Covered(m)' <=> Covered(m))
    BY <2>1 DEF Covered, Ranges, store
  <2>3. RangesGapFree'
    BY <2>1, <2>2 DEF GapInv, RangesGapFree, Covered, store
  <2>4. IdsAssigned'
    BY <2>1 DEF IdsAssigned, store, Ranges
  <2>5. ASSUME NEW g \in Getters, FetchedNewest(g)
        PROVE  FetchedNewest(g)'
    <3>1. \A b \in run[g].batch : b \in Nat /\ b <= last
      BY <2>5 DEF FetchedNewest, GapInv, TypeInv, TypeOK, Runs, Ids
    <3> QED
      BY <2>1, <2>2, <2>5, <3>1 DEF FetchedNewest
  <2>6. ASSUME NEW g \in Getters, FetchedOlder(g), run[g].span \in ranges
        PROVE  FetchedOlder(g)'
    BY <2>1, <2>6 DEF FetchedOlder, Ranges
  <2> QED
    BY <1>0, <2>1, <2>2, <2>3, <2>4, <2>5, <2>6 DEF GapInv, SoleInv, store
<1>2. ASSUME NEW m \in Ids, Delete(m)
      PROVE  GapInv'
  BY <1>0, <1>2 DEF Delete, GapInv, SoleInv, IdsAssigned, FetchedNewest, FetchedOlder, Covered,
     RangesGapFree, store
<1>3. ASSUME NEW m \in Ids, Capture(m)
      PROVE  GapInv'
  BY <1>0, <1>3 DEF Capture, GapInv, SoleInv, IdsAssigned, FetchedNewest, FetchedOlder, Covered,
     RangesGapFree, chat
<1>4. ASSUME NEW g \in Getters, Step(g)
      PROVE  GapInv'
  <2>1. CASE NewerSave(g) \/ OlderSave(g) \/ RefreshSave(g)
    BY <1>0, <2>1, SoleSaveStep DEF GapInv
  <2>2. CASE UNCHANGED <<chat, store>>
    <3>1. RangesGapFree'
      BY <2>2 DEF GapInv, RangesGapFree, chat, store
    <3> QED
      BY <1>0, <1>4, <2>2, <3>1, SoleLocalStep DEF GapInv
  <2> QED
    BY <1>4, <2>1, <2>2 DEF Step, Begin, Abort, FreshState, FreshNewest, CoversRange,
       CoversCount, WindowRange, WindowRows, NewerFrom, NewerFetch, OlderRange, OlderCount,
       OlderFetch, RefreshFetch
<1>5. CASE UNCHANGED vars
  BY <1>0, <1>5 DEF vars, GapInv, SoleInv, IdsAssigned, FetchedNewest, FetchedOlder, Covered,
     RangesGapFree
<1> QED
  BY <1>1, <1>2, <1>3, <1>4, <1>5 DEF Next

(* While one `tele get` at a time runs on the chat, every message Telegram *)
(* still has inside a stored range is stored, whatever arrives, is deleted *)
(* or is stored by other processes meanwhile.                              *)
THEOREM SoleGetterGapFree == SoleGetter => (Spec => []RangesGapFree)
<1> SUFFICES ASSUME SoleGetter
             PROVE  Spec => []RangesGapFree
  OBVIOUS
<1>1. Init => GapInv
  BY InitTyped DEF Init, GapInv, SoleInv, IdsAssigned, RangesGapFree
<1>2. GapInv /\ [Next]_vars => GapInv'
  BY GapStep
<1>3. GapInv => RangesGapFree
  BY DEF GapInv
<1> QED
  BY <1>1, <1>2, <1>3, PTL DEF Spec

-----------------------------------------------------------------------------
(* The answer of a call: the range it reads in is still there when its     *)
(* rows are read, and ends below whatever arrives after.                   *)
WindowRead(g) ==
  /\ pc[g] = "rows" => run[g].span \in ranges \cup {NoRange}
  /\ pc[g] = "done" => run[g].span.hi <= last

(* The rows of an answer skip no live message up to the head range's end.  *)
SpanGapFree ==
  \A g \in Getters : pc[g] = "done" =>
    \A m \in telegram, low \in run[g].batch :
      low <= m /\ m <= run[g].span.hi => m \in run[g].batch

WindowInv == GapInv /\ SpanGapFree /\ \A g \in Getters : WindowRead(g)

(* The rows read are the newest ones of the span.                          *)
LEMMA RowsGapFree ==
  ASSUME WindowInv, NEW g \in Getters, run[g].span \in ranges \cup {NoRange},
         NEW batch \in SUBSET messages, Window(batch, g),
         NEW m \in telegram, NEW low \in batch, low <= m, m <= run[g].span.hi
  PROVE  m \in batch
<1>1. /\ m \in Nat /\ m # 0 /\ low \in Nat /\ run[g].span.lo \in Nat /\ run[g].span.hi \in Nat
      /\ run[g].span.lo <= low
  BY DEF WindowInv, GapInv, TypeInv, TypeOK, Runs, Ranges, Ids, Window, IsNewest
<1>2. run[g].span \in ranges
  BY <1>1 DEF NoRange
<1>3. m \in messages
  BY <1>1, <1>2 DEF WindowInv, GapInv, RangesGapFree
<1> QED
  BY <1>1, <1>3 DEF Window, IsNewest

(* Steps that leave the call's variables alone, deletions and captures     *)
(* among them, keep its answer; what arrives is above it.                  *)
LEMMA AnswerKept ==
  ASSUME WindowInv, UNCHANGED <<pc, run, ranges>>, last' \in Nat, last <= last',
         \A m \in telegram' : m \in telegram \/ (m \in Nat /\ last < m)
  PROVE  SpanGapFree' /\ \A g \in Getters : WindowRead(g)'
<1>1. last \in Nat /\ \A g \in Getters : run[g].span.hi \in Nat
  BY DEF WindowInv, GapInv, TypeInv, TypeOK, Runs, Ranges
<1>2. \A g \in Getters : WindowRead(g)'
  BY <1>1 DEF WindowInv, WindowRead
<1>3. ASSUME NEW g \in Getters, pc[g] = "done", NEW m \in telegram', NEW low \in run[g].batch,
             low <= m, m <= run[g].span.hi
      PROVE  m \in run[g].batch
  <2>1. run[g].span.hi <= last
    BY <1>3 DEF WindowInv, WindowRead
  <2>2. m \in telegram
    BY <1>1, <1>3, <2>1
  <2> QED
    BY <1>3, <2>2 DEF WindowInv, SpanGapFree
<1> QED
  BY <1>2, <1>3 DEF SpanGapFree

LEMMA WindowStep ==
  ASSUME SoleGetter, WindowInv, [Next]_vars
  PROVE  WindowInv'
<1>0. GapInv'
  BY GapStep DEF WindowInv
<1>1. /\ last \in Nat /\ pc \in [Getters -> Steps] /\ run \in [Getters -> Runs]
  BY DEF WindowInv, GapInv, TypeInv, TypeOK
<1>2. ASSUME SpanGapFree', \A g \in Getters : WindowRead(g)'
      PROVE  WindowInv'
  BY <1>0, <1>2 DEF WindowInv
<1>3. CASE Arrive
  BY <1>1, <1>2, <1>3, AnswerKept DEF Arrive, store
<1>4. ASSUME NEW m \in Ids, Delete(m) \/ Capture(m)
      PROVE  WindowInv'
  BY <1>1, <1>2, <1>4, AnswerKept DEF Delete, Capture, store, chat
<1>5. CASE UNCHANGED vars
  BY <1>1, <1>2, <1>5, AnswerKept DEF vars
<1>6. ASSUME NEW g \in Getters, Step(g)
      PROVE  WindowInv'
  <2>0. \A h \in Getters : h = g
    BY DEF SoleGetter
  <2>1. ASSUME pc'[g] \notin {"rows", "done"}
        PROVE  WindowInv'
    BY <1>2, <2>0, <2>1 DEF WindowRead, SpanGapFree
  <2>2. CASE WindowRange(g)
    <3>1. pc'[g] = "rows" /\ run'[g].span \in ranges' \cup {NoRange}
      BY <1>1, <2>2 DEF WindowRange, Goto, HeadRanges, Runs, store
    <3> QED
      BY <1>2, <2>0, <3>1 DEF WindowRead, SpanGapFree
  <2>3. CASE WindowRows(g)
    <3>1. pc[g] = "rows" /\ UNCHANGED <<chat, store>>
      BY <2>3 DEF WindowRows, Goto, NotLocal
    <3>2. PICK batch \in SUBSET messages :
            /\ Window(batch, g)
            /\ pc'[g] = "done" => run' = [run EXCEPT ![g].batch = batch]
      BY <1>1, <2>3 DEF WindowRows, Goto, NotLocal
    <3>3. CASE pc'[g] = "done"
      <4>1. run'[g].span = run[g].span /\ run'[g].batch = batch
        BY <1>1, <3>2, <3>3 DEF Runs
      <4>2. run[g].span \in ranges \cup {NoRange}
        BY <3>1 DEF WindowInv, WindowRead
      <4>3. run[g].span.hi <= last
        BY <1>1, <4>2 DEF NoRange, WindowInv, GapInv, SoleInv, IdsAssigned
      <4>4. \A m \in telegram, low \in batch : low <= m /\ m <= run[g].span.hi => m \in batch
        BY <3>2, <4>2, RowsGapFree
      <4> QED
        BY <1>2, <2>0, <3>1, <3>3, <4>1, <4>3, <4>4 DEF WindowRead, SpanGapFree, chat
    <3>4. CASE pc'[g] # "done"
      <4>1. pc'[g] # "rows"
        BY <1>1, <2>3, <3>4 DEF WindowRows, Goto, NotLocal
      <4> QED
        BY <2>1, <3>4, <4>1
    <3> QED
      BY <3>3, <3>4
  <2>4. CASE Begin(g) \/ Abort(g) \/ FreshState(g) \/ FreshNewest(g) \/ CoversRange(g)
             \/ CoversCount(g) \/ NewerFrom(g) \/ NewerFetch(g) \/ NewerSave(g)
    BY <1>1, <2>1, <2>4 DEF Begin, Abort, FreshState, FreshNewest, CoversRange, CoversCount,
       NewerFrom, NewerFetch, NewerSave, NotLocal, Goto
  <2>5. CASE OlderRange(g) \/ OlderCount(g) \/ OlderFetch(g) \/ OlderSave(g)
             \/ RefreshFetch(g) \/ RefreshSave(g)
    BY <1>1, <2>1, <2>5 DEF OlderRange, OlderCount, OlderFetch, OlderSave, RefreshFetch,
       RefreshSave, Goto
  <2> QED
    BY <1>6, <2>2, <2>3, <2>4, <2>5 DEF Step
<1> QED
  BY <1>3, <1>4, <1>5, <1>6 DEF Next

LEMMA InitWindow == Init => WindowInv
<1>1. Init => GapInv
  BY InitTyped DEF Init, GapInv, SoleInv, IdsAssigned, RangesGapFree
<1> QED
  BY <1>1 DEF Init, WindowInv, SpanGapFree, WindowRead

-----------------------------------------------------------------------------
(* A call reads its window only when the head range holds enough rows or   *)
(* starts with the chat.                                                   *)
Filled(g, r) == r.lo = 0 \/ Cardinality(Held(r)) >= run[g].limit

WindowReady(g) ==
  /\ pc[g] \in {"count", "olderCount", "olderFetch", "olderSave"} => run[g].span \in HeadRanges
  /\ pc[g] \in {"olderFetch", "olderSave"} => run[g].want >= Missing(g)
  /\ pc[g] \in {"window", "rows"} => \A r \in HeadRanges : Filled(g, r)
  /\ pc[g] = "rows" => run[g].span \in HeadRanges \cup {NoRange}

FullInv == WindowInv /\ RangesDisjoint /\ WindowFull /\ \A g \in Getters : WindowReady(g)

LEMMA IdsCounted ==
  ASSUME NEW S \in SUBSET Ids, NEW T \in SUBSET S
  PROVE  /\ Cardinality(S) \in Nat /\ Cardinality(T) \in Nat
         /\ Cardinality(T) <= Cardinality(S)
<1>1. IsFiniteSet(Ids)
  BY FS_Interval DEF Ids
<1>2. IsFiniteSet(S)
  BY <1>1, FS_Subset
<1>3. IsFiniteSet(T) /\ Cardinality(T) <= Cardinality(S)
  BY <1>2, FS_Subset
<1> QED
  BY <1>2, <1>3, FS_CardinalityType

LEMMA DisjointCounted ==
  ASSUME NEW S \in SUBSET Ids, NEW T \in SUBSET Ids, S \cap T = {}
  PROVE  /\ Cardinality(S) \in Nat /\ Cardinality(T) \in Nat
         /\ Cardinality(S \cup T) = Cardinality(S) + Cardinality(T)
<1>1. IsFiniteSet(Ids)
  BY FS_Interval DEF Ids
<1>2. IsFiniteSet(S) /\ IsFiniteSet(T)
  BY <1>1, FS_Subset
<1>3. Cardinality(S \cup T) = Cardinality(S) + Cardinality(T) - Cardinality(S \cap T)
  BY <1>2, FS_Union
<1>4. Cardinality(S) \in Nat /\ Cardinality(T) \in Nat /\ Cardinality(S \cap T) = 0
  BY <1>2, FS_CardinalityType, FS_EmptySet
<1> QED
  BY <1>3, <1>4

(* One head range at a time.                                               *)
LEMMA HeadRangeUnique ==
  ASSUME TypeOK, RangesDisjoint, NEW r \in HeadRanges, NEW s \in HeadRanges
  PROVE  r = s
<1>1. head \in Int /\ r \in Ranges /\ s \in Ranges
  BY DEF HeadRanges, TypeOK, NoHead
<1> QED
  BY <1>1 DEF HeadRanges, RangesDisjoint, Ranges

(* Rows are added, ranges and head stay: what was enough is still enough.  *)
LEMMA ReadyKept ==
  ASSUME TypeOK, TypeOK', UNCHANGED <<pc, run, ranges, head>>, messages \subseteq messages',
         NEW g \in Getters, WindowReady(g)
  PROVE  WindowReady(g)'
<1>1. /\ run[g].limit \in Nat /\ run[g].want \in Int /\ run[g].span \in Ranges
      /\ HeadRanges' = HeadRanges /\ HeadRanges \subseteq Ranges
  BY DEF TypeOK, Runs, HeadRanges
<1>2. ASSUME NEW r \in Ranges
      PROVE  /\ Cardinality(Held(r)) \in Nat /\ Cardinality(Held(r)') \in Nat
             /\ Cardinality(Held(r)) <= Cardinality(Held(r)')
  <2>1. Held(r)' \subseteq Ids /\ Held(r) \subseteq Held(r)'
    BY DEF Held, TypeOK
  <2> QED
    BY <2>1, IdsCounted
<1>3. ASSUME run[g].want >= Missing(g)
      PROVE  run'[g].want >= Missing(g)'
  <2>1. Held(run[g].span)' = {m \in messages' : run[g].span.lo <= m /\ m <= run[g].span.hi}
    BY DEF Held
  <2>2. /\ Cardinality(Held(run[g].span)) \in Nat /\ Cardinality(Held(run[g].span)') \in Nat
        /\ Cardinality(Held(run[g].span)) <= Cardinality(Held(run[g].span)')
    <3>1. Held(run[g].span)' \subseteq Ids /\ Held(run[g].span) \subseteq Held(run[g].span)'
      BY <2>1 DEF Held, TypeOK
    <3> QED
      BY <3>1, IdsCounted
  <2> QED
    BY <1>1, <1>3, <2>2 DEF Missing
<1>4. ASSUME NEW r \in HeadRanges, Filled(g, r)
      PROVE  Filled(g, r)'
  BY <1>1, <1>2, <1>4 DEF Filled
<1> QED
  BY <1>1, <1>3, <1>4 DEF WindowReady

(* The rows read are enough.                                               *)
LEMMA RowsFull ==
  ASSUME FullInv, NEW g \in Getters, pc[g] = "rows",
         NEW batch \in SUBSET messages, Window(batch, g)
  PROVE  \/ Cardinality(batch) = run[g].limit
         \/ \A m \in telegram : m <= run[g].span.hi => m \in batch
<1> DEFINE span == run[g].span
           above == {m \in messages : m >= span.lo}
<1>0. TypeOK
  BY DEF FullInv, WindowInv, GapInv, TypeInv
<1>1. /\ TypeOK /\ run[g].limit \in Nat /\ span \in Ranges
      /\ \A m \in messages \cup telegram : m \in Nat /\ m # 0
  <2>1. run[g].limit \in Nat /\ span \in Ranges
    BY <1>0 DEF TypeOK, Runs
  <2>2. \A m \in messages \cup telegram : m \in Nat /\ m # 0
    BY <1>0 DEF TypeOK, Ids
  <2> QED
    BY <1>0, <2>1, <2>2
<1>2. SUFFICES ASSUME batch = above, Cardinality(batch) <= run[g].limit
               PROVE  \/ Cardinality(batch) = run[g].limit
                      \/ \A m \in telegram : m <= span.hi => m \in batch
  BY DEF Window, IsNewest
<1>3. CASE span = NoRange
  BY <1>1, <1>3 DEF NoRange
<1>4. CASE span \in HeadRanges /\ span.lo = 0
  <2>1. ASSUME NEW m \in telegram, m <= span.hi
        PROVE  m \in messages
    BY <1>1, <1>4, <2>1 DEF FullInv, WindowInv, GapInv, RangesGapFree, HeadRanges
  <2> QED
    BY <1>1, <1>2, <1>4, <2>1
<1>5. CASE Cardinality(Held(span)) >= run[g].limit
  <2>1. Held(span) \subseteq batch /\ batch \subseteq Ids
    BY <1>1, <1>2 DEF Held, TypeOK, Ranges
  <2>2. Cardinality(Held(span)) <= Cardinality(batch) /\ Cardinality(batch) \in Nat
        /\ Cardinality(Held(span)) \in Nat
    BY <2>1, IdsCounted
  <2> QED
    BY <1>1, <1>2, <1>5, <2>2
<1> QED
  BY <1>3, <1>4, <1>5 DEF FullInv, WindowReady, Filled

(* The new range that meets the cover of the save, or a range it met,      *)
(* contains it.                                                            *)
LEMMA SavedRange ==
  ASSUME TypeOK, RangesDisjoint, TypeOK', NEW lo \in Nat, NEW hi \in Nat, lo <= hi,
         AddRange([lo |-> lo, hi |-> hi]),
         NEW r \in ranges \cup {[lo |-> lo, hi |-> hi]}, NEW s \in ranges',
         NEW x \in Nat, r.lo <= x, x <= r.hi, s.lo <= x, x <= s.hi
  PROVE  s.lo <= r.lo /\ r.hi <= s.hi
<1> DEFINE cover == [lo |-> lo, hi |-> hi]
<1>1. cover \in Ranges /\ ranges \subseteq Ranges
  BY DEF Ranges, TypeOK
<1>2. PICK t \in ranges' : t.lo <= r.lo /\ r.hi <= t.hi
  BY <1>1, AddRangeCovers
<1>3. RangesDisjoint'
  BY <1>1, AddRangeDisjoint
<1>4. t \in Ranges /\ s \in Ranges /\ r \in Ranges
  BY <1>1 DEF TypeOK
<1>5. t = s
  BY <1>2, <1>3, <1>4 DEF RangesDisjoint, Ranges
<1> QED
  BY <1>2, <1>5

(* After `older` the head range holds what was missing.                    *)
LEMMA OlderFills ==
  ASSUME FullInv, TypeOK', NEW g \in Getters, OlderSave(g), NEW s \in HeadRanges'
  PROVE  Filled(g, s)'
<1> DEFINE span == run[g].span
           batch == run[g].batch
           held == Held(span)
           start == span.lo
<1>0. TypeOK /\ RangesDisjoint /\ pc[g] = "olderSave"
  BY DEF FullInv, WindowInv, GapInv, TypeInv, OlderSave, Goto
<1>1. /\ run[g].limit \in Nat /\ run[g].want \in Int /\ batch \subseteq Ids
      /\ run'[g].limit = run[g].limit
  BY <1>0 DEF TypeOK, Runs, OlderSave, Return, Call
<1>2. /\ span \in ranges /\ span \in Ranges /\ start \in Nat /\ span.hi \in Nat
      /\ start <= head /\ head <= span.hi /\ head \in Nat /\ head' = head
  BY <1>0 DEF FullInv, WindowReady, HeadRanges, TypeOK, NoHead, Ranges, OlderSave
<1>3. PICK low \in batch \cup {0} :
        /\ LowEnd(low, batch, run[g].want, 0)
        /\ messages' = (messages \ low..(start - 1)) \cup batch
        /\ AddRange([lo |-> low, hi |-> start])
  BY DEF OlderSave, Save
<1>4. \A b \in batch : b \in Nat /\ b < start
  BY <1>0, <1>1 DEF FullInv, WindowInv, GapInv, TypeInv, OlderBelow, Ids
<1>5. low \in Nat /\ low <= start
  BY <1>2, <1>3, <1>4
<1>6. s \in ranges' /\ s \in Ranges /\ s.lo <= head /\ head <= s.hi
  BY <1>2 DEF HeadRanges, TypeOK
<1>7. s.lo <= start /\ span.hi <= s.hi
  BY <1>0, <1>2, <1>3, <1>5, <1>6, SavedRange
<1>8. s.lo <= low
  <2> DEFINE cover == [lo |-> low, hi |-> start]
  <2>1. cover.lo <= start /\ start <= cover.hi /\ start <= s.hi
    BY <1>2, <1>5, <1>6, <1>7 DEF Ranges
  <2>2. s.lo <= cover.lo
    BY <1>0, <1>2, <1>3, <1>5, <1>6, <1>7, <2>1, SavedRange
  <2> QED
    BY <2>2
<1>9. CASE low = 0
  BY <1>6, <1>8, <1>9 DEF Filled, Ranges
<1>10. CASE low # 0
  <2>1. /\ ~(Cardinality(batch) < run[g].want)
        /\ \A b \in batch : low <= b
    BY <1>3, <1>10 DEF LowEnd, IsLowest
  <2>2. held \subseteq Ids /\ \A m \in held : m \in messages /\ start <= m /\ m <= span.hi
    BY <1>0 DEF Held, TypeOK
  <2>3. batch \cup held \subseteq Held(s)'
    <3>1. ASSUME NEW m \in batch
          PROVE  m \in messages' /\ s.lo <= m /\ m <= s.hi
      BY <1>2, <1>3, <1>4, <1>5, <1>6, <1>7, <1>8, <2>1, <3>1 DEF Ranges
    <3>2. ASSUME NEW m \in held
          PROVE  m \in messages' /\ s.lo <= m /\ m <= s.hi
      BY <1>2, <1>3, <1>6, <1>7, <2>2, <3>2 DEF Ranges, Ids
    <3> QED
      BY <3>1, <3>2 DEF Held
  <2>4. batch \cap held = {}
    BY <1>2, <1>4, <2>2 DEF Ids
  <2>5. /\ Cardinality(batch) \in Nat /\ Cardinality(held) \in Nat
        /\ Cardinality(batch \cup held) = Cardinality(batch) + Cardinality(held)
    BY <1>1, <2>2, <2>4, DisjointCounted
  <2>6. /\ Cardinality(Held(s)') \in Nat
        /\ Cardinality(batch \cup held) <= Cardinality(Held(s)')
    <3>1. Held(s)' \subseteq Ids
      BY DEF Held, TypeOK
    <3> QED
      BY <2>3, <3>1, IdsCounted
  <2>7. run[g].want >= run[g].limit - Cardinality(held)
    BY <1>0 DEF FullInv, WindowReady, Missing
  <2>8. Cardinality(Held(s)') >= run[g].limit
    <3> HIDE DEF batch, held
    <3> QED
      BY <1>1, <2>1, <2>5, <2>6, <2>7
  <2> QED
    BY <1>1, <2>8 DEF Filled
<1> QED
  BY <1>9, <1>10

(* After --refresh it holds the batch.                                     *)
LEMMA RefreshFills ==
  ASSUME FullInv, TypeOK', NEW g \in Getters, RefreshSave(g), NEW s \in HeadRanges'
  PROVE  Filled(g, s)'
<1> DEFINE batch == run[g].batch
<1>0. TypeOK /\ RangesDisjoint
  BY DEF FullInv, WindowInv, GapInv, TypeInv
<1>1. /\ run[g].limit \in Nat /\ batch \subseteq Ids /\ run'[g].limit = run[g].limit
      /\ \A b \in batch : b \in Nat
  <2>1. run[g].limit \in Nat /\ batch \subseteq Ids /\ run'[g].limit = run[g].limit
    BY <1>0 DEF TypeOK, Runs, RefreshSave, Return, Call
  <2> QED
    BY <2>1 DEF Ids
<1>2. PICK low \in batch \cup {0}, newest \in batch \cup {0} :
        /\ LowEnd(low, batch, run[g].limit, 0)
        /\ HighEnd(newest, batch, 0)
        /\ messages' = (messages \ low..MaxMessageId) \cup batch
        /\ AddRange([lo |-> low, hi |-> newest])
        /\ head' = newest
  BY DEF RefreshSave, Save
<1>3. low \in Nat /\ newest \in Nat /\ low <= newest /\ \A b \in batch : b <= newest
  BY <1>1, <1>2 DEF HighEnd, IsHighest
<1>4. s \in ranges' /\ s \in Ranges /\ s.lo <= newest /\ newest <= s.hi
  BY <1>2 DEF HeadRanges, TypeOK
<1>5. s.lo <= low
  <2> DEFINE cover == [lo |-> low, hi |-> newest]
  <2>1. cover.lo <= newest /\ newest <= cover.hi
    BY <1>3
  <2>2. s.lo <= cover.lo
    BY <1>0, <1>2, <1>3, <1>4, <2>1, SavedRange
  <2> QED
    BY <2>2
<1>6. CASE low = 0
  BY <1>4, <1>5, <1>6 DEF Filled, Ranges
<1>7. CASE low # 0
  <2>1. /\ ~(Cardinality(batch) < run[g].limit)
        /\ \A b \in batch : low <= b
    BY <1>2, <1>7 DEF LowEnd, IsLowest
  <2>2. batch \subseteq Held(s)' /\ Held(s)' \subseteq Ids
    BY <1>1, <1>2, <1>3, <1>4, <1>5, <2>1 DEF Held, TypeOK, Ranges
  <2>3. /\ Cardinality(Held(s)') \in Nat /\ Cardinality(batch) \in Nat
        /\ Cardinality(batch) <= Cardinality(Held(s)')
    BY <2>2, IdsCounted
  <2> QED
    BY <1>1, <2>1, <2>3 DEF Filled
<1> QED
  BY <1>6, <1>7

LEMMA ReadyStep ==
  ASSUME SoleGetter, FullInv, NEW g \in Getters, Step(g), TypeOK'
  PROVE  WindowReady(g)'
<1>0. TypeOK /\ RangesDisjoint
  BY DEF FullInv, WindowInv, GapInv, TypeInv
<1>1. /\ pc \in [Getters -> Steps] /\ run \in [Getters -> Runs]
      /\ run[g] \in Runs /\ run[g].limit \in Nat /\ run[g].want \in Int
      /\ \A r : Cardinality(Held(r)) \in Nat
  <2>1. run[g].limit \in Nat /\ run[g].want \in Int
    BY <1>0 DEF TypeOK, Runs
  <2>2. ASSUME NEW r
        PROVE  Cardinality(Held(r)) \in Nat
    <3>1. Held(r) \subseteq Ids
      BY <1>0 DEF Held, TypeOK
    <3> QED
      BY <3>1, IdsCounted
  <2> QED
    BY <1>0, <2>1, <2>2 DEF TypeOK
<1>2. ASSUME pc'[g] \notin {"count", "olderCount", "olderFetch", "olderSave", "window", "rows"}
      PROVE  WindowReady(g)'
  BY <1>2 DEF WindowReady
<1>3. ASSUME pc'[g] = "window", UNCHANGED <<chat, store>>, run'[g].limit = run[g].limit,
             NEW r \in HeadRanges, Filled(g, r)
      PROVE  WindowReady(g)'
  <2>1. \A s \in HeadRanges : Filled(g, s)
    BY <1>0, <1>3, HeadRangeUnique
  <2>2. \A s \in HeadRanges' : Filled(g, s)'
    BY <1>3, <2>1 DEF HeadRanges, Filled, Held, store
  <2> QED
    BY <1>3, <2>2 DEF WindowReady
<1>4. CASE Begin(g) \/ Abort(g) \/ FreshState(g) \/ FreshNewest(g) \/ NewerFrom(g)
           \/ NewerFetch(g) \/ NewerSave(g) \/ RefreshFetch(g)
  BY <1>1, <1>2, <1>4 DEF Begin, Abort, FreshState, FreshNewest, NewerFrom, NewerFetch,
     NewerSave, RefreshFetch, NotLocal, Goto
<1>5. CASE CoversRange(g)
  <2>1. CASE NotLocal(g, "covers")
    BY <1>1, <1>2, <2>1 DEF NotLocal, Goto
  <2>2. ASSUME NEW r \in HeadRanges, run' = [run EXCEPT ![g].span = r],
               Goto(g, "covers", IF r.lo = 0 THEN "window" ELSE "count")
        PROVE  WindowReady(g)'
    <3>1. run'[g].span = r /\ run'[g].limit = run[g].limit
      BY <1>1, <2>2 DEF Runs
    <3>2. CASE r.lo = 0
      BY <1>1, <1>3, <1>5, <2>2, <3>1, <3>2 DEF CoversRange, Goto, Filled
    <3>3. CASE r.lo # 0
      <4>1. pc'[g] = "count" /\ run'[g].span \in HeadRanges'
        BY <1>1, <1>5, <2>2, <3>1, <3>3 DEF CoversRange, Goto, HeadRanges, store
      <4> QED
        BY <4>1 DEF WindowReady
    <3> QED
      BY <3>2, <3>3
  <2> QED
    BY <1>5, <2>1, <2>2 DEF CoversRange
<1>6. CASE CoversCount(g)
  <2>1. run[g].span \in HeadRanges
    BY <1>6 DEF FullInv, WindowReady, CoversCount, NotLocal, Goto
  <2>2. CASE Cardinality(Held(run[g].span)) >= run[g].limit
    <3>1. Filled(g, run[g].span) /\ pc'[g] = "window" /\ run' = run
      BY <1>1, <1>6, <2>2 DEF Filled, CoversCount, Goto
    <3> QED
      BY <1>3, <1>6, <2>1, <3>1 DEF CoversCount
  <2>3. CASE ~(Cardinality(Held(run[g].span)) >= run[g].limit)
    BY <1>1, <1>2, <1>6, <2>3 DEF CoversCount, NotLocal, Goto
  <2> QED
    BY <2>2, <2>3
<1>7. CASE WindowRange(g)
  <2>1. PICK r \in IF HeadRanges = {} THEN {NoRange} ELSE HeadRanges :
          run' = [run EXCEPT ![g].span = r]
    BY <1>7 DEF WindowRange
  <2>2. /\ pc[g] = "window" /\ pc'[g] = "rows" /\ UNCHANGED store
        /\ run'[g].span = r /\ run'[g].limit = run[g].limit
    BY <1>1, <1>7, <2>1 DEF WindowRange, Goto, Runs
  <2>3. run'[g].span \in HeadRanges' \cup {NoRange}
    BY <2>1, <2>2 DEF HeadRanges, store
  <2>4. \A s \in HeadRanges' : Filled(g, s)'
    BY <2>2 DEF FullInv, WindowReady, HeadRanges, Filled, Held, store
  <2> QED
    BY <2>2, <2>3, <2>4 DEF WindowReady
<1>8. CASE WindowRows(g)
  <2>1. CASE pc'[g] = "window"
    <3>1. pc[g] = "rows" /\ run'[g].limit = run[g].limit /\ UNCHANGED store
      BY <1>1, <1>8, <2>1 DEF WindowRows, Goto, NotLocal, Runs
    <3>2. \A s \in HeadRanges' : Filled(g, s)'
      BY <3>1 DEF FullInv, WindowReady, HeadRanges, Filled, Held, store
    <3> QED
      BY <2>1, <3>2 DEF WindowReady
  <2>2. CASE pc'[g] # "window"
    BY <1>1, <1>2, <1>8, <2>2 DEF WindowRows, NotLocal, Goto
  <2> QED
    BY <2>1, <2>2
<1>9. CASE OlderRange(g)
  <2>1. CASE pc'[g] = "window"
    <3>1. \A r \in HeadRanges : r.lo = 0
      BY <1>1, <1>9, <2>1 DEF OlderRange, Goto
    <3>2. \A s \in HeadRanges' : Filled(g, s)'
      BY <1>9, <3>1 DEF OlderRange, HeadRanges, Filled, store
    <3> QED
      BY <2>1, <3>2 DEF WindowReady
  <2>2. ASSUME NEW r \in HeadRanges, Goto(g, "older", "olderCount"),
               run' = [run EXCEPT ![g].span = r]
        PROVE  WindowReady(g)'
    <3>1. pc'[g] = "olderCount" /\ run'[g].span \in HeadRanges'
      BY <1>1, <1>9, <2>2 DEF OlderRange, Goto, HeadRanges, Runs, store
    <3> QED
      BY <3>1 DEF WindowReady
  <2> QED
    BY <1>1, <1>9, <2>1, <2>2 DEF OlderRange, Goto
<1>10. CASE OlderCount(g)
  <2>1. /\ pc[g] = "olderCount" /\ run[g].span \in HeadRanges
        /\ run'[g].span = run[g].span /\ run'[g].limit = run[g].limit
        /\ run'[g].want = Missing(g) /\ Missing(g) \in Int /\ UNCHANGED <<chat, store>>
    BY <1>1, <1>10 DEF FullInv, WindowReady, OlderCount, Goto, Runs, Missing
  <2>2. CASE Missing(g) <= 0
    <3>1. Filled(g, run[g].span) /\ pc'[g] = "window"
      BY <1>1, <1>10, <2>2 DEF Filled, Missing, OlderCount, Goto
    <3> QED
      BY <1>3, <2>1, <3>1
  <2>3. CASE ~(Missing(g) <= 0)
    <3>1. pc'[g] = "olderFetch" /\ run'[g].span \in HeadRanges' /\ Missing(g)' = Missing(g)
      BY <1>1, <1>10, <2>1, <2>3 DEF OlderCount, Goto, HeadRanges, Missing, Held, store
    <3> QED
      BY <2>1, <3>1 DEF WindowReady
  <2> QED
    BY <2>2, <2>3
<1>11. CASE OlderFetch(g)
  <2>1. PICK batch \in SUBSET telegram : run' = [run EXCEPT ![g].batch = batch]
    BY <1>11 DEF OlderFetch
  <2>2. /\ pc[g] = "olderFetch" /\ pc'[g] = "olderSave" /\ UNCHANGED store
        /\ run'[g].span = run[g].span /\ run'[g].limit = run[g].limit
        /\ run'[g].want = run[g].want
    BY <1>1, <1>11, <2>1 DEF OlderFetch, Goto, Runs
  <2>3. run[g].span \in HeadRanges /\ run[g].want >= Missing(g)
    BY <2>2 DEF FullInv, WindowReady
  <2>4. run'[g].span \in HeadRanges' /\ Missing(g)' = Missing(g)
    BY <2>2, <2>3 DEF HeadRanges, Missing, Held, store
  <2> QED
    BY <2>2, <2>3, <2>4 DEF WindowReady
<1>12. CASE OlderSave(g) \/ RefreshSave(g)
  <2>1. pc'[g] = "window"
    BY <1>1, <1>12 DEF OlderSave, RefreshSave, Goto
  <2>2. \A s \in HeadRanges' : Filled(g, s)'
    BY <1>12, OlderFills, RefreshFills
  <2> QED
    BY <2>1, <2>2 DEF WindowReady
<1> QED
  BY <1>4, <1>5, <1>6, <1>7, <1>8, <1>9, <1>10, <1>11, <1>12 DEF Step

LEMMA FullStep ==
  ASSUME SoleGetter, FullInv, [Next]_vars
  PROVE  FullInv'
<1>0. WindowInv' /\ TypeOK /\ TypeOK' /\ TypeInv
  BY WindowStep DEF FullInv, WindowInv, GapInv, TypeInv
<1>1. RangesDisjoint'
  <2>1. ASSUME NEW lo \in Nat, NEW hi \in Nat, lo <= hi, AddRange([lo |-> lo, hi |-> hi])
        PROVE  RangesDisjoint'
    <3>1. [lo |-> lo, hi |-> hi] \in Ranges /\ ranges \subseteq Ranges
      BY <1>0, <2>1 DEF Ranges, TypeOK
    <3> QED
      BY <2>1, <3>1, AddRangeDisjoint DEF FullInv
  <2> QED
    BY <1>0, <2>1, CoverageStep DEF FullInv, StoresCover, RangesDisjoint
<1>2. ASSUME WindowFull', \A g \in Getters : WindowReady(g)'
      PROVE  FullInv'
  BY <1>0, <1>1, <1>2 DEF FullInv
<1>3. last \in Nat /\ \A g \in Getters : run[g].span.hi \in Nat
  BY <1>0 DEF TypeOK, Runs, Ranges
<1>4. ASSUME UNCHANGED <<pc, run, ranges, head>>, messages \subseteq messages',
             \A m \in telegram' : m \in telegram \/ (m \in Nat /\ last < m)
      PROVE  FullInv'
  <2>1. \A g \in Getters : WindowReady(g)'
    BY <1>0, <1>4, ReadyKept DEF FullInv
  <2>2. ASSUME NEW g \in Getters, pc[g] = "done", Cardinality(run[g].batch) # run[g].limit,
               NEW m \in telegram', m <= run[g].span.hi
        PROVE  m \in run[g].batch
    <3>1. run[g].span.hi <= last
      BY <2>2 DEF FullInv, WindowInv, WindowRead
    <3>2. m \in telegram
      BY <1>3, <1>4, <2>2, <3>1
    <3> QED
      BY <2>2, <3>2 DEF FullInv, WindowFull
  <2> QED
    BY <1>2, <1>4, <2>1, <2>2 DEF WindowFull
<1>5. ASSUME NEW g \in Getters, Step(g)
      PROVE  FullInv'
  <2>0. \A h \in Getters : h = g
    BY DEF SoleGetter
  <2>1. \A h \in Getters : WindowReady(h)'
    BY <1>0, <1>5, <2>0, ReadyStep
  <2>2. WindowFull'
    <3>1. CASE pc'[g] # "done"
      BY <2>0, <3>1 DEF WindowFull
    <3>2. CASE pc'[g] = "done"
      <4>0. pc \in [Getters -> Steps] /\ run[g] \in Runs /\ run \in [Getters -> Runs]
        BY <1>0 DEF TypeOK
      <4>1. WindowRows(g)
        BY <1>5, <3>2, <4>0 DEF Step, Begin, Abort, FreshState, FreshNewest, CoversRange,
           CoversCount, WindowRange, NewerFrom, NewerFetch, NewerSave, OlderRange, OlderCount,
           OlderFetch, OlderSave, RefreshFetch, RefreshSave, NotLocal, Goto
      <4>2. PICK batch \in SUBSET messages :
              Window(batch, g) /\ run' = [run EXCEPT ![g].batch = batch]
        BY <3>2, <4>0, <4>1 DEF WindowRows, Goto, NotLocal
      <4>3. /\ run'[g].batch = batch /\ run'[g].span = run[g].span
            /\ run'[g].limit = run[g].limit /\ pc[g] = "rows" /\ UNCHANGED chat
        BY <4>0, <4>1, <4>2 DEF WindowRows, Goto, NotLocal, Runs
      <4>4. \/ Cardinality(batch) = run[g].limit
            \/ \A m \in telegram : m <= run[g].span.hi => m \in batch
        BY <4>2, <4>3, RowsFull
      <4> QED
        BY <2>0, <4>3, <4>4 DEF WindowFull, chat
    <3> QED
      BY <3>1, <3>2
  <2> QED
    BY <1>2, <2>1, <2>2
<1>6. CASE Arrive
  BY <1>3, <1>4, <1>6 DEF Arrive, store
<1>7. ASSUME NEW m \in Ids, Delete(m) \/ Capture(m)
      PROVE  FullInv'
  BY <1>4, <1>7 DEF Delete, Capture, store, chat
<1>8. CASE UNCHANGED vars
  BY <1>4, <1>8 DEF vars
<1> QED
  BY <1>5, <1>6, <1>7, <1>8 DEF Next

(* A sole `tele get` returns as many messages as it was asked for, or all  *)
(* there are.                                                              *)
THEOREM SoleGetterFull == SoleGetter => (Spec => []WindowFull)
<1> SUFFICES ASSUME SoleGetter
             PROVE  Spec => []WindowFull
  OBVIOUS
<1>1. Init => FullInv
  BY InitWindow DEF Init, FullInv, RangesDisjoint, WindowFull, WindowReady
<1>2. FullInv /\ [Next]_vars => FullInv'
  BY FullStep
<1>3. FullInv => WindowFull
  BY DEF FullInv
<1> QED
  BY <1>1, <1>2, <1>3, PTL DEF Spec

-----------------------------------------------------------------------------
(* Above the head range only rows that were stored after the call looked:  *)
(* when it compares the stored messages with the head, or saves the newest *)
(* ones, none is above the head, and until it has read its rows only other *)
(* processes store any.                                                    *)
Looked(g) ==
  /\ pc[g] = "newest" => head # NoHead /\ run[g].mark = head
  /\ pc[g] \in Answering => head # NoHead /\ \A m \in messages \ late[g] : m <= head
  /\ pc[g] = "rows" => head <= run[g].span.hi
  /\ pc[g] = "done" => \A high \in run[g].batch \ late[g] : high <= run[g].span.hi

(* What other processes store and what Telegram does keeps it.             *)
LEMMA LookedKept ==
  ASSUME NEW g \in Getters, Looked(g), UNCHANGED <<pc, run, head>>,
         late' = [h \in Getters |-> Later(h)]
  PROVE  Looked(g)'
<1>1. CASE pc[g] \in Answering
  <2>1. late'[g] = late[g] \cup (messages' \ messages)
    BY <1>1 DEF Later, StoredByOthers
  <2> QED
    BY <1>1, <2>1 DEF Looked, Answering
<1>2. CASE pc[g] \notin Answering
  <2>1. pc[g] = "done" => late'[g] = late[g]
    BY <1>2 DEF Later
  <2> QED
    BY <1>2, <2>1 DEF Looked, Answering
<1> QED
  BY <1>1, <1>2

(* After the save of a newest batch no row is above the head.              *)
LEMMA SavedBelowHead ==
  ASSUME TypeOK, NEW batch \in SUBSET Ids, NEW mark \in Nat, NEW low \in batch \cup {mark},
         NEW newest \in batch \cup {mark}, HighEnd(newest, batch, mark),
         NEW from \in {low, mark + 1}, Save(batch, from, MaxMessageId, low, newest)
  PROVE  newest \in Nat /\ \A m \in messages' : m <= newest
<1>1. /\ low \in Nat /\ newest \in Nat /\ low <= newest /\ mark <= newest
      /\ \A b \in batch : b <= newest
  BY DEF HighEnd, IsHighest, Ids
<1>2. ASSUME NEW m \in messages, m \notin from..MaxMessageId
      PROVE  m <= newest
  <2>1. m \in Nat /\ m <= MaxMessageId
    BY DEF TypeOK, Ids
  <2>2. m < from
    BY <1>1, <1>2, <2>1
  <2> QED
    BY <1>1, <2>1, <2>2
<1> QED
  BY <1>1, <1>2 DEF Save

LEMMA LookedStep ==
  ASSUME FullInv, HeadCovered, NEW g \in Getters, Looked(g), Step(g),
         late' = [h \in Getters |-> Later(h)]
  PROVE  Looked(g)'
<1>0. TypeOK /\ run \in [Getters -> Runs] /\ pc \in [Getters -> Steps] /\ run[g] \in Runs
  BY DEF FullInv, WindowInv, GapInv, TypeInv, TypeOK
<1>1. /\ run[g].mark \in Nat /\ run[g].span \in Ranges /\ run[g].batch \in SUBSET Ids
      /\ run[g].span.lo \in Nat /\ run[g].span.hi \in Nat /\ head \in Int
  BY <1>0 DEF Runs, Ranges, TypeOK, NoHead
<1>2. ASSUME pc'[g] \notin Answering \cup {"newest", "done"}
      PROVE  Looked(g)'
  BY <1>2 DEF Looked, Answering
<1>3. ASSUME pc[g] \in Answering, pc'[g] \in Answering \ {"rows"}, pc'[g] # pc[g], UNCHANGED store
      PROVE  Looked(g)'
  <2>1. late'[g] = late[g]
    BY <1>3 DEF Later, StoredByOthers
  <2> QED
    BY <1>3, <2>1 DEF Looked, Answering, store
<1>4. CASE Begin(g) \/ Abort(g) \/ NewerFrom(g) \/ NewerFetch(g) \/ RefreshFetch(g)
  BY <1>0, <1>2, <1>4 DEF Begin, Abort, NewerFrom, NewerFetch, RefreshFetch, Goto, Answering
<1>5. CASE FreshState(g)
  <2>1. CASE NotLocal(g, "state")
    BY <1>0, <1>2, <2>1 DEF NotLocal, Goto, Answering
  <2>2. CASE head # NoHead /\ Goto(g, "state", "newest") /\ run' = [run EXCEPT ![g].mark = head]
    <3>1. pc'[g] = "newest" /\ run'[g].mark = head /\ head' = head
      BY <1>0, <1>5, <2>2 DEF Goto, FreshState, store, Runs
    <3> QED
      BY <2>2, <3>1 DEF Looked, Answering
  <2> QED
    BY <1>5, <2>1, <2>2 DEF FreshState
<1>6. CASE FreshNewest(g)
  <2>1. CASE \A m \in messages : m <= run[g].mark
    <3>1. pc[g] = "newest" /\ pc'[g] \in {"older", "covers"} /\ UNCHANGED store
      BY <1>0, <1>6, <2>1 DEF FreshNewest, Goto
    <3>2. late'[g] = {} /\ head # NoHead /\ run[g].mark = head
      BY <3>1 DEF Looked, Later, Answering
    <3> QED
      BY <2>1, <3>1, <3>2 DEF Looked, Answering, store
  <2>2. CASE ~(\A m \in messages : m <= run[g].mark)
    BY <1>0, <1>2, <1>6, <2>2 DEF FreshNewest, NotLocal, Goto, Answering
  <2> QED
    BY <2>1, <2>2
<1>7. CASE CoversRange(g)
  <2>1. CASE NotLocal(g, "covers")
    BY <1>0, <1>2, <2>1 DEF NotLocal, Goto, Answering
  <2>2. CASE \E r \in HeadRanges : Goto(g, "covers", IF r.lo = 0 THEN "window" ELSE "count")
    BY <1>0, <1>3, <1>7, <2>2 DEF CoversRange, Goto, Answering
  <2> QED
    BY <1>7, <2>1, <2>2 DEF CoversRange
<1>8. CASE CoversCount(g)
  <2>1. pc[g] = "count" /\ UNCHANGED store /\ pc'[g] \in {"window", "newer", "state"}
    BY <1>0, <1>8 DEF CoversCount, NotLocal, Goto
  <2> QED
    BY <1>2, <1>3, <2>1 DEF Answering
<1>9. CASE WindowRange(g)
  <2>1. pc[g] = "window" /\ pc'[g] = "rows" /\ UNCHANGED store /\ late'[g] = late[g]
    BY <1>0, <1>9 DEF WindowRange, Goto, Later, StoredByOthers, Answering
  <2>2. HeadRanges # {}
    BY <2>1 DEF HeadCovered, Looked, Answering
  <2>3. PICK r \in HeadRanges : run' = [run EXCEPT ![g].span = r]
    BY <1>9, <2>2 DEF WindowRange
  <2>4. run'[g].span = r /\ head <= r.hi
    BY <1>0, <2>3 DEF HeadRanges, Runs
  <2> QED
    BY <2>1, <2>4 DEF Looked, Answering, store
<1>10. CASE WindowRows(g)
  <2>1. /\ pc[g] = "rows" /\ UNCHANGED store /\ head <= run[g].span.hi
        /\ \A m \in messages \ late[g] : m <= head
    BY <1>0, <1>10 DEF WindowRows, Goto, NotLocal, Looked, Answering
  <2>2. CASE pc'[g] = "done"
    <3>1. late'[g] = late[g]
      BY <2>1, <2>2 DEF Later, StoredByOthers, Answering
    <3>2. PICK batch \in SUBSET messages : run' = [run EXCEPT ![g].batch = batch]
      BY <1>0, <1>10, <2>2 DEF WindowRows, Goto, NotLocal
    <3>3. run'[g].batch = batch /\ run'[g].span = run[g].span
      BY <1>0, <3>2 DEF Runs
    <3>4. \A m \in messages : m \in Int
      BY <1>0 DEF TypeOK, Ids
    <3>5. ASSUME NEW high \in batch \ late[g]
          PROVE  high <= run[g].span.hi
      BY <1>1, <2>1, <3>4
    <3> QED
      BY <2>2, <3>1, <3>3, <3>5 DEF Looked, Answering
  <2>3. CASE pc'[g] # "done"
    BY <1>0, <1>2, <1>3, <1>10, <2>1, <2>3 DEF WindowRows, Goto, NotLocal, Answering
  <2> QED
    BY <2>2, <2>3
<1>11. CASE NewerSave(g)
  <2>1. PICK low \in run[g].batch \cup {run[g].mark}, newest \in run[g].batch \cup {run[g].mark} :
          /\ HighEnd(newest, run[g].batch, run[g].mark)
          /\ \E from \in {low, run[g].mark + 1} :
               Save(run[g].batch, from, MaxMessageId, low, newest)
          /\ head' = newest
    BY <1>11 DEF NewerSave
  <2>2. head' \in Nat /\ \A m \in messages' : m <= head'
    <3>1. PICK from \in {low, run[g].mark + 1} :
            Save(run[g].batch, from, MaxMessageId, low, newest)
      BY <2>1
    <3>2. newest \in Nat /\ \A m \in messages' : m <= newest
      BY <1>0, <1>1, <2>1, <3>1, SavedBelowHead
    <3> QED
      BY <2>1, <3>2
  <2>3. pc'[g] = "older"
    BY <1>0, <1>11 DEF NewerSave, Goto
  <2> QED
    BY <2>2, <2>3 DEF Looked, NoHead
<1>12. CASE RefreshSave(g)
  <2>1. PICK low \in run[g].batch \cup {0}, newest \in run[g].batch \cup {0} :
          /\ HighEnd(newest, run[g].batch, 0)
          /\ Save(run[g].batch, low, MaxMessageId, low, newest)
          /\ head' = newest
    BY <1>12 DEF RefreshSave
  <2>2. head' \in Nat /\ \A m \in messages' : m <= head'
    BY <1>0, <1>1, <2>1, SavedBelowHead
  <2>3. pc'[g] = "window"
    BY <1>0, <1>12 DEF RefreshSave, Goto
  <2> QED
    BY <2>2, <2>3 DEF Looked, NoHead
<1>13. CASE OlderSave(g)
  <2>1. /\ pc[g] = "olderSave" /\ pc'[g] = "window" /\ head' = head
        /\ messages' \subseteq messages \cup run[g].batch
    BY <1>0, <1>13 DEF OlderSave, Goto, Save
  <2>2. late'[g] = late[g] /\ head # NoHead /\ \A m \in messages \ late[g] : m <= head
    BY <2>1 DEF Later, StoredByOthers, Answering, Looked
  <2>3. run[g].span.lo <= head /\ \A b \in run[g].batch : b \in Int /\ b < run[g].span.lo
    BY <1>1, <2>1 DEF FullInv, WindowInv, GapInv, TypeInv, OlderBelow, WindowReady, HeadRanges, Ids
  <2>4. \A b \in run[g].batch : b <= head
    BY <1>1, <2>3
  <2> QED
    BY <2>1, <2>2, <2>4 DEF Looked
<1>14. CASE OlderRange(g) \/ OlderCount(g) \/ OlderFetch(g)
  <2>1. /\ pc[g] \in {"older", "olderCount", "olderFetch"} /\ UNCHANGED store /\ pc'[g] # pc[g]
        /\ pc'[g] \in {"window", "olderCount", "olderFetch", "olderSave"}
    BY <1>0, <1>14 DEF OlderRange, OlderCount, OlderFetch, Goto
  <2> QED
    BY <1>3, <2>1 DEF Answering
<1> QED
  BY <1>4, <1>5, <1>6, <1>7, <1>8, <1>9, <1>10, <1>11, <1>12, <1>13, <1>14 DEF Step

(* An answer of a sole `tele get` skips a live message only above the head *)
(* range and below a row another process stored after the call had looked. *)
THEOREM SoleGetterAnswers == SoleGetter => (AnswersSpec => []WindowGapFree)
<1> SUFFICES ASSUME SoleGetter
             PROVE  AnswersSpec => []WindowGapFree
  OBVIOUS
<1> DEFINE LookedInv == \A g \in Getters : Looked(g)
<1>1. AnswersSpec => Spec
  <2>1. AnswersInit => Init
    BY DEF AnswersInit
  <2>2. [AnswersNext]_<<vars, late>> => [Next]_vars
    BY DEF AnswersNext
  <2> QED
    BY <2>1, <2>2, PTL DEF AnswersSpec, Spec
<1>2. Init => FullInv
  BY InitWindow DEF Init, FullInv, RangesDisjoint, WindowFull, WindowReady
<1>3. FullInv /\ [Next]_vars => FullInv'
  BY FullStep
<1>4. AnswersInit => LookedInv
  BY DEF AnswersInit, Init, Looked, Answering
<1>5. FullInv /\ HeadCovered /\ LookedInv /\ [AnswersNext]_<<vars, late>> => LookedInv'
  <2> SUFFICES ASSUME FullInv, HeadCovered, LookedInv, [AnswersNext]_<<vars, late>>,
                      NEW g \in Getters
               PROVE  Looked(g)'
    OBVIOUS
  <2>1. CASE UNCHANGED <<vars, late>>
    BY <2>1 DEF vars, Looked
  <2>2. CASE AnswersNext /\ \E h \in Getters : Step(h)
    <3>1. Step(g)
      BY <2>2 DEF SoleGetter
    <3> QED
      BY <2>2, <3>1, LookedStep DEF AnswersNext
  <2>3. CASE AnswersNext /\ UNCHANGED <<pc, run, head>>
    BY <2>3, LookedKept DEF AnswersNext
  <2> QED
    BY <2>1, <2>2, <2>3 DEF AnswersNext, Next, Arrive, Delete, Capture, store
<1>6. FullInv /\ LookedInv => WindowGapFree
  <2> SUFFICES ASSUME FullInv, LookedInv, NEW g \in Getters, pc[g] = "done",
                      NEW m \in telegram, NEW low \in run[g].batch, low <= m,
                      NEW high \in run[g].batch \ late[g], m <= high
               PROVE  m \in run[g].batch
    BY DEF FullInv, WindowInv, SpanGapFree, WindowGapFree
  <2>1. m \in Int /\ high \in Int /\ run[g].span.hi \in Int
    BY DEF FullInv, WindowInv, GapInv, TypeInv, TypeOK, Runs, Ranges, Ids
  <2>2. high <= run[g].span.hi
    BY DEF Looked
  <2>3. m <= run[g].span.hi
    BY <2>1, <2>2
  <2> QED
    BY <2>3 DEF FullInv, WindowInv, SpanGapFree
<1> QED
  BY <1>1, <1>2, <1>3, <1>4, <1>5, <1>6, HeadStaysCovered, PTL DEF AnswersSpec, Spec

-----------------------------------------------------------------------------
(* DropsOnlyDeleted fails because a fetch is old when it is saved.  How    *)
(* old is the whole of it: for any number of getters, a save drops, of     *)
(* what Telegram has, only messages newer than its own fetch.  A history   *)
(* variable that follows `last` until a getter has fetched says when that  *)
(* was.                                                                    *)
VARIABLE seen    \* history: the newest ID when each getter fetched

Fetching == {"newerFetch", "olderFetch", "refresh"}
Saving == {"newerSave", "olderSave", "refreshSave"}

Watch == seen' = [g \in Getters |-> IF pc[g] \in Fetching THEN last ELSE seen[g]]
WatchedSpec ==
  /\ Init /\ seen = [g \in Getters |-> 0]
  /\ [][Next /\ Watch]_<<vars, seen>>

(* Of the messages there were at the fetch, the batch lacks only those up  *)
(* to the mark and those below a full batch.                               *)
FetchedUntil(g) ==
  /\ \A b \in run[g].batch : run[g].mark < b
  /\ \A m \in telegram \ run[g].batch : run[g].mark < m /\ m <= seen[g] =>
       ~(Cardinality(run[g].batch) < run[g].limit) /\ \A b \in run[g].batch : m < b

Watched(g) ==
  /\ seen[g] \in Nat /\ seen[g] <= last
  /\ pc[g] \in {"newerFetch", "newerSave"} => run[g].mark <= last
  /\ pc[g] \in {"refresh", "refreshSave"} => run[g].mark = 0
  /\ pc[g] \in {"olderCount", "olderFetch", "olderSave"} => run[g].span.lo <= last
  /\ pc[g] \in Saving => run[g].batch \subseteq 1..last
  /\ pc[g] \in {"newerSave", "refreshSave"} => FetchedUntil(g)
  /\ pc[g] = "olderSave" => FetchedOlder(g)

WatchInv ==
  /\ TypeInv /\ IdsAssigned /\ head <= last
  /\ seen \in [Getters -> Nat]
  /\ \A g \in Getters : Watched(g)

(* What a getter knows stays true when others step, and when messages      *)
(* arrive or are deleted.                                                  *)
LEMMA WatchedKept ==
  ASSUME WatchInv, Watch, NEW g \in Getters, pc'[g] = pc[g], run'[g] = run[g],
         last' \in Nat, last <= last',
         \A m \in telegram' : m \in telegram \/ (m \in Nat /\ last < m)
  PROVE  Watched(g)'
<1>1. /\ last \in Nat /\ seen[g] \in Nat /\ seen[g] <= last
      /\ run[g].mark \in Nat /\ run[g].span.lo \in Nat /\ run[g].batch \subseteq Ids
      /\ \A m \in telegram : m \in Nat
  BY DEF WatchInv, TypeInv, TypeOK, Runs, Ranges, Watched, Ids
<1>2. /\ seen'[g] \in Nat /\ seen'[g] <= last
      /\ pc[g] \notin Fetching => seen'[g] = seen[g]
  BY <1>1 DEF Watch
<1>3. ASSUME pc[g] \in {"newerSave", "refreshSave"}
      PROVE  FetchedUntil(g)'
  <2>1. FetchedUntil(g) /\ seen'[g] = seen[g]
    BY <1>2, <1>3 DEF WatchInv, Watched, Fetching
  <2> QED
    BY <1>1, <1>2, <2>1 DEF FetchedUntil
<1>4. ASSUME pc[g] = "olderSave"
      PROVE  FetchedOlder(g)'
  <2>1. FetchedOlder(g) /\ run[g].span.lo <= last
    BY <1>4 DEF WatchInv, Watched
  <2> QED
    BY <1>1, <2>1 DEF FetchedOlder
<1>5. pc[g] \in Saving => run[g].batch \subseteq 1..last'
  BY <1>1 DEF WatchInv, Watched
<1> QED
  BY <1>1, <1>2, <1>3, <1>4, <1>5 DEF WatchInv, Watched

(* The reads and fetches of a getter establish what its save needs.        *)
LEMMA WatchedLocalStep ==
  ASSUME WatchInv, Watch, NEW g \in Getters, Step(g), UNCHANGED <<chat, store>>
  PROVE  Watched(g)'
<1>1. /\ run[g] \in Runs /\ pc[g] \in Steps /\ run[g].limit \in Nat /\ run[g].want \in Int
      /\ run[g].mark \in Nat /\ last \in Nat /\ last' = last /\ telegram' = telegram
      /\ pc \in [Getters -> Steps] /\ run \in [Getters -> Runs]
  BY DEF WatchInv, TypeInv, TypeOK, Runs, chat
<1>2. /\ seen'[g] \in Nat /\ seen'[g] <= last'
      /\ \A m \in telegram : m \in 1..last
  BY <1>1 DEF WatchInv, Watched, Watch, IdsAssigned
<1>3. ASSUME pc'[g] \in Steps \ {"newerFetch", "newerSave", "refreshSave", "olderCount",
                                 "olderFetch", "olderSave"},
             pc'[g] = "refresh" => run'[g].mark = 0
      PROVE  Watched(g)'
  BY <1>2, <1>3 DEF Watched, Saving
<1>4. CASE Begin(g)
  BY <1>1, <1>3, <1>4 DEF Begin, Call, Steps
<1>5. CASE Abort(g)
  BY <1>1, <1>3, <1>5 DEF Abort, Steps
<1>6. CASE FreshState(g) \/ FreshNewest(g) \/ CoversRange(g) \/ CoversCount(g)
           \/ WindowRange(g) \/ WindowRows(g)
  BY <1>1, <1>3, <1>6 DEF FreshState, FreshNewest, CoversRange, CoversCount, WindowRange,
     WindowRows, NotLocal, Goto, Steps
<1>7. CASE NewerFrom(g)
  <2>1. /\ pc'[g] = "newerFetch"
        /\ run'[g].mark = IF HeadRanges = {} THEN 0 ELSE head
    BY <1>1, <1>7 DEF NewerFrom, Goto, Runs
  <2>2. run'[g].mark <= last'
    BY <1>1, <2>1 DEF WatchInv
  <2> QED
    BY <1>2, <2>1, <2>2 DEF Watched, Saving
<1>8. CASE NewerFetch(g)
  <2>1. PICK batch \in SUBSET telegram :
          /\ IsNewest(batch, {m \in telegram : m > run[g].mark}, run[g].limit)
          /\ run' = [run EXCEPT ![g].batch = batch]
    BY <1>8 DEF NewerFetch
  <2>2. /\ pc[g] = "newerFetch" /\ pc'[g] = "newerSave" /\ run'[g].mark = run[g].mark
        /\ run'[g].limit = run[g].limit /\ run'[g].batch = batch
    BY <1>1, <1>8, <2>1 DEF NewerFetch, Goto, Runs
  <2>3. FetchedUntil(g)'
    BY <1>1, <2>1, <2>2 DEF FetchedUntil, IsNewest
  <2>4. run'[g].mark <= last' /\ run'[g].batch \subseteq 1..last'
    BY <1>1, <1>2, <2>2 DEF WatchInv, Watched
  <2> QED
    BY <1>2, <2>2, <2>3, <2>4 DEF Watched
<1>9. CASE RefreshFetch(g)
  <2>1. PICK batch \in SUBSET telegram :
          /\ IsNewest(batch, telegram, run[g].limit)
          /\ run' = [run EXCEPT ![g].batch = batch]
    BY <1>9 DEF RefreshFetch
  <2>2. /\ pc[g] = "refresh" /\ pc'[g] = "refreshSave" /\ run'[g].mark = run[g].mark
        /\ run'[g].limit = run[g].limit /\ run'[g].batch = batch
    BY <1>1, <1>9, <2>1 DEF RefreshFetch, Goto, Runs
  <2>3. run'[g].mark = 0 /\ run'[g].batch \subseteq 1..last'
    BY <1>1, <1>2, <2>2 DEF WatchInv, Watched
  <2>4. FetchedUntil(g)'
    BY <1>1, <2>1, <2>2, <2>3 DEF FetchedUntil, IsNewest
  <2> QED
    BY <1>2, <2>2, <2>3, <2>4 DEF Watched
<1>10. CASE OlderRange(g)
  <2>1. CASE pc'[g] = "window"
    BY <1>3, <2>1 DEF Steps
  <2>2. ASSUME NEW r \in HeadRanges, Goto(g, "older", "olderCount"),
               run' = [run EXCEPT ![g].span = r]
        PROVE  Watched(g)'
    <3>1. pc'[g] = "olderCount" /\ run'[g].span = r
      BY <1>1, <2>2 DEF Goto, Runs
    <3>2. r.lo <= last'
      BY <1>1, <2>2 DEF HeadRanges, Ranges, WatchInv, IdsAssigned, TypeInv, TypeOK
    <3> QED
      BY <1>2, <3>1, <3>2 DEF Watched, Saving
  <2> QED
    BY <1>1, <1>10, <2>1, <2>2 DEF OlderRange, Goto
<1>11. CASE OlderCount(g)
  <2>1. pc[g] = "olderCount" /\ pc'[g] \in {"window", "olderFetch"} /\ run'[g].span = run[g].span
    BY <1>1, <1>11 DEF OlderCount, Goto, Runs
  <2>2. run'[g].span.lo <= last'
    BY <1>1, <2>1 DEF WatchInv, Watched
  <2> QED
    BY <1>2, <2>1, <2>2 DEF Watched, Saving
<1>12. CASE OlderFetch(g)
  <2>1. PICK batch \in SUBSET telegram :
          /\ IsNewest(batch, {m \in telegram : m < run[g].span.lo}, run[g].want)
          /\ run' = [run EXCEPT ![g].batch = batch]
    BY <1>12 DEF OlderFetch
  <2>2. /\ pc[g] = "olderFetch" /\ pc'[g] = "olderSave" /\ run'[g].span = run[g].span
        /\ run'[g].want = run[g].want /\ run'[g].batch = batch
    BY <1>1, <1>12, <2>1 DEF OlderFetch, Goto, Runs
  <2>3. FetchedOlder(g)'
    BY <1>1, <2>1, <2>2 DEF FetchedOlder, IsNewest
  <2>4. run'[g].span.lo <= last' /\ run'[g].batch \subseteq 1..last'
    BY <1>1, <1>2, <2>2 DEF WatchInv, Watched
  <2> QED
    BY <1>2, <2>2, <2>3, <2>4 DEF Watched
<1>13. CASE NewerSave(g) \/ OlderSave(g) \/ RefreshSave(g)
  BY <1>1, <1>3, <1>13 DEF NewerSave, OlderSave, RefreshSave, Goto, Steps
<1> QED
  BY <1>4, <1>5, <1>6, <1>7, <1>8, <1>9, <1>10, <1>11, <1>12, <1>13 DEF Step

(* A save covers IDs that were assigned before it.                         *)
LEMMA WatchedSaveStep ==
  ASSUME WatchInv, Watch, NEW g \in Getters, NewerSave(g) \/ OlderSave(g) \/ RefreshSave(g)
  PROVE  IdsAssigned' /\ head' <= last' /\ Watched(g)'
<1>1. /\ run[g].mark \in Nat /\ run[g].span.lo \in Nat /\ last \in Nat
      /\ run[g].batch \subseteq Ids /\ \A x \in run[g].batch \cup {0} : x \in Nat
      /\ pc \in [Getters -> Steps]
  BY DEF WatchInv, TypeInv, TypeOK, Runs, Ranges, Ids
<1>2. /\ seen'[g] \in Nat /\ seen'[g] <= last
  BY <1>1 DEF WatchInv, Watched, Watch
<1>3. ASSUME pc'[g] \in {"older", "window"}, UNCHANGED chat
      PROVE  Watched(g)'
  BY <1>2, <1>3 DEF Watched, Saving, chat
<1>4. CASE NewerSave(g)
  <2>1. PICK low \in run[g].batch \cup {run[g].mark}, newest \in run[g].batch \cup {run[g].mark} :
          /\ HighEnd(newest, run[g].batch, run[g].mark)
          /\ \E from : Save(run[g].batch, from, MaxMessageId, low, newest)
          /\ head' = newest
    BY <1>4 DEF NewerSave
  <2>2. pc'[g] = "older" /\ UNCHANGED chat /\ run[g].mark <= last /\ run[g].batch \subseteq 1..last
    BY <1>1, <1>4 DEF NewerSave, Goto, WatchInv, Watched, Saving
  <2>3. low \in Nat /\ newest \in Nat /\ low <= newest /\ newest <= last
    BY <1>1, <2>1, <2>2 DEF HighEnd, IsHighest
  <2>4. IdsAssigned'
    BY <2>1, <2>2, <2>3, SaveAssigned DEF WatchInv, TypeInv
  <2> QED
    BY <1>3, <2>1, <2>2, <2>3, <2>4 DEF chat
<1>5. CASE OlderSave(g)
  <2>1. PICK low \in run[g].batch \cup {0} :
          Save(run[g].batch, low, run[g].span.lo - 1, low, run[g].span.lo)
    BY <1>5 DEF OlderSave
  <2>2. /\ pc'[g] = "window" /\ UNCHANGED chat /\ head' = head /\ run[g].span.lo <= last
        /\ \A b \in run[g].batch : b < run[g].span.lo
    BY <1>1, <1>5 DEF OlderSave, Goto, WatchInv, Watched, TypeInv, OlderBelow
  <2>3. low \in Nat /\ low <= run[g].span.lo
    BY <1>1, <2>2
  <2>4. IdsAssigned'
    BY <1>1, <2>1, <2>2, <2>3, SaveAssigned DEF WatchInv, TypeInv
  <2> QED
    BY <1>3, <2>2, <2>4 DEF WatchInv, chat
<1>6. CASE RefreshSave(g)
  <2>1. PICK low \in run[g].batch \cup {0}, newest \in run[g].batch \cup {0} :
          /\ HighEnd(newest, run[g].batch, 0)
          /\ \E from : Save(run[g].batch, from, MaxMessageId, low, newest)
          /\ head' = newest
    BY <1>6 DEF RefreshSave
  <2>2. pc'[g] = "window" /\ UNCHANGED chat /\ run[g].batch \subseteq 1..last
    BY <1>1, <1>6 DEF RefreshSave, Goto, WatchInv, Watched, Saving
  <2>3. low \in Nat /\ newest \in Nat /\ low <= newest /\ newest <= last
    BY <1>1, <2>1, <2>2 DEF HighEnd, IsHighest
  <2>4. IdsAssigned'
    BY <2>1, <2>2, <2>3, SaveAssigned DEF WatchInv, TypeInv
  <2> QED
    BY <1>3, <2>1, <2>2, <2>3, <2>4 DEF chat
<1> QED
  BY <1>4, <1>5, <1>6

LEMMA WatchStep ==
  ASSUME WatchInv, Next, Watch
  PROVE  WatchInv'
<1>1. TypeInv' /\ last \in Nat /\ head \in Int
  BY TypeStep DEF WatchInv, TypeInv, TypeOK, NoHead
<1>2. seen' \in [Getters -> Nat]
  BY <1>1 DEF WatchInv, Watch
<1>3. CASE Arrive
  <2>1. /\ last' = last + 1 /\ telegram' = telegram \cup {last + 1}
        /\ UNCHANGED <<store, pc, run>>
    BY <1>3 DEF Arrive
  <2>2. IdsAssigned' /\ head' <= last'
    BY <1>1, <2>1 DEF WatchInv, IdsAssigned, TypeInv, TypeOK, Ranges, store
  <2>3. \A g \in Getters : Watched(g)'
    BY <1>1, <2>1, WatchedKept
  <2> QED
    BY <1>1, <1>2, <2>2, <2>3 DEF WatchInv
<1>4. ASSUME NEW m \in Ids, Delete(m) \/ Capture(m)
      PROVE  WatchInv'
  <2>1. /\ last' = last /\ telegram' \subseteq telegram /\ UNCHANGED <<ranges, head, pc, run>>
    BY <1>4 DEF Delete, Capture, store, chat
  <2>2. IdsAssigned' /\ head' <= last'
    BY <2>1 DEF WatchInv, IdsAssigned
  <2>3. \A g \in Getters : Watched(g)'
    BY <1>1, <2>1, WatchedKept
  <2> QED
    BY <1>1, <1>2, <2>2, <2>3 DEF WatchInv
<1>5. ASSUME NEW g \in Getters, Step(g)
      PROVE  WatchInv'
  <2>1. /\ UNCHANGED chat
        /\ \A h \in Getters \ {g} : pc'[h] = pc[h] /\ run'[h] = run[h]
    BY <1>5 DEF Step, Begin, Abort, FreshState, FreshNewest, CoversRange,
       CoversCount, WindowRange, WindowRows, NewerFrom, NewerFetch, NewerSave, OlderRange,
       OlderCount, OlderFetch, OlderSave, RefreshFetch, RefreshSave, NotLocal, Return, Goto,
       WatchInv, TypeInv, TypeOK
  <2>2. \A h \in Getters \ {g} : Watched(h)'
    BY <1>1, <2>1, WatchedKept DEF chat
  <2>3. CASE NewerSave(g) \/ OlderSave(g) \/ RefreshSave(g)
    BY <1>1, <1>2, <2>2, <2>3, WatchedSaveStep DEF WatchInv
  <2>4. CASE UNCHANGED <<chat, store>>
    <3>1. IdsAssigned' /\ head' <= last'
      BY <2>4 DEF WatchInv, IdsAssigned, chat, store
    <3> QED
      BY <1>1, <1>2, <1>5, <2>2, <2>4, <3>1, WatchedLocalStep DEF WatchInv
  <2> QED
    BY <1>5, <2>3, <2>4 DEF Step, Begin, Abort, FreshState, FreshNewest, CoversRange,
       CoversCount, WindowRange, WindowRows, NewerFrom, NewerFetch, OlderRange, OlderCount,
       OlderFetch, RefreshFetch
<1> QED
  BY <1>3, <1>4, <1>5 DEF Next

(* Of what Telegram has, this step drops only what arrived after the fetch *)
(* of the getter that saves.                                               *)
DropsOnlyLater ==
  \A m \in messages \ messages' : m \in telegram =>
    \E g \in Getters : (NewerSave(g) \/ RefreshSave(g)) /\ seen[g] < m

LEMMA LaterDropped ==
  ASSUME WatchInv, Next
  PROVE  DropsOnlyLater
<1> SUFFICES ASSUME NEW m \in messages, m \notin messages', m \in telegram
             PROVE  \E g \in Getters : (NewerSave(g) \/ RefreshSave(g)) /\ seen[g] < m
  BY DEF DropsOnlyLater
<1>1. PICK g \in Getters : NewerSave(g) \/ OlderSave(g) \/ RefreshSave(g)
  BY DEF Next, Arrive, Delete, Capture, Step, Begin, Abort, FreshState, FreshNewest, CoversRange,
     CoversCount, WindowRange, WindowRows, NewerFrom, NewerFetch, OlderRange, OlderCount,
     OlderFetch, RefreshFetch, store
<1>2. /\ run[g].mark \in Nat /\ run[g].span.lo \in Nat /\ m \in Nat /\ seen[g] \in Nat
      /\ run[g].batch \subseteq Ids /\ \A x \in run[g].batch \cup {0} : x \in Nat
      /\ m # 0
  BY DEF WatchInv, TypeInv, TypeOK, Runs, Ranges, Ids
<1>3. ASSUME FetchedUntil(g), NEW low \in Nat, m \notin run[g].batch, run[g].mark < m,
             LowEnd(low, run[g].batch, run[g].limit, run[g].mark), low <= m
      PROVE  seen[g] < m
  BY <1>2, <1>3 DEF FetchedUntil, LowEnd, IsLowest
<1>4. CASE NewerSave(g)
  <2> DEFINE complete == Cardinality(run[g].batch) < run[g].limit
  <2>1. PICK low \in run[g].batch \cup {run[g].mark} :
          /\ LowEnd(low, run[g].batch, run[g].limit, run[g].mark)
          /\ messages' = (messages \ (IF complete THEN run[g].mark + 1 ELSE low)..MaxMessageId)
                           \cup run[g].batch
    BY <1>4 DEF NewerSave, Save
  <2>2. low \in Nat /\ FetchedUntil(g) /\ m \notin run[g].batch
    BY <1>2, <1>4, <2>1 DEF NewerSave, Goto, WatchInv, Watched
  <2>3. CASE complete
    <3>1. run[g].mark < m
      BY <1>2, <2>1, <2>3
    <3> QED
      BY <1>2, <1>4, <2>2, <2>3, <3>1 DEF FetchedUntil
  <2>4. CASE ~complete
    <3>1. low \in run[g].batch /\ low <= m /\ \A b \in run[g].batch : low <= b
      BY <1>2, <2>1, <2>2, <2>4 DEF LowEnd, IsLowest
    <3>2. run[g].mark < m
      BY <1>2, <2>2, <3>1 DEF FetchedUntil
    <3> QED
      BY <1>2, <1>3, <1>4, <2>1, <2>2, <3>1, <3>2
  <2> QED
    BY <2>3, <2>4
<1>5. CASE RefreshSave(g)
  <2>1. PICK low \in run[g].batch \cup {0} :
          /\ LowEnd(low, run[g].batch, run[g].limit, 0)
          /\ messages' = (messages \ low..MaxMessageId) \cup run[g].batch
    BY <1>5 DEF RefreshSave, Save
  <2>2. low \in Nat /\ FetchedUntil(g) /\ m \notin run[g].batch /\ run[g].mark = 0
    BY <1>2, <1>5, <2>1 DEF RefreshSave, Goto, WatchInv, Watched
  <2>3. low <= m
    BY <1>2, <2>1, <2>2
  <2> QED
    BY <1>2, <1>3, <1>5, <2>1, <2>2, <2>3
<1>6. CASE OlderSave(g)
  <2>1. PICK low \in run[g].batch \cup {0} :
          /\ LowEnd(low, run[g].batch, run[g].want, 0)
          /\ messages' = (messages \ low..(run[g].span.lo - 1)) \cup run[g].batch
    BY <1>6 DEF OlderSave, Save
  <2>2. FetchedOlder(g) /\ m \notin run[g].batch
    BY <1>6, <2>1 DEF OlderSave, Goto, WatchInv, Watched
  <2>3. low \in Nat /\ low <= m /\ m < run[g].span.lo
    BY <1>2, <2>1
  <2> QED
    BY <1>2, <2>1, <2>2, <2>3 DEF FetchedOlder, LowEnd, IsLowest
<1> QED
  BY <1>1, <1>4, <1>5, <1>6

LEMMA WatchKept == WatchedSpec => []WatchInv
<1>1. Init /\ seen = [g \in Getters |-> 0] => WatchInv
  <2> SUFFICES ASSUME Init, seen = [g \in Getters |-> 0]
               PROVE  WatchInv
    OBVIOUS
  <2>1. TypeInv
    BY InitTyped
  <2>2. IdsAssigned /\ head <= last
    BY DEF Init, IdsAssigned, NoHead
  <2>3. seen \in [Getters -> Nat]
    OBVIOUS
  <2>4. ASSUME NEW g \in Getters
        PROVE  Watched(g)
    <3>1. pc[g] = "idle" /\ seen[g] = 0 /\ last = 0
      BY DEF Init
    <3> QED
      BY <3>1 DEF Watched, Saving
  <2> QED
    BY <2>1, <2>2, <2>3, <2>4 DEF WatchInv
<1>2. WatchInv /\ [Next /\ Watch]_<<vars, seen>> => WatchInv'
  <2> SUFFICES ASSUME WatchInv, UNCHANGED <<vars, seen>>
               PROVE  WatchInv'
    BY WatchStep
  <2> QED
    BY DEF WatchInv, vars, TypeInv, TypeOK, OlderBelow, IdsAssigned, Watched, FetchedUntil,
           FetchedOlder
<1> QED
  BY <1>1, <1>2, PTL DEF WatchedSpec

(* However many getters overlap, a save of `tele get` drops a message that *)
(* Telegram still has only when it arrived after that getter's own fetch;  *)
(* an extension downwards drops none (_Sync._save).                        *)
THEOREM DropsOnlyAfterFetch == WatchedSpec => [][DropsOnlyLater]_<<vars, seen>>
<1>1. WatchInv /\ [Next /\ Watch]_<<vars, seen>> => [DropsOnlyLater]_<<vars, seen>>
  BY LaterDropped
<1> QED
  BY <1>1, WatchKept, PTL DEF WatchedSpec

(* No message arrives between a fetch and its save.                        *)
QuietSave == (\E g \in Getters : pc[g] \in {"newerSave", "refreshSave"}) => last' = last

FetchedAll == \A g \in Getters : pc[g] \in {"newerSave", "refreshSave"} => seen[g] = last

LEMMA AllStep ==
  ASSUME WatchInv, FetchedAll, Next, Watch, QuietSave
  PROVE  FetchedAll'
<1> SUFFICES ASSUME NEW g \in Getters, pc'[g] \in {"newerSave", "refreshSave"}
             PROVE  seen'[g] = last'
  BY DEF FetchedAll
<1>1. CASE pc[g] \in {"newerSave", "refreshSave"}
  BY <1>1 DEF FetchedAll, Watch, Fetching, QuietSave
<1>2. CASE pc[g] \notin {"newerSave", "refreshSave"}
  <2>1. PICK h \in Getters : Step(h)
    BY <1>2 DEF Next, Arrive, Delete, Capture
  <2>2. NewerFetch(g) \/ RefreshFetch(g)
    BY <1>2, <2>1 DEF Step, Begin, Abort, FreshState, FreshNewest, CoversRange,
       CoversCount, WindowRange, WindowRows, NewerFrom, NewerFetch, NewerSave, OlderRange,
       OlderCount, OlderFetch, OlderSave, RefreshFetch, RefreshSave, NotLocal, Return, Goto,
       WatchInv, TypeInv, TypeOK
  <2> QED
    BY <2>2 DEF NewerFetch, RefreshFetch, Goto, Watch, Fetching, chat
<1> QED
  BY <1>1, <1>2

(* When no message arrives between a fetch and its save, a save drops      *)
(* only messages that Telegram no longer has (delete_messages_except),     *)
(* however many getters overlap and whatever is captured meanwhile.        *)
THEOREM QuietSavesDropDeleted == WatchedSpec /\ [][QuietSave]_vars => DropsOnlyDeleted
<1>1. Init => FetchedAll
  BY DEF Init, FetchedAll
<1>2. WatchInv /\ FetchedAll /\ [Next /\ Watch]_<<vars, seen>> /\ [QuietSave]_vars => FetchedAll'
  <2>1. CASE UNCHANGED <<vars, seen>>
    BY <2>1 DEF FetchedAll, vars
  <2>2. CASE UNCHANGED vars /\ Watch
    BY <2>2 DEF FetchedAll, vars, Watch, Fetching
  <2> QED
    BY <2>1, <2>2, AllStep
<1>3. WatchInv /\ FetchedAll /\ [Next /\ Watch]_<<vars, seen>> =>
        [\A m \in messages \ messages' : m \notin telegram]_vars
  <2> SUFFICES ASSUME WatchInv, FetchedAll, Next, Watch,
                      NEW m \in messages, m \notin messages', m \in telegram
               PROVE  FALSE
    BY DEF vars
  <2>1. PICK g \in Getters : (NewerSave(g) \/ RefreshSave(g)) /\ seen[g] < m
    BY LaterDropped DEF DropsOnlyLater
  <2>2. seen[g] = last /\ m \in 1..last
    BY <2>1 DEF NewerSave, RefreshSave, Goto, FetchedAll, WatchInv, IdsAssigned
  <2>3. last \in Nat
    BY DEF WatchInv, TypeInv, TypeOK
  <2> QED
    BY <2>1, <2>2, <2>3
<1> QED
  BY <1>1, <1>2, <1>3, WatchKept, PTL DEF WatchedSpec, DropsOnlyDeleted
=============================================================================
