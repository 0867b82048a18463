----------------------------- MODULE MCInboxWait -----------------------------
(* Model-checking instance of InboxWait: two wanted messages and one of a *)
(* chat or sender the calls do not ask for.                                *)
EXTENDS InboxWait

CONSTANTS m1, m2, other

MCMessages == {m1, m2, other}
MCWanted == {m1, m2}
AnyStepButPrint == Steps \ {"idle", "print"}
=============================================================================
