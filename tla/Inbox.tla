------------------------------- MODULE Inbox --------------------------------
(***************************************************************************)
(* The inbox as a whole: the listener of InboxCapture writes it and the    *)
(* agent of InboxWait reads it.  They share its two tables and nothing     *)
(* else; what the agent took for any numbered log is now written by        *)
(* captures, retries, restarts and `tele get`.                             *)
(***************************************************************************)
EXTENDS InboxCapture, InboxWait

listenerVars ==
  <<arrived, stage, dispatched, passed, session, task, messages, reported, lost, stops, drops>>
readerVars == <<cursor, pc, call, origin, printed>>

InboxInit == CaptureInit /\ Init

InboxNext ==
  \/ CaptureNext /\ UNCHANGED readerVars
  \/ ReaderNext /\ UNCHANGED listenerVars

InboxSpec == InboxInit /\ [][InboxNext]_<<captureVars, readerVars>>
=============================================================================
