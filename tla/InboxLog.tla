------------------------------ MODULE InboxLog -------------------------------
(***************************************************************************)
(* What the inbox of one account promises its readers, whatever listeners  *)
(* write it: a log of events, numbered in commit order by a counter that   *)
(* never goes back, with one event per message.  Deleting a message        *)
(* deletes its event, never its number.                                    *)
(***************************************************************************)
EXTENDS Naturals

CONSTANT Messages     \* incoming messages of the listened chats

VARIABLES
  events,     \* rows of inbox_events: an ID and the message it is about
  sequence    \* inbox_sequence.last_event_id, or 0 without a row

Events == [id : Nat, message : Messages]

LogInit == events = {} /\ sequence = 0

(* save_inbox_message: nothing for a message that has an event already.    *)
Number(m) ==
  /\ \A e \in events : e.message # m
  /\ sequence' = sequence + 1
  /\ events' = events \cup {[id |-> sequence', message |-> m]}

(* delete_messages_except: events go with their message.                   *)
Drop(m) ==
  /\ events' = {e \in events : e.message # m}
  /\ UNCHANGED sequence

LogNext == \E m \in Messages : Number(m) \/ Drop(m)

LogSpec == LogInit /\ [][LogNext]_<<events, sequence>>
=============================================================================
