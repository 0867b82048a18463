------------------------------ MODULE ChatLog -------------------------------
(***************************************************************************)
(* One Telegram chat as the server keeps it: the messages in the order in  *)
(* which it accepted them, a message's ID being its position.  Telegram is *)
(* no part of the program: this is what the commands rely on.              *)
(***************************************************************************)
EXTENDS Naturals, Sequences

CONSTANTS
  Requests,   \* runs of `tele send`, each the author of what it sends
  Peer,       \* the other side: the author of incoming messages
  MaxChat     \* bound: messages in the chat

ASSUME ChatAssumption == Peer \notin Requests /\ MaxChat \in Nat

VARIABLE chat

Authors == Requests \cup {Peer}

Incoming == {i \in DOMAIN chat : chat[i] = Peer}
Copies(r) == {i \in DOMAIN chat : chat[i] = r}

Accepted(author) ==
  /\ Len(chat) < MaxChat
  /\ chat' = Append(chat, author)
=============================================================================
