------------------------------- MODULE MCDesk -------------------------------
(* Small instances of Desk: two request threads and the conversation.      *)
EXTENDS Desk

CONSTANTS c1, c2

(* Both may decide the card, at once; the buttons are split between them.  *)
Buttons == [c \in Clicks |-> IF c = c1 THEN {"review"} ELSE {"static"}]
=============================================================================
