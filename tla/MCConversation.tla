--------------------------- MODULE MCConversation ---------------------------
(* A small conversation for TLC.  Tasks that need no selection, of which   *)
(* one leaves data no later task reuses, and one that reuses data.         *)
EXTENDS Conversation

OnlyCalendar == {{"calendar"}}
ReadAndReuse == {"once", "expanded", "alternative"}
=============================================================================
