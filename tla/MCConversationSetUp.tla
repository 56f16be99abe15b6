------------------------- MODULE MCConversationSetUp ------------------------
(* ConversationSetUp for TLC. *)
EXTENDS ConversationSetUp

(* Budgets: how many starts, deletions and file exchanges the users ask.   *)
Starts(starts, deletions, files) ==
  [what \in {"start", "delete", "file"} |->
     CASE what = "start" -> starts [] what = "delete" -> deletions [] what = "file" -> files]
TwoStartsOneDeletion == Starts(2, 1, 0)
TwoStartsOneFile == Starts(2, 0, 1)

(* Everybody's list holds everybody... *)
AllKnown == [c \in Clients |-> Clients]
(* ...or the newcomer registered after first had fetched its own.          *)
CONSTANTS Newcomer, First
NewcomerUnknown == [AllKnown EXCEPT ![First] = @ \ {Newcomer}]
=============================================================================
