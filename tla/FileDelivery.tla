---------------------------- MODULE FileDelivery ----------------------------
(***************************************************************************)
(* What the exchange of files promises, seen only from the offers that are *)
(* made and the files that are kept: a user keeps nothing but a whole copy *)
(* of a file that was offered to them, as it was when it was offered.      *)
(***************************************************************************)
CONSTANTS Clients, Files, Whole  (* Whole[f]: the content of the file f    *)

VARIABLES
  offered,  (* <<from, to, file>> that were offered                        *)
  kept      (* kept[c]: <<from, content>> of the files c has kept          *)

Init == offered = {} /\ kept = [c \in Clients |-> {}]

Offer(from, to, file) ==
  /\ offered' = offered \cup {<<from, to, file>>}
  /\ UNCHANGED kept

Keep(from, to, file) ==
  /\ <<from, to, file>> \in offered
  /\ kept' = [kept EXCEPT ![to] = @ \cup {<<from, Whole[file]>>}]
  /\ UNCHANGED offered

Next ==
  \E from, to \in Clients, file \in Files : Offer(from, to, file) \/ Keep(from, to, file)

Spec == Init /\ [][Next]_<<offered, kept>>
=============================================================================
