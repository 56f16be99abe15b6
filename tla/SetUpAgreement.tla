--------------------------- MODULE SetUpAgreement ---------------------------
(***************************************************************************)
(* What the set-up of a conversation promises, seen only from the coder    *)
(* streams it hands out: those of netCreateConversation come first, made   *)
(* from a key of each of the two users that went into nothing before;      *)
(* those of netReplyToConversationSetUpInvite come second and only as the  *)
(* counterpart of the inviter's.  A user can be left without a counterpart *)
(* (the last message was lost), and then it is always the invitee.         *)
(***************************************************************************)
CONSTANT Clients

VARIABLE made  (* made[c]: the <<peer, session>> for which c got streams *)

Init == made = [c \in Clients |-> {}]

(* The keys that went into streams of anyone. *)
UsedKeys == UNION {{x[2].server, x[2].client} : x \in UNION {made[c] : c \in Clients}}

Gets(c, peer, session) == made' = [made EXCEPT ![c] = @ \cup {<<peer, session>>}]

InviterGets(c, peer, session) ==
  /\ session.client.owner = c /\ session.server.owner = peer
  /\ {session.client, session.server} \cap UsedKeys = {}
  /\ Gets(c, peer, session)

InviteeGets(c, peer, session) ==
  /\ session.client.owner = peer /\ session.server.owner = c
  /\ <<c, session>> \in made[peer]
  /\ <<peer, session>> \notin made[c]
  /\ Gets(c, peer, session)

(* The step is given by its outcome: the one thing that is new at c. *)
Next ==
  \E c \in Clients : \E x \in made'[c] \ made[c] :
    InviterGets(c, x[1], x[2]) \/ InviteeGets(c, x[1], x[2])

Spec == Init /\ [][Next]_made
=============================================================================
