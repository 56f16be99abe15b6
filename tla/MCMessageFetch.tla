--------------------------- MODULE MCMessageFetch ---------------------------
(* MessageFetch for TLC: the users of the list. *)
EXTENDS MessageFetch

CONSTANTS Bob, Carol

UpToTwoConversations == {<<>>, <<Bob>>, <<Bob, Carol>>}
OneConversation == {<<Bob>>}
=============================================================================
