----------------------------- MODULE MCSession -----------------------------
(* Session for TLC: a right and a wrong password, or two users. *)
EXTENDS Session

CONSTANTS Ann, Bea

TwoCredentials == {Ann, Bea}
=============================================================================
