------------------------------ MODULE MCPages -------------------------------
(* Pages for TLC: two other users; texts that just fit and the longest.    *)
EXTENDS Pages

CONSTANTS A, B

TwoUsers == <<A, B>>
LongTexts == {MaxMessagePlainPayloadSize - 1, MaxMessagePlainPayloadSize}
=============================================================================
