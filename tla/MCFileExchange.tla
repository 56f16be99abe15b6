--------------------------- MODULE MCFileExchange ---------------------------
(* FileExchange for TLC: who there is, and which files. *)
EXTENDS FileExchange

CONSTANTS Ann, Bob, Carol, Letter

Three == {Ann, Bob, Carol}
OneFile == {Letter}
OneChunk == [f \in Files |-> 1]

(* Everyone knows everyone; Bob and Carol know Ann alone, and she them, or *)
(* is new to Bob, whose list does not have her yet.                        *)
All == [c \in Clients |-> Clients \ {c}]
AnnAmid == [c \in Clients |-> IF c = Ann THEN {Bob, Carol} ELSE {Ann}]
Everyone == {All}
AmidOrNew == {AnnAmid, [AnnAmid EXCEPT ![Bob] = {}]}
=============================================================================
