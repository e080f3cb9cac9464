---------------------------- MODULE MCMuteChoices ----------------------------
(* Small instances of MuteChoices: two cues, each says a word of its own, so  *)
(* that enabling the first word shifts the list.                              *)
EXTENDS MuteChoices

CONSTANTS w1, w2, e1

TwoCues == [c \in 1..2 |-> IF c = 1 THEN {w1} ELSE {w2}]

=============================================================================
