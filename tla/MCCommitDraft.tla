----------------------------- MODULE MCCommitDraft -----------------------------
(* A small instance of CommitDraft that TLC checks: one user types either of *)
(* two texts, the other one of them.                                         *)
EXTENDS CommitDraft

CONSTANTS w1, w2, a, b

MCTexts(w) == IF w = w1 THEN {a, b} ELSE {b}
MCMaxActs(w) == IF w = w1 THEN 3 ELSE 1
===============================================================================
