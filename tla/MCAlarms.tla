------------------------------ MODULE MCAlarms ------------------------------
(* Alarms of two names, the first with two texts, and two blocks for them.  *)
EXTENDS Alarms

CONSTANTS n1, n2, text1, reworded1, text2, b1, b2, t1, t2

ThreeTexts == {text1, reworded1, text2}
NamesOfTexts == [t \in ThreeTexts |-> IF t = text2 THEN n2 ELSE n1]
TwoBlocks == {b1, b2}
TwoSessions == {t1, t2}
=============================================================================
