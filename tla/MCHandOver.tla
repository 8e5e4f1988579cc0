----------------------------- MODULE MCHandOver -----------------------------
(* Instances of HandOver for TLC.                                          *)
EXTENDS HandOver, TLC

CONSTANTS t1, t2, s1, s2, s3, s4

OneTurn == {t1}
TwoTurns == {t1, t2}
TwoBoxes == {s1, s2}
ThreeBoxes == {s1, s2, s3}
FourBoxes == {s1, s2, s3, s4}
OnePooled == {s1}
TwoPooled == {s1, s2}

\* The sandboxes yet to be created are interchangeable, and so are the turns.
Symmetry == Permutations({s2, s3}) \cup Permutations({t1, t2})
=============================================================================
