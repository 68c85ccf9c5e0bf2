----------------------------- MODULE MCDatabase ------------------------------
(***************************************************************************)
(* Instances of Database for TLC.                                          *)
(***************************************************************************)
EXTENDS Database

CONSTANTS k1, k2, k3, w1, w2

ThreeKeys == {k1, k2, k3}
TwoKeys == {k1, k2}
FewTexts == {<<w1>>, <<3>>}
NegativeDelta == {-3}
OneText == {<<1>>}
OneKey == {k1}

WordSize == [x \in Key \cup Word |-> IF x = w1 THEN 5 ELSE 1]
EqualSize == [x \in Key \cup Word |-> 1]

\* For the runs in which the keys are interchangeable.
KeySymmetry == Permutations(Key)
=============================================================================
