---------------------------- MODULE MCEventRouter ----------------------------
(* Instances of EventRouter for TLC. *)
EXTENDS EventRouter, TLC

CONSTANTS t1, t2, o1, o2

OneTopic  == {t1}
TwoTopics == {t1, t2}
OneOwner  == {o1}

\* Topics are only compared for equality, so permuting them changes nothing.
TopicSymmetry == Permutations(TwoTopics)

=============================================================================
