---------------------------- MODULE MCHostObjects ---------------------------
(* Instances of HostObjects for TLC. *)
EXTENDS HostObjects, TLC

CONSTANTS main, worker, h1, h2, w1, o1, o2, o3
TwoThreads == {main, worker}
ThreeVars == {h1, h2, w1}
ThreeObjects == {o1, o2, o3}
ThreadOfVar == [v \in ThreeVars |-> IF v = w1 THEN worker ELSE main]

\* Objects and the host's variables are only compared.
Symmetry ==
  {p @@ q : p \in Permutations(ThreeObjects), q \in Permutations({h1, h2})}
=============================================================================
