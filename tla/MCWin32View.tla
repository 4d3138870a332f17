---------------------------- MODULE MCWin32View -----------------------------
(* Instances of Win32View for TLC. *)
EXTENDS Win32View, TLC

CONSTANTS p1, p2, v1, v2, v3
OnePlugin == {p1}
TwoPlugins == {p1, p2}
TwoViews == {v1, v2}
ThreeViews == {v1, v2, v3}
Symmetry == Permutations(TwoPlugins) \cup Permutations(ThreeViews)
=============================================================================
