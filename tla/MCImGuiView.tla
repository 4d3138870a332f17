---------------------------- MODULE MCImGuiView -----------------------------
(* Instances of ImGuiView for TLC. *)
EXTENDS ImGuiView, TLC

CONSTANTS v1, v2, left
TwoViews == {v1, v2}
OneView == {v1}
OneButton == {left}
Symmetry == Permutations(TwoViews)
=============================================================================
