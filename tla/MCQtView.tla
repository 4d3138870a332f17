------------------------------- MODULE MCQtView ------------------------------
(* Instances of QtView for TLC: two addresses and two plugins are enough for a
   view that outlives another one, and for an address used twice. *)
EXTENDS QtView

CONSTANTS v1, v2, p1, p2

OneAddress == {v1}
TwoAddresses == {v1, v2}
OnePlugin == {p1}
TwoPlugins == {p1, p2}

=============================================================================
