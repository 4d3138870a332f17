------------------------------ MODULE SlotTable -----------------------------
(***************************************************************************)
(* What a host session promises of its slots: each operation on a slot     *)
(* happens at once or not at all.  A slot is empty, holds a module that    *)
(* passed the gates (inspected), or holds a plugin that can be used        *)
(* (ready); a failed operation leaves no half-made slot behind.            *)
(* HostSession is shown to implement this specification.                   *)
(***************************************************************************)
EXTENDS Integers

CONSTANT Slots        \* the slots' indices

VARIABLE phase        \* what each slot holds

Init == phase = [s \in Slots |-> "empty"]

\* The lowest empty slot takes a module, and with load() its plugin too.
Claim(s) ==
  /\ phase[s] = "empty"
  /\ \A t \in Slots : t < s => phase[t] # "empty"
  /\ \E p \in {"inspected", "ready"} : phase' = [phase EXCEPT ![s] = p]

Instantiate(s) ==
  /\ phase[s] = "inspected"
  /\ phase' = [phase EXCEPT ![s] = "ready"]

\* An unload, or an instantiation that failed.
Free(s) ==
  /\ phase[s] # "empty"
  /\ phase' = [phase EXCEPT ![s] = "empty"]

Next == \E s \in Slots : Claim(s) \/ Instantiate(s) \/ Free(s)

Spec == Init /\ [][Next]_phase

=============================================================================
