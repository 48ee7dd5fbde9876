------------------------------- MODULE MCBoot --------------------------------
(***************************************************************************)
(* Boot for TLC: four cores, and .bss at every alignment of its start and  *)
(* its end, from empty to longer than two eight-byte stores.               *)
(***************************************************************************)
EXTENDS Boot

AllLayouts == {[start |-> s, end |-> e] : s \in 8..16, e \in 8..36}

MCLayouts == {b \in AllLayouts : b.start <= b.end}
=============================================================================
