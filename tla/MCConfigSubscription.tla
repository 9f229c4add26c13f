------------------------ MODULE MCConfigSubscription ------------------------
(* One or two listeners on a configuration whose second version is empty.     *)
(* Version 0 is what an old snapshot may hold.                                *)
EXTENDS ConfigSubscription

CONSTANTS l1, l2

MCOneListener  == {l1}
MCTwoListeners == {l1, l2}
MCEmptySecond  == [v \in 0 .. MaxVersion |-> IF v = 2 THEN 0 ELSE v + 5]
MCSymmetry     == Permutations(MCTwoListeners)
=============================================================================
