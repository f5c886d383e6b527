------------------------------- MODULE MCPool -------------------------------
(***************************************************************************)
(* Instances of Pool for TLC.                                              *)
(***************************************************************************)
EXTENDS Pool, TLC

Worked  == [kind |-> "ok", tasks |-> 2]         \* reported two tasks
Crashed == [kind |-> "bad", tasks |-> NoCount]

MCExits == {Worked, Crashed}

Symmetry == Permutations(Workers)
=============================================================================
