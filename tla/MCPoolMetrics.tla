---------------------------- MODULE MCPoolMetrics ----------------------------
(***************************************************************************)
(* Instance of PoolMetrics for TLC.                                        *)
(***************************************************************************)
EXTENDS PoolMetrics, TLC

Worked  == [kind |-> "ok", tasks |-> 1]
Crashed == [kind |-> "bad", tasks |-> NoCount]

MCExits == {Worked, Crashed}

Symmetry == Permutations(Workers)
=============================================================================
