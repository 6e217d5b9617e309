--------------------------- MODULE MCDistribution ---------------------------
(* One job with three recipients in batches of two; the last has no          *)
(* trustline.                                                                *)
EXTENDS Distribution

CONSTANTS j1

MCJob     == {j1}
MCSize    == [j \in MCJob |-> 3]
MCPayable == {<<j1, 1>>, <<j1, 2>>}

=============================================================================
