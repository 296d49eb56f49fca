------------------------------ MODULE MCLibrary ------------------------------
(* One title on two sources: the old one re-issues its second chapter, after   *)
(* chapter one half; the new one numbers both its chapters 0, as some do.      *)
EXTENDS Library, TLC

CONSTANTS old, new, a1, a2, r2, b1, b2, t1, t2

Answers == old :> {{a1, a2}, {a1, r2}} @@ new :> {{b1, b2}}

Numbers == a1 :> 1 @@ a2 :> 2 @@ r2 :> 2 @@ b1 :> 0 @@ b2 :> 0

Reissues == [i \in {a1, a2, r2, b1, b2} |-> IF i = r2 THEN a2 ELSE Nothing]

Symmetric == Permutations(Threads)
=============================================================================
