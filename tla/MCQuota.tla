------------------------------ MODULE MCQuota ------------------------------
(* Instances of Quota for TLC: a root account with one sub-account and one *)
(* digital human, another root account, one server.                        *)
EXTENDS Quota, TLC

CONSTANTS root, child, other, human, s1, w1, w2

RootOf == (root :> root) @@ (child :> root) @@ (other :> other)
OwnerOf == human :> root
HomeOf == (w1 :> s1) @@ (w2 :> s1)

(* A tenant with time, and one whose sub-account alone has some; the other *)
(* tenant never has any to begin with.                                     *)
Openings == {(root :> 3) @@ (child :> 0) @@ (other :> 0) @@ (human :> 2),
             (root :> 0) @@ (child :> 3) @@ (other :> 0) @@ (human :> 2)}

(* A package, and one of a negative amount.                                *)
Packages == {3, -4}

(* A renewal by three years is beyond an int, one by a day is not.         *)
Deadlines == {[year |-> 0, month |-> 0, day |-> 1], [year |-> 3, month |-> 0, day |-> 0]}

(* The workers are handlers of one server.                                 *)
AnyWorker == Permutations({w1, w2})
=============================================================================
