------------------------------- MODULE MCNode -------------------------------
(***************************************************************************)
(* Small block trees on which TLC checks Node.                             *)
(***************************************************************************)
EXTENDS Node, TLC

CONSTANTS g, a1, a2, b1, b2, b3, b4, c2, c3

(* Two branches of equal length from genesis. *)
ForkHeaders == {a1, a2, b1, b2}

(* A longer branch leaves the first above genesis. *)
LateHeaders == {a1, a2, c2, c3}

(* A branch overtakes the first by more than Gap, and forks again. *)
BroadHeaders == {a1, b1, b2, b3, c2}

(* The longer branch forks above the first block that overtakes. *)
DeepHeaders == {a1, b1, b2, b3, b4, c3}

(* Where c2 and c3 branch off differs from tree to tree. *)
Spine == a1 :> g @@ a2 :> a1 @@ b1 :> g @@ b2 :> b1 @@ b3 :> b2 @@ b4 :> b3
On(headers, parent) == [h \in headers |-> parent[h]]
ForkParent == On(ForkHeaders, Spine)
LateParent == On(LateHeaders, c2 :> a1 @@ c3 :> c2 @@ Spine)
BroadParent == On(BroadHeaders, c2 :> b1 @@ Spine)
DeepParent == On(DeepHeaders, c3 :> b2 @@ Spine)

TreeHeight == g :> 0 @@ a1 :> 1 @@ b1 :> 1 @@ a2 :> 2 @@ b2 :> 2 @@ c2 :> 2
              @@ b3 :> 3 @@ c3 :> 3 @@ b4 :> 4
MCHeight == [h \in Hashes |-> TreeHeight[h]]
MCWork == [h \in Hashes |-> TreeHeight[h] + 1]
=============================================================================
