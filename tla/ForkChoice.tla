----------------------------- MODULE ForkChoice -----------------------------
(***************************************************************************)
(* What the node promises about its head (README: "Automatic chain         *)
(* reorganization with total work comparison"): the head only moves to a   *)
(* block with strictly more accumulated work, whose whole branch is valid. *)
(* Nothing is kept over a restart, so a new process starts at genesis.     *)
(***************************************************************************)
EXTENDS BlockTree

VARIABLE head

Init == head = Genesis

Adopt(b) ==
  /\ TotalWork[b] > TotalWork[head]
  /\ SoundBranch(b)
  /\ head' = b

Reboot == head' = Genesis

Next == (\E b \in Headers : Adopt(b)) \/ Reboot

Spec == Init /\ [][Next]_head
=============================================================================
