------------------------------ MODULE RequestSpec ------------------------------
(***************************************************************************)
(* What a request to the peers promises the goroutine that makes it, and   *)
(* what Node takes a request to be: it ends with what one or more of the   *)
(* peers hold of the blocks asked for, possibly nothing, or by its timer.  *)
(* asking[c] is {w} while goroutine c waits for the blocks w, and {}       *)
(* otherwise; result[c] is {b} when the last request has brought b, and {} *)
(* when it has failed.                                                     *)
(***************************************************************************)
CONSTANTS Callers, Peers, Hashes, Holds

VARIABLES asking, result

promised == <<asking, result>>

(* What the peers Q have of the blocks asked for.                          *)
Answer(Q, want) == UNION {Holds[p] \cap want : p \in Q}

Ask(c) ==
  /\ asking[c] = {}
  /\ \E want \in SUBSET Hashes : asking' = [asking EXCEPT ![c] = {want}]
  /\ result' = result

EndAnswered(c) ==
  \E want \in asking[c], Q \in (SUBSET Peers) \ {{}} :
    /\ asking' = [asking EXCEPT ![c] = {}]
    /\ result' = [result EXCEPT ![c] = {Answer(Q, want)}]

EndTimedOut(c) ==
  /\ asking[c] # {}
  /\ asking' = [asking EXCEPT ![c] = {}]
  /\ result' = [result EXCEPT ![c] = {}]

PromisedInit ==
  /\ asking = [c \in Callers |-> {}]
  /\ result = [c \in Callers |-> {}]

PromisedNext == \E c \in Callers : Ask(c) \/ EndAnswered(c) \/ EndTimedOut(c)

PromisedSpec == PromisedInit /\ [][PromisedNext]_promised
===============================================================================
