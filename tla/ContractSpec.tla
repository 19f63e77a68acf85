----------------------------- MODULE ContractSpec -----------------------------
(***************************************************************************)
(* What a Marigold contract promises: its storage is what its source says. *)
(* A deployment or a call has its whole effect at once, or none.           *)
(***************************************************************************)
EXTENDS Naturals

CONSTANTS
  Requests,               \* [data, limit]: a transaction's data and its gas
  Enough,                 \* gas for every run that ends
  Meaning(_, _, _, _)     \* how an entry of a program ends on a storage

VARIABLES
  program, storage, request,
  stage,      \* "written", "deploying", "deployed", "calling", "failed"
  outcome     \* how the last run ended: "ok" or "failed"

promised == <<program, storage, request, stage, outcome>>

Submit(from, to) ==
  /\ stage = from /\ stage' = to
  /\ request' \in Requests
  /\ UNCHANGED <<program, storage, outcome>>

(* A run with too little gas fails; one that the language leaves open may  *)
(* do anything.                                                            *)
Effect(f) ==
  LET r == Meaning(program, f, storage, request.data)
      fails == outcome' = "failed" /\ storage' = storage
  IN  \/ request.limit < Enough /\ fails
      \/ r.kind = "error" /\ fails
      \/ r.kind \in {"return", "next"} /\ outcome' = "ok" /\ storage' = r.storage
      \/ r.kind = "unspecified" /\ outcome' \in {"ok", "failed"}

Deployed ==
  /\ stage = "deploying" /\ stage' = IF outcome' = "ok" THEN "deployed" ELSE "failed"
  /\ stage' # stage
  /\ Effect("init")
  /\ UNCHANGED <<program, request>>

Called ==
  /\ stage = "calling" /\ stage' = "deployed"
  /\ Effect("call")
  /\ UNCHANGED <<program, request>>

PromisedNext == Submit("written", "deploying") \/ Deployed \/ Submit("deployed", "calling") \/ Called

PromiseSpec == [][PromisedNext]_promised
==============================================================================
