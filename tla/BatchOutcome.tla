---------------------------- MODULE BatchOutcome ----------------------------
(***************************************************************************)
(* What a caller of post_batch learns: the answer to every request, or,    *)
(* when it raises, the answers to the batches before the one that failed   *)
(* and which requests that one carried; the rest were not sent.            *)
(***************************************************************************)

Outcome(call) == [answered : SUBSET call, failed : SUBSET call]

Outcomes(call) ==
  {outcome \in Outcome(call) :
     /\ outcome.answered \intersect outcome.failed = {}
     /\ outcome.failed = {} => outcome.answered = call}
=============================================================================
