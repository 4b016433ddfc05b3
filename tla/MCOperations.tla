---------------------------- MODULE MCOperations ----------------------------
(* Operations on small instances.                                          *)
EXTENDS Operations, TLC

CONSTANTS t1, t2, s1, s2

\* Two targets on stripes of their own.
MCTargets == {t1, t2}
MCStripes == {s1, s2}
MCStripeOf == t1 :> s1 @@ t2 :> s2

\* Both targets hash to one stripe.
MCOneStripe == {s1}
MCOneStripeOf == t1 :> s1 @@ t2 :> s1

\* One request of each kind, for different targets.
MCRequests == {[target |-> t1, kind |-> "helm"], [target |-> t2, kind |-> "workload"]}

\* One request only: every operation contends for the same target.
MCOneRequest == {[target |-> t1, kind |-> "workload"]}

MCSymmetry == Permutations(Workers)
=============================================================================
