----------------------------- MODULE MCServices -----------------------------
(* Constants for the model-checking runs of Services. *)
EXTENDS Services, TLC

CONSTANTS p1, p2

\* Two of everything that runs concurrently: sendings, requests, readers.
Two == {p1, p2}
TwoSymmetry == Permutations(Two)

AllServices == {"router", "drafts", "plans", "spread", "caches", "gate", "funnel",
                "pool", "intake", "access"}
=============================================================================
