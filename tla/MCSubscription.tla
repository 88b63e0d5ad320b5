---------------------------- MODULE MCSubscription ----------------------------
(* Model checking of Subscription: services and SIDs are interchangeable.    *)
EXTENDS Subscription, TLC

Symmetry == Permutations(Services) \cup Permutations(SIDs)
=============================================================================
