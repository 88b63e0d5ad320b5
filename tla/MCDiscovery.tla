----------------------------- MODULE MCDiscovery -----------------------------
(* Model checking of Discovery: the threads of a kind are interchangeable,   *)
(* and so are the devices and the visitors.                                  *)
EXTENDS Discovery, TLC

\* For the safety runs only.
Symmetry ==
  Permutations(Devices) \cup Permutations(NetThreads) \cup Permutations(Users)
    \cup Permutations(Visitors)
=============================================================================
