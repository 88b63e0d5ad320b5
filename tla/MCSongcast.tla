------------------------------ MODULE MCSongcast ------------------------------
(* Model checking of Songcast: renderers and streams are interchangeable.    *)
EXTENDS Songcast, TLC

\* Every list of renderers without a repetition, of at most two.
MCLists == {<<>>} \cup {<<r>> : r \in Renderers}
           \cup {l \in Renderers \X Renderers : l[1] # l[2]}

MCPlaces == {-1, 0, 1}

Symmetry == Permutations(Renderers) \cup Permutations(Uris)
=============================================================================
