--------------------------- MODULE MCJobCollection ---------------------------
(***************************************************************************)
(* Instances of JobCollection for TLC.                                     *)
(*   flat:   s is a sequence of p and q, k a collection of u and v; q, u   *)
(*           and v share a restriction of cap 1.                           *)
(*   nested: o is a sequence of i and w, i a sequence of p and q.          *)
(*   mixed:  nested, and k.                                                *)
(***************************************************************************)
EXTENDS JobCollection

CONSTANTS o, i, s, k, p, q, u, v, w, t1, t2, r1, dep

FlatElements == (s :> <<p, q>>) @@ (k :> <<u, v>>)

FlatPolicies == (s :> <<>>) @@ (k :> <<>>) @@ (p :> <<dep>>)
                @@ (q :> <<r1, dep>>) @@ (u :> <<r1>>) @@ (v :> <<r1>>)

NestedElements == (o :> <<i, w>>) @@ (i :> <<p, q>>)

NestedPolicies == (o :> <<>>) @@ (i :> <<dep>>) @@ (w :> <<r1, dep>>)
                  @@ (p :> <<dep>>) @@ (q :> <<r1, dep>>)

MixedElements == NestedElements @@ (k :> <<u, v>>)

MixedPolicies == NestedPolicies @@ (k :> <<>>) @@ (u :> <<r1>>) @@ (v :> <<r1>>)

CapOne == r1 :> 1

ThreadSymmetry == Permutations(Threads)
=============================================================================
