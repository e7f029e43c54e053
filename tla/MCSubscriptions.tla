-------------------------- MODULE MCSubscriptions --------------------------
(* Small instances of Subscriptions for TLC: two requests for one pair and,  *)
(* where there is a third, one for another.                                 *)
EXTENDS Subscriptions, TLC

CONSTANTS s1, s2, s3, p1, p2

TwoPairs == (s1 :> p1) @@ (s2 :> p1) @@ (s3 :> p2)
OnePair  == (s1 :> p1) @@ (s2 :> p1)

\* s1 and s2 ask for the same pair, and all links may be followed alike.
Permutation == Permutations({s1, s2}) \cup Permutations(Clicks)
=============================================================================
