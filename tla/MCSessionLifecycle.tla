------------------------- MODULE MCSessionLifecycle -------------------------
(* A small instance of SessionLifecycle for TLC.                           *)
EXTENDS SessionLifecycle, TLC

CONSTANTS s1, s2, s3, i1, i2

\* Two objects share an identifier, so that one may replace the other.
SharedId == s1 :> i1 @@ s2 :> i1 @@ s3 :> i2

OneId == s1 :> i1 @@ s2 :> i1

\* Objects that share an identifier are interchangeable.
ObjectSymmetry == Permutations({s1, s2})
=============================================================================
