--------------------------- MODULE MCResultBudget ---------------------------
(* ResultBudget checked by TLC on small results, when the module of a run  *)
(* extends this one.                                                       *)
EXTENDS ResultBudget

\* Two collections, as of a snapshot, of items of several lengths.
Collections == SeqOf(1..3, 3)
Results == Collections \X Collections

Rest(r) == Envelope + (IF r.truncated THEN Flag ELSE 0)

\* What leaves the dispatcher fits, as long as what is no collection does.
ASSUME ResultsFit ==
    Envelope + Flag <= Budget =>
      \A cs \in Results :
        LET r == Bounded(cs) IN Bytes(Rest(r), r.collections) <= Budget

\* A result says that it is truncated exactly if something is missing.
ASSUME TruncationIsTold ==
    \A cs \in Results : Bounded(cs).truncated <=> Bounded(cs).collections # cs

\* The reference definition: the lengths kept of a truncated result are, in the
\* order of the keys, lexicographically the greatest that fit.
Fitting(cs) ==
    {<<i, j>> \in (0..Len(cs[1])) \X (0..Len(cs[2])) :
       Bytes(Envelope + Flag, <<SubSeq(cs[1], 1, i), SubSeq(cs[2], 1, j)>>) <= Budget}

ASSUME EarlierKeysComeFirst ==
    Envelope + Flag <= Budget =>
      \A cs \in Results : Bounded(cs).truncated =>
        \E k \in Fitting(cs) :
          /\ Bounded(cs).collections = <<SubSeq(cs[1], 1, k[1]), SubSeq(cs[2], 1, k[2])>>
          /\ \A l \in Fitting(cs) : l[1] < k[1] \/ (l[1] = k[1] /\ l[2] <= k[2])
=============================================================================
