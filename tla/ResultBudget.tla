---------------------------- MODULE ResultBudget ----------------------------
(***************************************************************************)
(* boundedCollectionResult of src/tools/resultBudget.ts: a result that is  *)
(* too large for a frame keeps a prefix of each of its collections.        *)
(*                                                                         *)
(* A result is its collections, in the order of collectionKeys, and a      *)
(* collection the lengths of its items as JSON; the rest of the result     *)
(* matters by its length alone.                                            *)
(***************************************************************************)
EXTENDS Integers, Sequences, SequencesExt

CONSTANTS Budget,   \* MAX_BRIDGE_SUCCESS_RESULT_BYTES
          Envelope, \* the bytes of a result whose collections are empty
          Flag      \* the bytes that "truncated" adds to it

ASSUME BudgetAssumption == {Budget, Envelope, Flag} \subseteq Nat

\* JSON.stringify puts a comma between two items.
ListBytes(items) ==
    FoldLeft(LAMBDA n, bytes : n + bytes, 0, items)
    + (IF items = <<>> THEN 0 ELSE Len(items) - 1)

\* serializedBytes
Bytes(rest, collections) ==
    FoldLeft(LAMBDA n, items : n + ListBytes(items), rest, collections)

\* The items that are pushed until the first that is popped again.
Prefix(items, room) ==
    LET taken[n \in 0..Len(items)] ==
          IF n = 0 THEN 0
          ELSE IF taken[n - 1] = n - 1 /\ ListBytes(SubSeq(items, 1, n)) <= room
          THEN n
          ELSE taken[n - 1]
    IN  SubSeq(items, 1, taken[Len(items)])

\* The collections of a result that is over the budget, one after the other:
\* while one is filled those after it are empty.
Shortened(collections) ==
    FoldLeft(LAMBDA kept, items :
               Append(kept, Prefix(items, Budget - Bytes(Envelope + Flag, kept))),
             <<>>, collections)

\* boundedCollectionResult
Bounded(collections) ==
    IF Bytes(Envelope, collections) <= Budget
    THEN [truncated |-> FALSE, collections |-> collections]
    ELSE [truncated |-> TRUE, collections |-> Shortened(collections)]
=============================================================================
