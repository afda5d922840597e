---------------------------- MODULE MCAttrStore -----------------------------
(* Small instances of AttrStore for TLC.                                   *)
EXTENDS AttrStore, TLC

CONSTANTS x, y   \* two attributes

Change(n, v, up, seq, q) ==
    [name |-> n, val |-> v, up |-> up, seq |-> seq, quorum |-> q]

(* Ties in time and sequence between a value, an object (whose text sorts  *)
(* after "null") and a deletion, a greater sequence, and a later change    *)
(* that has no quorum.                                                     *)
TieChanges == { Change(x, 1, 1, Null, TRUE),
                Change(x, 4, 1, 0, TRUE),
                Change(x, Null, 1, 0, TRUE),
                Change(x, 1, 1, 1, TRUE),
                Change(x, 2, 2, -1, FALSE) }

(* Writers are interchangeable.                                            *)
WriterSymmetry == Permutations(Writers)

(* An object or true, whose text sorts after "null", ties with a deletion. *)
(* Two names get the same records, in the orders TLC chooses, and          *)
(* SameRecordsSameRow does not hold.                                       *)
ObjectChanges == UNION {{ Change(n, 4, 1, Null, TRUE),
                          Change(n, Null, 1, Null, TRUE) } : n \in Names}
=============================================================================
