------------------------------ MODULE LwwStore ------------------------------
(***************************************************************************)
(* What the LATEST partition promises: the row of a name is the greatest,  *)
(* in TSV order, of the SET of records written under that name, whatever   *)
(* the order, the number of attempts or the processes that wrote them      *)
(* ("the data is completely deterministic and eventually consistent",      *)
(* attr-rec.js:126) - but for one tie.  Of a deletion and the values of    *)
(* its time and sequence that sort after "null" the store shows the        *)
(* deletion or the greatest of those values, and keeps showing it.         *)
(***************************************************************************)
EXTENDS Tsv

CONSTANTS Keys,     \* the records that can be written: [name, val, up, seq]
          Names,    \* the (document, attribute name) pairs
          NoRow     \* the name has no row

VARIABLES seen,     \* the records written so far
          value     \* value[n]: what a reader of n gets

lwwVars == <<seen, value>>

Of(S, n) == {k \in S : k.name = n}

(* The records a reader of n may get once those in S have been written:    *)
(* the greatest one, and the deletion that stands against it.              *)
Winners(S, n) ==
    {k \in Of(S, n) : \A j \in Of(S, n) : TsvLeq(j, k) \/ StandsAgainst(k, j)}

LwwInit == /\ seen = {}
           /\ value = [n \in Names |-> NoRow]

(* What is shown is a winner, and is replaced only when it no longer is.   *)
Write(k) ==
    /\ seen' = seen \cup {k}
    /\ value' \in [Names -> Keys \cup {NoRow}]
    /\ \A n \in Names :
         /\ value'[n] \in IF Of(seen', n) = {} THEN {NoRow}
                                               ELSE Winners(seen', n)
         /\ value[n] \in Winners(seen', n) => value'[n] = value[n]

LwwNext == \E k \in Keys : Write(k)

LwwSpec == LwwInit /\ [][LwwNext]_lwwVars
=============================================================================
