-------------------------------- MODULE Tsv ---------------------------------
(***************************************************************************)
(* TSV conflict resolution: how the server orders two records of the same  *)
(* attribute.  attr-rec.js:126-129 promises a total order (timestamp, then *)
(* sequence number, then value); the code realises it as the WHERE clause  *)
(* of one SQL UPDATE (attr-rec.js:130-152).  This module holds both, so    *)
(* that the stores can use the second and be judged by the first.          *)
(*                                                                         *)
(* A value is the rank of its JSON text in the collation of the database:  *)
(* numbers, false, lists and, in the C collation, strings sort before      *)
(* "null", true and objects after it.  A deletion has no value: SQL     *)
(* stores NULL, but the WHERE clause is built by concatenation and         *)
(* compares with the four letters "null", which have a rank of their own   *)
(* among the texts (NullText).                                             *)
(***************************************************************************)
EXTENDS Integers

CONSTANTS Null,       \* the SQL NULL, also the JavaScript null
          Values,     \* ranks of the JSON texts an attribute can hold
          NullText    \* rank of the text "null", the value of no attribute

ASSUME TsvAssumption ==
    /\ NullText \in Int
    /\ Values \subseteq Int \ {NullText}
    /\ Null \notin Int

(* The text that stands for a value inside the WHERE clause.               *)
Text(v) == IF v = Null THEN NullText ELSE v

(* Mutants of Replaces: a clause is missing, or has the wrong comparison.  *)
ReplacesIgnoringSeq(new, old) ==
    \/ old.up < new.up
    \/ old.up = new.up /\ old.val # Null /\ old.val <= Text(new.val)

ReplacesIgnoringValue(new, old) ==
    old.up < new.up \/ (old.up = new.up /\ old.seq < new.seq)

ReplacesGreaterOnly(new, old) ==
    \/ old.up < new.up
    \/ old.up = new.up /\ old.seq < new.seq
    \/ /\ old.up = new.up /\ old.seq = new.seq
       /\ old.val # Null /\ old.val < Text(new.val)

(* The WHERE clause: does the incoming record replace the stored row?      *)
(* Comparing a stored NULL with anything is unknown, so it never matches.  *)
Replaces(new, old) ==
    \/ old.up < new.up
    \/ old.up = new.up /\ old.seq < new.seq
    \/ /\ old.up = new.up
       /\ old.seq = new.seq
       /\ old.val # Null
       /\ old.val <= Text(new.val)

(* The documented order.                                                   *)
TsvLeq(a, b) ==
    \/ a.up < b.up
    \/ a.up = b.up /\ a.seq < b.seq
    \/ a.up = b.up /\ a.seq = b.seq /\ Text(a.val) <= Text(b.val)

(* The tie that the clause leaves to the order of arrival: a stored        *)
(* deletion is replaced by no record of its time and sequence, though a    *)
(* value whose text sorts after "null" comes after it in the order.        *)
StandsAgainst(del, rec) == /\ del.val = Null
                           /\ rec.val # Null /\ NullText < rec.val
                           /\ del.up = rec.up /\ del.seq = rec.seq
=============================================================================
