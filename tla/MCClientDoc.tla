---------------------------- MODULE MCClientDoc -----------------------------
(* Small instances of ClientDoc for TLC.                                   *)
EXTENDS ClientDoc

CONSTANTS x, y

Ch(n, v, t) == [name |-> n, val |-> v, up |-> t]

(* Both attributes, older and newer than what the user may have set, two   *)
(* deletions of the document, and around them values, removals, a change   *)
(* between the two and one in the millisecond of the second.  As in LATEST *)
(* there is no value that is not truthy.                                   *)
MixedFeed == { Ch(x, 1, 1), Ch(x, 3, 3), Ch(y, 1, 2), Ch(y, Null, 3),
               Ch(Tomb, Null, 1), Ch(Tomb, Null, 2) }
=============================================================================
