--------------------------- MODULE MCDocLifecycle ---------------------------
(* Small instances of DocLifecycle for TLC.                                *)
EXTENDS DocLifecycle

CONSTANTS x, y

Edit(n, v, t) == [name |-> n, val |-> v, up |-> t, seq |-> 0]
Deletion(t)   == [name |-> Tomb, val |-> Null, up |-> t, seq |-> 0]

(* A document with two attributes, created at 1.                           *)
LiveDoc  == [updated |-> 1, destroyed |-> Null, last |-> Null]
LiveRows == [n \in Columns |-> IF n = Tomb THEN NoRow ELSE Edit(n, 2, 1)]

(* Two deletions, an edit between them, one that ties with the second, and *)
(* two after it, one of each attribute; any of them may be processed while *)
(* the others are not there yet.                                           *)
Mixed == { Deletion(2), Edit(x, 2, 3), Deletion(4), Edit(x, 3, 4),
           Edit(x, 2, 5), Edit(y, 1, 5) }

(* A document with one attribute is deleted and edited twice after that.   *)
OneAttr == { Deletion(2), Edit(x, 1, 3), Edit(x, 2, 4) }
=============================================================================
