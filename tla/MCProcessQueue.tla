--------------------------- MODULE MCProcessQueue ---------------------------
(* Small instances of ProcessQueue for TLC.                                *)
EXTENDS ProcessQueue

CONSTANTS c1, c2, x, u, v

Delta(doc, user, quorum, id) ==
    [doc |-> doc, user |-> user, quorum |-> quorum, id |-> id]

(* Two users change a document, one of them without a quorum.              *)
OneDoc  == { Delta(x, u, TRUE, 1), Delta(x, v, FALSE, 2) }
One     == { Delta(x, u, TRUE, 1) }

(* One Process object per call (Node processes), or one for all.           *)
OwnObject == [c \in Calls |-> c]
SharedObject == [c \in Calls |-> "shared"]
=============================================================================
