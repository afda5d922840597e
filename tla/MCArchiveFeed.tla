--------------------------- MODULE MCArchiveFeed ----------------------------
(* Small instances of ArchiveFeed for TLC.                                 *)
EXTENDS ArchiveFeed

Edit(t)     == [up |-> t, del |-> FALSE]
Deletion(t) == [up |-> t, del |-> TRUE]

(* A deletion and a later edit.  When the deletion is processed first the  *)
(* edit moves the document's recorded_at; when it is second it does not.   *)
Mixed == { Deletion(1), Edit(2) }
=============================================================================
