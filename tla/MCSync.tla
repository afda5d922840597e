------------------------------- MODULE MCSync -------------------------------
(* Small instances of Sync for TLC.                                        *)
EXTENDS Sync, TLC

(* The clients are interchangeable.                                        *)
ClientSymmetry == Permutations(Clients)
=============================================================================
