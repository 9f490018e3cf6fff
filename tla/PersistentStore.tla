--------------------------- MODULE PersistentStore ---------------------------
(***************************************************************************)
(* What ContextCache relies on of a PersistentStore, for one key: an entry *)
(* is written only where there is none, and it stays as it was written     *)
(* until it is removed or lost.                                            *)
(***************************************************************************)
CONSTANTS Entries, NoEntry

VARIABLE entry

PSInit == entry = NoEntry

Insert == entry = NoEntry /\ entry' \in Entries

Discard == entry # NoEntry /\ entry' = NoEntry

PSSpec == PSInit /\ [][Insert \/ Discard]_entry

=============================================================================
