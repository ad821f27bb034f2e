------------------------- MODULE MCManagementJournal -------------------------
(* Two approved operations, two helpers and a journal that holds one       *)
(* record: the second operation waits until the first one's record is      *)
(* purged, a day after its grant expired.                                  *)
EXTENDS ManagementJournal, TLC

MCSymmetry == Permutations(Helpers)
==============================================================================
