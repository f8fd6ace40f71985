-------------------------------- MODULE MCMemOrder --------------------------------
(* Small instances of MemOrder for TLC. *)
EXTENDS MemOrder

(* One access is enough: only the order in which lanes are served matters. *)
MCIssued == {NoAccess}

================================================================================
