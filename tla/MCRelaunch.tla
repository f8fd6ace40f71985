------------------------------- MODULE MCRelaunch --------------------------------
(* A small instance of Relaunch for TLC. *)
EXTENDS Relaunch

================================================================================
