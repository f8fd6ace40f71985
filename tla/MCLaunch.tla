-------------------------------- MODULE MCLaunch --------------------------------
(* Small instances of Launch for TLC: grids from empty to larger than the  *)
(* number of cores.                                                        *)
EXTENDS Launch

================================================================================
