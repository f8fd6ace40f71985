--------------------------------- MODULE Relaunch --------------------------------
(***************************************************************************)
(* Launch with the host launch_kernel of Src/Top_level_GPU/tests/common.py *)
(* called with reset=False: it launches the next kernel as soon as it has  *)
(* seen kernel_done, writes start once, and polls in the next cycle.       *)
(***************************************************************************)
EXTENDS Launch

EagerTick == (LaunchKernelTick \/ NextKernel) /\ Edge

RelaunchSpec == LaunchInit /\ [][EagerTick]_launchVars

================================================================================
