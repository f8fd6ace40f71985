------------------------------- MODULE MCAccelMmio -------------------------------
(* Small instances of AccelMmio for TLC: 2 x 1 with two chunks and 1 x 2    *)
(* with one, so that each loop of the accelerator goes round.              *)
EXTENDS AccelMmio, TLC

(* A at 0, B transposed at 4, C at 8, with a word to spare behind C. *)
Config(m, n, k) == (A_BASE :> 0 @@ B_BASE :> 4 @@ C_BASE :> 8
                    @@ M_REG :> m @@ N_REG :> n @@ K_REG :> k @@ SCALE :> 1)
MCConfigs == {Config(2, 1, 8), Config(1, 2, 4)}

(* Bytes of both signs: 1, -1, 2, -3. *)
Words == <<1, -1, 258, -768, 513, -255, 3, -2, 0, 0, 0>>
MCInitialMem == {[a \in 0 .. 10 |-> Words[a + 1]]}

================================================================================
