---------------------------- MODULE MCNativeApp ----------------------------
(* Small instances of NativeApp for TLC.                                   *)
EXTENDS NativeApp, TLC

(* Two outputs of two bytes: 32 bytes, too, leave two over three.          *)
TestPrf == [c \in {"old", "new"} |-> IF c = "old" THEN <<7, 200>> ELSE <<255, 1>>]

(* Outputs of every length up to the real one.                             *)
ASSUME CodecIsTrue ==
    \A n \in 1..32, k \in {0, 1, 85, 170, 254, 255} :
        CodecKeeps([i \in 1..n |-> (n + i * k) % 256])
=============================================================================
