----------------------------- MODULE MCConnection -----------------------------
(***************************************************************************)
(* The texts of the runs of Connection: every name of up to MaxLength      *)
(* characters, the separator, the escape text and its digits among them.   *)
(***************************************************************************)
EXTENDS Connection

CONSTANT MaxLength

Characters == {"$", "&", "#", "3", "6"}
Texts == UNION {[1..n -> Characters] : n \in 1..MaxLength}
TwoExecutors == Permutations(Executors)
===============================================================================
