----------------------------- MODULE MCKeystore -----------------------------
(* Finite instances of Keystore for TLC.                                   *)
EXTENDS Keystore, TLC
=============================================================================
