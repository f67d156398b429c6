------------------------------ MODULE MCWebWallet ------------------------------
(* Two flows in the wallet, a rival for its names.                              *)
EXTENDS WebWallet
================================================================================
