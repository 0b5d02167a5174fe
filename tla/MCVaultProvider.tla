-------------------------- MODULE MCVaultProvider --------------------------
(* A tab with a few saves, one write of another program, two failures. *)
EXTENDS VaultProvider
=============================================================================
