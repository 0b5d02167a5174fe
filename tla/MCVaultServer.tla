---------------------------- MODULE MCVaultServer ----------------------------
\* An instance of VaultServer for TLC.
EXTENDS VaultServer
=============================================================================
