----------------------------- MODULE MCCloudSync -----------------------------
(* Two devices of one user, a few saves, and one request or answer lost.     *)
EXTENDS CloudSync
=============================================================================
