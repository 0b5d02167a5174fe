---------------------------- MODULE MCCloudBackup ----------------------------
\* An instance of CloudBackup for TLC.
EXTENDS CloudBackup
=============================================================================
