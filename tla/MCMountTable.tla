---------------------------- MODULE MCMountTable ----------------------------
EXTENDS MountTable
=============================================================================
