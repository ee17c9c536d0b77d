-------------------------- MODULE MC_Notifications --------------------------
EXTENDS Notifications, TLC
=============================================================================
