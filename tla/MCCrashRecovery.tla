-------------------------- MODULE MCCrashRecovery --------------------------
EXTENDS CrashRecovery
=============================================================================
