---------------------------- MODULE MCTaskSignal ----------------------------
EXTENDS TaskSignal
=============================================================================
