---------------------------- MODULE MCTimerWheel ----------------------------
EXTENDS SirqWheel, TLC

TimerSymmetry == Permutations(Timer)
=============================================================================
