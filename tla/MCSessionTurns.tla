-------------------------- MODULE MCSessionTurns ---------------------------
EXTENDS SessionTurns
============================================================================
