------------------------------ MODULE MCFlock ------------------------------
EXTENDS Flock
============================================================================
