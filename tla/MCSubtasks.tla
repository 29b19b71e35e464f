----------------------------- MODULE MCSubtasks -----------------------------
EXTENDS Subtasks
=============================================================================
