-------------------------- MODULE MCTurnQuestions --------------------------
EXTENDS TurnQuestions
============================================================================
