---------------------------- MODULE MCToolCalls ----------------------------
EXTENDS ToolCalls
============================================================================
