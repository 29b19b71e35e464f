-------------------------- MODULE MCRemoteControl --------------------------
EXTENDS RemoteControl
============================================================================
