-------------------------- MODULE MCWorkspaceSync --------------------------
EXTENDS WorkspaceSync
============================================================================
