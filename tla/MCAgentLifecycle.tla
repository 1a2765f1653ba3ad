--------------------------- MODULE MCAgentLifecycle ---------------------------
EXTENDS AgentLifecycle
=============================================================================
