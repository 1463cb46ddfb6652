----------------------------- MODULE MCForwarding -----------------------------
\* Instance of AgentForwarding for TLC: the hub rejects the second line.
EXTENDS AgentForwarding

SecondInvalid == {2}
=============================================================================
