---------------------------- MODULE MCPolicyIndex ----------------------------
EXTENDS GroundingEval
==============================================================================
