---------------------------- MODULE MCPollClaims ----------------------------
EXTENDS PollClaims, TLC
CONSTANTS t1, t2, r1, r2, r3
=============================================================================
