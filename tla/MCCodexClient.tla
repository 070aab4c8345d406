---------------------------- MODULE MCCodexClient ----------------------------
EXTENDS CodexClient

CONSTANTS c1, c2
=============================================================================
