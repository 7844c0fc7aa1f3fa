--------------------------- MODULE MCBridgeRounds ---------------------------
EXTENDS BridgeRounds

=============================================================================
