-------------------------- MODULE MCBridgeDelivery --------------------------
EXTENDS BridgeDelivery
=============================================================================
