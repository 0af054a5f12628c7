---------------------------- MODULE MCHopDelivery ----------------------------
EXTENDS HopDelivery
OneRetry == <<1>>
=============================================================================
