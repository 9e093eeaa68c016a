---------------------------- MODULE MCBandwidth ----------------------------
EXTENDS Bandwidth
=============================================================================
