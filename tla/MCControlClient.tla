---------------------------- MODULE MCControlClient ----------------------------
EXTENDS ControlClient
=============================================================================
