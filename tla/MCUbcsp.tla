------------------------------ MODULE MCUbcsp -------------------------------
EXTENDS Ubcsp
=============================================================================
