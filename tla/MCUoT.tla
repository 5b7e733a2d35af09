------------------------------- MODULE MCUoT -------------------------------
EXTENDS UoT
=============================================================================
