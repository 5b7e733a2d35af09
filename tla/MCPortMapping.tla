--------------------------- MODULE MCPortMapping ---------------------------
EXTENDS PortMapping
=============================================================================
