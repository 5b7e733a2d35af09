----------------------------- MODULE MCSocksUDP -----------------------------
EXTENDS SocksUDP
=============================================================================
