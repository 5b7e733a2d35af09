---------------------------- MODULE MCQUICProxy ----------------------------
EXTENDS QUICProxy
=============================================================================
