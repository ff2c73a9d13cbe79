------------------------------ MODULE MCSession ------------------------------
EXTENDS LudpSession, TLC
=============================================================================
