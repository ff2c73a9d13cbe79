------------------------------- MODULE MCFpga -------------------------------
EXTENDS LudpFpga, TLC
=============================================================================
