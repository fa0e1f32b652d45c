------------------------------ MODULE MCAppUart -----------------------------
EXTENDS AppUart
=============================================================================
