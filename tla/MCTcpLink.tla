------------------------------ MODULE MCTcpLink -----------------------------
EXTENDS TcpLink
=============================================================================
