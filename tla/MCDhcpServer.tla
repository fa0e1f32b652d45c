---------------------------- MODULE MCDhcpServer ----------------------------
EXTENDS DhcpServer, TLC

Stas == Permutations(Clients)
=============================================================================
