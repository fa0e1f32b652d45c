----------------------------- MODULE MCWifiConn -----------------------------
EXTENDS WifiConn
=============================================================================
