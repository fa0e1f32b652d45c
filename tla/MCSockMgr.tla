----------------------------- MODULE MCSockMgr ------------------------------
EXTENDS SockMgr
=============================================================================
