------------------------------ MODULE MCStores ------------------------------
EXTENDS Stores
=============================================================================
