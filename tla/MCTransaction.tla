--------------------------- MODULE MCTransaction ---------------------------
EXTENDS Transaction
=============================================================================
