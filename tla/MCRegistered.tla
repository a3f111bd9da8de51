---------------------------- MODULE MCRegistered ----------------------------
EXTENDS RegisteredCommand
=============================================================================
