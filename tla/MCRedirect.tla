----------------------------- MODULE MCRedirect -----------------------------
EXTENDS Redirect, TLC
=============================================================================
