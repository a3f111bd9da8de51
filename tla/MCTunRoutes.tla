----------------------------- MODULE MCTunRoutes -----------------------------
EXTENDS TunRoutes
=============================================================================
