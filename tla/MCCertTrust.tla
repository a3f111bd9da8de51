----------------------------- MODULE MCCertTrust -----------------------------
EXTENDS CertTrust, TLC

\* Certificates are interchangeable, and so are the slots.
Symmetry == Permutations(CA) \cup Permutations(Slots)
=============================================================================
