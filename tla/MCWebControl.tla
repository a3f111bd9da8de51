---------------------------- MODULE MCWebControl ----------------------------
EXTENDS WebControl, TLC

\* Handlers are interchangeable, and so are profile identifiers.
Symmetry == Permutations(Handlers) \cup Permutations(Ids)
=============================================================================
