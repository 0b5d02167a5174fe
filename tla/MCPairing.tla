------------------------------ MODULE MCPairing ------------------------------
\* An instance of Pairing for TLC.  Requests and handlers are interchangeable.
EXTENDS Pairing, TLC

Symmetry == Permutations(Claims) \cup Permutations(Handlers)
=============================================================================
