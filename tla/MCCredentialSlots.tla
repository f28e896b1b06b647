------------------------- MODULE MCCredentialSlots -------------------------
\* Holders and requests are interchangeable; the safety runs use that.
EXTENDS CredentialSlots, TLC

Symmetry == Permutations(Holders) \cup Permutations(Requests)
=============================================================================
