----------------------------- MODULE MCRateLimit ----------------------------
EXTENDS RateLimit, TLC

Symmetry == Permutations(Goroutine) \cup Permutations(Entry)
=============================================================================
