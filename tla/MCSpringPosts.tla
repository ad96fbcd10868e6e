--------------------------- MODULE MCSpringPosts ---------------------------
EXTENDS SpringPosts, TLC

Symmetry == Permutations(Image) \cup Permutations(Request)
============================================================================
