--------------------------- MODULE MCClassicSender ---------------------------
EXTENDS ClassicSender, TLC
TabSymmetry == Permutations(Tabs)
=============================================================================
