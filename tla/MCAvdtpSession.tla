--------------------------- MODULE MCAvdtpSession ---------------------------
EXTENDS AvdtpSession, TLC

Symmetry == Permutations(SEP)
=============================================================================
