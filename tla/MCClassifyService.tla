------------------------- MODULE MCClassifyService -------------------------
EXTENDS ClassifyService, TLC
=============================================================================
