--------------------------- MODULE MCHeadController ---------------------------
EXTENDS HeadControllerProofs
=============================================================================
