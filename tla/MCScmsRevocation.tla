--------------------------- MODULE MCScmsRevocation ---------------------------
EXTENDS ScmsRevocation
===============================================================================
