--------------------------- MODULE MCOptionsCache ---------------------------
EXTENDS OptionsCache, TLC
=============================================================================
