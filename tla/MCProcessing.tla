--------------------------- MODULE MCProcessing ---------------------------
EXTENDS Processing
=============================================================================
