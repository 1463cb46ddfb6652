------------------------------ MODULE MCScanner ------------------------------
\* Instance of Scanner for TLC; the constants are given in the .cfg files.
EXTENDS Scanner
=============================================================================
