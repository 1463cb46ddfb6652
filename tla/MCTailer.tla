------------------------------- MODULE MCTailer -------------------------------
\* An instance of Tailer for TLC: a log listed as a file and one in a watched
\* directory.
EXTENDS Tailer

CONSTANTS p1, p2

TwoLogs == {p1, p2}
OneLog == {p1}
=============================================================================
