----------------------------- MODULE MCLogViewer -----------------------------
\* Instance of LogViewer for TLC: one virtual host and one system log.
EXTENDS LogViewer

CONSTANTS host, auth

OneHost == <<host>>
OneLog == <<auth>>
=============================================================================
