------------------------------ MODULE MCDaemonRun ------------------------------
\* Instance of DaemonRun for TLC.
EXTENDS DaemonRun
=============================================================================
