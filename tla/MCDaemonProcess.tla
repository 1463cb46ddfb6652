---------------------------- MODULE MCDaemonProcess ----------------------------
\* Instance of DaemonProcess for TLC; processes and starters are interchangeable.
EXTENDS DaemonProcess, TLC

PidsAndStarters == Permutations(Pid) \cup Permutations(Starter)
=============================================================================
