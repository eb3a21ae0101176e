--------------------------- MODULE MCHotStuffRestart ---------------------------
\* An instance of HotStuffRestart for TLC.
EXTENDS HotStuffRestart

\* No timer fires.
NoTimers == {}
==============================================================================
