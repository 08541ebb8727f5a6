--------------------------- MODULE MCSandboxQueue ---------------------------
\* Two ids and three jobs: a list of two jobs, a third job that arrives while
\* the first runs, and an id that is used twice.
EXTENDS SandboxQueue

MCIds == {1, 2}
MCAttempts == {2}
MCAttemptsQuiet == {1, 2}
=============================================================================
