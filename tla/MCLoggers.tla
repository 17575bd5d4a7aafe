------------------------------- MODULE MCLoggers -------------------------------
EXTENDS Loggers

MCPmFaults == {"directory", "file"}

\* The sizes and numbers of files of the test, and those no logger can be made with.
MCFileSizes == {0, 70}
MCFileCounts == {0, 1, 3}
===============================================================================
