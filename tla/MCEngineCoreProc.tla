--------------------------- MODULE MCEngineCoreProc ---------------------------
EXTENDS EngineCoreProc

\* Priorities of requests numbered in order of arrival.
Same == [r \in Requests |-> 0]
LatestFirst == [r \in Requests |-> -r]
=============================================================================
