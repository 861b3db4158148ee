---------------------------- MODULE MCTraceStore ----------------------------
\* Two records with a sidecar and one without.
EXTENDS TraceStore

CONSTANTS small, big1, big2
=============================================================================
