------------------------- MODULE MCMetricsCollector -------------------------
EXTENDS MetricsCollector
CONSTANTS cpu, gc
MCProviders == <<cpu, gc>>
=============================================================================
