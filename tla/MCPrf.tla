------------------------------- MODULE MCPrf -------------------------------
EXTENDS Prf

\* "EXPORTER-Channel-Binding" is 24 bytes; contexts of 32 and 40 bytes.
MC_ExporterLabels == {24}
MC_ExporterContexts == {NoContext, 32, 40}
=============================================================================
