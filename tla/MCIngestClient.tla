--------------------------- MODULE MCIngestClient ---------------------------
EXTENDS IngestClient
=============================================================================
