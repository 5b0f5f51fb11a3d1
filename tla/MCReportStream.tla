--------------------------- MODULE MCReportStream ---------------------------
EXTENDS ReportStream
=============================================================================
