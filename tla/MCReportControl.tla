--------------------------- MODULE MCReportControl ---------------------------
\* The report control block for TLC: the trigger options that clients write.
EXTENDS ReportControl

SomeTriggers == {{"data-change"}, {"data-change", "integrity", "gi"}}
=============================================================================
