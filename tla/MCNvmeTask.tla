----------------------------- MODULE MCNvmeTask -----------------------------
EXTENDS NvmeTask
=============================================================================
