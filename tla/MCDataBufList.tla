--------------------------- MODULE MCDataBufList ---------------------------
\* A buffer of four entries and slices that collide in the hash lists.
EXTENDS DataBufList
=============================================================================
