---------------------------- MODULE MCBadBlocks ----------------------------
EXTENDS BadBlocks
=============================================================================
