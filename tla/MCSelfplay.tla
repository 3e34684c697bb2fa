----------------------------- MODULE MCSelfplay -----------------------------
EXTENDS Selfplay
=============================================================================
