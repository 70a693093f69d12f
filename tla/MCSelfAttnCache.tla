-------------------------- MODULE MCSelfAttnCache --------------------------
EXTENDS SelfAttnCache
=============================================================================
