------------------------ MODULE MCAttentionDataflow ------------------------
EXTENDS AttentionDataflow
=============================================================================
