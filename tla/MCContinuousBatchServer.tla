---------------------- MODULE MCContinuousBatchServer ----------------------
EXTENDS ContinuousBatchServer
=============================================================================
