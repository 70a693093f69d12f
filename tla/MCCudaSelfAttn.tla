-------------------------- MODULE MCCudaSelfAttn --------------------------
EXTENDS CudaSelfAttn
=============================================================================
