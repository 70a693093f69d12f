-------------------------- MODULE MCCudaOperators --------------------------
EXTENDS CudaOperators
MisfitGate == {<<2, "gate">>}
=============================================================================
