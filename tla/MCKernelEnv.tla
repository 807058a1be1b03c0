----------------------------- MODULE MCKernelEnv -----------------------------
EXTENDS KernelEnv
=============================================================================
