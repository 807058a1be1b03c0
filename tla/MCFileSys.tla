----------------------------- MODULE MCFileSys ------------------------------
EXTENDS FileSys
=============================================================================
