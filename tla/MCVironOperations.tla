-------------------------- MODULE MCVironOperations --------------------------
EXTENDS VironOperations
=============================================================================
