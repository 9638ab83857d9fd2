------------------------------ MODULE MCVescBench ------------------------------
EXTENDS VescBench
=============================================================================
