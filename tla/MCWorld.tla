------------------------------ MODULE MCWorld ------------------------------
EXTENDS World
CONSTANTS a, b
=============================================================================
