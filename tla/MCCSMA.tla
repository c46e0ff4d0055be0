------------------------------- MODULE MCCSMA --------------------------------
EXTENDS CSMA

BackOffRanges == <<1, 2, 4, 8>>
=============================================================================
