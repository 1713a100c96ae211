----------------------------- MODULE MCNifoTlv ------------------------------
EXTENDS NifoTlv

MCBodySizes == 5 .. 9
MCLens == {0, 1, 3, 5}
=============================================================================
