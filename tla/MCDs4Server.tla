---------------------------- MODULE MCDs4Server ----------------------------
EXTENDS Ds4Server

MCPrompts == {<<1, 1, 1, 1>>, <<1, 1, 1, 1, 1, 2, 2, 2>>, <<2, 2, 2, 2>>}
MCSampled == {<<1>>}
=============================================================================
