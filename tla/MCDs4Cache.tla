---------------------------- MODULE MCDs4Cache ----------------------------
EXTENDS Ds4Cache

A == <<1, 1, 1, 1>>
MCPrompts == {A, A \o <<2, 1>>, A \o <<1, 2, 2, 2>>, <<2, 2, 2, 2>>, A \o <<0>>}
MCToolPrompts == {<<2, 2, 2, 2>>}
MCToolTexts == {<<1>>}
MCSampled == {<<1>>, <<2>>}
=============================================================================
