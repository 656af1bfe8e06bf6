------------------------ MODULE MCFormatNegotiation ------------------------
(* FormatNegotiation over a format with and a format without a counterpart  *)
(* in PipeWire, the former with alpha, one explicit modifier, and two gbm   *)
(* devices, of which one has planes for it.                                 *)
EXTENDS FormatNegotiation, TLC

CONSTANTS argb, xrgb, rg88, tiled, implicit, card0, card1

MCFourccs == {argb, rg88}
MCConvertible == {argb}
MCWithBpp == {argb}
MCOpaque == (argb :> xrgb) @@ (rg88 :> None)
MCModifiers == {tiled}
MCAnnounced == {<<argb, tiled>>, <<rg88, implicit>>}
MCRenderable == {<<card0, argb, tiled>>}
MCDevices == {card0, card1}
=============================================================================
