-------------------------- MODULE MCFrameCapture --------------------------
(* FrameCapture on the pool the stream asks for, XDPW_PWR_BUFFERS: while one *)
(* buffer is captured into, the other waits or is with the consumer.         *)
EXTENDS FrameCapture, TLC

CONSTANTS b1, b2

TwoBuffers == {b1, b2}
AllMetas == {"header", "damage"}
===========================================================================
