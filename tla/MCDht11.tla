------------------------------ MODULE MCDht11 -------------------------------
(* An instance of Dht11 for TLC: bytes of one bit, so that sums of two and  *)
(* three do not fit a byte.                                                 *)
EXTENDS Dht11

SomeReadings == {<<1, 1, 0, 1>>, <<0, 1, 1, 0>>}
=============================================================================
