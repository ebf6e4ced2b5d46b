------------------------------- MODULE MCVkbd -------------------------------
(* An instance of Vkbd for TLC: 16 unsigned ints, longs of twice the width  *)
(* less one bit, three keys.                                                *)
EXTENDS Vkbd

(* Press and release of a key, of the first key that is not in the map, a   *)
(* number that does not fit an unsigned int, and the smallest long.         *)
SomeNumbers == {1, -1, 3, 17, -128}
Smallest    == -128
=============================================================================
