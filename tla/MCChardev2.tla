----------------------------- MODULE MCChardev2 -----------------------------
(* An instance of Chardev2 for TLC.                                         *)
EXTENDS Chardev2

(* An empty string, and one shorter than BUF_LEN, one of exactly BUF_LEN     *)
(* bytes and one longer.                                                     *)
Messages == {<<>>, <<1>>, <<1, 2>>, <<1, 2, 2>>}
=============================================================================
