---------------------------- MODULE MCNpuMirror ----------------------------
(* An instance of NpuMirror for TLC: a conversation with an image. *)
EXTENDS NpuMirror

Turns ==
  {[tokens |-> <<1, 2, 2, 1>>, image |-> TRUE, captured |-> TRUE],
   [tokens |-> <<1, 2, 2, 1, 2, 1>>, image |-> TRUE, captured |-> TRUE]}
=============================================================================
