------------------------- MODULE MCRequestLifecycle -------------------------
(***************************************************************************)
(* RequestLifecycle for TLC: the kinds of request that take different      *)
(* paths through the handler.                                              *)
(***************************************************************************)
EXTENDS RequestLifecycle, TLC

Kind(route, json, shaped, stream, anthropic) ==
  [route |-> route, json |-> json, shaped |-> shaped, stream |-> stream,
   anthropic |-> anthropic]

\* A monitoring probe, a chat completion that streams, a Messages request that
\* streams, and a streaming body the rewrites do not apply to.
Mixed == {Kind("monitor", FALSE, FALSE, FALSE, FALSE),
          Kind("forward", TRUE, TRUE, TRUE, FALSE),
          Kind("forward", TRUE, TRUE, TRUE, TRUE),
          Kind("forward", TRUE, FALSE, TRUE, FALSE)}

\* Every path: also the local answers and a body that is not JSON.
EveryPath == Mixed \cup {Kind("vram", TRUE, FALSE, FALSE, FALSE),
                         Kind("metrics", FALSE, FALSE, FALSE, FALSE),
                         Kind("forward", FALSE, FALSE, FALSE, FALSE)}

Symmetry == Permutations(Requests)
===========================================================================
