-------------------------- MODULE MCGgmlThreadPool --------------------------
(* A pool of three threads and the graphs it is given. *)
EXTENDS GgmlThreadPool

MCRequests == {2, 4}
MCShapes == {<<"mulmat", "empty", "plain">>, <<"fused", "plain">>}
=============================================================================
