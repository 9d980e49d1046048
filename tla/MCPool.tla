------------------------------- MODULE MCPool --------------------------------
(* UpstreamPool: two streaming requests, one that is buffered and a poller on *)
(* two connections, two candidates each.                                      *)
EXTENDS UpstreamPool

CONSTANTS r1, r2, r3, p1    \* model values
=============================================================================
