---------------------------- MODULE MCPodWatcher ----------------------------
(* PodWatcher with a pod of two policies and a pod of one. *)
EXTENDS PodWatcher, TLC

CONSTANTS p1, p2, c1, c2

TwoPods == (p1 :> {c1, c2}) @@ (p2 :> {c1})

OnePod == p1 :> {c1, c2}
=============================================================================
