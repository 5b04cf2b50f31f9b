---------------------------- MODULE MCKubeInput ----------------------------
(* Two namespaces (or resources), one object in each.                        *)
EXTENDS KubeInput

CONSTANTS o1, o2, g1, g2

MCCollectorOf == o1 :> g1 @@ o2 :> g2
=============================================================================
