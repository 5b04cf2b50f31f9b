----------------------------- MODULE MCDirInput -----------------------------
(* DirInput with inode numbers, and names other than Active, that TLC may *)
(* permute.                                                                *)
EXTENDS DirInput, TLC

Symmetry == Permutations(Inode) \cup Permutations(Name \ {Active})
=============================================================================
