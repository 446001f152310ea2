---------------------------- MODULE MCCatalogSync ----------------------------
(***************************************************************************)
(* Small instances of CatalogSync: the files of Drive are interchangeable, *)
(* one local file stands for the local directory.                          *)
(***************************************************************************)
EXTENDS CatalogSync, TLC

CONSTANTS p1, p2, d1, d2, l1, l2

FileSymmetry == Permutations(DriveFiles) \cup Permutations(LocalFiles) \cup Permutations(Procs)

=============================================================================
