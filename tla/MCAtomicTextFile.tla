--------------------------- MODULE MCAtomicTextFile ---------------------------
(* AtomicTextFile with two texts, the longer one of three units, the shorter *)
(* one of two.                                                               *)
EXTENDS AtomicTextFile

MCValues == {<<1, 2, 3>>, <<4, 5>>}

=============================================================================
