------------------------ MODULE MCEntityReplication ------------------------
(* Two seats, two slots for three entities: slots are used again.          *)
EXTENDS EntityReplication, TLC

CONSTANTS p1, p2, here, there, nobody

Symmetry == Permutations({p1, p2})
=============================================================================
