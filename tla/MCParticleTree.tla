---------------------------- MODULE MCParticleTree ----------------------------
(***************************************************************************)
(* Two trees of a few particles; which particle is which does not matter.  *)
(***************************************************************************)
EXTENDS ParticleTree

Particles == Permutations(Keys)
TreesOnly == tree
===============================================================================
