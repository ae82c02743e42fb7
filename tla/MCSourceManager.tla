-------------------------- MODULE MCSourceManager --------------------------
(* Sources of different tenants, which may take the same name.             *)
EXTENDS SourceManager, TLC

CONSTANTS u1, u2, ta, tb

MCTenantOf == [u \in Uuids |-> IF u = u1 THEN ta ELSE tb]

Symmetry == Permutations(Threads) \cup Permutations(Names)
=============================================================================
