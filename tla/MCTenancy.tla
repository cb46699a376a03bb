----------------------------- MODULE MCTenancy -----------------------------
(* Instance: two tenant ids, two slugs, a member, a super admin, one key *)
(* and two requests at a time.                                             *)
EXTENDS Tenancy, TLC

CONSTANTS t1, t2, s1, s2, u1, root, k1, c1, c2

Symmetry == Permutations({t1, t2}) \cup Permutations({s1, s2})
            \cup Permutations({c1, c2})
=============================================================================
