------------------------------- MODULE MCDemo -------------------------------
(* Constants for TLC: two resets, the job worker and one request. *)
EXTENDS DemoReset, TLC

CONSTANTS r1, r2, boot, worker, request

MCResets == {r1, r2}
MCUsers == {worker, request}
MCOneReset == {r1}
MCOneUser == {request}
MCSymmetry == Permutations(MCResets)

=============================================================================
