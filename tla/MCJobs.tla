------------------------------- MODULE MCJobs -------------------------------
(* Instances of Jobs for TLC. *)
EXTENDS Jobs

(* The retry limits clients send: 0 as in the test of an unknown job type  *)
(* (one start all the same), 1 as the creator endpoints, 2 for a retry.    *)
MCMaxRetries == [j \in Jobs |-> j - 1]

(* The limits of the double-retry run: one start, as the creator endpoints *)
OneStart == [j \in Jobs |-> 1]
=============================================================================
