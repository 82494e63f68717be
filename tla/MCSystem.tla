------------------------------ MODULE MCSystem ------------------------------
(* Small instances of System for TLC. *)
EXTENDS System

CONSTANTS k0, k1, v0, v1

MCKeys == {k0, k1}
MCValues == {v0, v1}
MCCommands ==
  {[kind |-> "read", key |-> k1]} \cup [kind : {"write"}, key : {k1}, val : MCValues]
=============================================================================
