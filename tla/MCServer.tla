------------------------------ MODULE MCServer ------------------------------
(* Small instances of Server for TLC. *)
EXTENDS Server

MCKeySize == [k \in Keys |-> IF k = EmptyKey THEN 0 ELSE 1]
MCValSize == [v \in Values |-> IF v = EmptyVal THEN 0 ELSE 1]

=============================================================================
