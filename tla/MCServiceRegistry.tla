-------------------------- MODULE MCServiceRegistry --------------------------
(***************************************************************************)
(* ServiceRegistry with two callers over two names: one name is written    *)
(* twice, the other once, so a write can land before, between and after    *)
(* the two shard reads of another call.                                    *)
(***************************************************************************)
EXTENDS ServiceRegistry

CONSTANTS a, b

MCNames == {a, b}
MCMaxWrites == [n \in MCNames |-> IF n = a THEN 2 ELSE 1]
=============================================================================
