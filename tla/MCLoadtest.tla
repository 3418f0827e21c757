------------------------------ MODULE MCLoadtest ------------------------------
(* Model values for Loadtest: each load type, and two sizes of two.        *)
EXTENDS Loadtest

MCLoads == {[kind |-> "chunky", count |-> 1], [kind |-> "entity", count |-> 1],
            [kind |-> "entity", count |-> 2],
            [kind |-> "player", count |-> 1], [kind |-> "player", count |-> 2],
            [kind |-> "fly", count |-> 1]}
=============================================================================
