------------------------------ MODULE MCJoin ------------------------------
EXTENDS Join

CONSTANTS t1, t2, n1, n2

(* One name may belong to an account somebody made by hand. *)
HandAccount == [maker |-> "hand", login |-> "handle", mail |-> "other", cohort |-> None,
                password |-> FALSE, grouped |-> FALSE, cloudUser |-> FALSE]
MCLegacy == [n \in Name |-> IF n = n1 THEN {None, HandAccount} ELSE {None}]
=============================================================================
