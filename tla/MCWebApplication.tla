-------------------------- MODULE MCWebApplication --------------------------
(***************************************************************************)
(* One client that has an account and an address, two web processes, and   *)
(* limits in the order of those of the code: a window is three heartbeats. *)
(***************************************************************************)
EXTENDS WebApplication

MCLimit == [anonymous |-> 2, member |-> 3, admin |-> 4]
=============================================================================
