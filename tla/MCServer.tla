------------------------------- MODULE MCServer -------------------------------
(***************************************************************************)
(* A small instance of Server: a build with two files, one with three, and *)
(* one whose second file was edited, which a developer runs with a key     *)
(* that is too short; the others run on a trusted network, the old one at  *)
(* times with the echo of codes left on, the new one also to migrate only. *)
(***************************************************************************)
EXTENDS Server

CONSTANTS old, new, edited, a, b, s1, s2

MCRunners == {old, new, edited}
MCContents == {a, b}
MCDir ==
    [r \in MCRunners |->
        CASE r = old -> <<a, a>>
          [] r = new -> <<a, a, a>>
          [] r = edited -> <<a, b>>]
MCSlots == {s1, s2}

Production ==
    [dev |-> FALSE, weak |-> {"plain"}, trusted |-> TRUE, migrateOnly |-> FALSE]
Development ==
    [dev |-> TRUE, weak |-> {"jwt", "echo"}, trusted |-> FALSE, migrateOnly |-> FALSE]
MCConfigs ==
    [r \in MCRunners |->
        CASE r = old -> {Production, [Production EXCEPT !.weak = @ \cup {"echo"}]}
          [] r = new -> {Production, [Production EXCEPT !.migrateOnly = TRUE]}
          [] r = edited -> {[Development EXCEPT !.weak = @ \cup {"short"}]}]
===============================================================================
