------------------------------- MODULE MCPages ------------------------------
(* Pages with one category: one full page of applications by default, two in *)
(* the category, and three applications that a search finds.                 *)
EXTENDS Pages

CONSTANT games

OneCategory == {games}

Totals == [q \in Queries |-> CASE q = "default" -> 2 [] q = "search" -> 3 [] OTHER -> 4]
=============================================================================
