------------------------------ MODULE MCSession -----------------------------
(* Two users with one password each, and three categories: one of a group,   *)
(* one of none, and one without a name.                                      *)
EXTENDS Session

CONSTANTS ann, bob, pa, pb, games, other, c1, c2, c3

MCUsers == {ann, bob}
MCPasswords == {pa, pb}
MCAccounts == {[user |-> ann, pwd |-> pa], [user |-> bob, pwd |-> pb]}
MCFiles == {NULL, Unreadable, [user |-> ann, pwd |-> pa], [user |-> ann, pwd |-> NULL]}
MCGroups == {games, other}

Category(id, hits, named) == [id |-> id, hits |-> hits, named |-> named]

MCCatalogues == {{Category(c1, {games}, TRUE), Category(c2, {}, TRUE)},
                 {Category(c1, {games, other}, TRUE), Category(c3, {}, FALSE)}}

Good == [username |-> "word", password |-> "alnum8", firstname |-> "word",
         lastname |-> "word", email |-> "email"]

MCForms == {Good, [Good EXCEPT !.email = " word"]}
=============================================================================
