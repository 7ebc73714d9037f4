----------------------------- MODULE MCAccounts -----------------------------
(* Two browsers; a person with two retired names and today's, any of which   *)
(* may be registered anew; four group names, of which two are one name and   *)
(* three have one slug.                                                      *)
EXTENDS Accounts, TLC
CONSTANTS b1, b2, chen, yu, demo, home, alpha, x1, x2

MCNames   == {"Home", "Alpha", "ALPHA", "Alpha!"}
MCFold    == [n \in MCNames |-> IF n = "ALPHA" THEN "Alpha" ELSE n]
MCSlug    == [n \in MCNames |-> IF n = "Home" THEN home ELSE alpha]
MCRenames == <<<<chen, yu>>, <<yu, demo>>>>
MCCurrent == [u \in {chen, yu, demo} |-> demo]
MCDemoGroups == {[id |-> home, name |-> "Home"]}
MCDemoUsers  == demo :> {home}
MCDemoHome   == demo :> home
Symmetry     == Permutations({b1, b2}) \union Permutations({x1, x2})
=============================================================================
