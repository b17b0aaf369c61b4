------------------------------ MODULE MCRoster ------------------------------
EXTENDS Roster, TLC

MCNicks  == {"me", "al", "bo", "cy", "Cy"}
MCChans  == {"#a"}
MCFold   == [m \in {"ascii"} |-> [n \in MCNicks \cup MCChans |-> IF n = "Cy" THEN "cy" ELSE n]]
MCPeople == {"Me", "P", "Q"}

MCAtFirst ==
  LET Person(n, a, cs) == [nick |-> n, account |-> a, host |-> "h1", real |-> "x", away |-> FALSE,
                           in |-> cs, ops |-> {}]
  IN  ("Me" :> Person("me", "none", {})) @@ ("P" :> Person("al", "a", {"#a"}))
        @@ ("Q" :> Person("bo", "none", {"#a"}))

MCAll     == {"account-notify", "account-tag", "extended-join", "away-notify", "chghost", "setname",
              "userhost-in-names", "whox"}
\* With everything, or accounts known from messages only, 352 for 354, and hosts from
\* what is said.
MCCapSets == {MCAll, {"account-tag", "away-notify", "chghost", "setname"}}
MCOwners  == {<<"account", "a">>, <<"mask", {"h2"}>>, <<"nick", "cy">>}
=============================================================================
