------------------------------ MODULE MCStore -------------------------------
EXTENDS Store

\* Two nicks and two channels that only rfc1459 folds together, and some plain ones.
MCNicks == {"me", "al[", "al{", "bo"}
MCChans == {"#a[", "#a{", "#b"}
MCNames == MCNicks \cup MCChans

MCFold ==
  [m \in {"ascii", "rfc1459"} |->
     [n \in MCNames |-> CASE m = "rfc1459" /\ n = "al[" -> "al{"
                          [] m = "rfc1459" /\ n = "#a[" -> "#a{"
                          [] OTHER -> n]]
=============================================================================
