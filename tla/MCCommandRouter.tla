--------------------------- MODULE MCCommandRouter ---------------------------
EXTENDS CommandRouter

\* Two commands that share a name: only one of them can be in the table.
MCEntries == {"ping", "pong"}
MCNamesOf == [e \in MCEntries |-> IF e = "ping" THEN {"ping", "p"} ELSE {"pong", "p"}]
MCCommandOf  == [e \in MCEntries |-> e]
MCCooldownMs == [e \in MCEntries |-> IF e = "ping" THEN 3 ELSE 1]
=============================================================================
