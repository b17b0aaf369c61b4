-------------------------- MODULE MCRegistration ---------------------------
EXTENDS Registration, SequencesExt

\* Three capabilities: sasl, one we ask for and one only its dependent pulls in.
MCCaps    == {"sasl", "labeled-response", "batch"}
MCDesired == {"labeled-response"}
MCDependsOn ==
  [c \in MCCaps |-> IF c = "labeled-response" THEN {"batch"} ELSE {}]

\* sasl travels on a request line of its own, as in a set too long for one line.
MCChunking ==
  [S \in SUBSET MCCaps |->
     SelectSeq(<<S \ {"sasl"}, S \cap {"sasl"}>>, LAMBDA T : T # {})]

MCKinds   == {"modern", "421", "silent", "hostile"}
AllOrNone == {{}, MCCaps}

HostileLines ==
  {[cmd |-> c] : c \in {"433", "fatal", "421", "chunk", "challenge", "malformed",
                        "900", "903", "904", "closed"}}
    \cup {[cmd |-> "001", nick |-> 0]}
    \cup {[cmd |-> "LS", caps |-> S, more |-> b] : S \in {{}, {"sasl"}, MCCaps}, b \in BOOLEAN}
    \cup {[cmd |-> "ACK", caps |-> S, off |-> {}] : S \in {{"sasl"}, {"labeled-response", "batch"}}}
    \cup {[cmd |-> "ACK", caps |-> {}, off |-> {"sasl"}]}
    \cup {[cmd |-> "NAK", caps |-> S] : S \in {{"sasl"}, {"labeled-response", "batch"}}}
=============================================================================
