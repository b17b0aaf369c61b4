------------------------------ MODULE MCSession ----------------------------
EXTENDS Session, SequencesExt

\* Three capabilities: sasl, one we ask for and one only its dependent pulls in.
MCCaps    == {"sasl", "labeled-response", "batch"}
MCDesired == {"labeled-response"}
MCDependsOn ==
  [c \in MCCaps |-> IF c = "labeled-response" THEN {"batch"} ELSE {}]

\* One name per request line, as in a set too long for one line: several requests
\* are outstanding whether or not sasl is among them.
MCChunking ==
  [S \in SUBSET MCCaps |->
     SelectSeq(<<S \cap {"batch"}, S \cap {"labeled-response"}, S \cap {"sasl"}>>,
               LAMBDA T : T # {})]

MCKinds  == {"modern", "421", "silent"}
AnyOffer == SUBSET MCCaps
NoLines  == {}
=============================================================================
