------------------------- MODULE MCChallengeSolvers -------------------------
(* Two instances sharing storage, four challenges: c1 and c2 (HTTP-01, on *)
(* i1) share i1's ":80" listener, c3 and c4 (TLS-ALPN-01, on i2) share    *)
(* i2's ":443" listener (reference counting); c1 and c3, c2 and c4 are    *)
(* for the same domain on different instances (the storage lock           *)
(* serialises them), and a validation request may land on either         *)
(* instance (distributed solving).                                        *)
EXTENDS ChallengeSolvers

MCInstances == {"i1", "i2"}
MCChallenges == {"c1", "c2", "c3", "c4"}
MCDomains == {"d1", "d2"}
MCAddresses == {"a80", "a443"}
MCDomainOf == [c \in MCChallenges |-> IF c \in {"c1", "c3"} THEN "d1" ELSE "d2"]
MCAddressOf == [c \in MCChallenges |-> IF c \in {"c1", "c2"} THEN "a80" ELSE "a443"]
MCInstanceOf == [c \in MCChallenges |-> IF c \in {"c1", "c2"} THEN "i1" ELSE "i2"]
MCKindOf == [c \in MCChallenges |->
                IF c \in {"c1", "c2"} THEN "http-01" ELSE "tls-alpn-01"]
=============================================================================
