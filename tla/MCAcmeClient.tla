---------------------------- MODULE MCAcmeClient ----------------------------
(* Two concurrent orders of one manager.  The manager's CA is Let's       *)
(* Encrypt, a custom CA given without a scheme, or one given with http:// *)
(* (refused as insecure); o2 obtains against the test CA, defaulted to    *)
(* Let's Encrypt staging, so the two orders use different lego clients    *)
(* unless the test CA falls back to the CA.                               *)
EXTENDS AcmeClient

MCOrders == {"o1", "o2"}
LE == [scheme |-> "https", host |-> "le"]
LEStaging == [scheme |-> "https", host |-> "le-staging"]
MCMgrConfigs ==
    {[ca |-> LE, testCA |-> NoCA],
     [ca |-> [scheme |-> "none", host |-> "custom"], testCA |-> NoCA],
     [ca |-> [scheme |-> "http", host |-> "custom"], testCA |-> NoCA],
     [ca |-> [scheme |-> "http", host |-> "loopback"], testCA |-> LE]}
MCUseTestCA == [o \in MCOrders |-> o = "o2"]

(* The configuration of the race: both orders use the production CA and  *)
(* so share one lego client.                                              *)
MCSharedUseTestCA == [o \in MCOrders |-> FALSE]
MCSharedMgrConfigs == {[ca |-> LE, testCA |-> NoCA]}

(* A manager with the default CA whose order uses the test CA, and one    *)
(* whose CA is given without a scheme.                                    *)
MCOneOrder == {"o1"}
MCOneUseTestCA == [o \in MCOneOrder |-> TRUE]
MCKeyMgrConfigs ==
    {[ca |-> LE, testCA |-> NoCA],
     [ca |-> [scheme |-> "none", host |-> "custom"], testCA |-> NoCA]}
=============================================================================
