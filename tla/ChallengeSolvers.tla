-------------------------- MODULE ChallengeSolvers --------------------------
(***************************************************************************)
(* The HTTP-01 / TLS-ALPN-01 challenge solvers of src/solvers.go, wrapped  *)
(* by distributedSolver, on a cluster of instances that share one storage. *)
(* Each instance keeps its own solver table (solvers, guarded by           *)
(* solversMu): per listener address a reference count and, when this      *)
(* instance bound the socket, its listener.  Each challenge is one ACME    *)
(* authorization driven by the ACME library's solve routine: Present, the  *)
(* CA's validation request, CleanUp -- CleanUp only after a Present that   *)
(* returned no error.  The challenge's order holds the storage lock of its *)
(* name for its whole duration (lifecycle engine, spec 5).                 *)
(***************************************************************************)
EXTENDS Integers, FiniteSets

CONSTANTS
    Instances,     \* processes sharing storage (a cluster)
    Challenges,    \* challenge tokens, one per authorization
    Domains,       \* domain names being validated
    Addresses,     \* challenge listener addresses (":80", ":443")
    DomainOf,      \* DomainOf[c]: the domain challenge c validates
    AddressOf,     \* AddressOf[c]: the listener address of c's solver
    InstanceOf,    \* InstanceOf[c]: the instance that runs c's order
    KindOf,        \* KindOf[c]: "http-01" or "tls-alpn-01"
    NoChallenge,   \* no challenge_tokens file for a domain
    PortStates,    \* what, besides us, can be at a port: "free", "other"
                   \* (a compatible server), "failing" (listen and dial fail)
    StoreFaults,   \* TRUE: Storage.Store may fail
    DeleteFaults   \* TRUE: Storage.Delete may fail

ASSUME ChallengeSolversAssumption ==
    /\ IsFiniteSet(Challenges)
    /\ NoChallenge \notin Challenges
    /\ DomainOf \in [Challenges -> Domains]
    /\ AddressOf \in [Challenges -> Addresses]
    /\ InstanceOf \in [Challenges -> Instances]
    /\ KindOf \in [Challenges -> {"http-01", "tls-alpn-01"}]
    /\ PortStates \subseteq {"free", "other", "failing"}
    /\ "free" \in PortStates
    /\ StoreFaults \in BOOLEAN
    /\ DeleteFaults \in BOOLEAN

(* Where a challenge's solve routine is: waiting for the name's lock,      *)
(* holding it before Present, after the token was stored, after the       *)
(* TLS-ALPN certificate was cached, presented, after the CA's validation  *)
(* request, after the token was deleted, after the TLS-ALPN certificate   *)
(* was removed, finished.                                                  *)
Phases == {"wait", "start", "stored", "cached", "presented", "checked",
           "deleted", "uncached", "done"}

VARIABLES
    tokens,     \* shared storage: challenge_tokens/<domain>.json -> token
    alpnCerts,  \* alpnCerts[i][d]: certCache.cache[d+":acme-tls-alpn"] on i
    count,      \* count[i][a]: solvers[a].count on instance i
    table,      \* table[i]: the addresses with an entry in solvers on i
    listening,  \* listening[i]: addresses where i's solverInfo has a listener
    port,       \* port[i][a]: what else holds address a on instance i
    phase,      \* phase[c]: where challenge c's solve routine is
    answered    \* challenges whose validation request got their key auth

vars == <<tokens, alpnCerts, count, table, listening, port, phase, answered>>

-----------------------------------------------------------------------------
(* Challenges of instance i at address a between a Present that counted   *)
(* them and the CleanUp that uncounts them.                                *)
InFlight(i, a) ==
    {c \in Challenges : /\ InstanceOf[c] = i
                        /\ AddressOf[c] = a
                        /\ phase[c] \in {"presented", "checked", "deleted",
                                         "uncached"}}

(* getSolverInfo: the count of the entry for a, a fresh entry counting 0. *)
CountOf(i, a) == IF a \in table[i] THEN count[i][a] ELSE 0

(* robustTryListen(addr): "listener" when the socket could be bound;      *)
(* "nil" (no listener, no error) when something answers a dial to it;     *)
(* "error" when neither listening nor dialling works.                     *)
RobustTryListen(i, a) ==
    CASE port[i][a] = "free"    -> "listener"
      [] port[i][a] = "other"   -> "nil"
      [] port[i][a] = "failing" -> "error"

(* Something answers connections to a on instance j: our challenge server *)
(* or a server already bound there that robustTryListen trusted.          *)
Served(j, a) == a \in listening[j] \/ port[j][a] = "other"

Init ==
    /\ tokens = [d \in Domains |-> NoChallenge]
    /\ alpnCerts = [i \in Instances |-> [d \in Domains |-> NoChallenge]]
    /\ count = [i \in Instances |-> [a \in Addresses |-> 0]]
    /\ table = [i \in Instances |-> {}]
    /\ listening = [i \in Instances |-> {}]
    /\ port \in [Instances -> [Addresses -> PortStates]]
    /\ phase = [c \in Challenges |-> "wait"]
    /\ answered = {}

(* The order takes storage.lock for its name: no other challenge of the   *)
(* same domain is between taking and releasing it.                         *)
LockName(c) ==
    /\ phase[c] = "wait"
    /\ \A c2 \in Challenges \ {c} :
          DomainOf[c2] = DomainOf[c] => phase[c2] \in {"wait", "done"}
    /\ phase' = [phase EXCEPT ![c] = "start"]
    /\ UNCHANGED <<tokens, alpnCerts, count, table, listening, port, answered>>

\* Fault variant: the error of Storage.Store is ignored.
StoreTokenIgnoreError(c) ==
    /\ phase[c] = "start"
    /\ \/ tokens' = [tokens EXCEPT ![DomainOf[c]] = c]
       \/ StoreFaults /\ UNCHANGED tokens
    /\ phase' = [phase EXCEPT ![c] = "stored"]
    /\ UNCHANGED <<alpnCerts, count, table, listening, port, answered>>

(* distributedSolver.Present, lines 253-265: store {domain, token,        *)
(* keyAuth} under challengeTokensKey(domain); a Store error is returned    *)
(* before the embedded solver is called.                                   *)
StoreToken(c) ==
    /\ phase[c] = "start"
    /\ \/ /\ tokens' = [tokens EXCEPT ![DomainOf[c]] = c]
          /\ phase' = [phase EXCEPT ![c] = "stored"]
       \/ /\ StoreFaults
          /\ phase' = [phase EXCEPT ![c] = "done"]
          /\ UNCHANGED tokens
    /\ UNCHANGED <<alpnCerts, count, table, listening, port, answered>>

(* tlsALPNSolver.Present, lines 105-116: make the challenge certificate  *)
(* (an error is returned before anything is counted) and, under           *)
(* certCache.mu, cache it under the key tlsALPNCertKeyName(domain).        *)
CacheALPNCert(c) ==
    LET i == InstanceOf[c] IN
    /\ phase[c] = "stored"
    /\ KindOf[c] = "tls-alpn-01"
    /\ \/ /\ alpnCerts' = [alpnCerts EXCEPT ![i][DomainOf[c]] = c]
          /\ phase' = [phase EXCEPT ![c] = "cached"]
       \/ /\ phase' = [phase EXCEPT ![c] = "done"]
          /\ UNCHANGED alpnCerts
    /\ UNCHANGED <<tokens, count, table, listening, port, answered>>

\* Fault variant: the count is only incremented when no listener exists.
SolverPresentLateCount(c) ==
    LET i == InstanceOf[c]
        a == AddressOf[c]
    IN  /\ table' = [table EXCEPT ![i] = @ \cup {a}]
        /\ \/ /\ a \in listening[i]
              /\ phase' = [phase EXCEPT ![c] = "presented"]
              /\ UNCHANGED <<listening, count>>
           \/ /\ a \notin listening[i]
              /\ count' = [count EXCEPT ![i][a] = CountOf(i, a) + 1]
              /\ listening' = IF RobustTryListen(i, a) = "listener"
                              THEN [listening EXCEPT ![i] = @ \cup {a}]
                              ELSE listening
              /\ phase' = [phase EXCEPT ![c] =
                             IF RobustTryListen(i, a) = "error"
                             THEN "done" ELSE "presented"]
        /\ UNCHANGED <<tokens, alpnCerts, port, answered>>

(* The solver-table critical section of Present, under solversMu: count   *)
(* the challenge; return if our listener exists; else robustTryListen,    *)
(* keep and serve a listener it returns, and return its error otherwise   *)
(* -- with the count kept.                                                 *)
SolverPresent(c) ==
    LET i == InstanceOf[c]
        a == AddressOf[c]
    IN  /\ count' = [count EXCEPT ![i][a] = CountOf(i, a) + 1]
        /\ table' = [table EXCEPT ![i] = @ \cup {a}]
        /\ \/ /\ a \in listening[i]
              /\ phase' = [phase EXCEPT ![c] = "presented"]
              /\ UNCHANGED listening
           \/ /\ a \notin listening[i]
              /\ listening' = IF RobustTryListen(i, a) = "listener"
                              THEN [listening EXCEPT ![i] = @ \cup {a}]
                              ELSE listening
              /\ phase' = [phase EXCEPT ![c] =
                             IF RobustTryListen(i, a) = "error"
                             THEN "done" ELSE "presented"]
        /\ UNCHANGED <<tokens, alpnCerts, port, answered>>

(* httpSolver.Present, lines 36-59, called at line 267. *)
PresentHTTP(c) ==
    /\ phase[c] = "stored"
    /\ KindOf[c] = "http-01"
    /\ SolverPresent(c)

(* tlsALPNSolver.Present, lines 123-161, after the certificate is cached. *)
PresentALPN(c) ==
    /\ phase[c] = "cached"
    /\ SolverPresent(c)

(* The CA's validation request reaches some instance j.  It is answered   *)
(* when something serves the address there and the HTTP handler           *)
(* (distributedHTTPChallengeSolver, httphandler.go 55-96), or for         *)
(* TLS-ALPN the handshake, finds this challenge's token in storage under  *)
(* the domain -- for TLS-ALPN also in j's own certificate cache.          *)
Validate(c) ==
    LET d == DomainOf[c] IN
    /\ phase[c] = "presented"
    /\ \E j \in Instances :
          answered' =
            IF /\ Served(j, AddressOf[c])
               /\ \/ tokens[d] = c
                  \/ KindOf[c] = "tls-alpn-01" /\ alpnCerts[j][d] = c
            THEN answered \cup {c}
            ELSE answered
    /\ phase' = [phase EXCEPT ![c] = "checked"]
    /\ UNCHANGED <<tokens, alpnCerts, count, table, listening, port>>

(* distributedSolver.CleanUp, lines 277-280: delete the token file; an    *)
(* error (the file is gone, or an I/O fault) is returned at once, and the *)
(* embedded solver's CleanUp is not called.                                *)
DeleteToken(c) ==
    /\ phase[c] = "checked"
    /\ \/ /\ tokens[DomainOf[c]] # NoChallenge
          /\ tokens' = [tokens EXCEPT ![DomainOf[c]] = NoChallenge]
          /\ phase' = [phase EXCEPT ![c] = "deleted"]
       \/ /\ tokens[DomainOf[c]] = NoChallenge \/ DeleteFaults
          /\ phase' = [phase EXCEPT ![c] = "done"]
          /\ UNCHANGED tokens
    /\ UNCHANGED <<alpnCerts, count, table, listening, port, answered>>

\* Fault variant: the delete uses a key without the domain, emptying the
\* instance's challenge certificates.
UncacheALPNCertAllDomains(c) ==
    LET i == InstanceOf[c] IN
    /\ phase[c] = "deleted"
    /\ KindOf[c] = "tls-alpn-01"
    /\ alpnCerts' = [alpnCerts EXCEPT ![i] = [d \in Domains |-> NoChallenge]]
    /\ phase' = [phase EXCEPT ![c] = "uncached"]
    /\ UNCHANGED <<tokens, count, table, listening, port, answered>>

(* tlsALPNSolver.CleanUp, lines 182-184: under certCache.mu, delete the   *)
(* challenge certificate of the domain.                                    *)
UncacheALPNCert(c) ==
    LET i == InstanceOf[c] IN
    /\ phase[c] = "deleted"
    /\ KindOf[c] = "tls-alpn-01"
    /\ alpnCerts' = [alpnCerts EXCEPT ![i][DomainOf[c]] = NoChallenge]
    /\ phase' = [phase EXCEPT ![c] = "uncached"]
    /\ UNCHANGED <<tokens, count, table, listening, port, answered>>

\* Fault variant: the count is compared with 1 before it is decremented.
SolverCleanUpEarlyClose(c) ==
    LET i == InstanceOf[c]
        a == AddressOf[c]
    IN  /\ IF CountOf(i, a) = 1 \/ CountOf(i, a) = 2
           THEN /\ count' = [count EXCEPT ![i][a] = 0]
                /\ table' = [table EXCEPT ![i] = @ \ {a}]
                /\ listening' = [listening EXCEPT ![i] = @ \ {a}]
           ELSE /\ count' = [count EXCEPT ![i][a] = CountOf(i, a) - 1]
                /\ table' = [table EXCEPT ![i] = @ \cup {a}]
                /\ UNCHANGED listening
        /\ phase' = [phase EXCEPT ![c] = "done"]
        /\ UNCHANGED <<tokens, alpnCerts, port, answered>>

\* Fault variant: the entry is deleted but the listener is not closed.
SolverCleanUpNoClose(c) ==
    LET i == InstanceOf[c]
        a == AddressOf[c]
        n == CountOf(i, a) - 1
    IN  /\ IF n = 0
           THEN /\ count' = [count EXCEPT ![i][a] = 0]
                /\ table' = [table EXCEPT ![i] = @ \ {a}]
           ELSE /\ count' = [count EXCEPT ![i][a] = n]
                /\ table' = [table EXCEPT ![i] = @ \cup {a}]
        /\ UNCHANGED listening
        /\ phase' = [phase EXCEPT ![c] = "done"]
        /\ UNCHANGED <<tokens, alpnCerts, port, answered>>

(* The solver-table critical section of CleanUp, under solversMu:         *)
(* decrement (getSolverInfo makes a fresh entry if there is none); the    *)
(* last one out closes our listener, waits for its server to stop, and    *)
(* deletes the entry.                                                      *)
SolverCleanUp(c) ==
    LET i == InstanceOf[c]
        a == AddressOf[c]
        n == CountOf(i, a) - 1
    IN  /\ IF n = 0
           THEN /\ count' = [count EXCEPT ![i][a] = 0]
                /\ table' = [table EXCEPT ![i] = @ \ {a}]
                /\ listening' = [listening EXCEPT ![i] = @ \ {a}]
           ELSE /\ count' = [count EXCEPT ![i][a] = n]
                /\ table' = [table EXCEPT ![i] = @ \cup {a}]
                /\ UNCHANGED listening
        /\ phase' = [phase EXCEPT ![c] = "done"]
        /\ UNCHANGED <<tokens, alpnCerts, port, answered>>

(* httpSolver.CleanUp, lines 73-88, called at line 281. *)
CleanUpHTTP(c) ==
    /\ phase[c] = "deleted"
    /\ KindOf[c] = "http-01"
    /\ SolverCleanUp(c)

(* tlsALPNSolver.CleanUp, lines 186-200, after the certificate is gone. *)
CleanUpALPN(c) ==
    /\ phase[c] = "uncached"
    /\ SolverCleanUp(c)

(* Other processes on instance i bind or release a port we do not hold,   *)
(* or the OS starts or stops refusing it.                                  *)
PortChange(i, a) ==
    /\ a \notin listening[i]
    /\ \E s \in PortStates \ {port[i][a]} :
          port' = [port EXCEPT ![i][a] = s]
    /\ UNCHANGED <<tokens, alpnCerts, count, table, listening, phase, answered>>

Next ==
    \/ \E c \in Challenges :
          \/ LockName(c) \/ StoreToken(c) \/ CacheALPNCert(c)
          \/ PresentHTTP(c) \/ PresentALPN(c) \/ Validate(c)
          \/ DeleteToken(c) \/ UncacheALPNCert(c)
          \/ CleanUpHTTP(c) \/ CleanUpALPN(c)
    \/ \E i \in Instances, a \in Addresses : PortChange(i, a)

Spec == Init /\ [][Next]_vars

-----------------------------------------------------------------------------
TypeOK ==
    /\ tokens \in [Domains -> Challenges \cup {NoChallenge}]
    /\ alpnCerts \in [Instances -> [Domains -> Challenges \cup {NoChallenge}]]
    /\ count \in [Instances -> [Addresses -> Nat]]
    /\ table \in [Instances -> SUBSET Addresses]
    /\ listening \in [Instances -> SUBSET Addresses]
    /\ port \in [Instances -> [Addresses -> PortStates]]
    /\ phase \in [Challenges -> Phases]
    /\ answered \in SUBSET Challenges

(* The solver table's reference counts (solvers.go 40-44, 76-86): on      *)
(* every instance and address, the entry exists exactly while challenges  *)
(* are in flight there, counts exactly them, and a listener of ours only  *)
(* exists under an entry.                                                  *)
RefCountAccurate ==
    \A i \in Instances, a \in Addresses :
        /\ CountOf(i, a) = Cardinality(InFlight(i, a))
        /\ a \in table[i] <=> InFlight(i, a) # {}
        /\ a \in listening[i] => a \in table[i]

(* Spec 8.4: once no challenge is in flight at an address, its solver     *)
(* table entry is gone and our challenge server no longer holds the port  *)
(* (so the application can bind :80 / :443 itself).                        *)
ListenerReleased ==
    \A i \in Instances, a \in Addresses :
        InFlight(i, a) = {} => a \notin table[i] /\ a \notin listening[i]

(* From Present to the CA's validation request, the token file of the     *)
(* challenge's domain holds this challenge: it is the only place any      *)
(* instance's handler can find the key authorization (spec 4.9).          *)
TokenStoredWhilePresented ==
    \A c \in Challenges :
        phase[c] = "presented" => tokens[DomainOf[c]] = c

(* From Present to the start of CleanUp, a TLS-ALPN-01 challenge's own    *)
(* instance has its challenge certificate in certCache under the domain   *)
(* (solvers.go 111, deleted at 183): challenges of other domains sharing  *)
(* the :443 listener cache and delete their own certificates meanwhile.   *)
AlpnCertCachedWhilePresented ==
    \A c \in Challenges :
        KindOf[c] = "tls-alpn-01" /\ phase[c] \in {"presented", "checked"} =>
            alpnCerts[InstanceOf[c]][DomainOf[c]] = c

=============================================================================
