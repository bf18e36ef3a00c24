----------------------------- MODULE AcmeClient -----------------------------
(***************************************************************************)
(* The ACME client adapter of src/acmeclient.go, driven by concurrent      *)
(* certificate orders of one ACMEManager (one account email).  Each order  *)
(* gets a client (newACMEClientWithRetry), waits on the rate limiter       *)
(* (throttle), then tries the challenge types of initialChallenges one at  *)
(* a time: nextChallenge pops one at random and installs its provider on   *)
(* the lego client, and the ACME library solves the authorization with    *)
(* whatever providers that client has.  The lego client is cached per CA  *)
(* URL and account in acmeClients and shared by every order that uses the *)
(* same CA.  The order loop itself (spec 4.11 step 3) is not under src/.  *)
(***************************************************************************)
EXTENDS Integers, Sequences, SequencesExt

CONSTANTS
    Orders,          \* concurrent orders (one per name; different locks)
    UseTestCA,       \* UseTestCA[o]: newACMEClientWithRetry(useTestCA) arg
    MgrConfigs,      \* possible (CA, TestCA) settings of the ACMEManager
    DefaultCA,       \* DefaultACME.CA
    DefaultTestCA,   \* DefaultACME.TestCA
    NoCA,            \* the empty string as a CA setting
    NoOrder,         \* no provider installed for a challenge type
    DNSProvider,     \* manager.DNSProvider != nil
    DisableHTTP,     \* manager.DisableHTTPChallenge
    DisableTLSALPN,  \* manager.DisableTLSALPNChallenge
    Faults           \* TRUE: the CA and storage calls may fail

(* A CA setting is a URL, abstracted to its scheme and host. *)
Schemes == {"none", "http", "https"}
Hosts == {"le", "le-staging", "custom", "loopback"}
URLs == [scheme : Schemes, host : Hosts]

ASSUME AcmeClientAssumption ==
    /\ UseTestCA \in [Orders -> BOOLEAN]
    /\ DefaultCA \in URLs /\ DefaultTestCA \in URLs
    /\ NoCA \notin URLs
    /\ MgrConfigs \subseteq [ca : URLs, testCA : URLs \cup {NoCA}]
    /\ MgrConfigs # {}
    /\ NoOrder \notin Orders
    /\ {DNSProvider, DisableHTTP, DisableTLSALPN, Faults} \subseteq BOOLEAN

Types == {"http-01", "tls-alpn-01", "dns-01"}

(* newACMEClientWithRetry's maxTries. *)
MaxTries == 2

(* How one call of newACMEClient can end: success, lego.NewClient failing, *)
(* Register failing (with HTTP 429 or otherwise), saveUser failing.       *)
ClientOutcomes == {"ok", "newclient", "register", "register429", "save"}

Phases == {"client", "throttle", "next", "set", "solve", "done"}

VARIABLES
    mgr,        \* the manager's CA and TestCA settings (fixed)
    clients,    \* the CA URLs with a lego client in acmeClients
    built,      \* built[u]: how many lego clients were made for u
    registered, \* CA URLs whose stored user has a registration
    buckets,    \* CA URLs with a rate limiter in rateLimiters
    providers,  \* providers[u][t]: the order whose nextChallenge installed
                \* the type-t provider on u's lego client, or NoOrder
    phase,      \* phase[o]: where order o is
    tries,      \* tries[o]: calls of newACMEClient made so far
    url,        \* url[o]: the caURL of o's client, NoCA before it has one
    avail,      \* avail[o]: the challenge types o has not tried yet
    chosen,     \* chosen[o]: the type nextChallenge last chose for o
    tried,      \* tried[o]: the types o tried, in order (history)
    result      \* result[o]: "none", "ok" or "err"

vars == <<mgr, clients, built, registered, buckets, providers, phase, tries,
          url, avail, chosen, tried, result>>

-----------------------------------------------------------------------------
(* newACMEClient, lines 77-96: the CA URL a client is made for.  With     *)
(* useTestCA the TestCA (Let's Encrypt staging when both are defaulted),  *)
(* else or if empty the CA, else the default CA; a URL without a scheme   *)
(* gets https://.                                                          *)
CaURL(useTest) ==
    LET c0 == IF ~useTest THEN NoCA
              ELSE IF mgr.testCA = NoCA /\ mgr.ca = DefaultCA THEN DefaultTestCA
              ELSE mgr.testCA
        c1 == IF c0 = NoCA THEN mgr.ca ELSE c0
    IN  IF c1.scheme = "none" THEN [c1 EXCEPT !.scheme = "https"] ELSE c1

(* Lines 97-103: HTTPS is required except for loopback and internal     *)
(* hosts (both abstracted to the host "loopback").                        *)
Secure(u) == u.scheme = "https" \/ u.host = "loopback"

(* initialChallenges, lines 185-200: DNS-01 alone with a DNS provider,   *)
(* else HTTP-01 then TLS-ALPN-01, each appended unless disabled.           *)
InitialChallenges ==
    IF DNSProvider THEN <<"dns-01">>
    ELSE (IF DisableHTTP THEN <<>> ELSE <<"http-01">>)
         \o (IF DisableTLSALPN THEN <<>> ELSE <<"tls-alpn-01">>)

(* lego.Client.Challenge.Remove of all three types, lines 226-228. *)
NoProviders == [t \in Types |-> NoOrder]

Init ==
    /\ mgr \in MgrConfigs
    /\ clients = {}
    /\ built = [u \in URLs |-> 0]
    /\ registered = {}
    /\ buckets = {}
    /\ providers = [u \in URLs |-> NoProviders]
    /\ phase = [o \in Orders |-> "client"]
    /\ tries = [o \in Orders |-> 0]
    /\ url = [o \in Orders |-> NoCA]
    /\ avail = [o \in Orders |-> <<>>]
    /\ chosen = [o \in Orders |-> "none"]
    /\ tried = [o \in Orders |-> <<>>]
    /\ result = [o \in Orders |-> "none"]

\* Fault variant: the retry loop makes one call too many.
RetryClientOffByOne(o, err) == tries[o] + 1 <= MaxTries /\ err # "register429"

(* newACMEClientWithRetry, lines 47-61: after the failed call number      *)
(* tries[o] + 1, try again unless maxTries calls were made or the CA      *)
(* answered HTTP 429.                                                      *)
RetryClient(o, err) == tries[o] + 1 < MaxTries /\ err # "register429"

\* Fault variant: a lego client is made even when one is cached.
NewClientNoReuse(o) ==
    LET u == CaURL(UseTestCA[o]) IN
    /\ phase[o] = "client"
    /\ Secure(u)
    /\ clients' = clients \cup {u}
    /\ built' = [built EXCEPT ![u] = @ + 1]
    /\ registered' = registered \cup {u}
    /\ phase' = [phase EXCEPT ![o] = "throttle"]
    /\ url' = [url EXCEPT ![o] = u]
    /\ tries' = [tries EXCEPT ![o] = @ + 1]
    /\ UNCHANGED <<mgr, buckets, providers, avail, chosen, tried, result>>

(* newACMEClientWithRetry (lines 43-63) around one call of newACMEClient  *)
(* (lines 68-182), which holds acmeClientsMu throughout: compute the CA   *)
(* URL and refuse an insecure one; reuse the cached lego client or make   *)
(* and cache one; register an unregistered account and save it.  An     *)
(* error is retried once (after a sleep), except HTTP 429, which aborts.  *)
(* A client made before a failing registration stays cached.              *)
NewClient(o) ==
    LET u == CaURL(UseTestCA[o]) IN
    /\ phase[o] = "client"
    /\ tries' = [tries EXCEPT ![o] = @ + 1]
    /\ \E out \in IF Faults THEN ClientOutcomes ELSE {"ok"} :
          LET cached == Secure(u) /\ out # "newclient"
              err == IF Secure(u) THEN out ELSE "insecure"
          IN
          /\ out = "newclient" => u \notin clients
          /\ out \in {"register", "register429", "save"} => u \notin registered
          /\ clients' = IF cached THEN clients \cup {u} ELSE clients
          /\ built' = IF cached /\ u \notin clients
                      THEN [built EXCEPT ![u] = @ + 1] ELSE built
          /\ registered' = IF err = "ok" THEN registered \cup {u} ELSE registered
          /\ IF err = "ok"
             THEN /\ phase' = [phase EXCEPT ![o] = "throttle"]
                  /\ url' = [url EXCEPT ![o] = u]
                  /\ UNCHANGED result
             ELSE /\ phase' = [phase EXCEPT ![o] =
                                 IF RetryClient(o, err) THEN "client" ELSE "done"]
                  /\ result' = [result EXCEPT ![o] =
                                 IF RetryClient(o, err) THEN @ ELSE "err"]
                  /\ UNCHANGED url
    /\ UNCHANGED <<mgr, buckets, providers, avail, chosen, tried>>

(* throttle, lines 278-296: under rateLimitersMu, get or make the rate    *)
(* limiter of the CA and email, then wait on it (the limiter is spec 4.3) *)
(* and start the challenge loop with initialChallenges().                 *)
Throttle(o) ==
    /\ phase[o] = "throttle"
    /\ buckets' = buckets \cup {url[o]}
    /\ avail' = [avail EXCEPT ![o] = InitialChallenges]
    /\ phase' = [phase EXCEPT ![o] = "next"]
    /\ UNCHANGED <<mgr, clients, built, registered, providers, tries, url>>
    /\ UNCHANGED <<chosen, tried, result>>

\* Fault variant: the chosen challenge is not popped from the list.
NextChallengeNoPop(o) ==
    /\ phase[o] = "next"
    /\ IF avail[o] = <<>>
       THEN /\ phase' = [phase EXCEPT ![o] = "done"]
            /\ result' = [result EXCEPT ![o] = "err"]
            /\ UNCHANGED <<providers, chosen, tried>>
       ELSE \E i \in 1..Len(avail[o]) :
               /\ chosen' = [chosen EXCEPT ![o] = avail[o][i]]
               /\ tried' = [tried EXCEPT ![o] = Append(@, avail[o][i])]
               /\ providers' = [providers EXCEPT ![url[o]] = NoProviders]
               /\ phase' = [phase EXCEPT ![o] = "set"]
               /\ UNCHANGED result
    /\ UNCHANGED <<mgr, clients, built, registered, buckets, tries, url, avail>>

\* Fault variant: an empty list is not treated as the end of the loop.
NextChallengeNoEnd(o) ==
    /\ phase[o] = "next"
    /\ avail[o] # <<>>
    /\ \E i \in 1..Len(avail[o]) :
          /\ chosen' = [chosen EXCEPT ![o] = avail[o][i]]
          /\ avail' = [avail EXCEPT ![o] = RemoveAt(@, i)]
          /\ tried' = [tried EXCEPT ![o] = Append(@, avail[o][i])]
          /\ providers' = [providers EXCEPT ![url[o]] = NoProviders]
          /\ phase' = [phase EXCEPT ![o] = "set"]
    /\ UNCHANGED <<mgr, clients, built, registered, buckets, tries, url, result>>

(* nextChallenge, lines 212-228: with none left the order returns its     *)
(* last error (spec 4.11); else pop a random challenge from the list and  *)
(* remove every provider from the shared lego client -- without a lock.   *)
NextChallenge(o) ==
    /\ phase[o] = "next"
    /\ IF avail[o] = <<>>
       THEN /\ phase' = [phase EXCEPT ![o] = "done"]
            /\ result' = [result EXCEPT ![o] = "err"]
            /\ UNCHANGED <<providers, avail, chosen, tried>>
       ELSE \E i \in 1..Len(avail[o]) :
               /\ chosen' = [chosen EXCEPT ![o] = avail[o][i]]
               /\ avail' = [avail EXCEPT ![o] = RemoveAt(@, i)]
               /\ tried' = [tried EXCEPT ![o] = Append(@, avail[o][i])]
               /\ providers' = [providers EXCEPT ![url[o]] = NoProviders]
               /\ phase' = [phase EXCEPT ![o] = "set"]
               /\ UNCHANGED result
    /\ UNCHANGED <<mgr, clients, built, registered, buckets, tries, url>>

(* nextChallenge, lines 230-275: install the chosen type's provider (the  *)
(* distributedSolver around the HTTP or TLS-ALPN solver, or the DNS       *)
(* provider) on the shared lego client.                                   *)
SetProvider(o) ==
    /\ phase[o] = "set"
    /\ providers' = [providers EXCEPT ![url[o]][chosen[o]] = o]
    /\ phase' = [phase EXCEPT ![o] = "solve"]
    /\ UNCHANGED <<mgr, clients, built, registered, buckets, tries, url, avail>>
    /\ UNCHANGED <<chosen, tried, result>>

(* The ACME library obtains with the providers u's client has now: with   *)
(* none it fails at once; else it solves with one of them (the CA's       *)
(* order of challenges decides which).  A failed validation makes the     *)
(* order try the next challenge; success or another error ends it.        *)
Solve(o) ==
    LET p == providers[url[o]] IN
    /\ phase[o] = "solve"
    /\ \/ /\ \A t \in Types : p[t] = NoOrder
          /\ phase' = [phase EXCEPT ![o] = "done"]
          /\ result' = [result EXCEPT ![o] = "err"]
       \/ /\ \E t \in Types : p[t] # NoOrder
          /\ \/ /\ phase' = [phase EXCEPT ![o] = "done"]
                /\ result' = [result EXCEPT ![o] = "ok"]
             \/ /\ phase' = [phase EXCEPT ![o] = "next"]
                /\ UNCHANGED result
             \/ /\ Faults
                /\ phase' = [phase EXCEPT ![o] = "done"]
                /\ result' = [result EXCEPT ![o] = "err"]
    /\ UNCHANGED <<mgr, clients, built, registered, buckets, providers, tries>>
    /\ UNCHANGED <<url, avail, chosen, tried>>

Next ==
    \E o \in Orders :
        \/ NewClient(o) \/ Throttle(o) \/ NextChallenge(o)
        \/ SetProvider(o) \/ Solve(o)

(* Each order runs in a goroutine of its own (a job of the job manager),  *)
(* which the Go scheduler keeps running.                                   *)
Fairness == \A o \in Orders : WF_vars(NewClient(o) \/ Throttle(o) \/
                                      NextChallenge(o) \/ SetProvider(o) \/
                                      Solve(o))

Spec == Init /\ [][Next]_vars /\ Fairness

-----------------------------------------------------------------------------
TypeOK ==
    /\ mgr \in MgrConfigs
    /\ clients \subseteq URLs /\ registered \subseteq URLs /\ buckets \subseteq URLs
    /\ built \in [URLs -> Nat]
    /\ providers \in [URLs -> [Types -> Orders \cup {NoOrder}]]
    /\ phase \in [Orders -> Phases]
    /\ tries \in [Orders -> 0..MaxTries]
    /\ url \in [Orders -> URLs \cup {NoCA}]
    /\ avail \in [Orders -> Seq(Types)]
    /\ chosen \in [Orders -> Types \cup {"none"}]
    /\ tried \in [Orders -> Seq(Types)]
    /\ result \in [Orders -> {"none", "ok", "err"}]

(* Spec 4.11 step 3 / 4.10: an order tries each challenge type of         *)
(* initialChallenges at most once, and what it has not tried is exactly   *)
(* what is left in its list -- the slice surgery of nextChallenge loses   *)
(* or duplicates no type.                                                  *)
ChallengesTriedOnce ==
    \A o \in Orders :
        url[o] # NoCA /\ phase[o] # "throttle" =>
            /\ IsInjective(tried[o] \o avail[o])
            /\ ToSet(tried[o] \o avail[o]) = ToSet(InitialChallenges)

(* Spec 5 (shared-resource policy): exactly one lego client is made per   *)
(* CA URL and account, however many orders ask for one concurrently.     *)
OneClientPerCA ==
    \A u \in URLs : built[u] <= 1 /\ (built[u] = 1 <=> u \in clients)

(* Every order ends: the client retries and the challenge loop are        *)
(* bounded, so no order spins or waits forever.                            *)
OrderTerminates ==
    \A o \in Orders : <>(phase[o] = "done")

(* Spec 4.10: nextChallenge installs only the chosen challenge, so while  *)
(* an order solves, its client has a provider for exactly the type the    *)
(* order chose (which order installed it does not matter: for one manager *)
(* the providers of a type are equal).                                     *)
OwnSolverUsed ==
    \A o \in Orders :
        phase[o] = "solve" =>
            \A t \in Types : providers[url[o]][t] # NoOrder <=> t = chosen[o]

(* Spec 4.9: the HTTP handler of every instance reads the same storage    *)
(* key the solver wrote: the key distributedHTTPChallengeSolver builds   *)
(* from manager.CA (httphandler.go:62) is the one distributedSolver      *)
(* built from the client's caURL.                                          *)
TokenKeyAgrees ==
    \A o \in Orders :
        phase[o] = "solve" /\ chosen[o] = "http-01" => url[o] = mgr.ca

=============================================================================
