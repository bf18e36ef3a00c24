--------------------------- MODULE AcmeClientProofs ---------------------------
(***************************************************************************)
(* Proofs about the ACME client adapter of src/acmeclient.go (module       *)
(* AcmeClient), for every set of concurrent orders, every CA setting and   *)
(* every challenge configuration: the type invariant, one lego client per  *)
(* CA URL, and that the challenge loop tries each type at most once.       *)
(***************************************************************************)
EXTENDS AcmeClient, SequenceTheorems, TLAPS

-----------------------------------------------------------------------------
(* Lemmas about the slice surgery of nextChallenge, line 223:              *)
(* append(available[:randIdx], available[randIdx+1:]...) is RemoveAt.     *)
LEMMA RemoveAtElems ==
    ASSUME NEW S, NEW a \in Seq(S), NEW i \in 1..Len(a)
    PROVE  /\ RemoveAt(a, i) \in Seq(S)
           /\ Len(RemoveAt(a, i)) = Len(a) - 1
           /\ \A k \in 1..Len(a) - 1 :
                 RemoveAt(a, i)[k] = IF k < i THEN a[k] ELSE a[k + 1]
<1> DEFINE L == SubSeq(a, 1, i - 1)
           R == SubSeq(a, i + 1, Len(a))
<1>1. Len(a) \in Nat /\ \A k \in 1..Len(a) : a[k] \in S
    BY LenProperties, ElementOfSeq
<1>2. L \in Seq(S) /\ Len(L) = i - 1 /\ \A k \in 1..i - 1 : L[k] = a[k]
  <2>1. \A k \in 1..i - 1 : a[k] \in S
    BY <1>1
  <2>2. QED
    BY <2>1, SubSeqProperties
<1>3. R \in Seq(S) /\ Len(R) = Len(a) - i /\ \A k \in 1..Len(a) - i : R[k] = a[i + k]
  <2>1. \A k \in i + 1..Len(a) : a[k] \in S
    BY <1>1
  <2>2. /\ R \in Seq(S)
        /\ Len(R) = IF i + 1 <= Len(a) THEN Len(a) - (i + 1) + 1 ELSE 0
        /\ \A k \in 1..Len(a) - (i + 1) + 1 : R[k] = a[(i + 1) + k - 1]
    BY <2>1, SubSeqProperties
  <2>3. QED
    BY <2>2, <1>1
<1> HIDE DEF L, R
<1>4. /\ L \o R \in Seq(S)
      /\ Len(L \o R) = Len(L) + Len(R)
      /\ \A k \in 1..Len(L) + Len(R) :
            (L \o R)[k] = IF k <= Len(L) THEN L[k] ELSE R[k - Len(L)]
    BY <1>2, <1>3, ConcatProperties
<1>5. RemoveAt(a, i) = L \o R
    BY DEF RemoveAt, L, R
<1>6. Len(L) + Len(R) = Len(a) - 1
  <2>1. Len(L) = i - 1
    BY <1>2
  <2>2. Len(R) = Len(a) - i
    BY <1>3
  <2>3. QED
    BY <2>1, <2>2, LenProperties
<1>7. ASSUME NEW k \in 1..Len(a) - 1
      PROVE  (L \o R)[k] = IF k < i THEN a[k] ELSE a[k + 1]
  <2>1. CASE k < i
    BY <1>2, <1>4, <1>6, <2>1
  <2>2. CASE k >= i
    <3>1. (L \o R)[k] = R[k - (i - 1)] /\ k - (i - 1) \in 1..Len(a) - i
      BY <1>1, <1>2, <1>4, <1>6, <2>2
    <3>2. QED
      BY <1>3, <3>1
  <2>3. k < i \/ k >= i
    BY <1>1
  <2>4. QED
    BY <2>1, <2>2, <2>3
<1>8. QED
    BY <1>4, <1>5, <1>6, <1>7

(* Moving the element at i of a to the end of t permutes t \o a: the same *)
(* elements, and no repeated one if there was none.                        *)
LEMMA PopKeepsElems ==
    ASSUME NEW S, NEW t \in Seq(S), NEW a \in Seq(S), NEW i \in 1..Len(a)
    PROVE  LET s == t \o a
               s2 == Append(t, a[i]) \o RemoveAt(a, i)
           IN  /\ s2 \in Seq(S)
               /\ ToSet(s2) = ToSet(s)
               /\ IsInjective(s) => IsInjective(s2)
<1> DEFINE s == t \o a
           t2 == Append(t, a[i])
           r == RemoveAt(a, i)
           s2 == t2 \o r
           lt == Len(t)
           n == Len(t) + Len(a)
           pi(k) == IF k <= lt THEN k ELSE IF k = lt + 1 THEN lt + i
                    ELSE IF k <= lt + i THEN k - 1 ELSE k
<1>1. lt \in Nat /\ Len(a) \in Nat /\ a[i] \in S
    BY LenProperties, ElementOfSeq
<1>2. /\ s \in Seq(S) /\ Len(s) = n
      /\ \A k \in 1..n : s[k] = IF k <= lt THEN t[k] ELSE a[k - lt]
    BY ConcatProperties
<1>3. /\ t2 \in Seq(S) /\ Len(t2) = lt + 1
      /\ \A k \in 1..lt : t2[k] = t[k]
      /\ t2[lt + 1] = a[i]
    BY <1>1, AppendProperties
<1>4. /\ r \in Seq(S) /\ Len(r) = Len(a) - 1
      /\ \A k \in 1..Len(a) - 1 : r[k] = IF k < i THEN a[k] ELSE a[k + 1]
    BY RemoveAtElems
<1>5. /\ s2 \in Seq(S) /\ Len(s2) = n
      /\ \A k \in 1..n : s2[k] = IF k <= lt + 1 THEN t2[k] ELSE r[k - (lt + 1)]
  <2>1. /\ s2 \in Seq(S) /\ Len(s2) = Len(t2) + Len(r)
        /\ \A k \in 1..Len(t2) + Len(r) :
              s2[k] = IF k <= Len(t2) THEN t2[k] ELSE r[k - Len(t2)]
    BY <1>3, <1>4, ConcatProperties
  <2>2. QED
    BY <1>1, <1>3, <1>4, <2>1
<1>6. ASSUME NEW k \in 1..n PROVE pi(k) \in 1..n /\ s2[k] = s[pi(k)]
  <2>1. CASE k <= lt
    BY <1>1, <1>2, <1>3, <1>5, <2>1
  <2>2. CASE k = lt + 1
    BY <1>1, <1>2, <1>3, <1>5, <2>2
  <2>3. CASE lt + 1 < k /\ k <= lt + i
    <3>1. s2[k] = r[k - (lt + 1)] /\ k - (lt + 1) \in 1..Len(a) - 1
      BY <1>1, <1>5, <2>3
    <3>2. k - (lt + 1) < i
      BY <1>1, <2>3
    <3>3. r[k - (lt + 1)] = a[k - (lt + 1)]
      BY <1>4, <3>1, <3>2
    <3>4. pi(k) = k - 1 /\ s[k - 1] = a[k - 1 - lt]
      BY <1>1, <1>2, <2>3
    <3>5. QED
      BY <1>1, <2>3, <3>1, <3>3, <3>4
  <2>4. CASE k > lt + i
    <3>1. s2[k] = r[k - (lt + 1)] /\ k - (lt + 1) \in 1..Len(a) - 1
      BY <1>1, <1>5, <2>4
    <3>2. k - (lt + 1) >= i /\ k - (lt + 1) + 1 = k - lt
      BY <1>1, <2>4
    <3>3. ASSUME NEW m \in 1..Len(a) - 1, m >= i PROVE r[m] = a[m + 1]
      BY <1>4, <3>3
    <3>4. r[k - (lt + 1)] = a[k - (lt + 1) + 1]
      BY <3>1, <3>2, <3>3
    <3>5. pi(k) = k /\ s[k] = a[k - lt]
      BY <1>1, <1>2, <2>4
    <3>6. QED
      BY <3>1, <3>2, <3>4, <3>5
  <2>5. k <= lt \/ k = lt + 1 \/ (lt + 1 < k /\ k <= lt + i) \/ k > lt + i
    BY <1>1
  <2>6. QED
    BY <2>1, <2>2, <2>3, <2>4, <2>5
<1>7. \A j \in 1..n : \E k \in 1..n : pi(k) = j
  <2> SUFFICES ASSUME NEW j \in 1..n PROVE \E k \in 1..n : pi(k) = j
    OBVIOUS
  <2>1. CASE j <= lt \/ j > lt + i
    <3>1. pi(j) = j
      BY <1>1, <2>1
    <3>2. QED
      BY <3>1
  <2>2. CASE j = lt + i
    <3>1. pi(lt + 1) = j /\ lt + 1 \in 1..n
      BY <1>1, <2>2
    <3>2. QED
      BY <3>1
  <2>3. CASE lt < j /\ j < lt + i
    <3>1. pi(j + 1) = j /\ j + 1 \in 1..n
      BY <1>1, <2>3
    <3>2. QED
      BY <3>1
  <2>4. j <= lt \/ j > lt + i \/ j = lt + i \/ (lt < j /\ j < lt + i)
    BY <1>1
  <2>5. QED
    BY <2>1, <2>2, <2>3, <2>4
<1>8. \A k1, k2 \in 1..n : pi(k1) = pi(k2) => k1 = k2
    BY <1>1
<1>9. DOMAIN s = 1..n /\ DOMAIN s2 = 1..n
    BY <1>2, <1>5
<1>10. ToSet(s2) = ToSet(s)
  <2>1. ASSUME NEW k \in 1..n PROVE s2[k] \in ToSet(s)
    BY <1>6, <1>9 DEF ToSet
  <2>2. ASSUME NEW j \in 1..n PROVE s[j] \in ToSet(s2)
    <3>1. PICK k \in 1..n : pi(k) = j
      BY <1>7
    <3>2. s2[k] = s[j]
      BY <1>6, <3>1
    <3>3. QED
      BY <1>9, <3>2 DEF ToSet
  <2>3. QED
    BY <1>9, <2>1, <2>2 DEF ToSet
<1>11. IsInjective(s) => IsInjective(s2)
  <2> SUFFICES ASSUME IsInjective(s), NEW k1 \in 1..n, NEW k2 \in 1..n,
                      s2[k1] = s2[k2]
               PROVE  k1 = k2
    BY <1>9 DEF IsInjective
  <2>1. s[pi(k1)] = s[pi(k2)] /\ pi(k1) \in 1..n /\ pi(k2) \in 1..n
    BY <1>6
  <2>2. pi(k1) = pi(k2)
    BY <1>9, <2>1 DEF IsInjective
  <2>3. QED
    BY <1>8, <2>2
<1>12. QED
    BY <1>5, <1>10, <1>11
-----------------------------------------------------------------------------
(* initialChallenges returns distinct challenge types. *)
LEMMA InitialChallengesProps ==
    /\ InitialChallenges \in Seq(Types)
    /\ IsInjective(InitialChallenges)
<1>1. DNSProvider \in BOOLEAN /\ DisableHTTP \in BOOLEAN /\ DisableTLSALPN \in BOOLEAN
    BY AcmeClientAssumption
<1>2. ASSUME NEW c \in {<<"dns-01">>, <<>>, <<"http-01">>, <<"tls-alpn-01">>}
      PROVE  c \in Seq(Types) /\ IsInjective(c)
  <2>1. c \in Seq(Types)
    <3>1. /\ <<>> \in Seq(Types) /\ <<"dns-01">> \in Seq(Types)
          /\ <<"http-01">> \in Seq(Types) /\ <<"tls-alpn-01">> \in Seq(Types)
      BY DEF Types
    <3>2. QED
      BY <3>1
  <2>2. DOMAIN c \subseteq {1}
    OBVIOUS
  <2>3. QED
    BY <2>1, <2>2 DEF IsInjective
<1>3. LET c == <<"http-01">> \o <<"tls-alpn-01">>
      IN  c \in Seq(Types) /\ IsInjective(c)
  <2> DEFINE c == <<"http-01">> \o <<"tls-alpn-01">>
  <2>1. <<"http-01">> \in Seq(Types) /\ <<"tls-alpn-01">> \in Seq(Types)
    BY DEF Types
  <2>2. /\ c \in Seq(Types) /\ Len(c) = 2
        /\ c[1] = "http-01" /\ c[2] = "tls-alpn-01"
    BY <2>1, ConcatProperties
  <2>3. DOMAIN c = {1, 2}
    BY <2>2
  <2>4. QED
    BY <2>2, <2>3 DEF IsInjective
<1>4. CASE DNSProvider
    BY <1>2, <1>4 DEF InitialChallenges
<1>5. CASE ~DNSProvider /\ DisableHTTP /\ DisableTLSALPN
    BY <1>2, <1>5 DEF InitialChallenges
<1>6. CASE ~DNSProvider /\ ~DisableHTTP /\ DisableTLSALPN
    BY <1>2, <1>6 DEF InitialChallenges
<1>7. CASE ~DNSProvider /\ DisableHTTP /\ ~DisableTLSALPN
    BY <1>2, <1>7 DEF InitialChallenges
<1>8. CASE ~DNSProvider /\ ~DisableHTTP /\ ~DisableTLSALPN
    BY <1>3, <1>8 DEF InitialChallenges
<1>9. QED
    BY <1>1, <1>4, <1>5, <1>6, <1>7, <1>8

(* newACMEClient always computes a URL, with a scheme. *)
LEMMA CaURLType ==
    ASSUME mgr \in MgrConfigs, NEW b \in BOOLEAN
    PROVE  CaURL(b) \in URLs
<1>1. mgr.ca \in URLs /\ mgr.testCA \in URLs \cup {NoCA}
      /\ DefaultTestCA \in URLs /\ NoCA \notin URLs
    BY AcmeClientAssumption
<1>2. (IF ~b THEN NoCA
       ELSE IF mgr.testCA = NoCA /\ mgr.ca = DefaultCA THEN DefaultTestCA
       ELSE mgr.testCA) \in URLs \cup {NoCA}
    BY <1>1
<1>3. QED
    BY <1>1, <1>2 DEF CaURL, URLs, Schemes

-----------------------------------------------------------------------------
(* The inductive invariant.  Besides the types and the two properties: an *)
(* order retrying for a client has a try left, no client URL and has      *)
(* tried nothing; an order that got its client has tried nothing before   *)
(* throttle, and keeps a URL while it works.                              *)
ClientInv ==
    \A o \in Orders :
        phase[o] = "client" => /\ tries[o] < MaxTries
                               /\ url[o] = NoCA
                               /\ tried[o] = <<>>
ThrottleInv == \A o \in Orders : phase[o] = "throttle" => tried[o] = <<>>
URLInv ==
    \A o \in Orders :
        phase[o] \in {"throttle", "next", "set", "solve"} => url[o] \in URLs

AInv == /\ TypeOK /\ ClientInv /\ ThrottleInv /\ URLInv
        /\ OneClientPerCA /\ ChallengesTriedOnce

LEMMA NewClientAInv ==
    ASSUME AInv, NEW o \in Orders, NewClient(o)
    PROVE  AInv'
<1> DEFINE u == CaURL(UseTestCA[o])
<1>1. u \in URLs /\ Secure(u) \in BOOLEAN
    BY CaURLType, AcmeClientAssumption DEF AInv, TypeOK, Secure
<1>2. /\ phase[o] = "client" /\ tries[o] < MaxTries /\ url[o] = NoCA
      /\ tried[o] = <<>>
    BY DEF NewClient, AInv, ClientInv
<1>3. /\ tries' = [tries EXCEPT ![o] = @ + 1]
      /\ UNCHANGED <<mgr, buckets, providers, avail, chosen, tried>>
    BY DEF NewClient
<1>4. PICK out \in IF Faults THEN ClientOutcomes ELSE {"ok"} :
        LET cached == Secure(u) /\ out # "newclient"
            err == IF Secure(u) THEN out ELSE "insecure"
        IN
        /\ out = "newclient" => u \notin clients
        /\ out \in {"register", "register429", "save"} => u \notin registered
        /\ clients' = IF cached THEN clients \cup {u} ELSE clients
        /\ built' = IF cached /\ u \notin clients
                    THEN [built EXCEPT ![u] = @ + 1] ELSE built
        /\ registered' = IF err = "ok" THEN registered \cup {u} ELSE registered
        /\ IF err = "ok"
           THEN /\ phase' = [phase EXCEPT ![o] = "throttle"]
                /\ url' = [url EXCEPT ![o] = u]
                /\ UNCHANGED result
           ELSE /\ phase' = [phase EXCEPT ![o] =
                               IF RetryClient(o, err) THEN "client" ELSE "done"]
                /\ result' = [result EXCEPT ![o] =
                               IF RetryClient(o, err) THEN @ ELSE "err"]
                /\ UNCHANGED url
    BY DEF NewClient
<1> DEFINE cached == Secure(u) /\ out # "newclient"
           err == IF Secure(u) THEN out ELSE "insecure"
<1>5. /\ clients' = IF cached THEN clients \cup {u} ELSE clients
      /\ built' = IF cached /\ u \notin clients
                  THEN [built EXCEPT ![u] = @ + 1] ELSE built
      /\ registered' = IF err = "ok" THEN registered \cup {u} ELSE registered
    BY <1>4
<1>6. OneClientPerCA'
    BY <1>1, <1>5 DEF AInv, TypeOK, OneClientPerCA
<1>7. /\ clients' \subseteq URLs /\ registered' \subseteq URLs
      /\ built' \in [URLs -> Nat]
      /\ tries' \in [Orders -> 0..MaxTries]
  <2>1. clients' \subseteq URLs /\ registered' \subseteq URLs
    BY <1>1, <1>5 DEF AInv, TypeOK
  <2>2. built' \in [URLs -> Nat]
    BY <1>1, <1>5 DEF AInv, TypeOK
  <2>3. tries \in [Orders -> 0..MaxTries] /\ tries[o] + 1 \in 0..MaxTries
    <3>1. tries \in [Orders -> 0..MaxTries]
      BY DEF AInv, TypeOK
    <3>2. tries[o] \in 0..MaxTries
      BY <3>1
    <3>3. QED
      BY <1>2, <3>1, <3>2 DEF MaxTries
  <2>4. tries' \in [Orders -> 0..MaxTries]
    BY <1>3, <2>3
  <2>5. QED
    BY <2>1, <2>2, <2>4
<1>8. CASE err = "ok"
  <2>1. /\ phase' = [phase EXCEPT ![o] = "throttle"]
        /\ url' = [url EXCEPT ![o] = u]
        /\ UNCHANGED result
    BY <1>4, <1>8
  <2>2. TypeOK'
    BY <1>1, <1>3, <1>7, <2>1 DEF AInv, TypeOK, Phases
  <2>3. ClientInv' /\ ThrottleInv' /\ URLInv'
    BY <1>1, <1>2, <1>3, <2>1 DEF AInv, TypeOK, ClientInv, ThrottleInv, URLInv
  <2>4. ChallengesTriedOnce'
    BY <1>3, <2>1 DEF AInv, TypeOK, ChallengesTriedOnce
  <2>5. QED
    BY <1>6, <2>2, <2>3, <2>4 DEF AInv
<1>9. CASE err # "ok"
  <2>1. /\ phase' = [phase EXCEPT ![o] =
                       IF RetryClient(o, err) THEN "client" ELSE "done"]
        /\ result' = [result EXCEPT ![o] =
                       IF RetryClient(o, err) THEN @ ELSE "err"]
        /\ UNCHANGED url
    BY <1>4, <1>9
  <2>2. RetryClient(o, err) => tries'[o] < MaxTries
    BY <1>2, <1>3 DEF RetryClient, AInv, TypeOK
  <2>3. TypeOK'
    BY <1>3, <1>7, <2>1 DEF AInv, TypeOK, Phases
  <2>4. ClientInv'
    BY <1>2, <1>3, <2>1, <2>2 DEF AInv, TypeOK, ClientInv
  <2>5. ThrottleInv' /\ URLInv'
    BY <1>3, <2>1 DEF AInv, TypeOK, ThrottleInv, URLInv
  <2>6. ChallengesTriedOnce'
    BY <1>2, <1>3, <2>1 DEF AInv, TypeOK, ChallengesTriedOnce
  <2>7. QED
    BY <1>6, <2>3, <2>4, <2>5, <2>6 DEF AInv
<1>10. QED
    BY <1>8, <1>9

LEMMA ThrottleAInv ==
    ASSUME AInv, NEW o \in Orders, Throttle(o)
    PROVE  AInv'
<1>1. /\ phase[o] = "throttle" /\ url[o] \in URLs /\ tried[o] = <<>>
    BY DEF Throttle, AInv, URLInv, ThrottleInv
<1>2. /\ buckets' = buckets \cup {url[o]}
      /\ avail' = [avail EXCEPT ![o] = InitialChallenges]
      /\ phase' = [phase EXCEPT ![o] = "next"]
      /\ UNCHANGED <<mgr, clients, built, registered, providers, tries, url>>
      /\ UNCHANGED <<chosen, tried, result>>
    BY DEF Throttle
<1>3. /\ tried[o] \o InitialChallenges = InitialChallenges
      /\ InitialChallenges \in Seq(Types) /\ IsInjective(InitialChallenges)
    BY <1>1, InitialChallengesProps, ConcatEmptySeq
<1>4. TypeOK'
    BY <1>1, <1>2, <1>3 DEF AInv, TypeOK, Phases
<1>5. ClientInv' /\ ThrottleInv' /\ URLInv' /\ OneClientPerCA'
    BY <1>1, <1>2 DEF AInv, TypeOK, ClientInv, ThrottleInv, URLInv, OneClientPerCA
<1>6. ChallengesTriedOnce'
    BY <1>2, <1>3 DEF AInv, TypeOK, ChallengesTriedOnce
<1>7. QED
    BY <1>4, <1>5, <1>6 DEF AInv

LEMMA NextChallengeAInv ==
    ASSUME AInv, NEW o \in Orders, NextChallenge(o)
    PROVE  AInv'
<1>1. /\ phase[o] = "next" /\ url[o] \in URLs /\ url[o] # NoCA
      /\ IsInjective(tried[o] \o avail[o])
      /\ ToSet(tried[o] \o avail[o]) = ToSet(InitialChallenges)
      /\ tried[o] \in Seq(Types) /\ avail[o] \in Seq(Types)
    BY AcmeClientAssumption
       DEF NextChallenge, AInv, URLInv, ChallengesTriedOnce, TypeOK
<1>2. UNCHANGED <<mgr, clients, built, registered, buckets, tries, url>>
    BY DEF NextChallenge
<1>3. CASE avail[o] = <<>>
  <2>1. /\ phase' = [phase EXCEPT ![o] = "done"]
        /\ result' = [result EXCEPT ![o] = "err"]
        /\ UNCHANGED <<providers, avail, chosen, tried>>
    BY <1>3 DEF NextChallenge
  <2>2. TypeOK'
    BY <1>2, <2>1 DEF AInv, TypeOK, Phases
  <2>3. ClientInv' /\ ThrottleInv' /\ URLInv' /\ OneClientPerCA'
    BY <1>2, <2>1 DEF AInv, TypeOK, ClientInv, ThrottleInv, URLInv, OneClientPerCA
  <2>4. ChallengesTriedOnce'
    BY <1>1, <1>2, <2>1 DEF AInv, TypeOK, ChallengesTriedOnce
  <2>5. QED
    BY <2>2, <2>3, <2>4 DEF AInv
<1>4. CASE avail[o] # <<>>
  <2>1. PICK i \in 1..Len(avail[o]) :
          /\ chosen' = [chosen EXCEPT ![o] = avail[o][i]]
          /\ avail' = [avail EXCEPT ![o] = RemoveAt(@, i)]
          /\ tried' = [tried EXCEPT ![o] = Append(@, avail[o][i])]
          /\ providers' = [providers EXCEPT ![url[o]] = NoProviders]
          /\ phase' = [phase EXCEPT ![o] = "set"]
          /\ UNCHANGED result
    BY <1>4 DEF NextChallenge
  <2>2. /\ Append(tried[o], avail[o][i]) \o RemoveAt(avail[o], i) \in Seq(Types)
        /\ ToSet(Append(tried[o], avail[o][i]) \o RemoveAt(avail[o], i))
             = ToSet(tried[o] \o avail[o])
        /\ IsInjective(Append(tried[o], avail[o][i]) \o RemoveAt(avail[o], i))
    BY <1>1, PopKeepsElems
  <2>3. /\ avail[o][i] \in Types
        /\ RemoveAt(avail[o], i) \in Seq(Types)
        /\ Append(tried[o], avail[o][i]) \in Seq(Types)
    BY <1>1, RemoveAtElems, AppendProperties, ElementOfSeq
  <2>4. TypeOK'
    <3>1. NoProviders \in [Types -> Orders \cup {NoOrder}]
      BY DEF NoProviders
    <3>2. QED
      BY <1>2, <2>1, <2>3, <3>1 DEF AInv, TypeOK, Phases
  <2>5. ClientInv' /\ ThrottleInv' /\ URLInv' /\ OneClientPerCA'
    BY <1>1, <1>2, <2>1 DEF AInv, TypeOK, ClientInv, ThrottleInv, URLInv, OneClientPerCA
  <2>6. ChallengesTriedOnce'
    BY <1>1, <1>2, <2>1, <2>2 DEF AInv, TypeOK, ChallengesTriedOnce
  <2>7. QED
    BY <2>4, <2>5, <2>6 DEF AInv
<1>5. QED
    BY <1>3, <1>4

LEMMA SetProviderAInv ==
    ASSUME AInv, NEW o \in Orders, SetProvider(o)
    PROVE  AInv'
<1>1. phase[o] = "set" /\ url[o] \in URLs
    BY DEF SetProvider, AInv, URLInv
<1>2. /\ providers' = [providers EXCEPT ![url[o]][chosen[o]] = o]
      /\ phase' = [phase EXCEPT ![o] = "solve"]
      /\ UNCHANGED <<mgr, clients, built, registered, buckets, tries, url, avail>>
      /\ UNCHANGED <<chosen, tried, result>>
    BY DEF SetProvider
<1>3. TypeOK'
    BY <1>1, <1>2 DEF AInv, TypeOK, Phases
<1>4. ClientInv' /\ ThrottleInv' /\ URLInv' /\ OneClientPerCA'
    BY <1>1, <1>2 DEF AInv, TypeOK, ClientInv, ThrottleInv, URLInv, OneClientPerCA
<1>5. ChallengesTriedOnce'
    BY <1>1, <1>2 DEF AInv, TypeOK, ChallengesTriedOnce
<1>6. QED
    BY <1>3, <1>4, <1>5 DEF AInv

LEMMA SolveAInv ==
    ASSUME AInv, NEW o \in Orders, Solve(o)
    PROVE  AInv'
<1>1. phase[o] = "solve" /\ url[o] \in URLs
    BY DEF Solve, AInv, URLInv
<1>2. /\ UNCHANGED <<mgr, clients, built, registered, buckets, providers, tries>>
      /\ UNCHANGED <<url, avail, chosen, tried>>
    BY DEF Solve
<1>3. \/ /\ phase' = [phase EXCEPT ![o] = "done"]
         /\ result' \in {[result EXCEPT ![o] = "ok"], [result EXCEPT ![o] = "err"]}
      \/ /\ phase' = [phase EXCEPT ![o] = "next"]
         /\ result' = result
    BY DEF Solve
<1>4. TypeOK'
  <2>1. result' \in [Orders -> {"none", "ok", "err"}]
    BY <1>3 DEF AInv, TypeOK
  <2>2. phase' \in [Orders -> Phases]
    BY <1>3 DEF AInv, TypeOK, Phases
  <2>3. QED
    BY <1>2, <2>1, <2>2 DEF AInv, TypeOK
<1>5. ClientInv' /\ ThrottleInv' /\ URLInv' /\ OneClientPerCA'
    BY <1>1, <1>2, <1>3 DEF AInv, TypeOK, ClientInv, ThrottleInv, URLInv, OneClientPerCA
<1>6. ChallengesTriedOnce'
    BY <1>1, <1>2, <1>3 DEF AInv, TypeOK, ChallengesTriedOnce
<1>7. QED
    BY <1>4, <1>5, <1>6 DEF AInv

LEMMA InitAInv == Init => AInv
<1> SUFFICES ASSUME Init PROVE AInv
    OBVIOUS
<1>1. NoProviders \in [Types -> Orders \cup {NoOrder}]
    BY DEF NoProviders
<1>2. TypeOK
    BY <1>1 DEF Init, TypeOK, Phases, MaxTries
<1>3. ClientInv /\ ThrottleInv /\ URLInv
    BY DEF Init, ClientInv, ThrottleInv, URLInv, MaxTries
<1>4. OneClientPerCA /\ ChallengesTriedOnce
    BY DEF Init, OneClientPerCA, ChallengesTriedOnce
<1>5. QED
    BY <1>2, <1>3, <1>4 DEF AInv

LEMMA NextAInv == AInv /\ [Next]_vars => AInv'
<1> SUFFICES ASSUME AInv, [Next]_vars PROVE AInv'
    OBVIOUS
<1>1. CASE UNCHANGED vars
    BY <1>1 DEF vars, AInv, TypeOK, ClientInv, ThrottleInv, URLInv,
                OneClientPerCA, ChallengesTriedOnce
<1>2. QED
    BY <1>1, NewClientAInv, ThrottleAInv, NextChallengeAInv, SetProviderAInv,
       SolveAInv DEF Next

(* The type invariant of the client cache, the rate limiters, the shared   *)
(* lego clients' providers and every order's state, for every manager      *)
(* configuration and every number of orders.                               *)
THEOREM TypeCorrect == Spec => []TypeOK
<1>1. Init => AInv
    BY InitAInv
<1>2. AInv /\ [Next]_vars => AInv'
    BY NextAInv
<1>3. AInv => TypeOK
    BY DEF AInv
<1>4. QED
    BY <1>1, <1>2, <1>3, PTL DEF Spec

(* However many orders ask newACMEClient for a client concurrently, and   *)
(* whatever calls fail, exactly one lego client is made per CA URL and it *)
(* is the one cached in acmeClients: the check for a cached client and    *)
(* the caching (lines 113, 136) happen under acmeClientsMu (69-70).      *)
THEOREM OneClientPerCAHolds == Spec => []OneClientPerCA
<1>1. Init => AInv
    BY InitAInv
<1>2. AInv /\ [Next]_vars => AInv'
    BY NextAInv
<1>3. AInv => OneClientPerCA
    BY DEF AInv
<1>4. QED
    BY <1>1, <1>2, <1>3, PTL DEF Spec

(* For every challenge configuration: once an order has its client, the  *)
(* types it tried followed by those left in its list are the types of     *)
(* initialChallenges, each once -- the pop of nextChallenge (line 223)    *)
(* loses and duplicates none, so no type is tried twice.                  *)
THEOREM ChallengesTriedOnceHolds == Spec => []ChallengesTriedOnce
<1>1. Init => AInv
    BY InitAInv
<1>2. AInv /\ [Next]_vars => AInv'
    BY NextAInv
<1>3. AInv => ChallengesTriedOnce
    BY DEF AInv
<1>4. QED
    BY <1>1, <1>2, <1>3, PTL DEF Spec

=============================================================================
