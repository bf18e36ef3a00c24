------------------------ MODULE ChallengeSolversProofs ------------------------
(***************************************************************************)
(* Proofs about the challenge solvers of src/solvers.go (module            *)
(* ChallengeSolvers), for every cluster, set of challenges and addresses:  *)
(* the type invariant, the token in storage and the TLS-ALPN certificate  *)
(* in the cache for every configuration of faults; the exact reference    *)
(* counts and the release of the listener when no Delete and no listen   *)
(* can fail, the two leaks the violation runs show.                        *)
(***************************************************************************)
EXTENDS ChallengeSolvers, FiniteSetTheorems, TLAPS

(* The phases in which a challenge is counted in its solver's entry, and  *)
(* those in which its order holds the storage lock of its name.           *)
Flight == {"presented", "checked", "deleted", "uncached"}
Held == Flight \cup {"start", "stored", "cached"}

(* The storage lock of a name is held by at most one challenge of it.     *)
LockExclusive ==
    \A c1, c2 \in Challenges :
        c1 # c2 /\ DomainOf[c1] = DomainOf[c2] =>
            ~(phase[c1] \in Held /\ phase[c2] \in Held)

(* From Store to Delete, the token file of the name holds the challenge.  *)
TokPhases == {"stored", "cached", "presented", "checked"}
TokenHeld ==
    \A c \in Challenges :
        phase[c] \in TokPhases =>
            tokens[DomainOf[c]] = c

(* A count never falls below the challenges in flight (it can exceed them *)
(* after a failed listen or Delete: the leaks).                            *)
CountCovers ==
    \A i \in Instances, a \in Addresses :
        CountOf(i, a) >= Cardinality(InFlight(i, a))

(* The inductive invariant for every configuration. *)
SInv == TypeOK /\ LockExclusive /\ TokenHeld /\ CountCovers

-----------------------------------------------------------------------------
LEMMA InFlightDef ==
    ASSUME NEW i, NEW a
    PROVE  InFlight(i, a) = {c \in Challenges : /\ InstanceOf[c] = i
                                                /\ AddressOf[c] = a
                                                /\ phase[c] \in Flight}
BY DEF InFlight, Flight

LEMMA InFlightFinite ==
    ASSUME NEW i, NEW a
    PROVE  /\ IsFiniteSet(InFlight(i, a))
           /\ Cardinality(InFlight(i, a)) \in Nat
<1>1. InFlight(i, a) \subseteq Challenges
    BY DEF InFlight
<1>2. QED
    BY <1>1, ChallengeSolversAssumption, FS_Subset, FS_CardinalityType

LEMMA InFlightFinitePrime ==
    ASSUME NEW i, NEW a
    PROVE  /\ IsFiniteSet(InFlight(i, a)')
           /\ Cardinality(InFlight(i, a)') \in Nat
<1>1. InFlight(i, a)' \subseteq Challenges
    BY DEF InFlight
<1>2. QED
    BY <1>1, ChallengeSolversAssumption, FS_Subset, FS_CardinalityType

(* A step that moves one challenge c to phase p changes the challenges in *)
(* flight only at c's own instance and address, by c alone.               *)
LEMMA InFlightStep ==
    ASSUME TypeOK, NEW c \in Challenges, NEW p,
           phase' = [phase EXCEPT ![c] = p],
           NEW i, NEW a
    PROVE  InFlight(i, a)' =
             IF i = InstanceOf[c] /\ a = AddressOf[c]
             THEN IF p \in Flight THEN InFlight(i, a) \cup {c}
                                  ELSE InFlight(i, a) \ {c}
             ELSE InFlight(i, a)
BY DEF InFlight, Flight, TypeOK

(* A step that keeps c in or out of flight changes no set in flight. *)
LEMMA InFlightSame ==
    ASSUME TypeOK, NEW c \in Challenges, NEW p,
           phase' = [phase EXCEPT ![c] = p],
           phase[c] \in Flight <=> p \in Flight
    PROVE  \A i, a : InFlight(i, a)' = InFlight(i, a)
BY DEF InFlight, Flight, TypeOK


LEMMA CountOfNat ==
    ASSUME NEW i \in Instances, NEW a \in Addresses,
           count \in [Instances -> [Addresses -> Nat]],
           table \in [Instances -> SUBSET Addresses]
    PROVE  CountOf(i, a) \in Nat
BY DEF CountOf

LEMMA CountOfNatPrime ==
    ASSUME NEW i \in Instances, NEW a \in Addresses,
           count' \in [Instances -> [Addresses -> Nat]],
           table' \in [Instances -> SUBSET Addresses]
    PROVE  CountOf(i, a)' \in Nat
BY DEF CountOf

(* Adding or removing one challenge changes the number in flight by one. *)
LEMMA CardAdd ==
    ASSUME NEW S, IsFiniteSet(S), NEW x, x \notin S
    PROVE  IsFiniteSet(S \cup {x}) /\ Cardinality(S \cup {x}) = Cardinality(S) + 1
BY FS_AddElement

LEMMA CardAddLe ==
    ASSUME NEW S, IsFiniteSet(S), NEW x
    PROVE  /\ IsFiniteSet(S \cup {x})
           /\ Cardinality(S \cup {x}) \in Nat
           /\ Cardinality(S \cup {x}) <= Cardinality(S) + 1
<1>1. IsFiniteSet(S \cup {x})
      /\ Cardinality(S \cup {x}) = IF x \in S THEN Cardinality(S) ELSE Cardinality(S) + 1
    BY FS_AddElement
<1>2. Cardinality(S) \in Nat /\ Cardinality(S \cup {x}) \in Nat
    BY <1>1, FS_CardinalityType
<1>3. QED
    BY <1>1, <1>2

LEMMA CardRemove ==
    ASSUME NEW S, IsFiniteSet(S), NEW x \in S
    PROVE  /\ IsFiniteSet(S \ {x})
           /\ Cardinality(S \ {x}) = Cardinality(S) - 1
           /\ Cardinality(S) >= 1
<1>1. IsFiniteSet(S \ {x}) /\ Cardinality(S \ {x}) = Cardinality(S) - 1
    BY FS_RemoveElement
<1>2. Cardinality(S \ {x}) \in Nat /\ Cardinality(S) \in Nat
    BY <1>1, FS_CardinalityType
<1>3. QED
    BY <1>1, <1>2

LEMMA CardMono ==
    ASSUME NEW S, IsFiniteSet(S), NEW T \in SUBSET S
    PROVE  IsFiniteSet(T) /\ Cardinality(T) <= Cardinality(S)
BY FS_Subset

(* Steps that leave the table alone and take no challenge into flight     *)
(* keep every count above the challenges it counts.                       *)
LEMMA CountFrame ==
    ASSUME TypeOK, CountCovers, UNCHANGED <<count, table>>,
           \A i, a : InFlight(i, a)' \subseteq InFlight(i, a)
    PROVE  CountCovers'
<1> SUFFICES ASSUME NEW i \in Instances, NEW a \in Addresses
             PROVE  CountOf(i, a)' >= Cardinality(InFlight(i, a)')
    BY DEF CountCovers
<1>1. CountOf(i, a)' = CountOf(i, a) /\ CountOf(i, a) \in Nat
    BY CountOfNat DEF CountOf, TypeOK
<1>2. Cardinality(InFlight(i, a)') <= Cardinality(InFlight(i, a))
    BY InFlightFinite, CardMono
<1>3. CountOf(i, a) >= Cardinality(InFlight(i, a))
    BY DEF CountCovers
<1>4. QED
    BY <1>1, <1>2, <1>3, InFlightFinite, InFlightFinitePrime

(* The count update of SolverPresent: the entry of c's address counts one *)
(* more, whatever c's phase becomes.                                       *)
LEMMA CountPresent ==
    ASSUME TypeOK, CountCovers, NEW c \in Challenges, NEW p,
           phase' = [phase EXCEPT ![c] = p],
           count' = [count EXCEPT ![InstanceOf[c]][AddressOf[c]] =
                                    CountOf(InstanceOf[c], AddressOf[c]) + 1],
           table' = [table EXCEPT ![InstanceOf[c]] = @ \cup {AddressOf[c]}]
    PROVE  /\ CountCovers'
           /\ count' \in [Instances -> [Addresses -> Nat]]
           /\ table' \in [Instances -> SUBSET Addresses]
           /\ CountOf(InstanceOf[c], AddressOf[c])' =
                CountOf(InstanceOf[c], AddressOf[c]) + 1
<1> DEFINE ci == InstanceOf[c]  ca == AddressOf[c]
<1>1. ci \in Instances /\ ca \in Addresses
    BY ChallengeSolversAssumption
<1>2. CountOf(ci, ca) \in Nat
    BY <1>1, CountOfNat DEF TypeOK
<1>3. count' \in [Instances -> [Addresses -> Nat]]
      /\ table' \in [Instances -> SUBSET Addresses]
    BY <1>1, <1>2 DEF TypeOK
<1>4. CountOf(ci, ca)' = CountOf(ci, ca) + 1
    BY <1>1 DEF CountOf, TypeOK
<1>5. ASSUME NEW i \in Instances, NEW a \in Addresses
      PROVE  CountOf(i, a)' >= Cardinality(InFlight(i, a)')
  <2>1. CountOf(i, a) >= Cardinality(InFlight(i, a)) /\ CountOf(i, a) \in Nat
    BY CountOfNat DEF CountCovers, TypeOK
  <2>2. CASE i = ci /\ a = ca
    <3>1. InFlight(i, a)' \subseteq InFlight(i, a) \cup {c}
      BY <2>2, InFlightStep
    <3>2. /\ IsFiniteSet(InFlight(i, a) \cup {c})
          /\ Cardinality(InFlight(i, a) \cup {c}) <= Cardinality(InFlight(i, a)) + 1
      BY InFlightFinite, CardAddLe
    <3>3. Cardinality(InFlight(i, a)') <= Cardinality(InFlight(i, a) \cup {c})
      BY <3>1, <3>2, CardMono
    <3>4. /\ Cardinality(InFlight(i, a) \cup {c}) \in Nat
          /\ Cardinality(InFlight(i, a)') \in Nat
          /\ Cardinality(InFlight(i, a)) \in Nat
          /\ CountOf(i, a)' = CountOf(i, a) + 1
      BY <2>2, <1>4, InFlightFinite, InFlightFinitePrime, CardAddLe
    <3>5. QED
      BY <2>1, <3>2, <3>3, <3>4
  <2>3. CASE ~(i = ci /\ a = ca)
    <3>1. InFlight(i, a)' = InFlight(i, a)
      BY <2>3, InFlightStep
    <3>2. CountOf(i, a)' = CountOf(i, a)
      BY <2>3, <1>1 DEF CountOf, TypeOK
    <3>3. QED
      BY <2>1, <3>1, <3>2
  <2>4. QED
    BY <2>2, <2>3
<1>6. QED
    BY <1>3, <1>4, <1>5 DEF CountCovers

(* The count update of SolverCleanUp for a challenge c in flight: the     *)
(* entry of c's address counts one less and is deleted at 0.              *)
LEMMA CountCleanUp ==
    ASSUME TypeOK, CountCovers, NEW c \in Challenges,
           c \in InFlight(InstanceOf[c], AddressOf[c]),
           phase' = [phase EXCEPT ![c] = "done"],
           SolverCleanUp(c)
    PROVE  /\ CountCovers'
           /\ count' \in [Instances -> [Addresses -> Nat]]
           /\ table' \in [Instances -> SUBSET Addresses]
           /\ listening' \in [Instances -> SUBSET Addresses]
           /\ CountOf(InstanceOf[c], AddressOf[c])' =
                CountOf(InstanceOf[c], AddressOf[c]) - 1
           /\ \A i \in Instances, a \in Addresses :
                 ~(i = InstanceOf[c] /\ a = AddressOf[c]) =>
                    CountOf(i, a)' = CountOf(i, a)
<1> DEFINE ci == InstanceOf[c]  ca == AddressOf[c]  n == CountOf(ci, ca) - 1
<1>1. ci \in Instances /\ ca \in Addresses
    BY ChallengeSolversAssumption
<1>2. /\ Cardinality(InFlight(ci, ca)) >= 1
      /\ Cardinality(InFlight(ci, ca) \ {c}) = Cardinality(InFlight(ci, ca)) - 1
    BY InFlightFinite, CardRemove
<1>3. InFlight(ci, ca)' = InFlight(ci, ca) \ {c}
    BY InFlightStep DEF Flight
<1>4. /\ CountOf(ci, ca) \in Nat /\ n \in Nat
      /\ n >= Cardinality(InFlight(ci, ca)')
    <2>1. CountOf(ci, ca) \in Nat
      BY <1>1, CountOfNat DEF TypeOK
    <2>2. CountOf(ci, ca) >= Cardinality(InFlight(ci, ca))
      BY <1>1 DEF CountCovers
    <2>3. QED
      BY <1>2, <1>3, <2>1, <2>2, InFlightFinite
<1>5. /\ count' \in [Instances -> [Addresses -> Nat]]
      /\ table' \in [Instances -> SUBSET Addresses]
      /\ listening' \in [Instances -> SUBSET Addresses]
      /\ CountOf(ci, ca)' = n
      /\ \A i \in Instances, a \in Addresses :
            ~(i = ci /\ a = ca) => CountOf(i, a)' = CountOf(i, a)
    <2>1. CASE n = 0
      <3>1. /\ count' = [count EXCEPT ![ci][ca] = 0]
            /\ table' = [table EXCEPT ![ci] = @ \ {ca}]
            /\ listening' = [listening EXCEPT ![ci] = @ \ {ca}]
        BY <2>1 DEF SolverCleanUp
      <3>2. /\ count' \in [Instances -> [Addresses -> Nat]]
            /\ table' \in [Instances -> SUBSET Addresses]
            /\ listening' \in [Instances -> SUBSET Addresses]
        BY <1>1, <3>1 DEF TypeOK
      <3>3. CountOf(ci, ca)' = n
        BY <1>1, <2>1, <3>1 DEF CountOf, TypeOK
      <3>4. ASSUME NEW i \in Instances, NEW a \in Addresses, ~(i = ci /\ a = ca)
            PROVE  CountOf(i, a)' = CountOf(i, a)
        BY <1>1, <3>1, <3>4 DEF CountOf, TypeOK
      <3>5. QED
        BY <3>2, <3>3, <3>4
    <2>2. CASE n # 0
      <3>1. /\ count' = [count EXCEPT ![ci][ca] = n]
            /\ table' = [table EXCEPT ![ci] = @ \cup {ca}]
            /\ listening' = listening
        BY <2>2 DEF SolverCleanUp
      <3>2. /\ count' \in [Instances -> [Addresses -> Nat]]
            /\ table' \in [Instances -> SUBSET Addresses]
            /\ listening' \in [Instances -> SUBSET Addresses]
        BY <1>1, <1>4, <3>1 DEF TypeOK
      <3>3. CountOf(ci, ca)' = n
        BY <1>1, <3>1 DEF CountOf, TypeOK
      <3>4. ASSUME NEW i \in Instances, NEW a \in Addresses, ~(i = ci /\ a = ca)
            PROVE  CountOf(i, a)' = CountOf(i, a)
        BY <1>1, <3>1, <3>4 DEF CountOf, TypeOK
      <3>5. QED
        BY <3>2, <3>3, <3>4
    <2>3. QED
      BY <2>1, <2>2
<1>6. ASSUME NEW i \in Instances, NEW a \in Addresses
      PROVE  CountOf(i, a)' >= Cardinality(InFlight(i, a)')
  <2>1. CASE i = ci /\ a = ca
    BY <2>1, <1>4, <1>5
  <2>2. CASE ~(i = ci /\ a = ca)
    <3>1. InFlight(i, a)' = InFlight(i, a)
      BY <2>2, InFlightStep
    <3>2. CountOf(i, a) >= Cardinality(InFlight(i, a))
      BY DEF CountCovers
    <3>3. QED
      BY <2>2, <1>5, <3>1, <3>2
  <2>3. QED
    BY <2>1, <2>2
<1>7. QED
    BY <1>5, <1>6 DEF CountCovers

-----------------------------------------------------------------------------
(* A step of one challenge c that takes no lock keeps the locks exclusive. *)
LEMMA LockStep ==
    ASSUME LockExclusive, NEW c \in Challenges, NEW p,
           phase' = [phase EXCEPT ![c] = p],
           phase \in [Challenges -> Phases],
           p \in Held => phase[c] \in Held
    PROVE  LockExclusive'
BY DEF LockExclusive

(* A step of one challenge c that leaves the token files alone, and c in  *)
(* the phases with a token only if it was there, keeps the tokens held.   *)
LEMMA TokenStep ==
    ASSUME TokenHeld, NEW c \in Challenges, NEW p,
           phase' = [phase EXCEPT ![c] = p],
           phase \in [Challenges -> Phases],
           tokens' = tokens,
           p \in TokPhases => phase[c] \in TokPhases
    PROVE  TokenHeld'
BY DEF TokenHeld

LEMMA LockNameSInv ==
    ASSUME SInv, NEW c \in Challenges, LockName(c)
    PROVE  SInv'
<1>1. phase' = [phase EXCEPT ![c] = "start"]
      /\ UNCHANGED <<tokens, alpnCerts, count, table, listening, port, answered>>
    BY DEF LockName
<1>2. TypeOK'
    BY <1>1 DEF SInv, TypeOK, Phases
<1>3. LockExclusive'
    BY <1>1 DEF LockName, SInv, TypeOK, LockExclusive, Held, Flight
<1>4. TokenHeld'
    BY <1>1, TokenStep DEF SInv, TypeOK, TokPhases, LockName
<1>5. CountCovers'
  <2>1. \A i, a : InFlight(i, a)' = InFlight(i, a)
    BY <1>1, InFlightSame DEF SInv, LockName, Flight
  <2>2. QED
    BY <1>1, <2>1, CountFrame DEF SInv
<1>6. QED
    BY <1>2, <1>3, <1>4, <1>5 DEF SInv

(* Storing the token: the lock makes c the only challenge of its name     *)
(* that can rely on the file it overwrites.                                *)
LEMMA StoreTokenSInv ==
    ASSUME SInv, NEW c \in Challenges, StoreToken(c)
    PROVE  SInv'
<1>1. UNCHANGED <<alpnCerts, count, table, listening, port, answered>>
      /\ phase[c] = "start" /\ DomainOf[c] \in Domains
    BY ChallengeSolversAssumption DEF StoreToken
<1>2. CASE /\ tokens' = [tokens EXCEPT ![DomainOf[c]] = c]
           /\ phase' = [phase EXCEPT ![c] = "stored"]
  <2>1. TypeOK'
    BY <1>1, <1>2 DEF SInv, TypeOK, Phases
  <2>2. LockExclusive'
    BY <1>1, <1>2, LockStep DEF SInv, TypeOK, Held, Flight
  <2>3. TokenHeld'
    <3> SUFFICES ASSUME NEW c2 \in Challenges, phase'[c2] \in TokPhases
                 PROVE  tokens'[DomainOf[c2]] = c2
      BY DEF TokenHeld
    <3>1. CASE c2 = c
      BY <1>1, <1>2, <3>1 DEF SInv, TypeOK
    <3>2. CASE c2 # c
      <4>1. phase[c2] \in TokPhases /\ phase[c2] \in Held
        BY <1>2, <3>2 DEF SInv, TypeOK, TokPhases, Held, Flight
      <4>2. DomainOf[c2] # DomainOf[c]
        BY <1>1, <3>2, <4>1 DEF SInv, LockExclusive, Held
      <4>3. QED
        BY <1>1, <1>2, <4>1, <4>2, ChallengeSolversAssumption
           DEF SInv, TypeOK, TokenHeld
    <3>3. QED
      BY <3>1, <3>2
  <2>4. CountCovers'
    <3>1. \A i, a : InFlight(i, a)' = InFlight(i, a)
      BY <1>1, <1>2, InFlightSame DEF SInv, Flight
    <3>2. QED
      BY <1>1, <3>1, CountFrame DEF SInv
  <2>5. QED
    BY <2>1, <2>2, <2>3, <2>4 DEF SInv
<1>3. CASE /\ phase' = [phase EXCEPT ![c] = "done"]
           /\ UNCHANGED tokens
  <2>1. TypeOK'
    BY <1>1, <1>3 DEF SInv, TypeOK, Phases
  <2>2. LockExclusive'
    BY <1>1, <1>3, LockStep DEF SInv, TypeOK, Held, Flight
  <2>3. TokenHeld'
    BY <1>1, <1>3, TokenStep DEF SInv, TypeOK, TokPhases
  <2>4. CountCovers'
    <3>1. \A i, a : InFlight(i, a)' = InFlight(i, a)
      BY <1>1, <1>3, InFlightSame DEF SInv, Flight
    <3>2. QED
      BY <1>1, <3>1, CountFrame DEF SInv
  <2>5. QED
    BY <2>1, <2>2, <2>3, <2>4 DEF SInv
<1>4. QED
    BY <1>2, <1>3 DEF StoreToken

LEMMA CacheALPNCertSInv ==
    ASSUME SInv, NEW c \in Challenges, CacheALPNCert(c)
    PROVE  SInv'
<1>1. /\ UNCHANGED <<tokens, count, table, listening, port, answered>>
      /\ phase[c] = "stored"
      /\ InstanceOf[c] \in Instances /\ DomainOf[c] \in Domains
      /\ \E p \in {"cached", "done"} : phase' = [phase EXCEPT ![c] = p]
      /\ \/ alpnCerts' = [alpnCerts EXCEPT ![InstanceOf[c]][DomainOf[c]] = c]
         \/ alpnCerts' = alpnCerts
    BY ChallengeSolversAssumption DEF CacheALPNCert
<1>2. PICK p \in {"cached", "done"} : phase' = [phase EXCEPT ![c] = p]
    BY <1>1
<1>3. TypeOK'
  <2>1. alpnCerts' \in [Instances -> [Domains -> Challenges \cup {NoChallenge}]]
    <3>1. CASE alpnCerts' = [alpnCerts EXCEPT ![InstanceOf[c]][DomainOf[c]] = c]
      BY <1>1, <3>1 DEF SInv, TypeOK
    <3>2. CASE alpnCerts' = alpnCerts
      BY <3>2 DEF SInv, TypeOK
    <3>3. QED
      BY <1>1, <3>1, <3>2
  <2>2. phase' \in [Challenges -> Phases]
    BY <1>2 DEF SInv, TypeOK, Phases
  <2>3. QED
    BY <1>1, <2>1, <2>2 DEF SInv, TypeOK
<1>4. LockExclusive'
    BY <1>1, <1>2, LockStep DEF SInv, TypeOK, Held, Flight
<1>5. TokenHeld'
    BY <1>1, <1>2, TokenStep DEF SInv, TypeOK, TokPhases
<1>6. CountCovers'
  <2>1. \A i, a : InFlight(i, a)' = InFlight(i, a)
    BY <1>1, <1>2, InFlightSame DEF SInv, Flight
  <2>2. QED
    BY <1>1, <2>1, CountFrame DEF SInv
<1>7. QED
    BY <1>3, <1>4, <1>5, <1>6 DEF SInv

(* The solver-table section of Present, from "stored" (HTTP-01) or       *)
(* "cached" (TLS-ALPN-01).                                                  *)
LEMMA PresentSInv ==
    ASSUME SInv, NEW c \in Challenges, phase[c] \in {"stored", "cached"},
           SolverPresent(c)
    PROVE  SInv'
<1> DEFINE ci == InstanceOf[c]  ca == AddressOf[c]
<1>1. ci \in Instances /\ ca \in Addresses
    BY ChallengeSolversAssumption
<1>2. /\ UNCHANGED <<tokens, alpnCerts, port, answered>>
      /\ count' = [count EXCEPT ![ci][ca] = CountOf(ci, ca) + 1]
      /\ table' = [table EXCEPT ![ci] = @ \cup {ca}]
      /\ \/ listening' = listening
         \/ listening' = [listening EXCEPT ![ci] = @ \cup {ca}]
      /\ \E p \in {"presented", "done"} : phase' = [phase EXCEPT ![c] = p]
    BY DEF SolverPresent
<1>3. PICK p \in {"presented", "done"} : phase' = [phase EXCEPT ![c] = p]
    BY <1>2
<1>4. /\ CountCovers'
      /\ count' \in [Instances -> [Addresses -> Nat]]
      /\ table' \in [Instances -> SUBSET Addresses]
    BY <1>2, <1>3, CountPresent DEF SInv
<1>5. TypeOK'
  <2>1. listening' \in [Instances -> SUBSET Addresses]
    <3>1. CASE listening' = [listening EXCEPT ![ci] = @ \cup {ca}]
      BY <1>1, <3>1 DEF SInv, TypeOK
    <3>2. CASE listening' = listening
      BY <3>2 DEF SInv, TypeOK
    <3>3. QED
      BY <1>2, <3>1, <3>2
  <2>2. phase' \in [Challenges -> Phases]
    BY <1>3 DEF SInv, TypeOK, Phases
  <2>3. QED
    BY <1>2, <1>4, <2>1, <2>2 DEF SInv, TypeOK
<1>6. LockExclusive'
    BY <1>3, LockStep DEF SInv, TypeOK, Held, Flight
<1>7. TokenHeld'
    BY <1>2, <1>3, TokenStep DEF SInv, TypeOK, TokPhases
<1>8. QED
    BY <1>4, <1>5, <1>6, <1>7 DEF SInv

LEMMA ValidateSInv ==
    ASSUME SInv, NEW c \in Challenges, Validate(c)
    PROVE  SInv'
<1>1. /\ UNCHANGED <<tokens, alpnCerts, count, table, listening, port>>
      /\ phase[c] = "presented"
      /\ phase' = [phase EXCEPT ![c] = "checked"]
      /\ answered' \subseteq answered \cup {c}
    BY DEF Validate
<1>2. TypeOK'
    BY <1>1 DEF SInv, TypeOK, Phases
<1>3. LockExclusive'
    BY <1>1, LockStep DEF SInv, TypeOK, Held, Flight
<1>4. TokenHeld'
    BY <1>1, TokenStep DEF SInv, TypeOK, TokPhases
<1>5. CountCovers'
  <2>1. \A i, a : InFlight(i, a)' = InFlight(i, a)
    BY <1>1, InFlightSame DEF SInv, Flight
  <2>2. QED
    BY <1>1, <2>1, CountFrame DEF SInv
<1>6. QED
    BY <1>2, <1>3, <1>4, <1>5 DEF SInv

(* Leaving flight without touching the table only shrinks what it counts. *)
LEMMA LeaveFlight ==
    ASSUME TypeOK, CountCovers, NEW c \in Challenges,
           phase' = [phase EXCEPT ![c] = "done"],
           UNCHANGED <<count, table>>
    PROVE  CountCovers'
<1>1. \A i, a : InFlight(i, a)' \subseteq InFlight(i, a)
    BY DEF InFlight, Flight, TypeOK
<1>2. QED
    BY <1>1, CountFrame

(* Deleting the token: the lock again makes c the only challenge of its   *)
(* name that relies on the file.                                           *)
LEMMA DeleteTokenSInv ==
    ASSUME SInv, NEW c \in Challenges, DeleteToken(c)
    PROVE  SInv'
<1>1. UNCHANGED <<alpnCerts, count, table, listening, port, answered>>
      /\ phase[c] = "checked" /\ DomainOf[c] \in Domains
    BY ChallengeSolversAssumption DEF DeleteToken
<1>2. CASE /\ tokens' = [tokens EXCEPT ![DomainOf[c]] = NoChallenge]
           /\ phase' = [phase EXCEPT ![c] = "deleted"]
  <2>1. TypeOK'
    BY <1>1, <1>2 DEF SInv, TypeOK, Phases
  <2>2. LockExclusive'
    BY <1>1, <1>2, LockStep DEF SInv, TypeOK, Held, Flight
  <2>3. TokenHeld'
    <3> SUFFICES ASSUME NEW c2 \in Challenges, phase'[c2] \in TokPhases
                 PROVE  tokens'[DomainOf[c2]] = c2
      BY DEF TokenHeld
    <3>1. c2 # c
      BY <1>2 DEF SInv, TypeOK, TokPhases
    <3>2. phase[c2] \in TokPhases /\ phase[c2] \in Held
      BY <1>2, <3>1 DEF SInv, TypeOK, TokPhases, Held, Flight
    <3>3. DomainOf[c2] # DomainOf[c]
      BY <1>1, <3>1, <3>2 DEF SInv, LockExclusive, Held, Flight
    <3>4. QED
      BY <1>1, <1>2, <3>2, <3>3, ChallengeSolversAssumption
         DEF SInv, TypeOK, TokenHeld
  <2>4. CountCovers'
    <3>1. \A i, a : InFlight(i, a)' = InFlight(i, a)
      BY <1>1, <1>2, InFlightSame DEF SInv, Flight
    <3>2. QED
      BY <1>1, <3>1, CountFrame DEF SInv
  <2>5. QED
    BY <2>1, <2>2, <2>3, <2>4 DEF SInv
<1>3. CASE /\ phase' = [phase EXCEPT ![c] = "done"]
           /\ UNCHANGED tokens
  <2>1. TypeOK'
    BY <1>1, <1>3 DEF SInv, TypeOK, Phases
  <2>2. LockExclusive'
    BY <1>1, <1>3, LockStep DEF SInv, TypeOK, Held, Flight
  <2>3. TokenHeld'
    BY <1>1, <1>3, TokenStep DEF SInv, TypeOK, TokPhases
  <2>4. CountCovers'
    BY <1>1, <1>3, LeaveFlight DEF SInv
  <2>5. QED
    BY <2>1, <2>2, <2>3, <2>4 DEF SInv
<1>4. QED
    BY <1>2, <1>3 DEF DeleteToken

LEMMA UncacheALPNCertSInv ==
    ASSUME SInv, NEW c \in Challenges, UncacheALPNCert(c)
    PROVE  SInv'
<1>1. /\ UNCHANGED <<tokens, count, table, listening, port, answered>>
      /\ phase[c] = "deleted"
      /\ phase' = [phase EXCEPT ![c] = "uncached"]
      /\ InstanceOf[c] \in Instances /\ DomainOf[c] \in Domains
      /\ alpnCerts' = [alpnCerts EXCEPT ![InstanceOf[c]][DomainOf[c]] = NoChallenge]
    BY ChallengeSolversAssumption DEF UncacheALPNCert
<1>2. TypeOK'
    BY <1>1 DEF SInv, TypeOK, Phases
<1>3. LockExclusive'
    BY <1>1, LockStep DEF SInv, TypeOK, Held, Flight
<1>4. TokenHeld'
    BY <1>1, TokenStep DEF SInv, TypeOK, TokPhases
<1>5. CountCovers'
  <2>1. \A i, a : InFlight(i, a)' = InFlight(i, a)
    BY <1>1, InFlightSame DEF SInv, Flight
  <2>2. QED
    BY <1>1, <2>1, CountFrame DEF SInv
<1>6. QED
    BY <1>2, <1>3, <1>4, <1>5 DEF SInv

(* The solver-table section of CleanUp, from "deleted" (HTTP-01) or      *)
(* "uncached" (TLS-ALPN-01).                                                *)
LEMMA CleanUpSInv ==
    ASSUME SInv, NEW c \in Challenges, phase[c] \in {"deleted", "uncached"},
           SolverCleanUp(c)
    PROVE  SInv'
<1>1. /\ UNCHANGED <<tokens, alpnCerts, port, answered>>
      /\ phase' = [phase EXCEPT ![c] = "done"]
    BY DEF SolverCleanUp
<1>2. c \in InFlight(InstanceOf[c], AddressOf[c])
    BY DEF InFlight
<1>3. /\ CountCovers'
      /\ count' \in [Instances -> [Addresses -> Nat]]
      /\ table' \in [Instances -> SUBSET Addresses]
      /\ listening' \in [Instances -> SUBSET Addresses]
    BY <1>1, <1>2, CountCleanUp DEF SInv
<1>4. TypeOK'
    BY <1>1, <1>3 DEF SInv, TypeOK, Phases
<1>5. LockExclusive'
    BY <1>1, LockStep DEF SInv, TypeOK, Held, Flight
<1>6. TokenHeld'
    BY <1>1, TokenStep DEF SInv, TypeOK, TokPhases
<1>7. QED
    BY <1>3, <1>4, <1>5, <1>6 DEF SInv

LEMMA PortChangeSInv ==
    ASSUME SInv, NEW i \in Instances, NEW a \in Addresses, PortChange(i, a)
    PROVE  SInv'
<1>1. /\ UNCHANGED <<tokens, alpnCerts, count, table, listening, phase, answered>>
      /\ \E s \in PortStates : port' = [port EXCEPT ![i][a] = s]
    BY DEF PortChange
<1>2. TypeOK'
    BY <1>1 DEF SInv, TypeOK
<1>3. \A j, b : InFlight(j, b)' = InFlight(j, b)
    BY <1>1 DEF InFlight
<1>4. QED
    BY <1>1, <1>2, <1>3, CountFrame DEF SInv, LockExclusive, TokenHeld

LEMMA InitSInv == Init => SInv
<1> SUFFICES ASSUME Init PROVE SInv
    OBVIOUS
<1>1. TypeOK
    BY ChallengeSolversAssumption DEF Init, TypeOK, Phases
<1>2. LockExclusive /\ TokenHeld
    BY DEF Init, LockExclusive, TokenHeld, Held, Flight, TokPhases
<1>3. ASSUME NEW i \in Instances, NEW a \in Addresses
      PROVE  CountOf(i, a) >= Cardinality(InFlight(i, a))
  <2>1. InFlight(i, a) = {}
    BY DEF Init, InFlight
  <2>2. CountOf(i, a) = 0
    BY DEF Init, CountOf
  <2>3. QED
    BY <2>1, <2>2, FS_EmptySet
<1>4. QED
    BY <1>1, <1>2, <1>3 DEF SInv, CountCovers

LEMMA NextSInv == SInv /\ [Next]_vars => SInv'
<1> SUFFICES ASSUME SInv, [Next]_vars PROVE SInv'
    OBVIOUS
<1>1. ASSUME NEW c \in Challenges,
             \/ LockName(c) \/ StoreToken(c) \/ CacheALPNCert(c)
             \/ PresentHTTP(c) \/ PresentALPN(c) \/ Validate(c)
             \/ DeleteToken(c) \/ UncacheALPNCert(c)
             \/ CleanUpHTTP(c) \/ CleanUpALPN(c)
      PROVE  SInv'
  <2>1. CASE PresentHTTP(c)
    BY <2>1, PresentSInv DEF PresentHTTP
  <2>2. CASE PresentALPN(c)
    BY <2>2, PresentSInv DEF PresentALPN
  <2>3. CASE CleanUpHTTP(c)
    BY <2>3, CleanUpSInv DEF CleanUpHTTP
  <2>4. CASE CleanUpALPN(c)
    BY <2>4, CleanUpSInv DEF CleanUpALPN
  <2>5. QED
    BY <1>1, <2>1, <2>2, <2>3, <2>4, LockNameSInv, StoreTokenSInv,
       CacheALPNCertSInv, ValidateSInv, DeleteTokenSInv, UncacheALPNCertSInv
<1>2. ASSUME NEW i \in Instances, NEW a \in Addresses, PortChange(i, a)
      PROVE  SInv'
    BY <1>2, PortChangeSInv
<1>3. CASE UNCHANGED vars
  <2>1. \A i, a : InFlight(i, a)' = InFlight(i, a)
    BY <1>3 DEF vars, InFlight
  <2>2. QED
    BY <1>3, <2>1, CountFrame DEF vars, SInv, TypeOK, LockExclusive, TokenHeld
<1>4. QED
    BY <1>1, <1>2, <1>3 DEF Next

(* The type invariant of the solver tables, the token files and the       *)
(* certificate caches, for every cluster and every configuration of        *)
(* faults.                                                                 *)
THEOREM TypeCorrect == Spec => []TypeOK
<1>1. Init => SInv
    BY InitSInv
<1>2. SInv /\ [Next]_vars => SInv'
    BY NextSInv
<1>3. SInv => TypeOK
    BY DEF SInv
<1>4. QED
    BY <1>1, <1>2, <1>3, PTL DEF Spec

(* For every cluster, even when Storage.Store and Storage.Delete can fail  *)
(* and listening fails: from Present to the CA's validation request, the   *)
(* token file of the domain holds this challenge's token.  It rests on the *)
(* storage lock of the name, held by the order from before Store to after  *)
(* Delete, and on Present being called only after Store succeeded.         *)
THEOREM TokenStoredWhilePresentedHolds == Spec => []TokenStoredWhilePresented
<1>1. Init => SInv
    BY InitSInv
<1>2. SInv /\ [Next]_vars => SInv'
    BY NextSInv
<1>3. SInv => TokenStoredWhilePresented
    BY DEF SInv, TokenHeld, TokPhases, TokenStoredWhilePresented
<1>4. QED
    BY <1>1, <1>2, <1>3, PTL DEF Spec

-----------------------------------------------------------------------------
(* From the caching of a TLS-ALPN-01 certificate to its removal, the      *)
(* instance's certificate cache holds it under the challenge's domain.    *)
CertPhases == {"cached", "presented", "checked", "deleted"}
CertHeld ==
    \A c \in Challenges :
        KindOf[c] = "tls-alpn-01" /\ phase[c] \in CertPhases =>
            alpnCerts[InstanceOf[c]][DomainOf[c]] = c

CInv == SInv /\ CertHeld

(* A step that moves one challenge and leaves the caches alone keeps       *)
(* CertHeld when it moves no TLS-ALPN challenge into the caching phases.   *)
LEMMA CertStep ==
    ASSUME CertHeld, NEW c \in Challenges, NEW p,
           phase' = [phase EXCEPT ![c] = p],
           phase \in [Challenges -> Phases],
           alpnCerts' = alpnCerts,
           KindOf[c] = "tls-alpn-01" /\ p \in CertPhases => phase[c] \in CertPhases
    PROVE  CertHeld'
BY DEF CertHeld

(* Writing or deleting the cache entry of one instance and domain keeps   *)
(* the entries of every other challenge holding a certificate: a          *)
(* challenge of the same instance and domain would hold the same lock.    *)
LEMMA CertOthers ==
    ASSUME SInv, CertHeld, NEW c \in Challenges, NEW v, NEW p,
           phase[c] \in Held,
           alpnCerts' = [alpnCerts EXCEPT ![InstanceOf[c]][DomainOf[c]] = v],
           phase' = [phase EXCEPT ![c] = p]
    PROVE  \A c2 \in Challenges \ {c} :
              KindOf[c2] = "tls-alpn-01" /\ phase'[c2] \in CertPhases =>
                  alpnCerts'[InstanceOf[c2]][DomainOf[c2]] = c2
<1> SUFFICES ASSUME NEW c2 \in Challenges \ {c}, KindOf[c2] = "tls-alpn-01",
                    phase'[c2] \in CertPhases
             PROVE  alpnCerts'[InstanceOf[c2]][DomainOf[c2]] = c2
    OBVIOUS
<1>1. phase[c2] \in CertPhases /\ phase[c2] \in Held
    BY DEF SInv, TypeOK, CertPhases, Held, Flight
<1>2. DomainOf[c2] # DomainOf[c]
    BY <1>1 DEF SInv, LockExclusive
<1>3. /\ InstanceOf[c2] \in Instances /\ DomainOf[c2] \in Domains
      /\ InstanceOf[c] \in Instances /\ DomainOf[c] \in Domains
    BY ChallengeSolversAssumption
<1>4. alpnCerts'[InstanceOf[c2]][DomainOf[c2]] = alpnCerts[InstanceOf[c2]][DomainOf[c2]]
    BY <1>2, <1>3 DEF SInv, TypeOK
<1>5. QED
    BY <1>1, <1>4 DEF CertHeld

LEMMA CacheALPNCertCert ==
    ASSUME SInv, CertHeld, NEW c \in Challenges, CacheALPNCert(c)
    PROVE  CertHeld'
<1> DEFINE ci == InstanceOf[c]  cd == DomainOf[c]
<1>1. CASE /\ alpnCerts' = [alpnCerts EXCEPT ![ci][cd] = c]
           /\ phase' = [phase EXCEPT ![c] = "cached"]
  <2>1. phase[c] \in Held
    BY DEF CacheALPNCert, Held, Flight
  <2>2. alpnCerts'[ci][cd] = c
    BY <1>1, ChallengeSolversAssumption DEF SInv, TypeOK
  <2>3. QED
    BY <1>1, <2>1, <2>2, CertOthers DEF CertHeld
<1>2. CASE /\ phase' = [phase EXCEPT ![c] = "done"]
           /\ UNCHANGED alpnCerts
    BY <1>2, CertStep DEF SInv, TypeOK, CertPhases
<1>3. QED
    BY <1>1, <1>2 DEF CacheALPNCert

LEMMA UncacheALPNCertCert ==
    ASSUME SInv, CertHeld, NEW c \in Challenges, UncacheALPNCert(c)
    PROVE  CertHeld'
<1>1. /\ alpnCerts' = [alpnCerts EXCEPT ![InstanceOf[c]][DomainOf[c]] = NoChallenge]
      /\ phase' = [phase EXCEPT ![c] = "uncached"]
      /\ phase[c] \in Held
    BY DEF UncacheALPNCert, Held, Flight
<1>2. phase'[c] \notin CertPhases
    BY <1>1 DEF SInv, TypeOK, CertPhases
<1>3. QED
    BY <1>1, <1>2, CertOthers DEF CertHeld

LEMMA NextCertHeld == CInv /\ [Next]_vars => CertHeld'
<1> SUFFICES ASSUME SInv, CertHeld, [Next]_vars PROVE CertHeld'
    BY DEF CInv
<1> USE DEF SInv, TypeOK
<1>1. ASSUME NEW c \in Challenges, LockName(c) PROVE CertHeld'
    BY <1>1, CertStep DEF LockName, CertPhases
<1>2. ASSUME NEW c \in Challenges, StoreToken(c) PROVE CertHeld'
  <2>1. \E p \in {"stored", "done"} : phase' = [phase EXCEPT ![c] = p]
    BY <1>2 DEF StoreToken
  <2>2. QED
    BY <1>2, <2>1, CertStep DEF StoreToken, CertPhases
<1>3. ASSUME NEW c \in Challenges, phase[c] \in {"stored", "cached"},
             KindOf[c] = "tls-alpn-01" => phase[c] = "cached",
             SolverPresent(c)
      PROVE  CertHeld'
  <2>1. \E p \in {"presented", "done"} : phase' = [phase EXCEPT ![c] = p]
    BY <1>3 DEF SolverPresent
  <2>2. QED
    BY <1>3, <2>1, CertStep DEF SolverPresent, CertPhases
<1>4. ASSUME NEW c \in Challenges, Validate(c) PROVE CertHeld'
    BY <1>4, CertStep DEF Validate, CertPhases
<1>5. ASSUME NEW c \in Challenges, DeleteToken(c) PROVE CertHeld'
  <2>1. \E p \in {"deleted", "done"} : phase' = [phase EXCEPT ![c] = p]
    BY <1>5 DEF DeleteToken
  <2>2. QED
    BY <1>5, <2>1, CertStep DEF DeleteToken, CertPhases
<1>6. ASSUME NEW c \in Challenges, SolverCleanUp(c) PROVE CertHeld'
    BY <1>6, CertStep DEF SolverCleanUp, CertPhases
<1>7. ASSUME NEW c \in Challenges,
             \/ LockName(c) \/ StoreToken(c) \/ CacheALPNCert(c)
             \/ PresentHTTP(c) \/ PresentALPN(c) \/ Validate(c)
             \/ DeleteToken(c) \/ UncacheALPNCert(c)
             \/ CleanUpHTTP(c) \/ CleanUpALPN(c)
      PROVE  CertHeld'
  <2>1. CASE PresentHTTP(c)
    <3>1. KindOf[c] # "tls-alpn-01"
      BY <2>1 DEF PresentHTTP
    <3>2. QED
      BY <2>1, <3>1, <1>3 DEF PresentHTTP
  <2>2. CASE PresentALPN(c)
    BY <2>2, <1>3 DEF PresentALPN
  <2>3. CASE CleanUpHTTP(c) \/ CleanUpALPN(c)
    BY <2>3, <1>6 DEF CleanUpHTTP, CleanUpALPN
  <2>4. QED
    BY <1>7, <2>1, <2>2, <2>3, <1>1, <1>2, <1>4, <1>5,
       CacheALPNCertCert, UncacheALPNCertCert
<1>8. ASSUME NEW i \in Instances, NEW a \in Addresses, PortChange(i, a)
      PROVE  CertHeld'
    BY <1>8 DEF PortChange, CertHeld
<1>9. CASE UNCHANGED vars
    BY <1>9 DEF vars, CertHeld
<1>10. QED
    BY <1>7, <1>8, <1>9 DEF Next

(* For every cluster and every configuration of faults: from Present to   *)
(* the start of CleanUp, a TLS-ALPN-01 challenge's instance has its        *)
(* challenge certificate in certCache under the domain (solvers.go 111).  *)
(* Other challenges sharing the :443 listener write and delete only the    *)
(* keys of their own domains, and a challenge of the same domain waits for *)
(* the storage lock of the name until this one's CleanUp has run.          *)
THEOREM AlpnCertCachedWhilePresentedHolds == Spec => []AlpnCertCachedWhilePresented
<1>1. Init => CInv
  <2> SUFFICES ASSUME Init PROVE CInv
      OBVIOUS
  <2>1. CertHeld
    BY DEF Init, CertHeld, CertPhases
  <2>2. QED
    BY <2>1, InitSInv DEF CInv
<1>2. CInv /\ [Next]_vars => CInv'
    BY NextSInv, NextCertHeld DEF CInv
<1>3. CInv => AlpnCertCachedWhilePresented
    BY DEF CInv, CertHeld, CertPhases, AlpnCertCachedWhilePresented
<1>4. QED
    BY <1>1, <1>2, <1>3, PTL DEF Spec

-----------------------------------------------------------------------------
(* The exact counts hold when neither leak of the violation runs can      *)
(* happen: Storage.Delete does not fail, and nothing at a port makes both  *)
(* listen and dial fail.  (Store may fail: it fails before Present.)       *)
NoLeaks == ~DeleteFaults /\ "failing" \notin PortStates

(* RefCountAccurate at one instance and address. *)
RefAt(i, a) ==
    /\ CountOf(i, a) = Cardinality(InFlight(i, a))
    /\ a \in table[i] <=> InFlight(i, a) # {}
    /\ a \in listening[i] => a \in table[i]

(* A step that leaves the solver tables and the challenges in flight      *)
(* alone keeps the counts exact.                                           *)
LEMMA RefFrame ==
    ASSUME RefCountAccurate, UNCHANGED <<count, table, listening>>,
           \A i, a : InFlight(i, a)' = InFlight(i, a)
    PROVE  RefCountAccurate'
BY DEF RefCountAccurate, CountOf

(* With no failing port, robustTryListen returns a listener or nil. *)
LEMMA ListenSucceeds ==
    ASSUME NoLeaks, TypeOK, NEW i \in Instances, NEW a \in Addresses
    PROVE  RobustTryListen(i, a) # "error"
<1>1. port[i][a] \in PortStates
    BY DEF TypeOK
<1>2. PortStates \subseteq {"free", "other"}
    BY ChallengeSolversAssumption DEF NoLeaks
<1>3. port[i][a] \in {"free", "other"}
    BY <1>1, <1>2
<1>4. QED
    BY <1>3 DEF RobustTryListen

LEMMA PresentRef ==
    ASSUME NoLeaks, SInv, RefCountAccurate, NEW c \in Challenges,
           phase[c] \in {"stored", "cached"}, SolverPresent(c)
    PROVE  RefCountAccurate'
<1> DEFINE ci == InstanceOf[c]  ca == AddressOf[c]
<1>1. ci \in Instances /\ ca \in Addresses
    BY ChallengeSolversAssumption
<1>2. RobustTryListen(ci, ca) # "error"
    BY <1>1, ListenSucceeds DEF SInv
<1>3. /\ phase' = [phase EXCEPT ![c] = "presented"]
      /\ count' = [count EXCEPT ![ci][ca] = CountOf(ci, ca) + 1]
      /\ table' = [table EXCEPT ![ci] = @ \cup {ca}]
      /\ \/ listening' = listening
         \/ listening' = [listening EXCEPT ![ci] = @ \cup {ca}]
    BY <1>2 DEF SolverPresent
<1>4. /\ InFlight(ci, ca)' = InFlight(ci, ca) \cup {c}
      /\ c \notin InFlight(ci, ca)
    BY <1>3, InFlightStep DEF SInv, Flight, InFlight
<1>5. /\ Cardinality(InFlight(ci, ca)') = Cardinality(InFlight(ci, ca)) + 1
      /\ CountOf(ci, ca)' = CountOf(ci, ca) + 1
    BY <1>3, <1>4, InFlightFinite, CardAdd, CountPresent DEF SInv
<1>6. ASSUME NEW i \in Instances, NEW a \in Addresses PROVE RefAt(i, a)'
  <2>1. RefAt(i, a)
    BY DEF RefCountAccurate, RefAt
  <2>2. CASE i = ci /\ a = ca
    <3>1. a \in table'[i] /\ InFlight(i, a)' # {}
      BY <1>1, <1>3, <1>4, <2>2 DEF SInv, TypeOK
    <3>2. QED
      BY <1>5, <2>1, <2>2, <3>1 DEF RefAt
  <2>3. CASE ~(i = ci /\ a = ca)
    <3>1. InFlight(i, a)' = InFlight(i, a)
      BY <1>3, <2>3 DEF InFlight, SInv, TypeOK
    <3>2. /\ CountOf(i, a)' = CountOf(i, a)
          /\ a \in table'[i] <=> a \in table[i]
      BY <1>1, <1>3, <2>3 DEF SInv, TypeOK, CountOf
    <3>3. a \in listening'[i] => a \in listening[i]
      BY <1>1, <1>3, <2>3 DEF SInv, TypeOK
    <3>4. QED
      BY <2>1, <3>1, <3>2, <3>3 DEF RefAt
  <2>4. QED
    BY <2>2, <2>3
<1>7. QED
    BY <1>6 DEF RefCountAccurate, RefAt

LEMMA CleanUpRef ==
    ASSUME SInv, RefCountAccurate, NEW c \in Challenges,
           phase[c] \in {"deleted", "uncached"}, SolverCleanUp(c)
    PROVE  RefCountAccurate'
<1> DEFINE ci == InstanceOf[c]  ca == AddressOf[c]  n == CountOf(ci, ca) - 1
<1>1. ci \in Instances /\ ca \in Addresses
    BY ChallengeSolversAssumption
<1>2. /\ phase' = [phase EXCEPT ![c] = "done"]
      /\ c \in InFlight(ci, ca)
    BY DEF SolverCleanUp, InFlight
<1>3. /\ InFlight(ci, ca)' = InFlight(ci, ca) \ {c}
      /\ Cardinality(InFlight(ci, ca)') = Cardinality(InFlight(ci, ca)) - 1
      /\ Cardinality(InFlight(ci, ca)) >= 1
      /\ IsFiniteSet(InFlight(ci, ca)')
  <2>1. InFlight(ci, ca)' = InFlight(ci, ca) \ {c}
    BY <1>2 DEF InFlight, SInv, TypeOK
  <2>2. IsFiniteSet(InFlight(ci, ca))
    BY InFlightFinite
  <2>3. QED
    BY <1>2, <2>1, <2>2, CardRemove
<1>4. /\ CountOf(ci, ca)' = n
      /\ n = Cardinality(InFlight(ci, ca)')
    BY <1>1, <1>2, <1>3, CountCleanUp DEF SInv, RefCountAccurate
<1>5. /\ count' \in [Instances -> [Addresses -> Nat]]
      /\ table' \in [Instances -> SUBSET Addresses]
      /\ listening' \in [Instances -> SUBSET Addresses]
    BY <1>2, CountCleanUp DEF SInv
<1>6. ASSUME NEW i \in Instances, NEW a \in Addresses PROVE RefAt(i, a)'
  <2>1. RefAt(i, a)
    BY DEF RefCountAccurate, RefAt
  <2>2. CASE i = ci /\ a = ca /\ n = 0
    <3>1. /\ table' = [table EXCEPT ![ci] = @ \ {ca}]
          /\ listening' = [listening EXCEPT ![ci] = @ \ {ca}]
      BY <2>2 DEF SolverCleanUp
    <3>2. InFlight(i, a)' = {}
      BY <1>3, <1>4, <2>2, FS_EmptySet
    <3>3. a \notin table'[i] /\ a \notin listening'[i]
      BY <1>1, <2>2, <3>1 DEF SInv, TypeOK
    <3>4. QED
      BY <1>4, <2>2, <3>2, <3>3 DEF RefAt
  <2>3. CASE i = ci /\ a = ca /\ n # 0
    <3>1. /\ table' = [table EXCEPT ![ci] = @ \cup {ca}]
          /\ listening' = listening
      BY <2>3 DEF SolverCleanUp
    <3>2. InFlight(i, a)' # {}
      BY <1>3, <1>4, <2>3, FS_EmptySet
    <3>3. a \in table'[i]
      BY <1>1, <2>3, <3>1 DEF SInv, TypeOK
    <3>4. QED
      BY <1>4, <2>3, <3>2, <3>3 DEF RefAt
  <2>4. CASE ~(i = ci /\ a = ca)
    <3>1. InFlight(i, a)' = InFlight(i, a)
      BY <1>2, <2>4 DEF InFlight, SInv, TypeOK
    <3>2. CountOf(i, a)' = CountOf(i, a)
      BY <1>2, <2>4, CountCleanUp DEF SInv
    <3>3. /\ a \in table'[i] <=> a \in table[i]
          /\ a \in listening'[i] <=> a \in listening[i]
      BY <1>1, <2>4 DEF SolverCleanUp, SInv, TypeOK
    <3>4. QED
      BY <2>1, <3>1, <3>2, <3>3 DEF RefAt
  <2>5. QED
    BY <2>2, <2>3, <2>4
<1>7. QED
    BY <1>6 DEF RefCountAccurate, RefAt

(* A step of one challenge that keeps it in or out of flight and leaves  *)
(* the solver tables alone keeps the counts exact.                         *)
LEMMA RefPhaseFrame ==
    ASSUME RefCountAccurate, TypeOK, NEW c \in Challenges, NEW p,
           phase' = [phase EXCEPT ![c] = p],
           phase[c] \in Flight <=> p \in Flight,
           UNCHANGED <<count, table, listening>>
    PROVE  RefCountAccurate'
BY InFlightSame, RefFrame

(* The inductive invariant of the exact counts. *)
RInv == SInv /\ RefCountAccurate

LEMMA NextRInv ==
    ASSUME NoLeaks
    PROVE  RInv /\ [Next]_vars => RInv'
<1> SUFFICES ASSUME RInv, [Next]_vars PROVE RInv'
    OBVIOUS
<1>1. SInv'
    BY NextSInv DEF RInv
<1>2. TypeOK
    BY DEF RInv, SInv
<1>3. ASSUME NEW c \in Challenges,
             \/ LockName(c) \/ StoreToken(c) \/ CacheALPNCert(c)
             \/ PresentHTTP(c) \/ PresentALPN(c) \/ Validate(c)
             \/ DeleteToken(c) \/ UncacheALPNCert(c)
             \/ CleanUpHTTP(c) \/ CleanUpALPN(c)
      PROVE  RefCountAccurate'
  <2>1. CASE LockName(c)
    BY <1>2, <2>1, RefPhaseFrame DEF RInv, LockName, Flight
  <2>2. CASE StoreToken(c)
    <3>1. \E p \in {"stored", "done"} : phase' = [phase EXCEPT ![c] = p]
      BY <2>2 DEF StoreToken
    <3>2. QED
      BY <1>2, <2>2, <3>1, RefPhaseFrame DEF RInv, StoreToken, Flight
  <2>3. CASE CacheALPNCert(c)
    <3>1. \E p \in {"cached", "done"} : phase' = [phase EXCEPT ![c] = p]
      BY <2>3 DEF CacheALPNCert
    <3>2. QED
      BY <1>2, <2>3, <3>1, RefPhaseFrame DEF RInv, CacheALPNCert, Flight
  <2>4. CASE PresentHTTP(c)
    BY <2>4, PresentRef DEF RInv, PresentHTTP
  <2>5. CASE PresentALPN(c)
    BY <2>5, PresentRef DEF RInv, PresentALPN
  <2>6. CASE Validate(c)
    BY <1>2, <2>6, RefPhaseFrame DEF RInv, Validate, Flight
  <2>7. CASE DeleteToken(c)
    <3>1. tokens[DomainOf[c]] = c /\ c # NoChallenge
      BY <2>7, ChallengeSolversAssumption
         DEF DeleteToken, RInv, SInv, TokenHeld, TokPhases
    <3>2. phase' = [phase EXCEPT ![c] = "deleted"]
      BY <2>7, <3>1 DEF DeleteToken, NoLeaks
    <3>3. QED
      BY <1>2, <2>7, <3>2, RefPhaseFrame DEF RInv, DeleteToken, Flight
  <2>8. CASE UncacheALPNCert(c)
    BY <1>2, <2>8, RefPhaseFrame DEF RInv, UncacheALPNCert, Flight
  <2>9. CASE CleanUpHTTP(c)
    BY <2>9, CleanUpRef DEF RInv, CleanUpHTTP
  <2>10. CASE CleanUpALPN(c)
    BY <2>10, CleanUpRef DEF RInv, CleanUpALPN
  <2>11. QED
    BY <1>3, <2>1, <2>2, <2>3, <2>4, <2>5, <2>6, <2>7, <2>8, <2>9, <2>10
<1>4. ASSUME NEW i \in Instances, NEW a \in Addresses, PortChange(i, a)
      PROVE  RefCountAccurate'
  <2>1. \A j, b : InFlight(j, b)' = InFlight(j, b)
    BY <1>4 DEF PortChange, InFlight
  <2>2. QED
    BY <1>4, <2>1, RefFrame DEF PortChange, RInv
<1>5. ASSUME UNCHANGED vars PROVE RefCountAccurate'
  <2>1. \A j, b : InFlight(j, b)' = InFlight(j, b)
    BY <1>5 DEF vars, InFlight
  <2>2. UNCHANGED <<count, table, listening>>
    BY <1>5 DEF vars
  <2>3. QED
    BY <2>1, <2>2, RefFrame DEF RInv
<1>6. QED
    BY <1>1, <1>3, <1>4, <1>5 DEF Next, RInv

LEMMA InitRInv == Init => RInv
<1> SUFFICES ASSUME Init PROVE RInv
    OBVIOUS
<1>1. ASSUME NEW i \in Instances, NEW a \in Addresses PROVE RefAt(i, a)
  <2>1. InFlight(i, a) = {}
    BY DEF Init, InFlight
  <2>2. QED
    BY <2>1, FS_EmptySet DEF Init, RefAt, CountOf
<1>2. QED
    BY <1>1, InitSInv DEF RInv, RefCountAccurate, RefAt

(* For every cluster in which Storage.Delete does not fail and nothing at *)
(* a challenge port makes both listen and dial fail: on every instance     *)
(* and address, the solver table entry exists exactly while challenges    *)
(* are in flight there, its count (solvers.go 40-44, 76-86) is their       *)
(* number, and our listener exists only under an entry.  The violation     *)
(* runs solvers_listen_fault_leak and solvers_delete_fault_leak show that  *)
(* neither hypothesis can be dropped.                                       *)
THEOREM RefCountAccurateHolds ==
    ASSUME NoLeaks
    PROVE  Spec => []RefCountAccurate
<1>1. Init => RInv
    BY InitRInv
<1>2. RInv /\ [Next]_vars => RInv'
    BY NextRInv
<1>3. RInv => RefCountAccurate
    BY DEF RInv
<1>4. QED
    BY <1>1, <1>2, <1>3, PTL DEF Spec

(* Under the same hypotheses: once no challenge is in flight at an        *)
(* address, the last CleanUp has deleted its solver table entry and       *)
(* closed our listener, releasing the port (spec 8.4).                     *)
THEOREM ListenerReleasedHolds ==
    ASSUME NoLeaks
    PROVE  Spec => []ListenerReleased
<1>1. RefCountAccurate => ListenerReleased
    BY DEF RefCountAccurate, ListenerReleased
<1>2. QED
    BY <1>1, RefCountAccurateHolds, PTL

=============================================================================
