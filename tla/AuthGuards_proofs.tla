-------------------------- MODULE AuthGuards_proofs --------------------------
(***************************************************************************)
(* Proofs about the guards of MCAuthGuards, for every value of their       *)
(* constants: the circuit breaker, the mailed code, the step-up proof, the *)
(* TOTP step and the attempt limits.  Each part is about the specification *)
(* of one guard; the proof and the TOTP step need the store to answer in   *)
(* the second of the clock reading.                                        *)
(***************************************************************************)
EXTENDS MCAuthGuards, Sequences, FiniteSetTheorems, WellFoundedInduction, TLAPS

(***************************************************************************)
(* The breaker, for every set of hosts, every validated configuration and  *)
(* every delay between reading the clock and locking.                      *)
(***************************************************************************)
LEMMA TrackedFinite ==
    ASSUME TypeOK
    PROVE  IsFiniteSet(Tracked)
BY ConfigAssumption, FS_Subset DEF TypeOK

LEMMA ElapsedBounds ==
    ASSUME TypeOK, NEW h \in Tracked, NEW lag \in Lag
    PROVE  Elapsed(h, lag) \in Nat /\ Elapsed(h, lag) <= states[h].age
BY ConfigAssumption DEF TypeOK, Entry, Lag, Elapsed, Oldest

(* An entry as TypeOK wants it. *)
Good(e) ==
    /\ e \in Entry
    /\ e.phase = "closed" => e.count \in 1 .. FailureThreshold - 1
    /\ e.phase = "half" => e.count < SuccessThreshold

LEMMA TypeOKGood ==
    TypeOK <=> Tracked \subseteq Host /\ \A h \in Tracked : Good(states[h])
BY DEF TypeOK, Good

LEMMA PutGood ==
    ASSUME NEW map, NEW h \in Host, NEW phase \in Phase, NEW count \in Nat, NEW lag \in Lag,
           DOMAIN map \subseteq Host, \A k \in DOMAIN map : Good(map[k]),
           phase = "closed" => count \in 1 .. FailureThreshold - 1,
           phase = "half" => count < SuccessThreshold,
           states' = Put(map, h, phase, count, lag)
    PROVE  TypeOK' /\ Tracked' = DOMAIN map \cup {h}
<1> DEFINE e == [phase |-> phase, count |-> count, age |-> lag]
<1>1. Good(e)
    BY ConfigAssumption DEF Good, Entry, Lag, Oldest
<1>2. Tracked' = DOMAIN map \cup {h}
    BY DEF Tracked, Put
<1>3. \A k \in Tracked' : states'[k] = IF k = h THEN e ELSE map[k]
    BY <1>2 DEF Put
<1>4. \A k \in Tracked' : Good(states'[k])
    BY <1>1, <1>2, <1>3
<1>5. QED
    BY <1>2, <1>4 DEF TypeOK, Good

LEMMA CountFailureGood ==
    ASSUME NEW map, NEW h \in Host, NEW failures \in Nat \ {0}, NEW lag \in Lag,
           DOMAIN map \subseteq Host, \A k \in DOMAIN map : Good(map[k]),
           states' = CountFailure(map, h, failures, lag)
    PROVE  TypeOK' /\ Tracked' = DOMAIN map \cup {h}
<1>1. CASE failures >= FailureThreshold
    <2>1. states' = Put(map, h, "open", 0, lag)
        BY <1>1 DEF CountFailure
    <2>2. "open" \in Phase /\ 0 \in Nat
        BY DEF Phase
    <2>3. QED
        BY <2>1, <2>2, PutGood
<1>2. CASE ~(failures >= FailureThreshold)
    <2>1. states' = Put(map, h, "closed", failures, lag)
        BY <1>2 DEF CountFailure
    <2>2. "closed" \in Phase /\ failures \in 1 .. FailureThreshold - 1
        BY <1>2, ConfigAssumption DEF Phase
    <2>3. QED
        BY <2>1, <2>2, PutGood
<1>3. QED
    BY <1>1, <1>2

LEMMA RestrictGood ==
    ASSUME TypeOK, NEW S \in SUBSET Tracked
    PROVE  /\ DOMAIN Restrict(states, S) = S
           /\ S \subseteq Host
           /\ \A k \in S : Restrict(states, S)[k] = states[k] /\ Good(states[k])
BY TypeOKGood DEF Restrict, TypeOK

LEMMA SurvivorsFit ==
    ASSUME TypeOK, NEW lag \in Lag, NEW S \in Survivors(lag)
    PROVE  S \in SUBSET Tracked /\ IsFiniteSet(S) /\ Cardinality(S) < MaxHosts
<1>1. Fresh(lag) \subseteq Tracked
    BY DEF Fresh
<1>2. S \subseteq Tracked
    BY <1>1 DEF Survivors
<1>3. IsFiniteSet(S) /\ Cardinality(S) \in Nat
    BY <1>2, TrackedFinite, FS_Subset, FS_CardinalityType
<1>4. QED
    BY <1>2, <1>3, ConfigAssumption DEF Survivors

(* The part of the invariant that bounds the map. *)
IInv == TypeOK /\ Bounded

LEMMA RemoveStep ==
    ASSUME IInv, NEW h, states' = Remove(states, h)
    PROVE  IInv' /\ Tracked' = Tracked \ {h}
<1>1. Tracked' = Tracked \ {h} /\ \A k \in Tracked' : states'[k] = states[k]
    BY DEF Remove, Restrict, Tracked
<1>2. TypeOK'
    BY <1>1 DEF IInv, TypeOK
<1>3. Bounded'
    <2>1. Tracked' \in SUBSET Tracked
        BY <1>1
    <2>2. Cardinality(Tracked') <= Cardinality(Tracked)
        BY <2>1, TrackedFinite, FS_Subset DEF IInv
    <2>3. Cardinality(Tracked') \in Nat /\ Cardinality(Tracked) \in Nat
        BY <2>1, TrackedFinite, FS_Subset, FS_CardinalityType DEF IInv
    <2>4. QED
        BY <2>2, <2>3, ConfigAssumption DEF IInv, Bounded
<1>4. QED
    BY <1>1, <1>2, <1>3 DEF IInv

LEMMA InPlaceStep ==
    ASSUME IInv, NEW h \in Tracked, TypeOK', Tracked' = DOMAIN states \cup {h}
    PROVE  IInv'
<1>1. Tracked' = Tracked
    BY DEF Tracked
<1>2. QED
    BY <1>1 DEF IInv, Bounded

LEMMA AllowStep ==
    ASSUME IInv, NEW h \in Host, NEW lag \in Lag, Allow(h, lag)
    PROVE  IInv'
<1>1. CASE Is(h, "open")
    <2>1. states' = Put(states, h, "half", 0, lag) /\ h \in Tracked
        BY <1>1 DEF Allow, Is
    <2>2. "half" \in Phase /\ 0 < SuccessThreshold
        BY ConfigAssumption DEF Phase
    <2>3. TypeOK' /\ Tracked' = DOMAIN states \cup {h}
        BY <2>1, <2>2, PutGood, TypeOKGood DEF IInv, Tracked
    <2>4. QED
        BY <2>1, <2>3, InPlaceStep
<1>2. CASE ~Is(h, "open")
    BY <1>2 DEF Allow, IInv, TypeOK, Bounded, Tracked, Entry
<1>3. QED
    BY <1>1, <1>2

LEMMA OnSuccessStep ==
    ASSUME IInv, NEW h \in Host, NEW lag \in Lag, OnSuccess(h, lag)
    PROVE  IInv'
<1>1. CASE states' = Remove(states, h)
    BY <1>1, RemoveStep
<1>2. CASE /\ Is(h, "half")
           /\ ~(states[h].count + 1 >= SuccessThreshold)
           /\ states' = Put(states, h, "half", states[h].count + 1, lag)
    <2>1. h \in Tracked /\ states[h].count \in Nat
        BY <1>2 DEF Is, IInv, TypeOK, Entry
    <2>2. "half" \in Phase /\ states[h].count + 1 < SuccessThreshold
        BY <1>2, <2>1, ConfigAssumption DEF Phase
    <2>3. DOMAIN states \subseteq Host /\ \A k \in DOMAIN states : Good(states[k])
        BY TypeOKGood DEF IInv, Tracked
    <2>4. TypeOK' /\ Tracked' = DOMAIN states \cup {h}
        BY <1>2, <2>1, <2>2, <2>3, PutGood
    <2>5. QED
        BY <2>1, <2>4, InPlaceStep
<1>3. CASE UNCHANGED states
    BY <1>3 DEF IInv, TypeOK, Bounded, Tracked, Entry
<1>4. QED
    BY <1>1, <1>2, <1>3 DEF OnSuccess

LEMMA OnFailureStep ==
    ASSUME IInv, NEW h \in Host, NEW lag \in Lag, OnFailure(h, lag)
    PROVE  IInv'
<1>1. ASSUME h \notin Tracked, NEW S \in Survivors(lag),
             states' = CountFailure(Restrict(states, S), h, 1, lag)
      PROVE  IInv'
    <2>1. S \in SUBSET Tracked /\ IsFiniteSet(S) /\ Cardinality(S) < MaxHosts
        BY SurvivorsFit DEF IInv
    <2>2. TypeOK' /\ Tracked' = S \cup {h}
        <3>1. DOMAIN Restrict(states, S) \subseteq Host
            BY <2>1, RestrictGood DEF IInv
        <3>2. \A k \in DOMAIN Restrict(states, S) : Good(Restrict(states, S)[k])
            BY <2>1, RestrictGood DEF IInv
        <3>3. DOMAIN Restrict(states, S) = S
            BY <2>1, RestrictGood DEF IInv
        <3>4. QED
            BY <1>1, <3>1, <3>2, <3>3, CountFailureGood
    <2>3. Cardinality(S \cup {h}) <= MaxHosts
        <3>1. Cardinality(S \cup {h}) = IF h \in S THEN Cardinality(S) ELSE Cardinality(S) + 1
            BY <2>1, FS_AddElement
        <3>2. Cardinality(S) \in Nat
            BY <2>1, FS_CardinalityType
        <3>3. QED
            BY <2>1, <3>1, <3>2, ConfigAssumption
    <2>4. QED
        BY <2>2, <2>3 DEF IInv, Bounded
<1>2. CASE Is(h, "closed") /\ states' = CountFailure(states, h, states[h].count + 1, lag)
    <2>1. h \in Tracked /\ states[h].count + 1 \in Nat \ {0}
        BY <1>2 DEF Is, IInv, TypeOK, Entry
    <2>2. TypeOK' /\ Tracked' = DOMAIN states \cup {h}
        BY <1>2, <2>1, CountFailureGood, TypeOKGood DEF IInv, Tracked
    <2>3. QED
        BY <2>1, <2>2, InPlaceStep
<1>3. CASE (Is(h, "half") \/ Is(h, "open")) /\ states' = Put(states, h, "open", 0, lag)
    <2>1. h \in Tracked /\ "open" \in Phase
        BY <1>3 DEF Is, Phase
    <2>2. TypeOK' /\ Tracked' = DOMAIN states \cup {h}
        BY <1>3, <2>1, PutGood, TypeOKGood DEF IInv, Tracked
    <2>3. QED
        BY <2>1, <2>2, InPlaceStep
<1>4. QED
    BY <1>1, <1>2, <1>3 DEF OnFailure

LEMMA TickStep ==
    ASSUME IInv, Tick
    PROVE  IInv'
<1>1. Tracked' = Tracked
    BY DEF Tick, Tracked
<1>2. \A h \in Tracked :
        states'[h] = [states[h] EXCEPT !.age = IF @ < Oldest THEN @ + 1 ELSE @]
    BY DEF Tick, Tracked
<1>3. ASSUME NEW h \in Tracked
      PROVE  Good(states'[h])
    <2>1. Good(states[h]) /\ Oldest \in Nat
        BY TypeOKGood, ConfigAssumption DEF IInv, Oldest
    <2>2. states[h].age \in 0 .. Oldest /\ states[h].phase \in Phase /\ states[h].count \in Nat
        BY <2>1 DEF Good, Entry
    <2>3. \E a \in 0 .. Oldest : states'[h] = [states[h] EXCEPT !.age = a]
        <3> DEFINE a == IF states[h].age < Oldest THEN states[h].age + 1 ELSE states[h].age
        <3>1. a \in 0 .. Oldest
            BY <2>1, <2>2
        <3>2. states'[h] = [states[h] EXCEPT !.age = a]
            BY <1>2
        <3>3. QED
            BY <3>1, <3>2
    <2>4. QED
        BY <2>1, <2>3 DEF Good, Entry
<1>4. TypeOK'
    BY <1>1, <1>3 DEF IInv, TypeOK, Good
<1>5. QED
    BY <1>1, <1>4 DEF IInv, Bounded

(* Phases and counters are well formed and the map holds at most MaxHosts  *)
(* hosts: the inductive invariant of CircuitBreaker.                       *)
THEOREM BreakerInvariant == Spec => []IInv
<1>1. Init => IInv
    <2> SUFFICES ASSUME Init PROVE IInv
        OBVIOUS
    <2>1. Tracked = {}
        BY DEF Init, Tracked
    <2>2. QED
        BY <2>1, FS_EmptySet, ConfigAssumption DEF IInv, TypeOK, Bounded
<1>2. IInv /\ [Next]_states => IInv'
    <2> SUFFICES ASSUME IInv, [Next]_states PROVE IInv'
        OBVIOUS
    <2>1. CASE UNCHANGED states
        BY <2>1 DEF IInv, TypeOK, Bounded, Tracked, Entry
    <2>2. CASE Tick
        BY <2>2, TickStep
    <2>3. ASSUME NEW h \in Host, NEW lag \in Lag, Allow(h, lag) PROVE IInv'
        BY <2>3, AllowStep
    <2>4. ASSUME NEW h \in Host, NEW lag \in Lag, Reject(h, lag) PROVE IInv'
        BY <2>1, <2>4 DEF Reject
    <2>5. ASSUME NEW h \in Host, NEW lag \in Lag, OnSuccess(h, lag) PROVE IInv'
        BY <2>5, OnSuccessStep
    <2>6. ASSUME NEW h \in Host, NEW lag \in Lag, OnFailure(h, lag) PROVE IInv'
        BY <2>6, OnFailureStep
    <2>7. QED
        BY <2>1, <2>2, <2>3, <2>4, <2>5, <2>6 DEF Next
<1>3. QED
    BY <1>1, <1>2, PTL DEF Spec

(* The map never outgrows max_tracked_hosts: on_failure_at makes room for  *)
(* the one host it adds and for no more.                                   *)
THEOREM MapIsBounded == Spec => []Bounded
<1>1. IInv => Bounded
    BY DEF IInv
<1>2. QED
    BY <1>1, BreakerInvariant, PTL

-----------------------------------------------------------------------------
(* Who is evicted: the argument behind NoEarlyForget. *)
LEMMA EvictionSparesOpen ==
    ASSUME IInv, NEW lag \in Lag, NEW S \in Survivors(lag), NEW h \in Tracked,
           states[h].phase = "open", states[h].age < Cooldown, h \notin S
    PROVE  /\ Cardinality(Tracked) >= MaxHosts
           /\ \A k \in Tracked : states[k].phase = "open"
<1>1. h \in Fresh(lag)
    <2>1. Elapsed(h, lag) \in Nat /\ Elapsed(h, lag) <= states[h].age
        BY ElapsedBounds DEF IInv
    <2>2. states[h].age \in Nat
        BY ConfigAssumption DEF IInv, TypeOK, Entry, Oldest
    <2>3. QED
        BY <2>1, <2>2, ConfigAssumption DEF Fresh
<1>2. Fresh(lag) \in SUBSET Tracked /\ IsFiniteSet(Tracked)
    BY TrackedFinite DEF Fresh, IInv
<1>3. IsFiniteSet(Fresh(lag)) /\ Cardinality(Fresh(lag)) <= Cardinality(Tracked)
    BY <1>2, FS_Subset
<1>4. Cardinality(Fresh(lag)) \in Nat /\ Cardinality(Tracked) \in Nat /\ MaxHosts \in Nat
    BY <1>2, <1>3, FS_CardinalityType, ConfigAssumption
<1>5. ~(Cardinality(Fresh(lag)) < MaxHosts)
    BY <1>1 DEF Survivors
<1>6. /\ S \in SUBSET Fresh(lag)
      /\ Cardinality(S) = MaxHosts - 1
      /\ \A v \in Fresh(lag) \ S, k \in S : EvictedBefore(v, k)
    BY <1>5 DEF Survivors
<1>7. Cardinality(Fresh(lag)) = MaxHosts /\ Cardinality(Tracked) = MaxHosts
    BY <1>3, <1>4, <1>5 DEF IInv, Bounded
<1>8. Fresh(lag) = Tracked
    BY <1>2, <1>7, FS_Subset
<1>9. Tracked = S \cup {h}
    <2>1. IsFiniteSet(S) /\ IsFiniteSet(S \cup {h})
        BY <1>3, <1>6, FS_Subset, FS_AddElement
    <2>2. Cardinality(S \cup {h}) = Cardinality(S) + 1
        BY <2>1, FS_AddElement
    <2>3. Cardinality(S \cup {h}) = Cardinality(Tracked)
        BY <1>4, <1>6, <1>7, <2>2
    <2>4. S \cup {h} \in SUBSET Tracked
        BY <1>6, <1>8
    <2>5. QED
        BY <1>2, <2>3, <2>4, FS_Subset
<1>10. \A k \in S : EvictedBefore(h, k)
    BY <1>1, <1>6
<1>11. QED
    BY <1>4, <1>7, <1>9, <1>10 DEF EvictedBefore

LEMMA NoEarlyForgetStep ==
    ASSUME IInv, [Next]_states, NEW h \in Tracked,
           states[h].phase = "open", states[h].age < Cooldown, h \notin Tracked'
    PROVE  /\ Cardinality(Tracked) >= MaxHosts
           /\ \A k \in Tracked : states[k].phase = "open"
<1>1. CASE UNCHANGED states \/ Tick
    BY <1>1 DEF Tick, Tracked
<1>2. ASSUME NEW g \in Host, NEW lag \in Lag, Allow(g, lag) \/ Reject(g, lag)
      PROVE  FALSE
    BY <1>2 DEF Allow, Reject, Put, Tracked
<1>3. ASSUME NEW g \in Host, NEW lag \in Lag, OnSuccess(g, lag)
      PROVE  FALSE
    <2>1. CASE UNCHANGED states
        BY <2>1 DEF Tracked
    <2>2. CASE states' = Remove(states, g) /\ (Is(g, "closed") \/ Is(g, "half"))
        <3>1. Tracked' = Tracked \ {g}
            BY <2>2, RemoveStep
        <3>2. g # h
            BY <2>2 DEF Is
        <3>3. QED
            BY <3>1, <3>2
    <2>3. CASE states' = Put(states, g, "half", states[g].count + 1, lag)
        BY <2>3 DEF Put, Tracked
    <2>4. QED
        BY <1>3, <2>1, <2>2, <2>3 DEF OnSuccess
<1>4. ASSUME NEW g \in Host, NEW lag \in Lag, OnFailure(g, lag)
      PROVE  /\ Cardinality(Tracked) >= MaxHosts
             /\ \A k \in Tracked : states[k].phase = "open"
    <2>1. ASSUME NEW S \in Survivors(lag),
                 states' = CountFailure(Restrict(states, S), g, 1, lag)
          PROVE  h \notin S
        BY <2>1 DEF CountFailure, Put, Restrict, Tracked
    <2>2. CASE \E e \in Nat : states' = CountFailure(states, g, e, lag)
        BY <2>2 DEF CountFailure, Put, Tracked
    <2>3. CASE states' = Put(states, g, "open", 0, lag)
        BY <2>3 DEF Put, Tracked
    <2>4. CASE Is(g, "closed") /\ states' = CountFailure(states, g, states[g].count + 1, lag)
        <3>1. states[g].count + 1 \in Nat
            BY <2>4 DEF Is, IInv, TypeOK, Entry
        <3>2. QED
            BY <2>2, <2>4, <3>1
    <2>5. QED
        BY <1>4, <2>1, <2>3, <2>4, EvictionSparesOpen DEF OnFailure
<1>5. QED
    BY <1>1, <1>2, <1>3, <1>4 DEF Next

(* An open host is not forgotten within its cooldown unless the map is     *)
(* full of open hosts (make_room, (a) and (b)).                            *)
THEOREM OpenHostsAreKept == Spec => NoEarlyForget
<1>1. IInv /\ [Next]_states =>
        [\A h \in Tracked :
            (states[h].phase = "open" /\ states[h].age < Cooldown /\ h \notin Tracked')
            => /\ Cardinality(Tracked) >= MaxHosts
               /\ \A k \in Tracked : states[k].phase = "open"]_states
    BY NoEarlyForgetStep
<1>2. QED
    BY <1>1, BreakerInvariant, PTL DEF Spec, NoEarlyForget

LEMMA ProbeBeforeCloseStep ==
    ASSUME IInv, [Next]_states, NEW h \in Tracked, h \in Tracked',
           states[h].phase = "open"
    PROVE  \/ states'[h].phase = "open"
           \/ states'[h].phase = "half" /\ states[h].age >= Cooldown
<1>1. CASE UNCHANGED states \/ Tick
    BY <1>1 DEF Tick, Tracked, IInv, TypeOK, Entry
<1>2. ASSUME NEW g \in Host, NEW lag \in Lag, Allow(g, lag) \/ Reject(g, lag)
      PROVE  \/ states'[h].phase = "open"
             \/ states'[h].phase = "half" /\ states[h].age >= Cooldown
    <2>1. CASE g # h \/ UNCHANGED states
        BY <1>2, <2>1 DEF Allow, Reject, Put, Tracked
    <2>2. CASE g = h /\ Allow(g, lag)
        <3>1. Elapsed(h, lag) \in Nat /\ Elapsed(h, lag) <= states[h].age
            BY ElapsedBounds DEF IInv
        <3>2. Elapsed(h, lag) >= Cooldown /\ states' = Put(states, h, "half", 0, lag)
            BY <2>2 DEF Allow, Admits, Cooled, Is
        <3>3. states[h].age \in Nat
            BY ConfigAssumption DEF IInv, TypeOK, Entry, Oldest
        <3>4. states'[h].phase = "half"
            BY <3>2 DEF Put
        <3>5. QED
            BY <3>1, <3>2, <3>3, <3>4, ConfigAssumption
    <2>3. QED
        BY <1>2, <2>1, <2>2 DEF Reject
<1>3. ASSUME NEW g \in Host, NEW lag \in Lag, OnSuccess(g, lag)
      PROVE  states'[h].phase = "open"
    <2>1. CASE UNCHANGED states
        BY <2>1
    <2>2. CASE g # h
        BY <1>3, <2>2 DEF OnSuccess, Remove, Put, Restrict, Tracked
    <2>3. CASE g = h
        BY <1>3, <2>1, <2>3 DEF OnSuccess, Is
    <2>4. QED
        BY <2>2, <2>3
<1>4. ASSUME NEW g \in Host, NEW lag \in Lag, OnFailure(g, lag)
      PROVE  states'[h].phase = "open"
    <2>1. CASE g = h
        BY <1>4, <2>1 DEF OnFailure, Is, Put
    <2>2. ASSUME NEW S \in Survivors(lag), g # h,
                 states' = CountFailure(Restrict(states, S), g, 1, lag)
          PROVE  states'[h] = states[h]
        BY <2>2 DEF CountFailure, Put, Restrict, Tracked
    <2>3. ASSUME NEW e, g # h,
                 \/ states' = CountFailure(states, g, e, lag)
                 \/ states' = Put(states, g, "open", 0, lag)
          PROVE  states'[h] = states[h]
        BY <2>3 DEF CountFailure, Put, Tracked
    <2>4. QED
        BY <1>4, <2>1, <2>2, <2>3 DEF OnFailure
<1>5. QED
    BY <1>1, <1>2, <1>3, <1>4 DEF Next

(* An open host admits nothing but a probe, and that after its cooldown:   *)
(* late successes of requests from before do not close it (allow_at,       *)
(* on_success, on_failure_at).                                             *)
THEOREM OpenHostsProbeFirst == Spec => ProbeBeforeClose
<1>1. IInv /\ [Next]_states =>
        [\A h \in Tracked \cap Tracked' : states[h].phase = "open"
            => states'[h].phase = "open"
               \/ (states'[h].phase = "half" /\ states[h].age >= Cooldown)]_states
    BY ProbeBeforeCloseStep
<1>2. QED
    BY <1>1, BreakerInvariant, PTL DEF Spec, ProbeBeforeClose

-----------------------------------------------------------------------------
(***************************************************************************)
(* RegistrationEmailVerification, for every number of requests and every   *)
(* validated configuration.  A stored code was the last one generated by   *)
(* somebody, nobody has used it yet, and it has neither outlived its TTL   *)
(* nor been worn out.                                                      *)
(***************************************************************************)
Books ==
    /\ made \in 0 .. MaxCodes
    /\ uses \in [Email!Issued -> Nat]
    /\ \A i \in Email!Issued : i > made => uses[i] = 0
    /\ wrongs \in Nat /\ age \in Nat
    /\ code \in [id : 0 .. made, wrong : Nat, left : Nat]
    /\ DOMAIN send = Request

Unspent ==
    code # Email!None =>
        /\ code.id # 0 /\ uses[code.id] = 0
        /\ code.wrong = wrongs /\ wrongs < MaxAttempts
        /\ code.left >= 1 /\ age + code.left = Ttl * Unit

EmailInv == Books /\ Unspent

LEMMA EmailConfig ==
    /\ Ttl \in Nat \ {0} /\ Unit \in Nat \ {0} /\ MaxAttempts \in Nat \ {0}
    /\ MaxCodes \in Nat /\ Ttl * Unit \in Nat \ {0}
<1>1. /\ Ttl \in Nat \ {0} /\ Unit \in Nat \ {0} /\ MaxAttempts \in Nat \ {0}
      /\ MaxCodes \in Nat
    BY GuardsAssumption DEF Email!ConfigAssumption
<1>2. \A m, n \in Nat \ {0} : m * n \in Nat \ {0}
    OBVIOUS
<1>3. QED
    BY <1>1, <1>2

LEMMA EmailInitInv == Email!Init => EmailInv
BY EmailConfig DEF Email!Init, EmailInv, Books, Unspent, Email!None, Email!NoCode, Email!Issued

LEMMA StoreInv ==
    ASSUME EmailInv, NEW r \in Request, Email!Store(r)
    PROVE  EmailInv'
<1>1. DOMAIN send' = Request
    BY DEF EmailInv, Books, Email!Store, Email!Return
<1>2. made' = made + 1 /\ made' \in 0 .. MaxCodes /\ uses' = uses
    BY EmailConfig DEF Email!Store, EmailInv, Books
<1>3. \A i \in Email!Issued : i > made' => uses'[i] = 0
    BY <1>2, EmailConfig DEF EmailInv, Books, Email!Issued
<1>4. CASE Email!Stored(made + 1)
    <2>1. /\ code' = [id |-> made + 1, wrong |-> 0, left |-> Ttl * Unit]
          /\ age' = 0 /\ wrongs' = 0
        BY <1>4 DEF Email!Stored
    <2>2. uses'[made + 1] = 0
        BY <1>2, EmailConfig DEF EmailInv, Books, Email!Issued
    <2>3. QED
        BY <1>1, <1>2, <1>3, <2>1, <2>2, EmailConfig DEF EmailInv, Books, Unspent
<1>5. CASE UNCHANGED <<code, age, wrongs>>
    <2>1. Books'
        BY <1>1, <1>2, <1>3, <1>5 DEF EmailInv, Books
    <2>2. Unspent'
        BY <1>2, <1>5 DEF EmailInv, Unspent, Email!None, Email!NoCode
    <2>3. QED
        BY <2>1, <2>2 DEF EmailInv
<1>6. QED
    BY <1>4, <1>5 DEF Email!Store

LEMMA GuessInv ==
    ASSUME EmailInv, Email!Guess
    PROVE  EmailInv'
<1>1. Books'
    BY EmailConfig DEF EmailInv, Books, Unspent, Email!Guess, Email!Guessed, Email!None, Email!NoCode
<1>2. Unspent'
    BY EmailConfig DEF EmailInv, Books, Unspent, Email!Guess, Email!Guessed, Email!None, Email!NoCode
<1>3. QED
    BY <1>1, <1>2 DEF EmailInv

LEMMA ConsumeInv ==
    ASSUME EmailInv, NEW i \in Email!Issued, Email!Consume(i)
    PROVE  EmailInv' /\ Email!Consumption!Use(i)
<1>1. uses[i] = 0 /\ i <= made
    BY DEF EmailInv, Books, Unspent, Email!Consume
<1>2. uses' = [uses EXCEPT ![i] = 1]
    BY <1>1 DEF Email!Consume
<1>3. /\ code' = Email!None /\ made' = made /\ send' = send
      /\ wrongs' = wrongs /\ age' = age
    BY DEF Email!Consume, Email!ConsumedCode
<1>4. Books'
    BY <1>1, <1>3, <1>2, EmailConfig DEF EmailInv, Books, Email!None, Email!NoCode, Email!Issued
<1>5. Email!Consumption!Use(i)
    BY <1>1, <1>2 DEF EmailInv, Books, Email!Consumption!Use, Email!Over, Email!Issued
<1>6. QED
    BY <1>1, <1>3, <1>4, <1>5 DEF EmailInv, Unspent

LEMMA EmailTickInv ==
    ASSUME EmailInv, Email!Tick
    PROVE  EmailInv'
<1>1. Books'
    BY EmailConfig DEF EmailInv, Books, Unspent, Email!Tick, Email!None, Email!NoCode
<1>2. Unspent'
    BY EmailConfig DEF EmailInv, Books, Unspent, Email!Tick, Email!None, Email!NoCode
<1>3. QED
    BY <1>1, <1>2 DEF EmailInv

(* Nothing else writes what the invariant reads, but for a code taken back. *)
LEMMA OtherStepsInv ==
    ASSUME EmailInv, made' = made, uses' = uses, wrongs' = wrongs, age' = age,
           DOMAIN send' = DOMAIN send,
           code' = code \/ code' = Email!None
    PROVE  EmailInv'
<1>1. Books'
    BY DEF EmailInv, Books, Email!None, Email!NoCode
<1>2. Unspent'
    BY DEF EmailInv, Unspent, Email!None, Email!NoCode
<1>3. QED
    BY <1>1, <1>2 DEF EmailInv

LEMMA EmailStep ==
    ASSUME EmailInv, [Email!Next]_(Email!vars)
    PROVE  EmailInv' /\ [Email!Consumption!Next]_<<uses, Email!Over>>
<1>0. Email!Over' = Email!Over
    BY DEF Email!Over, Email!Issued
<1>1. CASE Email!Tick
    BY <1>0, <1>1, EmailTickInv DEF Email!Tick
<1>2. CASE Email!Guess
    BY <1>0, <1>2, GuessInv DEF Email!Guess
<1>3. ASSUME NEW i \in Email!Issued, Email!Consume(i)
      PROVE  EmailInv' /\ [Email!Consumption!Next]_<<uses, Email!Over>>
    <2>1. Email!Consumption!LivesEnd
        BY <1>0 DEF Email!Over, Email!Consumption!LivesEnd
    <2>2. QED
        BY <1>3, <2>1, ConsumeInv DEF Email!Consumption!Next
<1>4. ASSUME NEW r \in Request, Email!Store(r)
      PROVE  EmailInv' /\ [Email!Consumption!Next]_<<uses, Email!Over>>
    BY <1>0, <1>4, StoreInv DEF Email!Store
<1>5. ASSUME NEW r \in Request,
             \/ Email!Limited(r) \/ \E deliver \in BOOLEAN : Email!Reserve(r, deliver)
             \/ Email!Deliver(r) \/ Email!Reclaim(r) \/ Email!Abort(r)
      PROVE  EmailInv' /\ [Email!Consumption!Next]_<<uses, Email!Over>>
    BY <1>0, <1>5, OtherStepsInv
    DEF Email!Limited, Email!Reserve, Email!Deliver, Email!Reclaim, Email!Abort,
        Email!Reclaimed, Email!history, Email!Goto, Email!Return
<1>6. CASE UNCHANGED Email!vars
    BY <1>0, <1>6, OtherStepsInv DEF Email!vars
<1>7. QED
    BY <1>0, <1>1, <1>2, <1>3, <1>4, <1>5, <1>6 DEF Email!Next

(* What is true of the mailed code, its guesses and its uses, always: the *)
(* scripts of RegistrationEmailVerification keep the books together.      *)
THEOREM EmailInvariant == Email!Spec => []EmailInv
<1>1. EmailInv /\ [Email!Next]_(Email!vars) => EmailInv'
    BY EmailStep
<1>2. QED
    BY <1>1, EmailInitInv, PTL DEF Email!Spec

(* A stored code has answered fewer wrong guesses than it may, and no      *)
(* guess prolongs its life (VERIFY_SCRIPT and CONSUME_SCRIPT).             *)
THEOREM GuessesWearCodesOut == Email!Spec => []GuessesAreCounted
<1>1. EmailInv => GuessesAreCounted
    BY EmailConfig DEF EmailInv, Books, Unspent, GuessesAreCounted, Email!GuessesAreCounted
<1>2. QED
    BY <1>1, EmailInvariant, PTL

LEMMA EmailInitOneShot == Email!Init => Email!Consumption!Init
BY DEF Email!Init, Email!Consumption!Init, Email!Over

(* What a request that returns from a failed delivery does to the code. *)
LEMMA ReclaimSpares ==
    ASSUME EmailInv, [Email!Next]_(Email!vars), NEW r \in Request,
           send[r].pc = "reclaim", send'[r] = Email!Idle
    PROVE  code' = code \/ code.id = send[r].id
<1>1. send'[r] # send[r] /\ DOMAIN send = Request
    BY DEF Email!Idle, EmailInv, Books
<1>2. ASSUME NEW q \in Request, Email!Store(q) PROVE FALSE
    <2>1. q # r /\ \E s : send' = [send EXCEPT ![q] = s]
        BY <1>2 DEF Email!Store, Email!Return
    <2>2. QED
        BY <1>1, <2>1
<1>3. ASSUME NEW q \in Request, Email!Reclaim(q)
      PROVE  code' = code \/ code.id = send[r].id
    BY <1>1, <1>3 DEF Email!Reclaim, Email!Reclaimed, Email!Return
<1>4. ASSUME NEW q \in Request,
             \/ Email!Limited(q) \/ \E deliver \in BOOLEAN : Email!Reserve(q, deliver)
             \/ Email!Deliver(q) \/ Email!Abort(q)
      PROVE  code' = code
    BY <1>4 DEF Email!Limited, Email!Reserve, Email!Deliver, Email!Abort
<1>5. ASSUME \/ Email!Tick \/ Email!Guess \/ UNCHANGED Email!vars
             \/ \E i \in Email!Issued : Email!Consume(i)
      PROVE  FALSE
    BY <1>1, <1>5 DEF Email!Tick, Email!Guess, Email!Consume, Email!vars
<1>6. QED
    BY <1>2, <1>3, <1>4, <1>5 DEF Email!Next

(* Every code is consumed at most once, as OneShot has it, and a failed    *)
(* delivery takes back no code but its own (CONSUME_SCRIPT and             *)
(* DELETE_IF_CURRENT_SCRIPT).                                              *)
THEOREM CodesAreOneShotHolds == Email!Spec => CodesAreOneShot
<1>1. EmailInv /\ [Email!Next]_(Email!vars) => [Email!Consumption!Next]_<<uses, Email!Over>>
    BY EmailStep
<1>2. Email!Spec => Email!ConsumedOnce
    BY <1>1, EmailInvariant, EmailInitOneShot, PTL
    DEF Email!Spec, Email!ConsumedOnce, Email!Consumption!Spec
<1>3. EmailInv /\ [Email!Next]_(Email!vars) =>
        [\A r \in Request : (send[r].pc = "reclaim" /\ send'[r] = Email!Idle)
            => code' = code \/ code.id = send[r].id]_(Email!vars)
    BY ReclaimSpares
<1>4. Email!Spec => Email!NewerCodeSurvives
    BY <1>3, EmailInvariant, PTL DEF Email!Spec, Email!NewerCodeSurvives
<1>5. QED
    BY <1>2, <1>4 DEF CodesAreOneShot

-----------------------------------------------------------------------------
(***************************************************************************)
(* StepUpProofStore, in memory and in Redis, however late a consumption    *)
(* reaches the store.  A request in flight holds an issued proof and a     *)
(* clock reading that is not in the future; a proof that has let a request *)
(* through is marked to its expiry, or that has come.                      *)
(***************************************************************************)
Issuance ==
    /\ now \in Nat
    /\ challenges \in Seq(Proofs!Token)
    /\ proofs \in Seq(Proofs!Token)
    /\ Len(proofs) <= MaxProofs
    /\ marks \in [Proofs!Proof -> Nat]
    /\ passes \in [Proofs!Proof -> 0 .. 2]
    /\ DOMAIN req = Request

InFlight ==
    \A r \in Request :
        /\ req[r].pc = "verifying" => req[r].on \in DOMAIN challenges
        /\ req[r].pc \in {"clock", "consume"} => req[r].on \in DOMAIN proofs
        /\ req[r].pc = "consume" => req[r].at \in Nat /\ req[r].at <= now

Remembered ==
    \A p \in Proofs!Proof : passes[p] # 0 =>
        p \in DOMAIN proofs /\ (now >= proofs[p].exp \/ marks[p] >= proofs[p].exp)

ProofInv == Issuance /\ InFlight /\ Remembered

OneUse == [Proofs!Use!Next]_<<passes, Proofs!Over>>

LEMMA ProofConfig == MaxProofs \in Nat /\ ProofTtl \in Nat /\ ChallengeTtl \in Nat
BY GuardsAssumption DEF Proofs!TtlAssumption

LEMMA IssuedTokens ==
    ASSUME Issuance
    PROVE  /\ \A c \in DOMAIN challenges : challenges[c].target \in Target
           /\ \A p \in DOMAIN proofs : p \in Proofs!Proof /\ proofs[p].exp \in Nat
<1>1. \A c \in DOMAIN challenges : challenges[c] \in Proofs!Token
    BY DEF Issuance
<1>2. \A p \in DOMAIN proofs : proofs[p] \in Proofs!Token
    BY DEF Issuance
<1>3. DOMAIN proofs = 1 .. Len(proofs) /\ Len(proofs) \in Nat /\ Len(proofs) <= MaxProofs
    BY DEF Issuance
<1>4. DOMAIN proofs \subseteq Proofs!Proof
    BY <1>3, ProofConfig DEF Proofs!Proof
<1>5. QED
    BY <1>1, <1>2, <1>4 DEF Proofs!Token

LEMMA ProofInitInv == Proofs!Init => ProofInv
<1> SUFFICES ASSUME Proofs!Init PROVE ProofInv
    OBVIOUS
<1>1. Issuance
    BY ProofConfig DEF Proofs!Init, Issuance
<1>2. InFlight
    BY DEF Proofs!Init, InFlight, Proofs!Idle
<1>3. Remembered
    BY DEF Proofs!Init, Remembered
<1>4. QED
    BY <1>1, <1>2, <1>3 DEF ProofInv

(* Time passes and proofs are added: no life begins again. *)
LEMMA LivesEnd ==
    ASSUME Issuance, now' \in Nat, now <= now',
           \A p \in DOMAIN proofs : p \in DOMAIN proofs' /\ proofs'[p] = proofs[p]
    PROVE  /\ Proofs!Use!LivesEnd
           /\ passes' = passes => OneUse
<1>1. Proofs!Over' \in [Proofs!Proof -> BOOLEAN]
    BY DEF Proofs!Over, Proofs!Proof
<1>2. ASSUME NEW p \in Proofs!Proof, Proofs!Over[p] PROVE Proofs!Over'[p]
    <2>1. p \in DOMAIN proofs /\ proofs[p].exp <= now
        BY <1>2 DEF Proofs!Over
    <2>2. proofs[p].exp <= now'
        BY <2>1, IssuedTokens DEF Issuance
    <2>3. QED
        BY <2>1, <2>2 DEF Proofs!Over, Proofs!Proof
<1>3. Proofs!Use!LivesEnd
    BY <1>1, <1>2 DEF Proofs!Use!LivesEnd
<1>4. QED
    BY <1>3 DEF OneUse, Proofs!Use!Next

LEMMA ProofTickInv ==
    ASSUME ProofInv, Proofs!Tick
    PROVE  ProofInv'
<1>1. now' = now + 1 /\ now \in Nat
    BY DEF Proofs!Tick, ProofInv, Issuance
<1>2. Issuance'
    BY <1>1 DEF Proofs!Tick, ProofInv, Issuance
<1>3. InFlight'
    BY <1>1 DEF Proofs!Tick, ProofInv, InFlight
<1>4. Remembered'
    <2> SUFFICES ASSUME NEW p \in Proofs!Proof, passes[p] # 0
                 PROVE  p \in DOMAIN proofs /\ (now' >= proofs[p].exp \/ marks[p] >= proofs[p].exp)
        BY DEF Proofs!Tick, Remembered
    <2>1. p \in DOMAIN proofs /\ (now >= proofs[p].exp \/ marks[p] >= proofs[p].exp)
        BY DEF ProofInv, Remembered
    <2>2. proofs[p].exp \in Nat
        BY <2>1, IssuedTokens DEF ProofInv
    <2>3. QED
        BY <1>1, <2>1, <2>2
<1>5. QED
    BY <1>2, <1>3, <1>4 DEF ProofInv

LEMMA ChallengeInv ==
    ASSUME ProofInv, NEW g \in Target, Proofs!Challenge(g)
    PROVE  ProofInv'
<1>1. /\ challenges' \in Seq(Proofs!Token)
      /\ DOMAIN challenges \subseteq DOMAIN challenges'
    <2>1. [target |-> g, exp |-> now + ChallengeTtl] \in Proofs!Token
        BY ProofConfig DEF ProofInv, Issuance, Proofs!Token
    <2>2. QED
        BY <2>1 DEF Proofs!Challenge, ProofInv, Issuance
<1>2. QED
    BY <1>1 DEF Proofs!Challenge, ProofInv, Issuance, InFlight, Remembered

(* One request moves; the store and the tokens stay. *)
LEMMA RequestMovesInv ==
    ASSUME ProofInv, NEW r \in Request, NEW s,
           req' = [req EXCEPT ![r] = s],
           UNCHANGED <<store, now, challenges, proofs, marks, passes>>,
           s.pc = "verifying" => s.on \in DOMAIN challenges,
           s.pc \in {"clock", "consume"} => s.on \in DOMAIN proofs,
           s.pc = "consume" => s.at \in Nat /\ s.at <= now
    PROVE  ProofInv'
<1>1. Issuance'
    BY DEF ProofInv, Issuance
<1>2. \A q \in Request : req'[q] = IF q = r THEN s ELSE req[q]
    BY DEF ProofInv, Issuance
<1>3. InFlight'
    BY <1>2 DEF ProofInv, InFlight
<1>4. Remembered'
    BY DEF ProofInv, Remembered
<1>5. QED
    BY <1>1, <1>3, <1>4 DEF ProofInv

LEMMA CompletedInv ==
    ASSUME ProofInv, NEW r \in Request, Proofs!Completed(r)
    PROVE  /\ ProofInv' /\ passes' = passes
           /\ \A p \in DOMAIN proofs : p \in DOMAIN proofs' /\ proofs'[p] = proofs[p]
<1> DEFINE new == [target |-> challenges[req[r].on].target, exp |-> now + ProofTtl]
<1>1. CASE UNCHANGED proofs
    BY <1>1, RequestMovesInv
    DEF Proofs!Completed, Proofs!Return, Proofs!Idle
<1>2. CASE Len(proofs) < MaxProofs /\ proofs' = Append(proofs, new)
    <2>1. req[r].on \in DOMAIN challenges
        BY DEF Proofs!Completed, ProofInv, InFlight
    <2>2. new \in Proofs!Token
        BY <2>1, ProofConfig, IssuedTokens DEF ProofInv, Issuance, Proofs!Token
    <2>3. /\ proofs' \in Seq(Proofs!Token)
          /\ Len(proofs') = Len(proofs) + 1
          /\ \A p \in DOMAIN proofs : p \in DOMAIN proofs' /\ proofs'[p] = proofs[p]
        BY <1>2, <2>2 DEF ProofInv, Issuance
    <2>4. Issuance'
        BY <1>2, <2>3, ProofConfig DEF Proofs!Completed, Proofs!Return, ProofInv, Issuance
    <2>5. \A q \in Request : req'[q] = IF q = r THEN Proofs!Idle ELSE req[q]
        BY DEF Proofs!Completed, Proofs!Return, ProofInv, Issuance
    <2>6. InFlight'
        BY <2>3, <2>5 DEF Proofs!Completed, ProofInv, InFlight, Proofs!Idle
    <2>7. Remembered'
        BY <2>3 DEF Proofs!Completed, ProofInv, Remembered
    <2>8. QED
        BY <2>3, <2>4, <2>6, <2>7 DEF ProofInv, Proofs!Completed
<1>3. QED
    BY <1>1, <1>2 DEF Proofs!Completed

(* What the store answers, in both stores. *)
LEMMA ConsumeStoreInv ==
    ASSUME ProofInv, NEW r \in Request, Proofs!Consume(r)
    PROVE  ProofInv' /\ OneUse
<1> DEFINE p == req[r].on
           at == req[r].at
           kept == [q \in Proofs!Proof |->
                       IF store = "redis" \/ q \in Proofs!Retained(at) THEN marks[q] ELSE 0]
<1>1. p \in DOMAIN proofs /\ at \in Nat /\ at <= now /\ now \in Nat
    BY DEF Proofs!Consume, ProofInv, InFlight, Issuance
<1>2. p \in Proofs!Proof /\ proofs[p].exp \in Nat
    BY <1>1, IssuedTokens DEF ProofInv
<1>3. \A q \in Request : req'[q] = IF q = r THEN Proofs!Idle ELSE req[q]
    BY DEF Proofs!Consume, Proofs!Return, ProofInv, Issuance
<1>4. InFlight'
    BY <1>3 DEF Proofs!Consume, ProofInv, InFlight, Proofs!Idle
<1>5. kept \in [Proofs!Proof -> Nat]
    BY DEF ProofInv, Issuance
<1>6. ASSUME NEW q \in Proofs!Proof, passes[q] # 0
      PROVE  q \in DOMAIN proofs /\ (now >= proofs[q].exp \/ kept[q] >= proofs[q].exp)
    <2>1. q \in DOMAIN proofs /\ (now >= proofs[q].exp \/ marks[q] >= proofs[q].exp)
        BY <1>6 DEF ProofInv, Remembered
    <2>2. proofs[q].exp \in Nat /\ marks[q] \in Nat
        BY <2>1, IssuedTokens DEF ProofInv, Issuance
    <2>3. QED
        BY <1>1, <2>1, <2>2 DEF Proofs!Retained
<1>10. Proofs!Over' = Proofs!Over
    BY DEF Proofs!Consume, Proofs!Over
<1>7. CASE Proofs!Marked(p, at)
    <2>1. marks' = kept /\ passes' = passes
        BY <1>7 DEF Proofs!Consume
    <2>2. Issuance'
        BY <1>5, <2>1 DEF Proofs!Consume, Proofs!Return, ProofInv, Issuance
    <2>3. Remembered'
        BY <1>6, <2>1 DEF Proofs!Consume, Remembered
    <2>4. QED
        BY <1>4, <1>10, <2>1, <2>2, <2>3 DEF ProofInv, OneUse
<1>8. CASE ~Proofs!Marked(p, at)
    <2> DEFINE mark == IF store = "redis" THEN now + Proofs!MarkTtl(p, at) ELSE proofs[p].exp
               new == Proofs!UpTo2(passes[p] + 1)
    <2>1. marks' = [kept EXCEPT ![p] = mark] /\ passes' = [passes EXCEPT ![p] = new]
        BY <1>8 DEF Proofs!Consume
    <2>2. passes[p] \in 0 .. 2 /\ marks[p] \in Nat
        BY <1>2 DEF ProofInv, Issuance
    <2>3. marks[p] <= now
        <3>1. marks[p] <= at \/ marks[p] <= now
            BY <1>1, <1>2, <1>8, <2>2 DEF Proofs!Marked, Proofs!Retained
        <3>2. QED
            BY <1>1, <2>2, <3>1
    <2>4. passes[p] # 0 => proofs[p].exp <= now
        BY <1>1, <1>2, <2>2, <2>3 DEF ProofInv, Remembered
    <2>5. mark \in Nat /\ (mark >= proofs[p].exp \/ now >= proofs[p].exp)
        BY <1>1, <1>2 DEF Proofs!MarkTtl
    <2>6. new \in 0 .. 2
        BY <2>2 DEF Proofs!UpTo2
    <2>7. Issuance'
        BY <1>5, <2>1, <2>5, <2>6 DEF Proofs!Consume, Proofs!Return, ProofInv, Issuance
    <2>8. Remembered'
        <3> SUFFICES ASSUME NEW q \in Proofs!Proof, passes'[q] # 0
                     PROVE  q \in DOMAIN proofs /\ (now >= proofs[q].exp \/ marks'[q] >= proofs[q].exp)
            BY DEF Proofs!Consume, Remembered
        <3>1. CASE q = p
            BY <3>1, <1>1, <1>2, <1>5, <2>1, <2>5
        <3>2. CASE q # p
            <4>1. passes'[q] = passes[q] /\ marks'[q] = kept[q]
                BY <3>2, <2>1, <1>5 DEF ProofInv, Issuance
            <4>2. QED
                BY <4>1, <1>6
        <3>3. QED
            BY <3>1, <3>2
    <2>9. CASE passes[p] = 2
        <3>1. passes' = passes
            BY <1>2, <2>1, <2>9 DEF Proofs!UpTo2, ProofInv, Issuance
        <3>2. QED
            BY <1>4, <1>10, <2>7, <2>8, <3>1 DEF ProofInv, OneUse
    <2>10. CASE passes[p] # 2
        <3>1. new = passes[p] + 1
            BY <2>2, <2>10 DEF Proofs!UpTo2
        <3>2. passes[p] = 0 \/ Proofs!Over[p]
            BY <1>1, <1>2, <2>4 DEF Proofs!Over
        <3>3. Proofs!Use!Use(p)
            BY <2>1, <3>1, <3>2 DEF Proofs!Use!Use
        <3>4. Proofs!Use!LivesEnd
            BY <1>1, LivesEnd DEF Proofs!Consume, ProofInv
        <3>5. QED
            BY <1>2, <1>4, <2>7, <2>8, <3>3, <3>4 DEF ProofInv, OneUse, Proofs!Use!Next
    <2>11. QED
        BY <2>9, <2>10
<1>9. QED
    BY <1>7, <1>8

LEMMA ProofStep ==
    ASSUME ProofInv, [Proofs!Next]_(Proofs!vars)
    PROVE  ProofInv' /\ OneUse
<1>0. Issuance /\ now \in Nat
    BY DEF ProofInv, Issuance
<1>1. ASSUME passes' = passes, UNCHANGED <<now, proofs>>
      PROVE  OneUse
    BY <1>1 DEF OneUse, Proofs!Over
<1>2. CASE Proofs!Tick
    <2>1. ProofInv'
        BY <1>2, ProofTickInv
    <2>2. passes' = passes /\ now' = now + 1 /\ proofs' = proofs
        BY <1>2 DEF Proofs!Tick
    <2>3. QED
        BY <1>0, <2>1, <2>2, LivesEnd
<1>3. ASSUME NEW g \in Target, Proofs!Challenge(g)
      PROVE  ProofInv' /\ OneUse
    BY <1>1, <1>3, ChallengeInv DEF Proofs!Challenge
<1>4. ASSUME NEW r \in Request, NEW c \in DOMAIN challenges, Proofs!Complete(r, c)
      PROVE  ProofInv' /\ OneUse
    BY <1>1, <1>4, RequestMovesInv DEF Proofs!Complete, Proofs!At
<1>5. ASSUME NEW r \in Request, Proofs!Completed(r)
      PROVE  ProofInv' /\ OneUse
    <2>1. /\ ProofInv' /\ passes' = passes
          /\ \A p \in DOMAIN proofs : p \in DOMAIN proofs' /\ proofs'[p] = proofs[p]
        BY <1>5, CompletedInv
    <2>2. now' = now
        BY <1>5 DEF Proofs!Completed
    <2>3. QED
        BY <1>0, <2>1, <2>2, LivesEnd
<1>6. ASSUME NEW r \in Request, NEW p \in DOMAIN proofs, NEW g \in Target, Proofs!Present(r, p, g)
      PROVE  ProofInv' /\ OneUse
    BY <1>1, <1>6, RequestMovesInv DEF Proofs!Present, Proofs!At
<1>7. ASSUME NEW r \in Request, Proofs!ReadClock(r)
      PROVE  ProofInv' /\ OneUse
    <2> DEFINE s == [req[r] EXCEPT !.pc = "consume", !.at = now]
    <2>1. req' = [req EXCEPT ![r] = s]
        BY <1>7 DEF Proofs!ReadClock
    <2>2. req[r].pc = "clock" /\ UNCHANGED <<store, now, challenges, proofs, marks, passes>>
        BY <1>7 DEF Proofs!ReadClock
    <2>3. req[r].on \in DOMAIN proofs
        BY <2>2 DEF ProofInv, InFlight
    <2>4. /\ s.pc = "verifying" => s.on \in DOMAIN challenges
          /\ s.pc \in {"clock", "consume"} => s.on \in DOMAIN proofs
          /\ s.pc = "consume" => s.at \in Nat /\ s.at <= now
        BY <1>0, <2>3
    <2>5. ProofInv'
        BY <2>1, <2>2, <2>4, RequestMovesInv
    <2>6. QED
        BY <1>1, <2>2, <2>5
<1>8. ASSUME NEW r \in Request, Proofs!Consume(r)
      PROVE  ProofInv' /\ OneUse
    BY <1>8, ConsumeStoreInv
<1>9. ASSUME NEW r \in Request, Proofs!Abort(r)
      PROVE  ProofInv' /\ OneUse
    BY <1>1, <1>9, RequestMovesInv DEF Proofs!Abort, Proofs!Return, Proofs!Idle
<1>10. CASE UNCHANGED Proofs!vars
    BY <1>1, <1>10 DEF Proofs!vars, ProofInv, Issuance, InFlight, Remembered
<1>11. QED
    BY <1>2, <1>3, <1>4, <1>5, <1>6, <1>7, <1>8, <1>9, <1>10 DEF Proofs!Next

(* Until it expires a proof lets one request through, in both stores,      *)
(* however many present it at once and however long the store's answer is  *)
(* after the clock that consume read (StepUpProofStore::consume).          *)
THEOREM ProofUsedOnceHolds == Proofs!Spec => ProofUsedOnce
<1>1. ProofInv /\ [Proofs!Next]_(Proofs!vars) => ProofInv' /\ [Proofs!Use!Next]_<<passes, Proofs!Over>>
    BY ProofStep DEF OneUse
<1>2. Proofs!Init => Proofs!Use!Init
    <2> SUFFICES ASSUME Proofs!Init PROVE Proofs!Use!Init
        OBVIOUS
    <2>1. DOMAIN proofs = {}
        BY DEF Proofs!Init
    <2>2. Proofs!Over = [p \in Proofs!Proof |-> FALSE]
        BY <2>1, Zenon DEF Proofs!Over
    <2>3. QED
        BY <2>2 DEF Proofs!Init, Proofs!Use!Init
<1>3. QED
    BY <1>1, <1>2, ProofInitInv, PTL
    DEF Proofs!Spec, ProofUsedOnce, Proofs!ProofUsedOnce, Proofs!Use!Spec

-----------------------------------------------------------------------------
(* Every nonempty set of naturals has a least member. *)
LEMMA Least ==
    ASSUME NEW T \in SUBSET Nat, T # {}
    PROVE  \E x \in T : \A y \in T : x <= y
<1> DEFINE R == {ss \in Nat \X Nat : ss[1] < ss[2]}
<1>1. OpToRel(<, Nat) = R
    BY Zenon DEF OpToRel
<1>2. IsWellFoundedOn(R, Nat)
    BY <1>1, NatLessThanWellFounded, Zenon
<1>3. \E x \in T : \A y \in T : ~ (<<y, x>> \in R)
    <2> HIDE DEF R
    <2> QED BY <1>2, WFMin, Zenon
<1>4. \A x \in Nat, y \in Nat : <<y, x>> \in R <=> y < x
    OBVIOUS
<1>5. QED
    <2> HIDE DEF R
    <2>1. PICK x \in T : \A y \in T : <<y, x>> \notin R
        BY <1>3
    <2>2. \A y \in T : ~(y < x)
        BY <1>4, <2>1
    <2>3. QED
        BY <2>2

(* A nonempty set of bounded naturals has a maximum. *)
LEMMA MaxOfBounded ==
    ASSUME NEW S \in SUBSET Nat, NEW n \in Nat, S # {}, \A s \in S : s <= n
    PROVE  Totp!Max(S) \in S /\ \A s \in S : s <= Totp!Max(S)
<1> DEFINE T == {n - s : s \in S}
<1>1. T \in SUBSET Nat /\ T # {}
    <2>1. \A s \in S : n - s \in Nat
        OBVIOUS
    <2>2. QED
        BY <2>1
<1>2. PICK t \in T : \A y \in T : t <= y
    BY <1>1, Least
<1>3. PICK m \in S : t = n - m
    BY <1>2
<1>4. \A s \in S : m >= s
    <2> TAKE s \in S
    <2>1. t <= n - s
        BY <1>2
    <2>2. QED
        BY <1>3, <2>1
<1>5. Totp!Max(S) \in S /\ \A s \in S : Totp!Max(S) >= s
    BY <1>4 DEF Totp!Max
<1>6. QED
    BY <1>5

(***************************************************************************)
(* TotpLiteVerifier, however late the script runs.  An accepted step is    *)
(* marked until it is no longer tolerated, because the marks' life counts  *)
(* from a clock reading that is not in the future; what the step is        *)
(* accepted again for happens after that.                                  *)
(***************************************************************************)
Clocked ==
    /\ clock \in Nat
    /\ used \in [Totp!Step -> Nat]
    /\ accepted \in [Totp!Step -> 0 .. 2]
    /\ DOMAIN match = Request
    /\ \A r \in Request : match[r].pc = "script" => match[r].at \in Nat /\ match[r].at <= clock

Spent ==
    \A s \in Totp!Step :
        /\ accepted[s] # 0 => clock >= Totp!EndOfTolerance(s) \/ used[s] >= Totp!EndOfTolerance(s)
        /\ accepted[s] = 2 => clock >= Totp!EndOfTolerance(s)

TotpInv == Clocked /\ Spent

LEMMA TotpConfig ==
    /\ WindowSeconds \in Nat \ {0} /\ Tolerance \in Nat /\ TotpMaxTime \in Nat
    /\ TotpMaxTime \div WindowSeconds + Tolerance \in Nat
    /\ \A s \in Totp!Step : s \in Nat /\ Totp!EndOfTolerance(s) \in Nat
<1>1. WindowSeconds \in Nat \ {0} /\ Tolerance \in Nat /\ TotpMaxTime \in Nat
    BY GuardsAssumption DEF Totp!ConfigAssumption
<1>2. TotpMaxTime \div WindowSeconds \in Nat
    BY <1>1
<1>3. \A s \in Totp!Step : s \in Nat
    BY <1>1, <1>2 DEF Totp!Step
<1>4. \A m \in Nat, n \in Nat : m * n \in Nat
    OBVIOUS
<1>5. \A s \in Totp!Step : Totp!EndOfTolerance(s) \in Nat
    BY <1>1, <1>3, <1>4 DEF Totp!EndOfTolerance
<1>6. QED
    BY <1>1, <1>2, <1>3, <1>5

LEMMA WindowEnds ==
    \A t \in Nat : \A w \in Nat \ {0} : t \div w \in Nat /\ t < (t \div w + 1) * w
OBVIOUS

LEMMA LaterWindow ==
    \A a \in Nat : \A b \in Nat : \A w \in Nat : a <= b => a * w <= b * w
OBVIOUS

(* What can match is still tolerated. *)
LEMMA NearIsTolerated ==
    ASSUME NEW t \in Nat, NEW s \in Totp!Near(t)
    PROVE  s \in Totp!Step /\ t < Totp!EndOfTolerance(s)
<1> DEFINE current == t \div WindowSeconds
<1>1. s \in Totp!Step /\ s + Tolerance >= current
    BY DEF Totp!Near
<1>2. current \in Nat /\ t < (current + 1) * WindowSeconds
    BY WindowEnds, TotpConfig
<1>3. s \in Nat /\ Totp!EndOfTolerance(s) \in Nat
    BY <1>1, TotpConfig
<1> HIDE DEF current
<1>4. current + 1 <= s + Tolerance + 1
    BY <1>1, <1>2, <1>3, TotpConfig
<1>5. (current + 1) * WindowSeconds <= Totp!EndOfTolerance(s)
    BY <1>2, <1>3, <1>4, LaterWindow, TotpConfig DEF Totp!EndOfTolerance
<1>6. (current + 1) * WindowSeconds \in Nat
    BY <1>2, TotpConfig
<1>7. QED
    BY <1>1, <1>2, <1>3, <1>5, <1>6

LEMMA TotpInitInv == Totp!Init => TotpInv
BY TotpConfig DEF Totp!Init, TotpInv, Clocked, Spent, Totp!Idle

LEMMA TotpTickInv ==
    ASSUME TotpInv, Totp!Tick
    PROVE  TotpInv'
<1>1. clock' = clock + 1 /\ UNCHANGED <<used, match, accepted>> /\ clock \in Nat
    BY DEF Totp!Tick, TotpInv, Clocked
<1>2. Clocked'
    <2>1. \A r \in Request : match[r].pc = "script" => match[r].at \in Nat /\ match[r].at <= clock + 1
        BY <1>1 DEF TotpInv, Clocked
    <2>2. QED
        BY <1>1, <2>1 DEF TotpInv, Clocked
<1>3. Spent'
    <2> SUFFICES ASSUME NEW s \in Totp!Step
                 PROVE  /\ accepted[s] # 0 => clock' >= Totp!EndOfTolerance(s) \/ used[s] >= Totp!EndOfTolerance(s)
                        /\ accepted[s] = 2 => clock' >= Totp!EndOfTolerance(s)
        BY <1>1 DEF Spent, Totp!EndOfTolerance
    <2>1. /\ accepted[s] # 0 => clock >= Totp!EndOfTolerance(s) \/ used[s] >= Totp!EndOfTolerance(s)
          /\ accepted[s] = 2 => clock >= Totp!EndOfTolerance(s)
        BY DEF TotpInv, Spent
    <2>2. Totp!EndOfTolerance(s) \in Nat
        BY TotpConfig
    <2>3. QED
        BY <1>1, <2>1, <2>2
<1>4. QED
    BY <1>2, <1>3 DEF TotpInv

LEMMA ScriptInv ==
    ASSUME TotpInv, NEW r \in Request, Totp!Script(r)
    PROVE  TotpInv'
<1> DEFINE steps == Totp!Matched(r)
           at == match[r].at
<1>1. clock \in Nat /\ at \in Nat /\ at <= clock /\ clock' = clock
    BY DEF Totp!Script, TotpInv, Clocked
<1>2. steps \subseteq Totp!Near(at) /\ steps = Totp!Hits(match[r].code, match[r].at)
    BY DEF Totp!Matched, Totp!Matching, Totp!Hits
<1>3. \A q \in Request : match'[q].pc = "script" => match'[q].at \in Nat /\ match'[q].at <= clock
    BY DEF Totp!Script, Totp!Idle, TotpInv, Clocked
<1>4. DOMAIN match' = Request
    BY DEF Totp!Script, TotpInv, Clocked
<1>5. CASE UNCHANGED <<used, accepted>>
    BY <1>1, <1>3, <1>4, <1>5 DEF TotpInv, Clocked, Spent, Totp!EndOfTolerance
<1>6. CASE
        /\ ~ \E s \in steps : clock < used[s]
        /\ used' = [s \in Totp!Step |-> IF s \in steps THEN clock + Totp!MarkTtl(r) ELSE used[s]]
        /\ accepted' = [s \in Totp!Step |->
                IF s \in steps THEN Totp!UpTo2(accepted[s] + 1) ELSE accepted[s]]
    <2>7. Totp!MarkTtl(r) = Totp!EndOfTolerance(Totp!Max(steps)) - at
        BY DEF Totp!MarkTtl
    <2> HIDE DEF steps, at
    <2>1. ASSUME NEW s \in steps
          PROVE  /\ s \in Totp!Step
                 /\ accepted[s] # 0 => clock >= Totp!EndOfTolerance(s)
                 /\ clock + Totp!MarkTtl(r) \in Nat
                 /\ clock + Totp!MarkTtl(r) >= Totp!EndOfTolerance(s)
        <3>1. /\ s \in Totp!Step
              /\ s \in Nat /\ Totp!EndOfTolerance(s) \in Nat
            BY <1>1, <1>2, <2>1, NearIsTolerated, TotpConfig
        <3>2. used[s] \in Nat /\ used[s] <= clock
            BY <1>1, <1>6, <2>1, <3>1 DEF TotpInv, Clocked
        <3>3. accepted[s] # 0 => clock >= Totp!EndOfTolerance(s)
            BY <1>1, <3>1, <3>2 DEF TotpInv, Spent
        <3>4. steps \subseteq Totp!Step /\ steps # {}
            BY <1>1, <1>2, <2>1, NearIsTolerated
        <3>5. \A t \in steps : t \in Nat /\ t <= TotpMaxTime \div WindowSeconds + Tolerance
            BY <3>4, TotpConfig DEF Totp!Step
        <3>6. Totp!Max(steps) \in steps /\ s <= Totp!Max(steps)
            BY <2>1, <3>4, <3>5, MaxOfBounded, TotpConfig
        <3>7. /\ Totp!Max(steps) \in Nat /\ Totp!EndOfTolerance(Totp!Max(steps)) \in Nat
              /\ at < Totp!EndOfTolerance(Totp!Max(steps))
            BY <1>1, <1>2, <3>4, <3>6, NearIsTolerated, TotpConfig
        <3>8. Totp!EndOfTolerance(s) <= Totp!EndOfTolerance(Totp!Max(steps))
            BY <3>1, <3>6, <3>7, LaterWindow, TotpConfig DEF Totp!EndOfTolerance
        <3>9. /\ clock + Totp!MarkTtl(r) \in Nat
              /\ clock + Totp!MarkTtl(r) >= Totp!EndOfTolerance(Totp!Max(steps))
            BY <1>1, <2>7, <3>7
        <3>10. QED
            BY <3>1, <3>3, <3>7, <3>8, <3>9
    <2>2. Clocked'
        BY <1>1, <1>3, <1>4, <1>6, <2>1 DEF TotpInv, Clocked, Totp!UpTo2
    <2>3. Spent'
        <3> SUFFICES ASSUME NEW s \in Totp!Step
                     PROVE  /\ accepted'[s] # 0 => clock >= Totp!EndOfTolerance(s) \/ used'[s] >= Totp!EndOfTolerance(s)
                            /\ accepted'[s] = 2 => clock >= Totp!EndOfTolerance(s)
            BY <1>1 DEF Spent, Totp!EndOfTolerance
        <3>1. CASE s \in steps
            <4>1. used'[s] >= Totp!EndOfTolerance(s)
                BY <1>6, <2>1, <3>1
            <4>2. accepted'[s] = 2 => accepted[s] # 0
                BY <1>6, <3>1 DEF Totp!UpTo2
            <4>3. QED
                BY <2>1, <3>1, <4>1, <4>2
        <3>2. CASE s \notin steps
            <4>1. accepted'[s] = accepted[s] /\ used'[s] = used[s]
                BY <1>6, <3>2
            <4>2. QED
                BY <4>1 DEF TotpInv, Spent
        <3>3. QED
            BY <3>1, <3>2
    <2>4. QED
        BY <2>2, <2>3 DEF TotpInv
<1>7. QED
    BY <1>2, <1>5, <1>6 DEF Totp!Script

LEMMA TotpStepInv ==
    ASSUME TotpInv, [Totp!Next]_(Totp!vars)
    PROVE  TotpInv'
<1>1. CASE Totp!Tick
    BY <1>1, TotpTickInv
<1>2. ASSUME NEW r \in Request, NEW c \in Code, Totp!Match(r, c)
      PROVE  TotpInv'
    BY <1>2 DEF Totp!Match, TotpInv, Clocked, Spent, Totp!EndOfTolerance
<1>3. ASSUME NEW r \in Request, Totp!Script(r)
      PROVE  TotpInv'
    BY <1>3, ScriptInv
<1>4. ASSUME NEW r \in Request, Totp!Abort(r)
      PROVE  TotpInv'
    BY <1>4 DEF Totp!Abort, Totp!Idle, TotpInv, Clocked, Spent, Totp!EndOfTolerance
<1>5. CASE UNCHANGED Totp!vars
    BY <1>5 DEF Totp!vars, TotpInv, Clocked, Spent, Totp!EndOfTolerance
<1>6. QED
    BY <1>1, <1>2, <1>3, <1>4, <1>5 DEF Totp!Next

(* As long as a time step is tolerated it signs in once, though a code may *)
(* match several steps, several instances verify at once and a script may  *)
(* run any time after its clock reading (TotpLiteVerifier::verify_at).     *)
THEOREM StepUsedOnceHolds == Totp!Spec => []StepUsedOnce
<1>1. TotpInv /\ [Totp!Next]_(Totp!vars) => TotpInv'
    BY TotpStepInv
<1>2. TotpInv => StepUsedOnce
    <2> SUFFICES ASSUME TotpInv, NEW s \in Totp!Step, clock < Totp!EndOfTolerance(s)
                 PROVE  accepted[s] <= 1
        BY DEF StepUsedOnce, Totp!StepUsedOnce
    <2>1. accepted[s] \in 0 .. 2 /\ clock \in Nat /\ Totp!EndOfTolerance(s) \in Nat
        BY TotpConfig DEF TotpInv, Clocked
    <2>2. accepted[s] # 2
        BY <2>1 DEF TotpInv, Spent
    <2>3. QED
        BY <2>1, <2>2
<1>3. QED
    BY <1>1, <1>2, TotpInitInv, PTL DEF Totp!Spec

(***************************************************************************)
(* The attempt limits, for every set of addresses and identities, limits   *)
(* and window.                                                             *)
(***************************************************************************)
(* What is known of one key: a counter runs out a window after its newest  *)
(* call, and of the admitted calls at most a limit is counted now (the     *)
(* first `counted' of the log) and at most another one before that.        *)
RateTyped(k) ==
    /\ attempts[k] \in [count : 0 .. Rate!Limit[k] + 1, left : 0 .. Rate!Past]
    /\ attempts[k].count = 0 <=> attempts[k].left = 0
    /\ calls[k] \in [1 .. 1 * Rate!Limit[k] + 1 -> 0 .. Rate!Past]
    /\ passed[k] \in [1 .. 2 * Rate!Limit[k] + 1 -> 0 .. Rate!Past]
Counted(k, counted) ==
    /\ counted <= attempts[k].count
    /\ attempts[k].count > 0 =>
          \A i \in 1 .. 2 * Rate!Limit[k] + 1 :
              i > counted => passed[k][i] + attempts[k].left >= Rate!Past
    /\ \A i \in 1 .. 2 * Rate!Limit[k] + 1 :
          i > counted + Rate!Limit[k] => passed[k][i] = Rate!Past
Quiet(k) == attempts[k].count > 0 => calls[k][1] + attempts[k].left <= Rate!Past
KeyInv(k) ==
    RateTyped(k) /\ Quiet(k) /\ \E counted \in 0 .. Rate!Limit[k] : Counted(k, counted)

RateInv ==
    /\ DOMAIN attempts = Rate!Key /\ DOMAIN calls = Rate!Key /\ DOMAIN passed = Rate!Key
    /\ \A k \in Rate!Key : KeyInv(k)

LEMMA RateConfig ==
    /\ Rate!Past \in Nat \ {0}
    /\ \A k \in Rate!Key : Rate!Limit[k] \in Nat
<1>1. \A a, b \in Nat \ {0} : a * b \in Nat \ {0}
    OBVIOUS
<1>2. QED
    BY <1>1, GuardsAssumption DEF Rate!RateAssumption, Rate!Past, Rate!Limit, Rate!Key

LEMMA RateInitInv == Rate!Init => RateInv
<1> SUFFICES ASSUME Rate!Init PROVE RateInv
    OBVIOUS
<1>1. ASSUME NEW k \in Rate!Key PROVE KeyInv(k)
  <2>1. /\ attempts[k] = [count |-> 0, left |-> 0]
        /\ calls[k] = [i \in 1 .. 1 * Rate!Limit[k] + 1 |-> Rate!Past]
        /\ passed[k] = [i \in 1 .. 2 * Rate!Limit[k] + 1 |-> Rate!Past]
        BY DEF Rate!Init, Rate!NoCalls, Rate!Counters!Start, Rate!Counters!NoCounter
  <2>2. RateTyped(k) /\ Quiet(k)
        BY <2>1, RateConfig DEF RateTyped, Quiet
  <2>3. Counted(k, 0)
        BY <2>1, RateConfig DEF Counted
  <2>4. QED
        BY <2>2, <2>3, RateConfig DEF KeyInv
<1>2. QED
    BY <1>1 DEF RateInv, Rate!Init, Rate!Counters!Start

(* A call counts on a key: its window is kept or starts anew.              *)
CallOn(k) ==
    /\ attempts'[k].count = IF attempts[k].count > Rate!Limit[k] THEN attempts[k].count
                            ELSE attempts[k].count + 1
    /\ attempts'[k].left \in (IF attempts[k].count = 0 THEN {Rate!Past}
                              ELSE {attempts[k].left, Rate!Past})
    /\ attempts'[k] = [count |-> attempts'[k].count, left |-> attempts'[k].left]
    /\ calls'[k] = [i \in 1 .. 1 * Rate!Limit[k] + 1 |-> IF i = 1 THEN 0 ELSE calls[k][i - 1]]

LEMMA CalledKey ==
    ASSUME NEW k \in Rate!Key, KeyInv(k), CallOn(k),
           \/ passed'[k] = passed[k]
           \/ /\ attempts'[k].count <= Rate!Limit[k]
              /\ passed'[k] = [i \in 1 .. 2 * Rate!Limit[k] + 1 |->
                                  IF i = 1 THEN 0 ELSE passed[k][i - 1]]
    PROVE  KeyInv(k)'
<1> DEFINE L == Rate!Limit[k]
           P == Rate!Past
<1>1. L \in Nat /\ P \in Nat \ {0}
    BY RateConfig
<1>2. /\ attempts[k] \in [count : 0 .. L + 1, left : 0 .. P]
      /\ attempts[k].count = 0 <=> attempts[k].left = 0
      /\ calls[k] \in [1 .. 1 * L + 1 -> 0 .. P]
      /\ passed[k] \in [1 .. 2 * L + 1 -> 0 .. P]
    BY DEF KeyInv, RateTyped
<1>3. PICK counted \in 0 .. L : Counted(k, counted)
    BY DEF KeyInv
<1>4. /\ counted <= attempts[k].count
      /\ attempts[k].count > 0 => \A i \in 1 .. 2 * L + 1 :
            i > counted => passed[k][i] + attempts[k].left >= P
      /\ \A i \in 1 .. 2 * L + 1 : i > counted + L => passed[k][i] = P
    BY <1>3 DEF Counted
<1>5. /\ attempts'[k].count = IF attempts[k].count > L THEN attempts[k].count
                              ELSE attempts[k].count + 1
      /\ attempts'[k].left \in (IF attempts[k].count = 0 THEN {P} ELSE {attempts[k].left, P})
      /\ attempts'[k] = [count |-> attempts'[k].count, left |-> attempts'[k].left]
      /\ calls'[k] = [i \in 1 .. 1 * L + 1 |-> IF i = 1 THEN 0 ELSE calls[k][i - 1]]
    BY DEF CallOn
<1> DEFINE shifted == [i \in 1 .. 2 * L + 1 |-> IF i = 1 THEN 0 ELSE passed[k][i - 1]]
<1>6. passed'[k] = passed[k] \/ (attempts'[k].count <= L /\ passed'[k] = shifted)
    OBVIOUS
<1>7. Rate!Limit'[k] = L /\ Rate!Past' = P
    BY DEF Rate!Limit, Rate!Key, Rate!Past
<1> HIDE DEF L, P, shifted
<1>8. attempts[k].count \in 0 .. L + 1 /\ attempts[k].left \in 0 .. P
    BY <1>2
<1>9. /\ attempts'[k].count \in 1 .. L + 1 /\ attempts'[k].left \in 1 .. P
      /\ attempts'[k].left >= attempts[k].left
  <2>1. attempts'[k].left = P \/ (attempts[k].count > 0 /\ attempts'[k].left = attempts[k].left)
        BY <1>5, <1>8
  <2>2. QED
        BY <1>1, <1>2, <1>5, <1>8, <2>1
<1>10. calls'[k] \in [1 .. 1 * L + 1 -> 0 .. P] /\ calls'[k][1] = 0
    BY <1>1, <1>2, <1>5
<1>11. shifted \in [1 .. 2 * L + 1 -> 0 .. P]
    BY <1>1, <1>2 DEF shifted
<1>12. passed'[k] \in [1 .. 2 * L + 1 -> 0 .. P]
    BY <1>2, <1>6, <1>11
<1>13. RateTyped(k)'
    BY <1>5, <1>7, <1>9, <1>10, <1>12 DEF RateTyped, L, P
<1>14. Quiet(k)'
    BY <1>1, <1>7, <1>9, <1>10 DEF Quiet, P
<1>15. \A i \in 1 .. 2 * L + 1 : i > counted => passed[k][i] + attempts'[k].left >= P
  <2>1. \A i \in 1 .. 2 * L + 1 : passed[k][i] \in 0 .. P
        BY <1>2
  <2>2. CASE attempts[k].count = 0
    <3>1. attempts'[k].left = P
          BY <1>5, <2>2
    <3>2. QED
          BY <1>1, <2>1, <3>1
  <2>3. CASE attempts[k].count > 0
        BY <1>1, <1>4, <1>9, <1>8, <2>1, <2>3
  <2>4. QED
        BY <1>8, <2>2, <2>3
<1>16. CASE passed'[k] = passed[k]
  <2>1. Counted(k, counted)'
    <3>1. counted <= attempts'[k].count
          BY <1>1, <1>3, <1>4, <1>5, <1>8
    <3>2. QED
          BY <1>4, <1>7, <1>15, <1>16, <3>1 DEF Counted, L, P
  <2>2. QED
        BY <1>7, <1>13, <1>14, <2>1 DEF KeyInv, L
<1>17. CASE attempts'[k].count <= L /\ passed'[k] = shifted
  <2>1. counted + 1 \in 0 .. L /\ counted + 1 <= attempts'[k].count
        BY <1>1, <1>2, <1>3, <1>4, <1>5, <1>17
  <2>2. \A i \in 1 .. 2 * L + 1 :
           i > 1 => passed'[k][i] = passed[k][i - 1] /\ i - 1 \in 1 .. 2 * L + 1
        BY <1>1, <1>17 DEF shifted
  <2>3. \A i \in 1 .. 2 * L + 1 :
           i > counted + 1 => passed'[k][i] + attempts'[k].left >= P
        BY <1>1, <1>3, <1>15, <2>2
  <2>4. \A i \in 1 .. 2 * L + 1 : i > counted + 1 + L => passed'[k][i] = P
        BY <1>1, <1>3, <1>4, <2>2
  <2>5. Counted(k, counted + 1)'
        BY <1>7, <2>1, <2>3, <2>4 DEF Counted, L, P
  <2>6. QED
        BY <1>7, <1>13, <1>14, <2>1, <2>5 DEF KeyInv, L
<1>18. QED
    BY <1>6, <1>16, <1>17

LEMMA AttemptInv == ASSUME RateInv, NEW c \in Rate!Caller, Rate!Attempt(c) PROVE RateInv'
<1>1. /\ DOMAIN attempts' = Rate!Key /\ DOMAIN calls' = Rate!Key /\ DOMAIN passed' = Rate!Key
  <2>1. DOMAIN attempts' = Rate!Key /\ DOMAIN calls' = Rate!Key
        BY DEF Rate!Attempt, Rate!Counters!CountOn, Rate!Record
  <2>2. passed' = passed \/ passed' = Rate!Record(passed, c)
        BY DEF Rate!Attempt
  <2>3. DOMAIN passed' = Rate!Key
        BY <2>2 DEF Rate!Record, RateInv
  <2>4. QED
        BY <2>1, <2>3
<1>2. ASSUME NEW k \in Rate!Key, k \in Rate!KeysOf(c) PROVE KeyInv(k)'
  <2>1. KeyInv(k) /\ RateTyped(k)
        BY DEF RateInv, KeyInv
  <2>2. attempts'[k] = [count |-> Rate!Counters!Incremented(k), left |-> Rate!Counters!LeftAfter(k)]
        BY <1>2 DEF Rate!Attempt, Rate!Counters!CountOn, Rate!Counters!After
  <2>3. calls'[k] = [i \in 1 .. 1 * Rate!Limit[k] + 1 |-> IF i = 1 THEN 0 ELSE calls[k][i - 1]]
        BY <1>2, <2>1 DEF Rate!Attempt, Rate!Record, RateTyped
  <2>4. CallOn(k)
        BY <2>2, <2>3 DEF CallOn, Rate!Counters!Incremented, Rate!Counters!LeftAfter, Rate!Past
  <2>5. CASE Rate!Admits(c)
    <3>1. Rate!Counters!Incremented(k) <= Rate!Limit[k]
      <4>1. ~(Rate!Counters!Incremented(k) > Rate!Limit[k])
            BY <1>2, <2>5 DEF Rate!Admits, Rate!Counters!Over
      <4>2. Rate!Counters!Incremented(k) \in Nat /\ Rate!Limit[k] \in Nat
            BY <2>1, RateConfig DEF RateTyped, Rate!Counters!Incremented
      <4>3. QED
            BY <4>1, <4>2
    <3>2. passed'[k] = [i \in 1 .. 2 * Rate!Limit[k] + 1 |-> IF i = 1 THEN 0 ELSE passed[k][i - 1]]
          BY <1>2, <2>1, <2>5 DEF Rate!Attempt, Rate!Record, RateTyped
    <3>3. QED
          BY <2>1, <2>2, <2>4, <3>1, <3>2, CalledKey
  <2>6. CASE ~Rate!Admits(c)
        BY <2>1, <2>4, <2>6, CalledKey DEF Rate!Attempt
  <2>7. QED
        BY <2>5, <2>6
<1>3. ASSUME NEW k \in Rate!Key, k \notin Rate!KeysOf(c) PROVE KeyInv(k)'
  <2>1. attempts'[k] = attempts[k] /\ calls'[k] = calls[k] /\ passed'[k] = passed[k]
        BY <1>3 DEF Rate!Attempt, Rate!Counters!CountOn, Rate!Record
  <2>2. KeyInv(k)
        BY DEF RateInv
  <2>3. QED
        BY <2>1, <2>2 DEF KeyInv, RateTyped, Quiet, Counted, Rate!Limit, Rate!Key, Rate!Past
<1>4. QED
    BY <1>1, <1>2, <1>3 DEF RateInv, Rate!Key

LEMMA ClearInv == ASSUME RateInv, NEW c \in Rate!Caller, Rate!Clear(c) PROVE RateInv'
<1>1. /\ DOMAIN attempts' = Rate!Key /\ DOMAIN calls' = Rate!Key /\ DOMAIN passed' = Rate!Key
    BY DEF Rate!Clear, Rate!Counters!Delete, RateInv
<1>2. ASSUME NEW k \in Rate!Key, k \in Rate!KeysOf(c) PROVE KeyInv(k)'
  <2>1. /\ attempts'[k] = [count |-> 0, left |-> 0] /\ calls'[k] = calls[k]
        /\ passed'[k] = [i \in 1 .. 2 * Rate!Limit[k] + 1 |-> Rate!Past]
        BY <1>2 DEF Rate!Clear, Rate!Counters!Delete, Rate!Counters!NoCounter, Rate!NoCalls
  <2>2. KeyInv(k)
        BY DEF RateInv
  <2>3. Rate!Limit'[k] = Rate!Limit[k] /\ Rate!Past' = Rate!Past
        BY DEF Rate!Limit, Rate!Key, Rate!Past
  <2>4. RateTyped(k)' /\ Quiet(k)'
        BY <2>1, <2>2, <2>3, RateConfig DEF KeyInv, RateTyped, Quiet
  <2>5. Counted(k, 0)'
        BY <2>1, <2>3, RateConfig DEF Counted
  <2>6. QED
        BY <2>3, <2>4, <2>5, RateConfig DEF KeyInv
<1>3. ASSUME NEW k \in Rate!Key, k \notin Rate!KeysOf(c) PROVE KeyInv(k)'
  <2>1. attempts'[k] = attempts[k] /\ calls'[k] = calls[k] /\ passed'[k] = passed[k]
        BY <1>3 DEF Rate!Clear, Rate!Counters!Delete
  <2>2. KeyInv(k)
        BY DEF RateInv
  <2>3. QED
        BY <2>1, <2>2 DEF KeyInv, RateTyped, Quiet, Counted, Rate!Limit, Rate!Key, Rate!Past
<1>4. QED
    BY <1>1, <1>2, <1>3 DEF RateInv, Rate!Key

Ages(log, n) == [i \in 1 .. n |-> IF log[i] < Rate!Past THEN log[i] + 1 ELSE Rate!Past]

LEMMA AgedLog ==
    ASSUME NEW n \in Nat, NEW log \in [1 .. n -> 0 .. Rate!Past]
    PROVE  /\ Ages(log, n) \in [1 .. n -> 0 .. Rate!Past]
           /\ \A i \in 1 .. n : /\ log[i] \in 0 .. Rate!Past
                                /\ log[i] < Rate!Past => Ages(log, n)[i] = log[i] + 1
                                /\ log[i] = Rate!Past => Ages(log, n)[i] = Rate!Past
<1> DEFINE P == Rate!Past
<1>1. P \in Nat
    BY RateConfig
<1>2. Ages(log, n) = [i \in 1 .. n |-> IF log[i] < P THEN log[i] + 1 ELSE P]
    BY DEF Ages
<1>3. log \in [1 .. n -> 0 .. P]
    OBVIOUS
<1> HIDE DEF P
<1>4. \A i \in 1 .. n : log[i] \in 0 .. P /\ Ages(log, n)[i] = IF log[i] < P THEN log[i] + 1 ELSE P
    BY <1>2, <1>3
<1>5. \A i \in 1 .. n : (IF log[i] < P THEN log[i] + 1 ELSE P) \in 0 .. P
    BY <1>1, <1>4
<1>6. Ages(log, n) \in [1 .. n -> 0 .. P]
    BY <1>2, <1>5
<1>7. QED
    BY <1>1, <1>4, <1>6 DEF P

(* A tick ages every call, and a window that ends leaves at most a limit   *)
(* of admitted calls behind.                                               *)
LEMMA AgedKey ==
    ASSUME NEW k \in Rate!Key, KeyInv(k),
           attempts'[k] = IF attempts[k].left > 1
                          THEN [attempts[k] EXCEPT !.left = @ - 1] ELSE [count |-> 0, left |-> 0],
           calls'[k] = Ages(calls[k], 1 * Rate!Limit[k] + 1),
           passed'[k] = Ages(passed[k], 2 * Rate!Limit[k] + 1)
    PROVE  KeyInv(k)'
<1> DEFINE L == Rate!Limit[k]
           P == Rate!Past
<1>1. L \in Nat /\ P \in Nat \ {0}
    BY RateConfig
<1>2. /\ attempts[k] \in [count : 0 .. L + 1, left : 0 .. P]
      /\ attempts[k].count = 0 <=> attempts[k].left = 0
      /\ calls[k] \in [1 .. 1 * L + 1 -> 0 .. P]
      /\ passed[k] \in [1 .. 2 * L + 1 -> 0 .. P]
      /\ attempts[k].count > 0 => calls[k][1] + attempts[k].left <= P
    BY DEF KeyInv, RateTyped, Quiet
<1>3. PICK counted \in 0 .. L : Counted(k, counted)
    BY DEF KeyInv
<1>4. /\ counted <= attempts[k].count
      /\ attempts[k].count > 0 => \A i \in 1 .. 2 * L + 1 :
            i > counted => passed[k][i] + attempts[k].left >= P
      /\ \A i \in 1 .. 2 * L + 1 : i > counted + L => passed[k][i] = P
    BY <1>3 DEF Counted
<1>5. calls'[k] = Ages(calls[k], 1 * L + 1) /\ passed'[k] = Ages(passed[k], 2 * L + 1)
    OBVIOUS
<1>6. Rate!Limit'[k] = L /\ Rate!Past' = P
    BY DEF Rate!Limit, Rate!Key, Rate!Past
<1> HIDE DEF L, P
<1>7. attempts[k].count \in 0 .. L + 1 /\ attempts[k].left \in 0 .. P
    BY <1>2
<1>8. 1 * L + 1 \in Nat /\ 2 * L + 1 \in Nat /\ 1 \in 1 .. 1 * L + 1
    BY <1>1
<1>9. /\ calls'[k] \in [1 .. 1 * L + 1 -> 0 .. P]
      /\ calls[k][1] \in 0 .. P
      /\ calls[k][1] < P => calls'[k][1] = calls[k][1] + 1
  <2> DEFINE n == 1 * L + 1
             log == calls[k]
  <2>1. n \in Nat /\ 1 \in 1 .. n /\ log \in [1 .. n -> 0 .. Rate!Past] /\ calls'[k] = Ages(log, n)
        BY <1>2, <1>5, <1>8 DEF P
  <2> HIDE DEF n, log
  <2>2. /\ Ages(log, n) \in [1 .. n -> 0 .. Rate!Past] /\ log[1] \in 0 .. Rate!Past
        /\ log[1] < Rate!Past => Ages(log, n)[1] = log[1] + 1
        BY <2>1, AgedLog
  <2>3. QED
        BY <2>1, <2>2 DEF P, n, log
<1>10. /\ passed'[k] \in [1 .. 2 * L + 1 -> 0 .. P]
       /\ \A i \in 1 .. 2 * L + 1 :
            /\ passed[k][i] \in 0 .. P
            /\ passed[k][i] < P => passed'[k][i] = passed[k][i] + 1
            /\ passed[k][i] = P => passed'[k][i] = P
  <2> DEFINE n == 2 * L + 1
             log == passed[k]
  <2>1. n \in Nat /\ log \in [1 .. n -> 0 .. Rate!Past] /\ passed'[k] = Ages(log, n)
        BY <1>2, <1>5, <1>8 DEF P
  <2> HIDE DEF n, log
  <2>2. /\ Ages(log, n) \in [1 .. n -> 0 .. Rate!Past]
        /\ \A i \in 1 .. n : /\ log[i] \in 0 .. Rate!Past
                             /\ log[i] < Rate!Past => Ages(log, n)[i] = log[i] + 1
                             /\ log[i] = Rate!Past => Ages(log, n)[i] = Rate!Past
        BY <2>1, AgedLog
  <2>3. QED
        BY <2>1, <2>2 DEF P, n, log
<1>11. CASE attempts[k].left > 1
  <2>1. attempts[k].count > 0 /\ attempts'[k].count = attempts[k].count
           /\ attempts'[k].left = attempts[k].left - 1
           /\ attempts'[k] \in [count : 0 .. L + 1, left : 0 .. P]
    <3>1. attempts'[k] = [attempts[k] EXCEPT !.left = @ - 1]
          BY <1>11
    <3>2. attempts[k].left - 1 \in 0 .. P /\ attempts[k].count > 0
          BY <1>1, <1>2, <1>7, <1>11
    <3>3. QED
          BY <1>2, <3>1, <3>2
  <2>2. RateTyped(k)'
    <3>1. attempts'[k].count # 0 /\ attempts'[k].left # 0
          BY <1>7, <1>11, <2>1
    <3>2. QED
          BY <1>6, <1>9, <1>10, <2>1, <3>1 DEF RateTyped, L, P
  <2> DEFINE left == attempts[k].left
             newest == calls[k][1]
  <2>3. Quiet(k)'
    <3>1. left \in Nat /\ left > 1 /\ newest \in Nat /\ newest + left <= P
             /\ (newest < P => calls'[k][1] = newest + 1)
          BY <1>2, <1>7, <1>9, <1>11, <2>1
    <3>2. attempts'[k].left = left - 1
          BY <2>1
    <3> HIDE DEF left, newest
    <3>3. calls'[k][1] + attempts'[k].left <= P
          BY <1>1, <3>1, <3>2
    <3>4. QED
          BY <1>6, <3>3 DEF Quiet, P
  <2>4. ASSUME NEW i \in 1 .. 2 * L + 1, i > counted
        PROVE  passed'[k][i] + attempts'[k].left >= P
    <3> DEFINE before == passed[k][i]
    <3>1. left \in Nat /\ left > 1 /\ before \in 0 .. P /\ before + left >= P
             /\ (before < P => passed'[k][i] = before + 1)
             /\ (before = P => passed'[k][i] = P)
          BY <1>4, <1>7, <1>10, <1>11, <2>1, <2>4
    <3>2. attempts'[k].left = left - 1
          BY <2>1
    <3> HIDE DEF left, before
    <3>3. QED
          BY <1>1, <3>1, <3>2
  <2>5. Counted(k, counted)'
        BY <1>4, <1>6, <1>10, <2>1, <2>4 DEF Counted, L, P
  <2>6. QED
        BY <1>6, <2>2, <2>3, <2>5 DEF KeyInv, L
<1>12. CASE ~(attempts[k].left > 1)
  <2>1. attempts'[k] = [count |-> 0, left |-> 0]
        BY <1>12
  <2>2. RateTyped(k)'
    <3>1. attempts'[k] \in [count : 0 .. L + 1, left : 0 .. P]
             /\ attempts'[k].count = 0 /\ attempts'[k].left = 0
      <4>1. 0 \in 0 .. L + 1 /\ 0 \in 0 .. P
            BY <1>1
      <4>2. \A r : r = [count |-> 0, left |-> 0] =>
               r \in [count : 0 .. L + 1, left : 0 .. P] /\ r.count = 0 /\ r.left = 0
            BY <4>1
      <4>3. QED
            BY <2>1, <4>2
    <3>2. QED
          BY <1>6, <1>9, <1>10, <3>1 DEF RateTyped, L, P
  <2>3. Quiet(k)'
        BY <2>1 DEF Quiet
  <2>4. \A i \in 1 .. 2 * L + 1 : i > 0 + L => passed'[k][i] = P
    <3>1. CASE attempts[k].count = 0
      <4>1. counted = 0
            BY <1>4, <3>1
      <4>2. QED
            BY <1>4, <1>10, <4>1
    <3>2. CASE attempts[k].count > 0
      <4>1. attempts[k].left = 1
            BY <1>2, <1>7, <1>12, <3>2
      <4>2. QED
            BY <1>1, <1>4, <1>10, <3>2, <4>1
    <3>3. QED
          BY <1>7, <3>1, <3>2
  <2>5. Counted(k, 0)'
        BY <1>6, <2>1, <2>4 DEF Counted, L, P
  <2>6. QED
        BY <1>1, <1>6, <2>2, <2>3, <2>5 DEF KeyInv, L
<1>13. QED
    BY <1>11, <1>12

LEMMA RateTickInv == ASSUME RateInv, Rate!Tick PROVE RateInv'
<1>1. /\ DOMAIN attempts' = Rate!Key /\ DOMAIN calls' = Rate!Key /\ DOMAIN passed' = Rate!Key
    BY DEF Rate!Tick, Rate!Counters!Elapse, Rate!Older
<1>2. ASSUME NEW k \in Rate!Key PROVE KeyInv(k)'
  <2>1. KeyInv(k) /\ DOMAIN calls[k] = 1 .. 1 * Rate!Limit[k] + 1
           /\ DOMAIN passed[k] = 1 .. 2 * Rate!Limit[k] + 1
        BY DEF RateInv, KeyInv, RateTyped
  <2>2. /\ attempts'[k] = IF attempts[k].left > 1
                          THEN [attempts[k] EXCEPT !.left = @ - 1] ELSE [count |-> 0, left |-> 0]
        /\ calls'[k] = Ages(calls[k], 1 * Rate!Limit[k] + 1)
        /\ passed'[k] = Ages(passed[k], 2 * Rate!Limit[k] + 1)
        BY <2>1 DEF Ages, Rate!Tick, Rate!Counters!Elapse, Rate!Counters!NoCounter, Rate!Older
  <2>3. QED
        BY <2>1, <2>2, AgedKey
<1>3. QED
    BY <1>1, <1>2 DEF RateInv, Rate!Key

LEMMA RateStep == RateInv /\ [Rate!Next]_(Rate!vars) => RateInv'
<1> SUFFICES ASSUME RateInv, [Rate!Next]_(Rate!vars) PROVE RateInv'
    OBVIOUS
<1>1. CASE UNCHANGED Rate!vars
    BY <1>1 DEF RateInv, KeyInv, RateTyped, Quiet, Counted, Rate!Limit, Rate!Key, Rate!Past, Rate!vars
<1>2. QED
    BY <1>1, RateTickInv, AttemptInv, ClearInv DEF Rate!Next

(* AuthRateLimiter, for every set of keys, limits and window: a key admits *)
(* at most twice its limit in any stretch of one window, whatever TTL is   *)
(* rounded to and whatever its other key refuses, and one that nobody      *)
(* calls for a window is free again (RATE_LIMIT_SCRIPT).                   *)
THEOREM WindowsAreFixedHolds == Rate!Spec => []WindowsAreFixed
<1>1. RateInv => WindowsAreFixed
  <2> SUFFICES ASSUME RateInv, NEW k \in Rate!Key
               PROVE  /\ passed[k][2 * Rate!Limit[k] + 1] = Rate!Past
                      /\ calls[k][1] = Rate!Past => attempts[k].count = 0
      BY DEF WindowsAreFixed, Rate!AdmittedPerWindow, Rate!SilenceResets
  <2>1. RateTyped(k) /\ Quiet(k) /\ Rate!Limit[k] \in Nat /\ Rate!Past \in Nat
        BY RateConfig DEF RateInv, KeyInv
  <2>2. PICK counted \in 0 .. Rate!Limit[k] : Counted(k, counted)
        BY DEF RateInv, KeyInv
  <2>3. 2 * Rate!Limit[k] + 1 \in 1 .. 2 * Rate!Limit[k] + 1
           /\ 2 * Rate!Limit[k] + 1 > counted + Rate!Limit[k]
        BY <2>1, <2>2
  <2>4. passed[k][2 * Rate!Limit[k] + 1] = Rate!Past
        BY <2>2, <2>3 DEF Counted
  <2>5. attempts[k].count \in Nat /\ attempts[k].left \in Nat
           /\ (attempts[k].count = 0 <=> attempts[k].left = 0)
        BY <2>1 DEF RateTyped
  <2>6. calls[k][1] = Rate!Past => attempts[k].count = 0
        BY <2>1, <2>5 DEF Quiet
  <2>7. QED
        BY <2>4, <2>6
<1>2. QED
    BY <1>1, RateInitInv, RateStep, PTL DEF Rate!Spec
=============================================================================
