--------------------------- MODULE CircuitBreaker ---------------------------
(***************************************************************************)
(* The per-host circuit breaker of yang-base's HTTP client.  `states' is   *)
(* the shared map: a host without an entry is closed with no failures.     *)
(* Instants are kept as ages (seconds since the entry was last written),   *)
(* so time needs no bound.  Every caller reads the clock before it takes   *)
(* the lock; `lag' is how old that reading is when the lock is taken.      *)
(***************************************************************************)
EXTENDS Naturals, FiniteSets, Functions

CONSTANTS
    Host,
    FailureThreshold,
    SuccessThreshold,
    Cooldown,           \* cooldown_secs
    IdleTtl,            \* host_idle_ttl_secs
    MaxHosts,           \* max_tracked_hosts
    MaxLag              \* bound: age of a clock reading when the lock is taken

(* CircuitBreakerConfig::validate *)
ASSUME ConfigAssumption ==
    /\ FailureThreshold \in Nat \ {0}
    /\ SuccessThreshold \in Nat \ {0}
    /\ Cooldown \in Nat \ {0}
    /\ MaxHosts \in Nat \ {0}
    /\ IdleTtl \in Nat /\ IdleTtl >= Cooldown
    /\ MaxLag \in Nat
    /\ IsFiniteSet(Host)

VARIABLE states

Tracked == DOMAIN states
Phase == {"closed", "open", "half"}
Lag == 0 .. MaxLag
Oldest == IdleTtl + MaxLag       \* older ages behave alike
Entry == [phase : Phase, count : Nat, age : 0 .. Oldest]

Is(h, phase) == h \in Tracked /\ states[h].phase = phase

(* Seconds from the entry's instant to a clock reading that is `lag' old; *)
(* duration_since saturates at zero.                                       *)
Elapsed(h, lag) == IF states[h].age >= lag THEN states[h].age - lag ELSE 0

Put(map, h, phase, count, lag) ==
    [k \in DOMAIN map \cup {h} |->
        IF k = h THEN [phase |-> phase, count |-> count, age |-> lag] ELSE map[k]]
Remove(map, h) == Restrict(map, DOMAIN map \ {h})

-----------------------------------------------------------------------------
(* allow_at *)
Cooled(h, lag) == Elapsed(h, lag) >= Cooldown
Admits(h, lag) == Is(h, "open") => Cooled(h, lag)

Allow(h, lag) ==
    /\ Admits(h, lag)
    /\ states' = IF Is(h, "open") THEN Put(states, h, "half", 0, lag) ELSE states

Reject(h, lag) ==
    /\ ~Admits(h, lag)
    /\ UNCHANGED states

(* Variant of OnSuccess: a half-open host never closes again. *)
OnSuccessHalfStuck(h, lag) ==
    states' = IF Is(h, "closed") THEN Remove(states, h) ELSE states

OnSuccess(h, lag) ==
    \/ /\ Is(h, "closed")
       /\ states' = Remove(states, h)
    \/ /\ Is(h, "half")
       /\ states' = IF states[h].count + 1 >= SuccessThreshold
                    THEN Remove(states, h)
                    ELSE Put(states, h, "half", states[h].count + 1, lag)
    \/ /\ ~Is(h, "closed") /\ ~Is(h, "half")
       /\ UNCHANGED states

(* make_room: first every entry idle for IdleTtl goes; then, at capacity,  *)
(* the least (open?, last_seen) entries, ties in HashMap order.            *)
Fresh(lag) == {h \in Tracked : Elapsed(h, lag) < IdleTtl}

EvictedBefore(v, k) ==
    \/ states[v].phase # "open" /\ states[k].phase = "open"
    \/ /\ (states[v].phase = "open") = (states[k].phase = "open")
       /\ states[v].age >= states[k].age

(* Variant of the next definition: the oldest entry goes, open or not. *)
SurvivorsByAge(lag) ==
    IF Cardinality(Fresh(lag)) < MaxHosts THEN {Fresh(lag)}
    ELSE {S \in SUBSET Fresh(lag) :
            /\ Cardinality(S) = MaxHosts - 1
            /\ \A v \in Fresh(lag) \ S, k \in S : states[v].age >= states[k].age}

Survivors(lag) ==
    IF Cardinality(Fresh(lag)) < MaxHosts THEN {Fresh(lag)}
    ELSE {S \in SUBSET Fresh(lag) :
            /\ Cardinality(S) = MaxHosts - 1
            /\ \A v \in Fresh(lag) \ S, k \in S : EvictedBefore(v, k)}

CountFailure(map, h, failures, lag) ==
    IF failures >= FailureThreshold THEN Put(map, h, "open", 0, lag)
                                    ELSE Put(map, h, "closed", failures, lag)

(* on_failure_at: make room only for a host not tracked yet; a failed      *)
(* probe reopens; a failure while open restarts the cooldown.              *)
OnFailure(h, lag) ==
    \/ /\ h \notin Tracked
       /\ \E S \in Survivors(lag) :
            states' = CountFailure(Restrict(states, S), h, 1, lag)
    \/ /\ Is(h, "closed")
       /\ states' = CountFailure(states, h, states[h].count + 1, lag)
    \/ /\ Is(h, "half") \/ Is(h, "open")
       /\ states' = Put(states, h, "open", 0, lag)

Tick ==
    states' = [h \in Tracked |->
        [states[h] EXCEPT !.age = IF @ < Oldest THEN @ + 1 ELSE @]]

-----------------------------------------------------------------------------
(* The breaker under any use: admissions and results in any order, so a    *)
(* result may belong to a request admitted in an earlier phase.            *)
Init == states = << >>

Next ==
    \/ Tick
    \/ \E h \in Host, lag \in Lag :
        \/ Allow(h, lag)
        \/ Reject(h, lag)
        \/ OnSuccess(h, lag)
        \/ OnFailure(h, lag)

Spec == Init /\ [][Next]_states

-----------------------------------------------------------------------------
(* Entries are well formed and no counter reaches the threshold that would *)
(* have moved the host to its next phase.                                  *)
TypeOK ==
    /\ Tracked \subseteq Host
    /\ \A h \in Tracked : states[h] \in Entry
    /\ \A h \in Tracked :
        /\ states[h].phase = "closed" => states[h].count \in 1 .. FailureThreshold - 1
        /\ states[h].phase = "half" => states[h].count < SuccessThreshold

(* The map never outgrows max_tracked_hosts, however many hosts fail.      *)
Bounded == Cardinality(Tracked) <= MaxHosts

(* An open host is not forgotten before its cooldown has passed, unless    *)
(* the map is full and every entry in it is open (make_room, (a) and (b)). *)
NoEarlyForget ==
    [][\A h \in Tracked :
        (states[h].phase = "open" /\ states[h].age < Cooldown /\ h \notin Tracked')
        => /\ Cardinality(Tracked) >= MaxHosts
           /\ \A k \in Tracked : states[k].phase = "open"]_states

(* An open host lets requests through again only after its cooldown, and   *)
(* is forgotten by success only as a half-open one: between an opening and *)
(* the return to closed there is always a probing phase.                   *)
ProbeBeforeClose ==
    [][\A h \in Tracked \cap Tracked' : states[h].phase = "open"
        => states'[h].phase = "open" \/ (states'[h].phase = "half" /\ states[h].age >= Cooldown)]_states
=============================================================================
