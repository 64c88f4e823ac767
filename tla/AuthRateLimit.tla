---------------------------- MODULE AuthRateLimit ----------------------------
(***************************************************************************)
(* AuthRateLimiter: every attempt counts on two keys, its source IP and    *)
(* its identity.  check() and record_failure() run the same script on two  *)
(* disjoint families of keys; the module is one family.  Only the failure  *)
(* family is ever cleared, after a successful sign-in.                     *)
(***************************************************************************)
EXTENDS Naturals, FiniteSets

CONSTANTS
    Ip, Identity,
    IpAttempts, UsernameAttempts,   \* AuthRateLimitConfig
    Window, Unit

RateAssumption ==
    /\ IpAttempts \in Nat /\ UsernameAttempts \in Nat
    /\ Window \in Nat \ {0} /\ Unit \in Nat \ {0}
    /\ Ip \cap Identity = {}

VARIABLES
    attempts,   \* key -> its counter
    calls,      \* key -> ages of its last Limit + 1 calls, newest first (history)
    passed      \* key -> ages of its last 2 * Limit + 1 admitted calls since it
                \* was cleared, newest first (history)

vars == <<attempts, calls, passed>>

Key == Ip \cup Identity
Limit == [k \in Key |-> IF k \in Ip THEN IpAttempts ELSE UsernameAttempts]
Counters == INSTANCE FixedWindow WITH counter <- attempts

Caller == Ip \X Identity
KeysOf(c) == {c[1], c[2]}

(* The age of a call that was a window ago or more, or never made. *)
Past == Window * Unit
NoCalls(k, n) == [i \in 1 .. n * Limit[k] + 1 |-> Past]

Init ==
    /\ Counters!Start
    /\ calls = [k \in Key |-> NoCalls(k, 1)]
    /\ passed = [k \in Key |-> NoCalls(k, 2)]

Record(log, c) ==
    [k \in Key |->
        IF k \in KeysOf(c)
        THEN [i \in DOMAIN log[k] |-> IF i = 1 THEN 0 ELSE log[k][i - 1]]
        ELSE log[k]]

Admits(c) == Counters!Over(KeysOf(c)) = {}

(* check / record_failure: every key counts, also for a refused call. *)
Attempt(c) ==
    /\ Counters!CountOn(KeysOf(c))
    /\ calls' = Record(calls, c)
    /\ passed' = IF Admits(c) THEN Record(passed, c) ELSE passed

(* clear_failures *)
Clear(c) ==
    /\ Counters!Delete(KeysOf(c))
    /\ passed' = [k \in Key |-> IF k \in KeysOf(c) THEN NoCalls(k, 2) ELSE passed[k]]
    /\ UNCHANGED calls

Older(log) ==
    [k \in Key |-> [i \in DOMAIN log[k] |-> IF log[k][i] < Past THEN log[k][i] + 1 ELSE Past]]

Tick ==
    /\ Counters!Elapse
    /\ calls' = Older(calls)
    /\ passed' = Older(passed)

Next ==
    \/ Tick
    \/ \E c \in Caller : Attempt(c) \/ Clear(c)

Spec == Init /\ [][Next]_vars

-----------------------------------------------------------------------------
(* Every counter has a value and an expiry. *)
TypeOK ==
    /\ Counters!Expiring
    /\ \A k \in Key : /\ calls[k] \in [1 .. Limit[k] + 1 -> 0 .. Past]
                      /\ passed[k] \in [1 .. 2 * Limit[k] + 1 -> 0 .. Past]

(* In any stretch of one window without a clearing a key admits at most    *)
(* twice its limit (the end of one window and the start of the next),      *)
(* whatever is refused on the other key meanwhile.                         *)
AdmittedPerWindow == \A k \in Key : passed[k][2 * Limit[k] + 1] = Past

(* A key that nobody calls for a whole window has forgotten everything:    *)
(* a refusal is never for good.                                            *)
SilenceResets == \A k \in Key : calls[k][1] = Past => attempts[k].count = 0

(* A caller is refused only if one of its keys has had more than its limit *)
(* of calls within the last window (AuthRateLimitConfig's fields).         *)
RefusedOnlyWhenBusy ==
    [][\A c \in Caller : (Attempt(c) /\ ~Admits(c))
        => \E k \in KeysOf(c) : Limit[k] = 0 \/ calls[k][Limit[k]] < Past]_vars
=============================================================================
