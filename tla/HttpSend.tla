------------------------------ MODULE HttpSend ------------------------------
(***************************************************************************)
(* RequestBuilder::send of yang-base's HTTP client: the retry loop with    *)
(* its shared waiting budget, around the circuit breaker.  The breaker is  *)
(* consulted before the request is awaited and told the result after it,   *)
(* so between the two every other task may move the same host on.          *)
(*                                                                         *)
(* Waiting times are in units of a fraction of backoff_ms; sleeping takes  *)
(* any number of breaker seconds.                                          *)
(***************************************************************************)
EXTENDS Naturals

CONSTANTS
    Task, Host,
    FailureThreshold, SuccessThreshold, Cooldown, IdleTtl, MaxHosts, MaxLag,
    MaxRetries,         \* max_retries
    Backoff,            \* backoff_ms
    TotalBudget,        \* total_budget_ms
    JitterPercent       \* jitter_percent

(* RetryConfig::validate, retries enabled *)
ASSUME RetryAssumption ==
    /\ MaxRetries \in 0 .. 10
    /\ Backoff \in Nat \ {0}
    /\ TotalBudget \in Nat \ {0}
    /\ JitterPercent \in 0 .. 100

VARIABLES
    states,     \* the breaker's map
    up,         \* whether each upstream answers
    send        \* task -> the locals of its send()

sendVars == <<states, up, send>>

Breaker == INSTANCE CircuitBreaker

(* What became of a request: `bad' is a transport error or a 5xx, `again'  *)
(* a transport error or a status in retry_on.                              *)
Reply == [bad : BOOLEAN, again : BOOLEAN]
NoReply == [bad |-> FALSE, again |-> FALSE]

(* "retried": there is a RetryConfig and the method is idempotent or       *)
(* retry_non_idempotent is set; every other call is sent "once".           *)
Policy == {"retried", "once"}
Fresh(h, policy) ==
    [pc |-> "guard", host |-> h, policy |-> policy, attempt |-> 0,
     budget |-> TotalBudget, hits |-> 0, reply |-> NoReply]
Idle == [Fresh(CHOOSE h \in Host : TRUE, "once") EXCEPT !.pc = "idle"]

SendInit ==
    /\ Breaker!Init
    /\ up = [h \in Host |-> TRUE]
    /\ send = [t \in Task |-> Idle]

-----------------------------------------------------------------------------
Send(t, h, policy) ==
    /\ send[t].pc \in {"idle", "done"}
    /\ send' = [send EXCEPT ![t] = Fresh(h, policy)]
    /\ UNCHANGED <<states, up>>

(* send_guarded up to its await: an open host ends the call at once,       *)
(* otherwise the upstream gets the request in whatever condition it is.    *)
Guard(t, lag) ==
    LET h == send[t].host IN
    /\ send[t].pc = "guard"
    /\ \/ /\ Breaker!Reject(h, lag)
          /\ send' = [send EXCEPT ![t].pc = "done", ![t].reply = NoReply]
       \/ /\ Breaker!Allow(h, lag)
          /\ \E r \in Reply :
                /\ r.bad = ~up[h]
                /\ send' = [send EXCEPT ![t].pc = "sent", ![t].reply = r,
                                        ![t].hits = @ + 1]
    /\ UNCHANGED up

(* Variant of the next definition: POST and PATCH are retried like GET. *)
RetriesUngated(t) == MaxRetries

Retries(t) == IF send[t].policy = "retried" THEN MaxRetries ELSE 0

(* jittered_backoff: base plus or minus JitterPercent *)
Jittered(base) ==
    LET span == (base * JitterPercent) \div 100 IN base - span .. base + span

Smaller(a, b) == IF a <= b THEN a ELSE b

(* The waits the loop may choose after this attempt. *)
Sleeps(t) == {Smaller(d, send[t].budget) : d \in Jittered(Backoff * 2 ^ send[t].attempt)}

WantsRetry(t) == send[t].reply.again /\ send[t].attempt < Retries(t)

(* Variant of GoesOn: the loop's locals are renewed in every round. *)
GoesOnForever(t, sleep) ==
    send' = [send EXCEPT ![t].pc = "sleep", ![t].hits = 0]

GoesOn(t, sleep) ==
    send' = [send EXCEPT ![t].pc = "sleep", ![t].attempt = @ + 1,
                         ![t].budget = @ - sleep]

(* The await returns: the result is recorded with the breaker, then the    *)
(* loop returns it or chooses a wait; a wait of zero returns as well.      *)
Response(t, lag) ==
    LET h == send[t].host IN
    /\ send[t].pc = "sent"
    /\ IF send[t].reply.bad THEN Breaker!OnFailure(h, lag) ELSE Breaker!OnSuccess(h, lag)
    /\ \/ /\ ~WantsRetry(t) \/ 0 \in Sleeps(t)
          /\ send' = [send EXCEPT ![t].pc = "done"]
       \/ /\ WantsRetry(t)
          /\ \E sleep \in Sleeps(t) \ {0} : GoesOn(t, sleep)
    /\ UNCHANGED up

Wake(t) ==
    /\ send[t].pc = "sleep"
    /\ send' = [send EXCEPT ![t].pc = "guard"]
    /\ UNCHANGED <<states, up>>

(* The caller drops the future at an await: the breaker is told nothing. *)
Drop(t) ==
    /\ send[t].pc \in {"sent", "sleep"}
    /\ send' = [send EXCEPT ![t] = Idle]
    /\ UNCHANGED <<states, up>>

Flip(h) ==
    /\ up' = [up EXCEPT ![h] = ~@]
    /\ UNCHANGED <<states, send>>

BreakerTick == Breaker!Tick /\ UNCHANGED <<up, send>>

SendNext ==
    \/ BreakerTick
    \/ \E h \in Host : Flip(h)
    \/ \E t \in Task :
        \/ \E h \in Host, policy \in Policy : Send(t, h, policy)
        \/ \E lag \in Breaker!Lag : Guard(t, lag) \/ Response(t, lag)
        \/ Wake(t)
        \/ Drop(t)

(* The runtime schedules tasks, the clock advances, a request is answered  *)
(* or times out unless its caller gives up every time, and each task keeps *)
(* calling each host.                                                      *)
SendFairness ==
    /\ WF_sendVars(BreakerTick)
    /\ \A t \in Task :
        /\ WF_sendVars(\E lag \in Breaker!Lag : Guard(t, lag))
        /\ SF_sendVars(\E lag \in Breaker!Lag : Response(t, lag))
        /\ WF_sendVars(Wake(t))
        /\ \A h \in Host : SF_sendVars(\E policy \in Policy : Send(t, h, policy))

SendSpec == SendInit /\ [][SendNext]_sendVars /\ SendFairness

-----------------------------------------------------------------------------
Locals == [pc : {"idle", "guard", "sent", "sleep", "done"}, host : Host,
           policy : Policy, attempt : 0 .. MaxRetries, budget : 0 .. TotalBudget,
           hits : 0 .. MaxRetries + 1, reply : Reply]

(* Every call stays within its retries and its waiting budget. *)
SendTypeOK ==
    /\ Breaker!TypeOK
    /\ up \in [Host -> BOOLEAN]
    /\ send \in [Task -> Locals]

(* The upstream sees one call at most 1 + max_retries times, and a         *)
(* non-idempotent one that was not opted in at most once, whether the      *)
(* failure was a status or a broken connection.                            *)
HitsWithinPolicy ==
    \A t \in Task : send[t].hits <= IF send[t].policy = "retried" THEN MaxRetries + 1 ELSE 1

(* A call gives a retryable failure back only when its retries or its      *)
(* budget are used up (RetryConfig::total_budget_ms, send's comment).      *)
GivesUpOnlyWhenSpent ==
    \A t \in Task : (send[t].pc = "done" /\ send[t].reply.again)
        => send[t].attempt = Retries(t) \/ send[t].budget = 0

(* Every call returns, whatever the upstream and the other tasks do. *)
SendReturns == \A t \in Task : send[t].pc # "idle" ~> send[t].pc \in {"idle", "done"}

(* Once an upstream stays up, its host returns to closed for good: late    *)
(* failures, cancelled probes and half-open successes of other tasks       *)
(* cannot keep the breaker open (allow, on_success, on_failure).           *)
Heals == \A h \in Host : <>[]up[h] => <>[](h \notin DOMAIN states)
=============================================================================
