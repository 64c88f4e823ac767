----------------------------- MODULE FeishuCall -----------------------------
(***************************************************************************)
(* One call of yang-feishu to the open platform: send_tenant or send_raw   *)
(* around send_with_retry.  A request that was given up may still be on    *)
(* its way: Feishu handles it late, or twice with its repetition, and      *)
(* replies that nobody waits for are lost.                                 *)
(*                                                                         *)
(* Times are in ticks, Second of them to a second; waits are what          *)
(* backoff_ms makes of the attempt and of Feishu's advice.                 *)
(***************************************************************************)
EXTENDS Naturals, FiniteSets

CONSTANTS
    Request,        \* calls, each made once
    Second,         \* ticks in a second
    MaxAttempts, BaseBackoff, MaxBackoff, MaxRetryAfter,    \* RetryPolicy
    Timeout,        \* timeout_secs of the request
    Advice,         \* the seconds Feishu may advise to wait
    NoAdvice        \* a reply without advice

(* What the four policies of transport/mod.rs satisfy: the exponential     *)
(* waits stay below the cap on advised ones, which is in whole seconds.    *)
(* send_raw and send_tenant also take a policy of the caller's, which may  *)
(* not, and then worst_case_seconds is no bound.                           *)
PolicyAssumption ==
    /\ Second \in Nat \ {0} /\ MaxAttempts \in Nat \ {0}
    /\ BaseBackoff \in Nat /\ MaxBackoff \in Nat /\ MaxRetryAfter \in Nat
    /\ MaxRetryAfter % Second = 0 /\ MaxBackoff <= MaxRetryAfter
    /\ Timeout \in Nat \ {0} /\ Advice \subseteq Nat

VARIABLES
    call,           \* request -> the locals of its send_tenant
    copies,         \* what is on its way to Feishu: {<<request, number>>}
    effects         \* request -> how often Feishu carried it out

vars == <<call, copies, effects>>

(* With the tenant's token or without (send_raw, the token requests), and  *)
(* `idempotent' as the wrapper of the endpoint sets it.                    *)
Kinds == [raw : BOOLEAN, idempotent : BOOLEAN]

(* Replies, by status and business code; "lost" stands for a time-out or a *)
(* broken connection.                                                      *)
Status == {"2xx", "429", "5xx", "4xx"}
Code == {"none", "0", "expired", "malformed", "busy", "conflict", "not_found", "other"}
Lost == [status |-> "lost", code |-> "none", advice |-> NoAdvice]
Replies ==
    {r \in [status : Status, code : Code, advice : Advice \cup {NoAdvice}] :
        r.advice # NoAdvice => r.status = "429" \/ r.code = "busy"}

-----------------------------------------------------------------------------
(* transport_error and classify *)
ClassifyByCode(r) ==
    CASE r.code = "0" /\ r.status = "2xx" -> "success"
      [] r.code = "expired" -> "token_expired"
      [] r.code = "busy" -> "retry"
      [] r.code = "conflict" -> "uuid_conflict"
      [] r.code = "not_found" -> "instance_not_found"
      [] r.code = "other" /\ r.status = "5xx" -> "retry"
      [] OTHER -> "fatal"

Classify(r) ==
    IF r.status \in {"429", "lost"} THEN "retry"
    ELSE IF r.code \notin {"none", "0"} THEN ClassifyByCode(r)
    ELSE CASE r.status = "2xx" -> "success"
           [] r.status = "5xx" -> "retry"
           [] OTHER -> "fatal"

Smaller(a, b) == IF a <= b THEN a ELSE b
Larger(a, b) == IF a <= b THEN b ELSE a

(* Variant of BackoffMs: the wait Feishu advises is taken as it is. *)
BackoffUncapped(attempt, advice) ==
    IF advice # NoAdvice THEN advice * Second
    ELSE Smaller(BaseBackoff * 2 ^ (attempt - 1), MaxBackoff)

BackoffMs(attempt, advice) ==
    IF advice # NoAdvice
    THEN Smaller(Smaller(advice * Second, MaxRetryAfter), Larger(MaxBackoff, MaxRetryAfter))
    ELSE Smaller(BaseBackoff * 2 ^ (attempt - 1), MaxBackoff)

(* classify passes on the advice only with a 429 or a busy code. *)
AdviceOf(r) == IF r.status = "429" \/ r.code # "none" THEN r.advice ELSE NoAdvice

WorstCaseSeconds ==
    Timeout * MaxAttempts + (MaxRetryAfter \div Second) * (MaxAttempts - 1)

-----------------------------------------------------------------------------
Idle == [pc |-> "idle", kind |-> CHOOSE k \in Kinds : TRUE, attempt |-> 0, sent |-> 0,
         refreshed |-> FALSE, spent |-> 0, reply |-> Lost, outcome |-> "none"]

Init ==
    /\ call = [c \in Request |-> Idle]
    /\ copies = {}
    /\ effects = [c \in Request |-> 0]

feishu == <<copies, effects>>
Goto(c, pc) == call' = [call EXCEPT ![c].pc = pc]
Return(c, outcome) ==
    call' = [call EXCEPT ![c].pc = "done", ![c].outcome = outcome, ![c].reply = Lost]

Begin(c, kind) ==
    /\ call[c].pc = "idle"
    /\ call' = [call EXCEPT ![c].pc = IF kind.raw THEN "send" ELSE "token", ![c].kind = kind]
    /\ UNCHANGED feishu

(* tenant_access_token().await? *)
GetToken(c) ==
    /\ call[c].pc = "token"
    /\ Goto(c, "send") \/ Return(c, "failed")
    /\ UNCHANGED feishu

Send(c) ==
    /\ call[c].pc = "send"
    /\ call' = [call EXCEPT ![c].pc = "await", ![c].attempt = @ + 1, ![c].sent = @ + 1]
    /\ copies' = copies \cup {<<c, call[c].sent + 1>>}
    /\ UNCHANGED effects

(* Feishu: what it may answer, and whether it carried the request out.     *)
(* Throttling, 4xx and business codes are refusals, a uuid conflict the    *)
(* answer to a repetition; a 5xx says nothing of what was done.            *)
MayAnswer(c, r, done) ==
    /\ r.status = "2xx" /\ r.code \in {"0", "none"} => done
    /\ r.code = "conflict" => effects[c] > 0
    /\ done => /\ r.status \in {"2xx", "5xx"}
               /\ r.code \in {"0", "none"} \/ (r.status = "5xx" /\ r.code = "other")

CarriedOut(c, n, done) ==
    /\ <<c, n>> \in copies
    /\ copies' = copies \ {<<c, n>>}
    /\ effects' = [effects EXCEPT ![c] = IF done THEN @ + 1 ELSE @]

(* The reply finds the caller waiting for this copy ... *)
Handle(c, r, time) ==
    /\ call[c].pc = "await"
    /\ \E done \in BOOLEAN : MayAnswer(c, r, done) /\ CarriedOut(c, call[c].sent, done)
    /\ call' = [call EXCEPT ![c].pc = "answer", ![c].reply = r, ![c].spent = @ + time]

(* ... or nobody. *)
HandleLate(c, n) ==
    /\ call[c].pc # "await" \/ n # call[c].sent
    /\ \E done \in BOOLEAN : CarriedOut(c, n, done)
    /\ UNCHANGED call

(* The connection breaks or the request times out; the copy may go on. *)
GiveUpWaiting(c) ==
    /\ call[c].pc = "await"
    /\ call' = [call EXCEPT ![c].pc = "answer", ![c].reply = Lost,
                            ![c].spent = @ + Timeout * Second]
    /\ UNCHANGED effects
    /\ copies' \in {copies, copies \ {<<c, call[c].sent>>}}

(* Variant of Resends: the flag is not asked for. *)
ResendsAny(c) == Classify(call[c].reply) = "retry" /\ call[c].attempt < MaxAttempts

(* disposition: RetryAfter(..) *)
Resends(c) ==
    /\ Classify(call[c].reply) = "retry"
    /\ call[c].kind.idempotent /\ call[c].attempt < MaxAttempts

MayRefresh(c) ==
    /\ Classify(call[c].reply) = "token_expired"
    /\ ~call[c].kind.raw /\ ~call[c].refreshed

Outcome(c) ==
    CASE Classify(call[c].reply) = "success" -> "ok"
      [] Classify(call[c].reply) = "uuid_conflict" -> "conflict"
      [] OTHER -> "failed"

Answer(c) ==
    /\ call[c].pc = "answer"
    /\ \/ /\ Resends(c)
          /\ call' = [call EXCEPT ![c].pc = "send", ![c].reply = Lost,
                        ![c].spent = @ + BackoffMs(call[c].attempt, AdviceOf(call[c].reply))]
       \/ /\ MayRefresh(c)
          /\ Goto(c, "refresh")
       \/ /\ ~Resends(c) /\ ~MayRefresh(c)
          /\ Return(c, Outcome(c))
    /\ UNCHANGED feishu

(* Variant of Refresh: it is not remembered that a token was renewed. *)
RefreshForgets(c) ==
    /\ call[c].pc = "refresh"
    /\ \/ call' = [call EXCEPT ![c].pc = "token", ![c].attempt = 0, ![c].spent = 0,
                               ![c].reply = Lost, ![c].sent = 0]
       \/ Return(c, "failed")
    /\ UNCHANGED feishu

(* invalidate_and_refresh, then the loop of send_tenant once more. *)
Refresh(c) ==
    /\ call[c].pc = "refresh"
    /\ \/ call' = [call EXCEPT ![c].pc = "token", ![c].refreshed = TRUE, ![c].attempt = 0,
                               ![c].spent = 0, ![c].reply = Lost]
       \/ Return(c, "failed")
    /\ UNCHANGED feishu

(* The caller drops the future. *)
Cancel(c) ==
    /\ call[c].pc \notin {"idle", "done"}
    /\ Return(c, "dropped")
    /\ UNCHANGED feishu

Step(c) == GetToken(c) \/ Send(c) \/ GiveUpWaiting(c) \/ Answer(c) \/ Refresh(c)

Next ==
    \/ \E c \in Request :
          \/ Step(c) \/ Cancel(c)
          \/ \E kind \in Kinds : Begin(c, kind)
    \/ \E c \in Request, r \in Replies, time \in {0, Timeout * Second} : Handle(c, r, time)
    \/ \E x \in copies : HandleLate(x[1], x[2])

(* Every request carries a time-out, sleeps end, token requests end. *)
Spec == Init /\ [][Next]_vars /\ \A c \in Request : WF_vars(Step(c))

-----------------------------------------------------------------------------
TypeOK ==
    /\ effects \in [Request -> Nat]
    /\ \A x \in copies : x[1] \in Request /\ x[2] <= call[x[1]].sent

(* A request that is not idempotent takes effect at most once, whatever    *)
(* was lost, late or sent again after a rejected token (Request::          *)
(* idempotent, send_tenant).                                               *)
ExecutedOnce == \A c \in Request : ~call[c].kind.idempotent => effects[c] <= 1

(* One round of attempts takes at most worst_case_seconds, which is what   *)
(* the lifetime of the token lock rests on (TOKEN_RETRY).                  *)
WithinWorstCase == \A c \in Request : call[c].spent <= WorstCaseSeconds * Second

(* Every call returns, however often Feishu throttles it or rejects its    *)
(* token, and though no reply comes back.                                  *)
CallReturns == \A c \in Request : call[c].pc # "idle" ~> call[c].pc = "done"
=============================================================================
