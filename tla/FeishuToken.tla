----------------------------- MODULE FeishuToken -----------------------------
(***************************************************************************)
(* yang-feishu's tenant_access_token: the shared cache, the short refresh  *)
(* lock, the waiting callers, and send_tenant's "clear, refresh once, send *)
(* again" when Feishu rejects the token.  All processes share one cache    *)
(* and one lock key (Redis or memory).  Feishu itself -- which token it    *)
(* grants, how long it accepts it -- is external.                          *)
(*                                                                         *)
(* Lifetimes are kept as seconds left, so time needs no bound.             *)
(***************************************************************************)
EXTENDS Naturals

CONSTANTS
    Caller,         \* concurrent calls
    LockTtl,        \* LOCK_TTL_SECONDS
    WaitAttempts,   \* LOCK_WAIT_ATTEMPTS
    Margin,         \* CACHE_TTL_MARGIN_SECONDS
    MaxIssue,       \* worst case of one token request, retries included
    CacheLatency,   \* longest round trip of a lock or cache command
    MaxSend,        \* longest time from holding a token to Feishu's verdict on it
    Expire, Renew,  \* Feishu: lifetime granted; below Renew a new token is made
    MaxTokens,      \* bound: tokens Feishu ever makes
    Faults          \* which of "cache", "lock", "issue", "revoke", "cancel" occur

ASSUME ConstantsAssumption ==
    /\ LockTtl \in Nat \ {0} /\ WaitAttempts \in Nat \ {0}
    /\ Margin \in Nat /\ MaxIssue \in Nat /\ CacheLatency \in Nat
    /\ MaxSend \in Nat
    /\ Expire \in Nat \ {0} /\ Renew \in Nat \ {0} /\ Renew <= Expire
    /\ MaxTokens \in Nat

VARIABLES
    life,       \* token -> seconds Feishu goes on accepting it
    made,       \* how many tokens Feishu has made; the last one is current
    revoked,    \* tokens Feishu withdrew before their time
    cache,      \* the cached token and its remaining TTL
    lock,       \* owner -> remaining TTL of the lock it holds (0: not held)
    call,       \* caller -> the locals of its send_tenant
    asked       \* token requests answered since the cache last became empty (up to 2),
                \* or Failed once something went wrong (history)

vars == <<life, made, revoked, cache, lock, call, asked>>

Token == 1 .. MaxTokens
NoToken == 0
Failed == 3
Empty == [tok |-> NoToken, left |-> 0]
New == [pc |-> "idle", mode |-> "plain", tok |-> NoToken, ttl |-> 0, age |-> 0,
        rounds |-> 0, rejected |-> NoToken]

Init ==
    /\ life = [t \in Token |-> 0]
    /\ made = 0
    /\ revoked = {}
    /\ cache = Empty
    /\ lock = [c \in Caller |-> 0]
    /\ call = [c \in Caller |-> New]
    /\ asked = 0

server == <<life, made, revoked>>

(* Locals that are not used any more are put back to their first values. *)
At(c, pc) == [New EXCEPT !.pc = pc, !.rejected = call[c].rejected]
Enter(c, pc) == call' = [call EXCEPT ![c] = At(c, pc)]
Issue(c, mode) == call' = [call EXCEPT ![c] = [At(c, "issue") EXCEPT !.mode = mode]]
SendWith(c, t) == call' = [call EXCEPT ![c] = [At(c, "send") EXCEPT !.tok = t]]
ReleaseWith(c, t) == call' = [call EXCEPT ![c] = [At(c, "release") EXCEPT !.tok = t]]
Return(c) == call' = [call EXCEPT ![c] = New]

(* read_cached: an error of the cache counts as a miss. *)
Hit == cache.left > 0
Miss == ~Hit \/ "cache" \in Faults
(* A miss although the cache holds a token is a fault. *)
FailedIfHit == asked' = IF Hit THEN Failed ELSE asked

Start(c) ==
    /\ call[c].pc = "idle"
    /\ Enter(c, "read")
    /\ UNCHANGED <<server, cache, lock, asked>>

-----------------------------------------------------------------------------
(* tenant_access_token *)
Read(c) ==
    /\ call[c].pc = "read"
    /\ \/ Hit /\ SendWith(c, cache.tok) /\ UNCHANGED asked
       \/ Miss /\ Enter(c, "lock") /\ FailedIfHit
    /\ UNCHANGED <<server, cache, lock>>

(* Variant of the next definition: SET EX without NX. *)
LockFreeAlways == TRUE

LockFree == \A c \in Caller : lock[c] = 0

Acquire(c) ==
    /\ call[c].pc = "lock"
    /\ IF LockFree
       THEN /\ lock' = [lock EXCEPT ![c] = LockTtl]
            /\ Enter(c, "recheck")
       ELSE /\ Enter(c, "wait")
            /\ UNCHANGED lock
    /\ UNCHANGED <<server, cache, asked>>

(* SET NX fails, perhaps after it was applied: ask Feishu, do not cache. *)
AcquireFails(c) ==
    /\ "lock" \in Faults
    /\ call[c].pc = "lock"
    /\ \/ UNCHANGED lock
       \/ LockFree /\ lock' = [lock EXCEPT ![c] = LockTtl]
    /\ Issue(c, "plain")
    /\ asked' = Failed
    /\ UNCHANGED <<server, cache>>

Poll(c) ==
    LET tried == call[c].rounds + 1 IN
    /\ call[c].pc = "poll"
    /\ \/ Hit /\ SendWith(c, cache.tok) /\ UNCHANGED asked
       \/ /\ Miss
          /\ IF tried = WaitAttempts
             THEN Issue(c, "plain") /\ asked' = Failed
             ELSE call' = [call EXCEPT ![c].pc = "wait", ![c].rounds = tried] /\ FailedIfHit
    /\ UNCHANGED <<server, cache, lock>>

(* Variant of Recheck: the holder does not look at the cache again. *)
RecheckNever(c) ==
    /\ call[c].pc = "recheck"
    /\ Issue(c, "locked")
    /\ UNCHANGED <<server, cache, lock, asked>>

Recheck(c) ==
    /\ call[c].pc = "recheck"
    /\ \/ Hit /\ ReleaseWith(c, cache.tok) /\ UNCHANGED asked
       \/ Miss /\ Issue(c, "locked") /\ FailedIfHit
    /\ UNCHANGED <<server, cache, lock>>

(* compare-and-delete *)
Unlocked(c) == [lock EXCEPT ![c] = 0]

Release(c) ==
    /\ call[c].pc = "release"
    /\ lock' = Unlocked(c) \/ ("lock" \in Faults /\ lock' = lock)
    /\ IF call[c].tok # NoToken THEN SendWith(c, call[c].tok) ELSE Return(c)
    /\ UNCHANGED <<server, cache, asked>>

-----------------------------------------------------------------------------
(* issue_and_cache: `?' ends the call; the holder still releases the lock. *)
Fail(c) == IF call[c].mode = "locked" THEN ReleaseWith(c, NoToken) ELSE Return(c)

(* Variant of the next definition: no safety margin. *)
CacheTtlWhole(expire) == expire

(* cache_ttl_seconds; 0 stands for its error *)
CacheTtl(expire) == IF expire <= Margin THEN 0 ELSE expire - Margin

(* Feishu returns the current token while Renew seconds of it are left. *)
CurrentLife == IF made = 0 THEN 0 ELSE life[made]

Granted(t, expire) ==
    \/ /\ CurrentLife >= Renew
       /\ t = made /\ expire = CurrentLife
       /\ UNCHANGED <<life, made>>
    \/ /\ CurrentLife < Renew
       /\ made < MaxTokens
       /\ t = made + 1 /\ expire = Expire
       /\ made' = made + 1
       /\ life' = [life EXCEPT ![made + 1] = Expire]

Answer(c) ==
    /\ call[c].pc = "issue"
    /\ \E t \in Token, expire \in 1 .. Expire :
        /\ Granted(t, expire)
        /\ IF call[c].mode = "plain"
           THEN SendWith(c, t)
           ELSE IF CacheTtl(expire) = 0
           THEN Fail(c)
           ELSE call' = [call EXCEPT ![c].pc = "put", ![c].tok = t, ![c].age = 0,
                                     ![c].ttl = CacheTtl(expire)]
    /\ asked' = IF asked < 2 THEN asked + 1 ELSE asked
    /\ UNCHANGED <<revoked, cache, lock>>

(* The request fails for good, or Feishu refuses to grant a token. *)
IssueFails(c) ==
    /\ "issue" \in Faults \/ (made = MaxTokens /\ CurrentLife < Renew)
    /\ call[c].pc = "issue"
    /\ Fail(c)
    /\ asked' = Failed
    /\ UNCHANGED <<server, cache, lock>>

(* The holder goes on to release; a forced refresh drops its token and     *)
(* send_tenant's loop reads the cache again.                               *)
Put(c) ==
    /\ call[c].pc = "put"
    /\ cache' = [tok |-> call[c].tok, left |-> call[c].ttl]
    /\ IF call[c].mode = "locked" THEN ReleaseWith(c, call[c].tok) ELSE Enter(c, "read")
    /\ UNCHANGED <<server, lock, asked>>

PutFails(c) ==
    /\ "cache" \in Faults
    /\ call[c].pc = "put"
    /\ cache' \in {cache, [tok |-> call[c].tok, left |-> call[c].ttl]}
    /\ Fail(c)
    /\ asked' = Failed
    /\ UNCHANGED <<server, lock>>

-----------------------------------------------------------------------------
(* send_tenant: accepted, rejected for the first time, or for good. *)
Accepted(c) ==
    /\ call[c].pc = "send"
    /\ life[call[c].tok] > 0
    /\ Return(c)
    /\ UNCHANGED <<server, cache, lock, asked>>

Rejected(c) ==
    /\ call[c].pc = "send"
    /\ life[call[c].tok] = 0
    /\ IF call[c].rejected = NoToken
       THEN call' = [call EXCEPT ![c].pc = "delete", ![c].rejected = call[c].tok]
       ELSE Return(c)
    /\ asked' = Failed
    /\ UNCHANGED <<server, cache, lock>>

(* invalidate_and_refresh: the deletion may fail and is not repeated. *)
Delete(c) ==
    /\ call[c].pc = "delete"
    /\ cache' = Empty \/ ("cache" \in Faults /\ cache' = cache)
    /\ Issue(c, "forced")
    /\ UNCHANGED <<server, lock, asked>>

(* The future is dropped at any await; a lock it holds stays until its TTL. *)
Cancel(c) ==
    /\ "cancel" \in Faults
    /\ call[c].pc # "idle"
    /\ Return(c)
    /\ asked' = Failed
    /\ UNCHANGED <<server, cache, lock>>

Revoke ==
    /\ "revoke" \in Faults
    /\ CurrentLife > 0
    /\ life' = [life EXCEPT ![made] = 0]
    /\ revoked' = revoked \cup {made}
    /\ asked' = Failed
    /\ UNCHANGED <<made, cache, lock, call>>

(* No step takes longer than it may, and a sleeper that is due runs first. *)
Timed(c) == call[c].pc \in {"lock", "recheck", "issue", "put", "release", "send"}
Limit(c) ==
    CASE call[c].pc = "issue" -> MaxIssue
      [] call[c].pc = "send" -> MaxSend
      [] OTHER -> CacheLatency

Less(n) == IF n > 0 THEN n - 1 ELSE 0

Tick ==
    /\ \A c \in Caller : Timed(c) => call[c].age < Limit(c)
    /\ \A c \in Caller : call[c].pc # "poll"
    /\ life' = [t \in Token |-> Less(life[t])]
    /\ cache' = IF cache.left > 1 THEN [cache EXCEPT !.left = @ - 1] ELSE Empty
    /\ asked' = IF cache.left = 1 /\ asked # Failed THEN 0 ELSE asked
    /\ lock' = [c \in Caller |-> Less(lock[c])]
    /\ call' = [c \in Caller |->
                  IF Timed(c) THEN [call[c] EXCEPT !.age = @ + 1]
                  ELSE IF call[c].pc = "wait" THEN [call[c] EXCEPT !.pc = "poll"]
                  ELSE call[c]]
    /\ UNCHANGED <<made, revoked>>

Step(c) ==
    \/ Read(c)
    \/ Acquire(c)
    \/ AcquireFails(c)
    \/ Poll(c)
    \/ Recheck(c)
    \/ Release(c)
    \/ Answer(c)
    \/ IssueFails(c)
    \/ Put(c)
    \/ PutFails(c)
    \/ Accepted(c)
    \/ Rejected(c)
    \/ Delete(c)

Next ==
    \/ Tick
    \/ Revoke
    \/ \E c \in Caller : Start(c) \/ Step(c) \/ Cancel(c)

Spec == Init /\ [][Next]_vars

-----------------------------------------------------------------------------
Pc == {"idle", "read", "lock", "wait", "poll", "recheck", "release", "issue", "put", "send", "delete"}
Call == [pc : Pc, mode : {"plain", "locked", "forced"}, tok : 0 .. MaxTokens,
         ttl : 0 .. Expire, age : Nat, rounds : 0 .. WaitAttempts - 1,
         rejected : 0 .. MaxTokens]

(* A token is only sent, stored or cached when there is one. *)
TypeOK ==
    /\ life \in [Token -> 0 .. Expire]
    /\ made \in 0 .. MaxTokens
    /\ revoked \subseteq Token
    /\ cache \in [tok : 0 .. MaxTokens, left : 0 .. Expire]
    /\ cache.left > 0 => cache.tok # NoToken
    /\ lock \in [Caller -> 0 .. LockTtl]
    /\ call \in [Caller -> Call]
    /\ \A c \in Caller : call[c].pc \in {"send", "put"} => call[c].tok # NoToken
    /\ asked \in 0 .. Failed

(* A cached token that Feishu has not withdrawn is accepted for longer     *)
(* than it stays cached, by the margin less the time the write took,       *)
(* whoever wrote it last and however late (cache_ttl_seconds).             *)
CachedIsUsable ==
    (cache.left > 0 /\ cache.tok \notin revoked)
        => life[cache.tok] + CacheLatency >= cache.left + Margin

Refreshing == {c \in Caller : call[c].mode = "locked" /\ call[c].pc \in {"issue", "put"}}

(* The lock's TTL outlasts the token request and its retries, so there is  *)
(* one refresh at a time even when a holder is cancelled                   *)
(* (TOKEN_RETRY.worst_case_seconds(..) < LOCK_TTL_SECONDS).                *)
OneRefresher == \A c, d \in Refreshing : c = d

(* Single flight: as long as nothing fails, no token is rejected and no    *)
(* waiter runs out of patience, Feishu is asked once per cached token.     *)
AskedOnce == asked # 2

(* "clear the cache, force a refresh, retry once": the retry does not go   *)
(* out with the token that was just rejected.                              *)
RetryHasNewToken ==
    \A c \in Caller : (call[c].pc = "send" /\ call[c].rejected # NoToken)
        => call[c].tok # call[c].rejected
=============================================================================
