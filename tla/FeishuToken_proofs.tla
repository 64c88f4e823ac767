------------------------- MODULE FeishuToken_proofs -------------------------
(***************************************************************************)
(* Proofs about FeishuToken and FeishuCall, for any number of callers,     *)
(* tokens and calls and any lifetimes and retry policy.                    *)
(*                                                                         *)
(* FeishuToken: the variables keep their types, and a cached token is      *)
(* usable for longer than it stays cached.  When the lock's TTL covers the *)
(* token request and two cache round trips there is one refresher, and     *)
(* while nothing fails Feishu is asked once per cached token.              *)
(*                                                                         *)
(* FeishuCall: a request that must not be repeated takes effect at most    *)
(* once, and a round of attempts stays within worst_case_seconds.          *)
(***************************************************************************)
EXTENDS FeishuClient, FiniteSetTheorems, TLAPS

USE DEF NoToken, Token, Failed

(* The lock outlasts what its holder does with it (LOCK_TTL_SECONDS' doc). *)
Covered == MaxIssue + 2 * CacheLatency < LockTtl

(* A timed step has not overrun. *)
InTime(c) == Timed(c) => call[c].age <= Limit(c)

(* What is left of the lock, whoever holds it, covers what its holder has  *)
(* still to do; nobody else holds it.                                      *)
HolderCovered(c) ==
    /\ call[c].pc = "recheck" => lock[c] + call[c].age >= LockTtl
    /\ (call[c].pc = "issue" /\ call[c].mode = "locked")
          => lock[c] + call[c].age + CacheLatency >= LockTtl
    /\ (call[c].pc = "put" /\ call[c].mode = "locked")
          => lock[c] + call[c].age + MaxIssue + CacheLatency >= LockTtl
LockUnique == \A c, d \in Caller : (lock[c] > 0 /\ lock[d] > 0) => c = d

(* A token on its way to the cache has aged no more than the write took.   *)
PendingIsUsable(c) ==
    (call[c].pc = "put" /\ call[c].tok \notin revoked)
        => life[call[c].tok] + call[c].age >= call[c].ttl + Margin

IInv ==
    /\ TypeOK
    /\ LockUnique
    /\ CachedIsUsable
    /\ \A c \in Caller : InTime(c) /\ HolderCovered(c) /\ PendingIsUsable(c)

-----------------------------------------------------------------------------
LEMMA Initial == Init => IInv
<1> USE ConstantsAssumption
<1> SUFFICES ASSUME Init PROVE IInv
    OBVIOUS
<1>0. New.pc = "idle"
    BY DEF New
<1>1. \A c \in Caller : call[c] = New
    BY DEF Init
<1>2. New \in Call
    BY DEF New, Call, Pc
<1>3. TypeOK
  <2>1. life \in [Token -> 0 .. Expire] /\ lock \in [Caller -> 0 .. LockTtl]
        BY DEF Init
  <2>2. call \in [Caller -> Call]
        BY <1>1, <1>2 DEF Init
  <2>3. cache = [tok |-> 0, left |-> 0]
        BY DEF Init, Empty
  <2>4. \A c \in Caller : call[c].pc \notin {"send", "put"}
        BY <1>1, <1>0
  <2>5. made \in 0 .. MaxTokens /\ revoked \subseteq Token /\ asked \in 0 .. Failed
        BY DEF Init
  <2>6. QED BY <2>1, <2>2, <2>3, <2>4, <2>5 DEF TypeOK
<1>4. LockUnique /\ CachedIsUsable
    BY DEF Init, LockUnique, CachedIsUsable, Empty
<1>5. \A c \in Caller : InTime(c) /\ HolderCovered(c) /\ PendingIsUsable(c)
  <2>1. \A c \in Caller : call[c].pc = "idle"
        BY <1>1, <1>0
  <2>2. QED BY <2>1 DEF InTime, HolderCovered, PendingIsUsable, Timed
<1>6. QED BY <1>3, <1>4, <1>5 DEF IInv

-----------------------------------------------------------------------------
(* What the helpers of the actions leave in the caller's record. *)
Frame(c) ==
    /\ call' \in [Caller -> Call]
    /\ \A d \in Caller \ {c} : call'[d] = call[d]
Fields(c, pc, mode, tok) ==
    /\ call'[c].pc = pc /\ call'[c].mode = mode /\ call'[c].tok = tok /\ call'[c].age = 0

LEMMA AtTyped ==
    ASSUME TypeOK, NEW c \in Caller, NEW pc \in Pc
    PROVE  /\ At(c, pc) \in Call
           /\ At(c, pc).pc = pc /\ At(c, pc).age = 0
           /\ At(c, pc).tok = NoToken /\ At(c, pc).mode = "plain"
<1> USE ConstantsAssumption
<1>1. call[c] \in Call
    BY DEF TypeOK
<1>2. call[c].rejected \in 0 .. MaxTokens
    BY <1>1 DEF Call
<1>3. New \in Call /\ New.age = 0 /\ New.tok = 0 /\ New.mode = "plain"
    BY DEF New, Call, Pc
<1>4. At(c, pc) \in Call
    BY <1>2, <1>3 DEF At, Call
<1>5. QED BY <1>3, <1>4 DEF At, Call

LEMMA EnterMoves ==
    ASSUME TypeOK, NEW c \in Caller, NEW pc \in Pc, Enter(c, pc)
    PROVE  Frame(c) /\ Fields(c, pc, "plain", NoToken)
BY AtTyped DEF TypeOK, Enter, Frame, Fields

LEMMA IssueMoves ==
    ASSUME TypeOK, NEW c \in Caller, NEW m \in {"plain", "locked", "forced"}, Issue(c, m)
    PROVE  Frame(c) /\ Fields(c, "issue", m, NoToken)
<1> DEFINE r == [At(c, "issue") EXCEPT !.mode = m]
<1>1. r \in Call /\ r.pc = "issue" /\ r.mode = m /\ r.tok = NoToken /\ r.age = 0
    BY AtTyped DEF Call, Pc
<1>2. call' = [call EXCEPT ![c] = r]
    BY DEF Issue
<1> HIDE DEF r
<1>3. QED BY <1>1, <1>2 DEF TypeOK, Frame, Fields

LEMMA SendMoves ==
    ASSUME TypeOK, NEW c \in Caller, NEW t \in 0 .. MaxTokens, SendWith(c, t)
    PROVE  Frame(c) /\ Fields(c, "send", "plain", t)
<1> DEFINE r == [At(c, "send") EXCEPT !.tok = t]
<1>1. r \in Call /\ r.pc = "send" /\ r.mode = "plain" /\ r.tok = t /\ r.age = 0
    BY AtTyped DEF Call, Pc
<1>2. call' = [call EXCEPT ![c] = r]
    BY DEF SendWith
<1> HIDE DEF r
<1>3. QED BY <1>1, <1>2 DEF TypeOK, Frame, Fields

LEMMA ReleaseMoves ==
    ASSUME TypeOK, NEW c \in Caller, NEW t \in 0 .. MaxTokens, ReleaseWith(c, t)
    PROVE  Frame(c) /\ Fields(c, "release", "plain", t)
<1> DEFINE r == [At(c, "release") EXCEPT !.tok = t]
<1>1. r \in Call /\ r.pc = "release" /\ r.mode = "plain" /\ r.tok = t /\ r.age = 0
    BY AtTyped DEF Call, Pc
<1>2. call' = [call EXCEPT ![c] = r]
    BY DEF ReleaseWith
<1> HIDE DEF r
<1>3. QED BY <1>1, <1>2 DEF TypeOK, Frame, Fields

LEMMA ReturnMoves ==
    ASSUME TypeOK, NEW c \in Caller, Return(c)
    PROVE  Frame(c) /\ Fields(c, "idle", "plain", NoToken)
<1>1. New \in Call /\ New.pc = "idle" /\ New.mode = "plain" /\ New.tok = NoToken /\ New.age = 0
    BY ConstantsAssumption DEF New, Call, Pc
<1>2. QED BY <1>1 DEF TypeOK, Frame, Fields, Return

LEMMA FailMoves ==
    ASSUME TypeOK, NEW c \in Caller, Fail(c)
    PROVE  Frame(c) /\ \E pc \in {"release", "idle"} : Fields(c, pc, "plain", NoToken)
BY ReleaseMoves, ReturnMoves, ConstantsAssumption DEF Fail

-----------------------------------------------------------------------------
(* A step of one caller disturbs the others only through shared state.     *)
SharedTyped ==
    /\ life \in [Token -> 0 .. Expire] /\ made \in 0 .. MaxTokens /\ revoked \subseteq Token
    /\ cache \in [tok : 0 .. MaxTokens, left : 0 .. Expire]
    /\ cache.left > 0 => cache.tok # NoToken
    /\ lock \in [Caller -> 0 .. LockTtl]
    /\ asked \in 0 .. Failed
OwnFacts(c) ==
    /\ call[c].pc \in {"send", "put"} => call[c].tok # NoToken
    /\ InTime(c) /\ HolderCovered(c) /\ PendingIsUsable(c)

LEMMA InvSplit == IInv <=> /\ SharedTyped /\ call \in [Caller -> Call]
                           /\ LockUnique /\ CachedIsUsable
                           /\ \A c \in Caller : OwnFacts(c)
BY DEF IInv, TypeOK, SharedTyped, OwnFacts

LEMMA FrameStep ==
    ASSUME IInv, NEW c \in Caller, Frame(c), SharedTyped', LockUnique', CachedIsUsable',
           revoked' = revoked, \A t \in Token : life'[t] >= life[t],
           \A d \in Caller \ {c} : lock'[d] = lock[d],
           OwnFacts(c)'
    PROVE  IInv'
<1> USE ConstantsAssumption
<1>1. \A d \in Caller \ {c} : OwnFacts(d)'
  <2> SUFFICES ASSUME NEW d \in Caller, d # c PROVE OwnFacts(d)'
      OBVIOUS
  <2>1. call'[d] = call[d] /\ lock'[d] = lock[d] /\ OwnFacts(d)
        BY InvSplit DEF Frame
  <2>2. InTime(d)' /\ HolderCovered(d)'
    <3>1. Limit(d)' = Limit(d) /\ (Timed(d)' <=> Timed(d))
          BY <2>1 DEF Limit, Timed
    <3>2. InTime(d)'
          BY <2>1, <3>1 DEF OwnFacts, InTime
    <3>3. HolderCovered(d)'
          BY <2>1 DEF OwnFacts, HolderCovered
    <3>4. QED BY <3>2, <3>3
  <2>3. PendingIsUsable(d)'
    <3> SUFFICES ASSUME call[d].pc = "put", call[d].tok \notin revoked
                 PROVE  life'[call[d].tok] + call[d].age >= call[d].ttl + Margin
        BY <2>1 DEF PendingIsUsable
    <3>1. call[d] \in Call
          BY InvSplit
    <3>2. call[d].tok \in Token /\ call[d].age \in Nat /\ call[d].ttl \in Nat
          BY <2>1, <3>1 DEF Call, OwnFacts
    <3>3. life[call[d].tok] + call[d].age >= call[d].ttl + Margin
          BY <2>1 DEF OwnFacts, PendingIsUsable
    <3>4. life[call[d].tok] \in Nat /\ life'[call[d].tok] \in Nat
          BY <3>2, InvSplit DEF SharedTyped
    <3>5. life'[call[d].tok] >= life[call[d].tok]
          BY <3>2
    <3>6. QED BY <3>2, <3>3, <3>4, <3>5
  <2>4. QED BY <2>1, <2>2, <2>3 DEF OwnFacts
<1>2. call' \in [Caller -> Call]
    BY DEF Frame
<1>3. QED BY <1>1, <1>2 DEF IInv, TypeOK, SharedTyped, OwnFacts

LEMMA LimitIsNat == \A c \in Caller : Limit(c) \in Nat
BY ConstantsAssumption DEF Limit

(* A move to a place where nothing is held, with the server untouched. *)
LEMMA PlainMove ==
    ASSUME IInv, NEW c \in Caller, Frame(c), NEW pc, NEW mode, NEW tok,
           Fields(c, pc, mode, tok),
           pc \notin {"recheck", "put"}, ~(pc = "issue" /\ mode = "locked"),
           pc = "send" => tok # NoToken,
           UNCHANGED server,
           cache' = cache \/ cache' = Empty, asked' \in 0 .. Failed,
           lock' \in [Caller -> 0 .. LockTtl], LockUnique',
           \A d \in Caller \ {c} : lock'[d] = lock[d]
    PROVE  IInv'
<1> USE ConstantsAssumption
<1>1. SharedTyped /\ CachedIsUsable
    BY InvSplit
<1>2. SharedTyped'
    BY <1>1 DEF SharedTyped, server, Empty
<1>3. CachedIsUsable'
    BY <1>1 DEF CachedIsUsable, server, Empty
<1>4. InTime(c)'
    BY LimitIsNat DEF InTime, Fields, Limit
<1>5. OwnFacts(c)'
    BY <1>4 DEF OwnFacts, Fields, HolderCovered, PendingIsUsable
<1>6. revoked' = revoked /\ \A t \in Token : life'[t] >= life[t]
    BY <1>1 DEF server, SharedTyped
<1>7. QED BY <1>2, <1>3, <1>5, <1>6, FrameStep

(* The common case: the lock is untouched as well. *)
LEMMA PlainStep ==
    ASSUME IInv, NEW c \in Caller, Frame(c), NEW pc, NEW mode, NEW tok,
           Fields(c, pc, mode, tok),
           pc \notin {"recheck", "put"}, ~(pc = "issue" /\ mode = "locked"),
           pc = "send" => tok # NoToken,
           UNCHANGED <<server, lock>>,
           cache' = cache \/ cache' = Empty, asked' \in 0 .. Failed
    PROVE  IInv'
<1>1. SharedTyped /\ LockUnique
    BY InvSplit
<1>2. lock' \in [Caller -> 0 .. LockTtl] /\ LockUnique'
    BY <1>1 DEF SharedTyped, LockUnique
<1>3. QED BY <1>2, PlainMove

-----------------------------------------------------------------------------
LEMMA CacheTypes == IInv => /\ cache.left \in Nat /\ cache.tok \in 0 .. MaxTokens
                            /\ Hit => cache.tok # NoToken
                            /\ asked \in 0 .. Failed
BY InvSplit, ConstantsAssumption DEF SharedTyped, Hit

LEMMA AskedTypes ==
    ASSUME IInv, NEW c \in Caller, Start(c) \/ Step(c) \/ Cancel(c)
    PROVE  asked' \in 0 .. Failed
<1>1. asked \in 0 .. Failed
    BY CacheTypes
<1>2. CASE UNCHANGED asked \/ asked' = Failed \/ FailedIfHit
    BY <1>1, <1>2 DEF FailedIfHit
<1>3. CASE Answer(c)
    BY <1>1, <1>3 DEF Answer
<1>4. QED
    BY <1>2, <1>3 DEF Start, Step, Cancel, Read, Acquire, AcquireFails, Poll, Recheck,
       Release, IssueFails, Put, PutFails, Accepted, Rejected, Delete

LEMMA LockStep ==
    ASSUME IInv, NEW c \in Caller
    PROVE  /\ (LockFree /\ lock' = [lock EXCEPT ![c] = LockTtl])
                => lock' \in [Caller -> 0 .. LockTtl] /\ LockUnique' /\ lock'[c] = LockTtl
           /\ (lock' = Unlocked(c) \/ lock' = lock)
                => lock' \in [Caller -> 0 .. LockTtl] /\ LockUnique'
<1> USE ConstantsAssumption
<1>1. lock \in [Caller -> 0 .. LockTtl] /\ LockUnique
    BY InvSplit DEF SharedTyped
<1>2. ASSUME LockFree, lock' = [lock EXCEPT ![c] = LockTtl]
      PROVE  lock' \in [Caller -> 0 .. LockTtl] /\ LockUnique' /\ lock'[c] = LockTtl
    BY <1>1, <1>2 DEF LockFree, LockUnique
<1>3. ASSUME lock' = Unlocked(c) \/ lock' = lock
      PROVE  lock' \in [Caller -> 0 .. LockTtl] /\ LockUnique'
    BY <1>1, <1>3 DEF Unlocked, LockUnique
<1>4. QED BY <1>2, <1>3

LEMMA AcquireStep == ASSUME IInv, NEW c \in Caller, Acquire(c) PROVE IInv'
<1> USE ConstantsAssumption
<1>1. TypeOK BY DEF IInv
<1>2. CASE ~LockFree
    BY <1>1, <1>2, EnterMoves, PlainStep, CacheTypes DEF Acquire, Pc
<1>3. CASE LockFree
  <2>1. lock' = [lock EXCEPT ![c] = LockTtl] /\ Enter(c, "recheck") /\ UNCHANGED <<server, cache, asked>>
        BY <1>3 DEF Acquire
  <2>2. Frame(c) /\ Fields(c, "recheck", "plain", NoToken)
        BY <1>1, <2>1, EnterMoves DEF Pc
  <2>3. lock' \in [Caller -> 0 .. LockTtl] /\ LockUnique' /\ lock'[c] = LockTtl
        BY <1>3, <2>1, LockStep
  <2>4. \A d \in Caller \ {c} : lock'[d] = lock[d]
        BY <2>1, InvSplit DEF SharedTyped
  <2>5. SharedTyped' /\ CachedIsUsable'
        BY <2>1, <2>3, InvSplit DEF SharedTyped, CachedIsUsable, server
  <2>6. InTime(c)'
        BY <2>2, LimitIsNat DEF InTime, Fields, Limit
  <2>7. OwnFacts(c)'
        BY <2>2, <2>3, <2>6 DEF OwnFacts, Fields, HolderCovered, PendingIsUsable
  <2>8. revoked' = revoked /\ \A t \in Token : life'[t] >= life[t]
        BY <2>1, InvSplit DEF server, SharedTyped
  <2>9. QED BY <2>2, <2>3, <2>4, <2>5, <2>7, <2>8, FrameStep
<1>4. QED BY <1>2, <1>3

LEMMA RecheckStep == ASSUME IInv, NEW c \in Caller, Recheck(c) PROVE IInv'
<1> USE ConstantsAssumption
<1>1. TypeOK /\ asked' \in 0 .. Failed BY AskedTypes DEF IInv, Step
<1>2. CASE Hit /\ ReleaseWith(c, cache.tok)
    BY <1>1, <1>2, ReleaseMoves, PlainStep, CacheTypes DEF Recheck
<1>3. CASE Issue(c, "locked")
  <2>1. UNCHANGED <<server, cache, lock>> /\ call[c].pc = "recheck"
        BY DEF Recheck
  <2>2. Frame(c) /\ Fields(c, "issue", "locked", NoToken)
        BY <1>1, <1>3, IssueMoves
  <2>3. SharedTyped' /\ CachedIsUsable' /\ LockUnique'
        BY <1>1, <2>1, InvSplit DEF SharedTyped, CachedIsUsable, LockUnique, server
  <2>4. InTime(c)'
        BY <2>2, LimitIsNat DEF InTime, Fields, Limit
  <2>5. call[c].age \in Nat /\ call[c].age <= CacheLatency /\ lock[c] + call[c].age >= LockTtl
        BY <2>1, InvSplit DEF OwnFacts, InTime, HolderCovered, Timed, Limit, Call
  <2>6. lock[c] \in Nat /\ lock[c] + 0 + CacheLatency >= LockTtl
        BY <2>5, InvSplit DEF SharedTyped
  <2>7. OwnFacts(c)'
        BY <2>1, <2>2, <2>4, <2>6 DEF OwnFacts, Fields, HolderCovered, PendingIsUsable
  <2>8. revoked' = revoked /\ \A t \in Token : life'[t] >= life[t]
        BY <2>1, InvSplit DEF server, SharedTyped
  <2>9. QED BY <2>1, <2>2, <2>3, <2>7, <2>8, FrameStep
<1>4. QED BY <1>2, <1>3 DEF Recheck

(* The steps that hold nothing and write nothing but the caller's record.  *)
LEMMA QuietSteps ==
    ASSUME IInv, NEW c \in Caller,
           \/ Start(c) \/ Read(c) \/ Poll(c) \/ IssueFails(c)
           \/ Accepted(c) \/ Rejected(c) \/ Cancel(c) \/ Delete(c)
    PROVE  IInv'
<1> USE ConstantsAssumption
<1>1. TypeOK /\ asked' \in 0 .. Failed BY AskedTypes DEF IInv, Step
<1>2. CASE Start(c)
    BY <1>1, <1>2, EnterMoves, PlainStep, CacheTypes DEF Start, Pc
<1>3. CASE Read(c)
  <2>1. CASE Hit /\ SendWith(c, cache.tok)
        BY <1>1, <1>3, <2>1, SendMoves, PlainStep, CacheTypes DEF Read
  <2>2. CASE Enter(c, "lock")
        BY <1>1, <1>3, <2>2, EnterMoves, PlainStep, CacheTypes DEF Read, Pc
  <2>3. QED BY <1>3, <2>1, <2>2 DEF Read
<1>4. CASE Poll(c)
  <2>1. CASE Hit /\ SendWith(c, cache.tok)
        BY <1>1, <1>4, <2>1, SendMoves, PlainStep, CacheTypes DEF Poll
  <2>2. CASE Issue(c, "plain")
        BY <1>1, <1>4, <2>2, IssueMoves, PlainStep, CacheTypes DEF Poll
  <2>3. CASE /\ call[c].rounds + 1 # WaitAttempts
             /\ call' = [call EXCEPT ![c].pc = "wait", ![c].rounds = call[c].rounds + 1]
    <3>1. call[c] \in Call
          BY InvSplit
    <3>2. call[c].rounds + 1 \in 0 .. WaitAttempts - 1
          BY <2>3, <3>1 DEF Call
    <3> DEFINE r == [call[c] EXCEPT !.pc = "wait", !.rounds = call[c].rounds + 1]
    <3>3. r \in Call /\ r.pc = "wait"
          BY <3>1, <3>2 DEF Call, Pc
    <3>4. call' = [call EXCEPT ![c] = r]
          BY <2>3
    <3> HIDE DEF r
    <3>5. Frame(c) /\ call'[c].pc = "wait"
          BY <1>1, <3>3, <3>4 DEF TypeOK, Frame
    <3>6. SharedTyped' /\ LockUnique' /\ CachedIsUsable'
          BY <1>1, <1>4, InvSplit DEF Poll, SharedTyped, LockUnique, CachedIsUsable, server
    <3>7. OwnFacts(c)'
          BY <3>5 DEF OwnFacts, InTime, Timed, HolderCovered, PendingIsUsable
    <3>8. revoked' = revoked /\ lock' = lock /\ \A t \in Token : life'[t] >= life[t]
          BY <1>4, InvSplit DEF Poll, server, SharedTyped
    <3>9. QED BY <3>5, <3>6, <3>7, <3>8, FrameStep
  <2>4. QED BY <1>4, <2>1, <2>2, <2>3 DEF Poll
<1>5. CASE IssueFails(c)
    BY <1>1, <1>5, FailMoves, PlainStep, CacheTypes DEF IssueFails
<1>6. CASE Accepted(c)
    BY <1>1, <1>6, ReturnMoves, PlainStep, CacheTypes DEF Accepted
<1>7. CASE Rejected(c)
  <2>1. CASE Return(c)
        BY <1>1, <1>7, <2>1, ReturnMoves, PlainStep, CacheTypes DEF Rejected
  <2>2. CASE call' = [call EXCEPT ![c].pc = "delete", ![c].rejected = call[c].tok]
    <3>1. call[c] \in Call
          BY InvSplit
    <3> DEFINE r == [call[c] EXCEPT !.pc = "delete", !.rejected = call[c].tok]
    <3>2. r \in Call /\ r.pc = "delete"
          BY <3>1 DEF Call, Pc
    <3>3. call' = [call EXCEPT ![c] = r]
          BY <2>2
    <3> HIDE DEF r
    <3>4. Frame(c) /\ call'[c].pc = "delete"
          BY <1>1, <3>2, <3>3 DEF TypeOK, Frame
    <3>5. SharedTyped' /\ LockUnique' /\ CachedIsUsable'
          BY <1>1, <1>7, InvSplit DEF Rejected, SharedTyped, LockUnique, CachedIsUsable, server
    <3>6. OwnFacts(c)'
          BY <3>4 DEF OwnFacts, InTime, Timed, HolderCovered, PendingIsUsable
    <3>7. revoked' = revoked /\ lock' = lock /\ \A t \in Token : life'[t] >= life[t]
          BY <1>7, InvSplit DEF Rejected, server, SharedTyped
    <3>8. QED BY <3>4, <3>5, <3>6, <3>7, FrameStep
  <2>3. QED BY <1>7, <2>1, <2>2 DEF Rejected
<1>8. CASE Cancel(c)
    BY <1>1, <1>8, ReturnMoves, PlainStep, CacheTypes DEF Cancel
<1>9. CASE Delete(c)
    BY <1>1, <1>9, IssueMoves, PlainStep, CacheTypes DEF Delete
<1>10. QED BY <1>2, <1>3, <1>4, <1>5, <1>6, <1>7, <1>8, <1>9

LEMMA AcquireFailsStep == ASSUME IInv, NEW c \in Caller, AcquireFails(c) PROVE IInv'
<1>1. TypeOK /\ SharedTyped BY InvSplit DEF IInv
<1>2. Frame(c) /\ Fields(c, "issue", "plain", NoToken)
    BY <1>1, IssueMoves DEF AcquireFails
<1>3. lock' = lock \/ (LockFree /\ lock' = [lock EXCEPT ![c] = LockTtl])
    BY DEF AcquireFails
<1>4. lock' \in [Caller -> 0 .. LockTtl] /\ LockUnique'
    BY <1>3, LockStep
<1>5. \A d \in Caller \ {c} : lock'[d] = lock[d]
    BY <1>1, <1>3 DEF SharedTyped
<1>6. UNCHANGED <<server, cache>> /\ asked' \in 0 .. Failed
    BY DEF AcquireFails
<1>7. QED BY <1>2, <1>4, <1>5, <1>6, PlainMove, CacheTypes

LEMMA ReleaseStep == ASSUME IInv, NEW c \in Caller, Release(c) PROVE IInv'
<1>1. TypeOK /\ SharedTyped /\ call[c].tok \in 0 .. MaxTokens
    BY InvSplit DEF IInv, Call
<1>2. lock' = Unlocked(c) \/ lock' = lock
    BY DEF Release
<1>3. lock' \in [Caller -> 0 .. LockTtl] /\ LockUnique'
    BY <1>2, LockStep
<1>4. \A d \in Caller \ {c} : lock'[d] = lock[d]
    BY <1>1, <1>2 DEF SharedTyped, Unlocked
<1>5. UNCHANGED <<server, cache, asked>>
    BY DEF Release
<1>6. CASE call[c].tok # NoToken /\ SendWith(c, call[c].tok)
    BY <1>1, <1>3, <1>4, <1>5, <1>6, SendMoves, PlainMove, CacheTypes
<1>7. CASE Return(c)
    BY <1>1, <1>3, <1>4, <1>5, <1>7, ReturnMoves, PlainMove, CacheTypes
<1>8. QED BY <1>6, <1>7 DEF Release

-----------------------------------------------------------------------------
(* A grant never shortens a life, and `expire' is what Feishu will honour. *)
LEMMA GrantFacts ==
    ASSUME IInv, NEW t \in Token, NEW expire \in 1 .. Expire, Granted(t, expire)
    PROVE  /\ life' \in [Token -> 0 .. Expire] /\ made' \in 0 .. MaxTokens
           /\ \A u \in Token : life'[u] >= life[u]
           /\ life'[t] = expire
<1> USE ConstantsAssumption
<1>1. life \in [Token -> 0 .. Expire] /\ made \in 0 .. MaxTokens
    BY InvSplit DEF SharedTyped
<1>2. CASE /\ CurrentLife >= Renew /\ t = made /\ expire = CurrentLife
           /\ UNCHANGED <<life, made>>
    BY <1>1, <1>2 DEF CurrentLife
<1>3. CASE /\ made < MaxTokens /\ t = made + 1 /\ expire = Expire /\ made' = made + 1
           /\ life' = [life EXCEPT ![made + 1] = Expire]
    BY <1>1, <1>3
<1>4. QED BY <1>2, <1>3 DEF Granted

LEMMA AnswerStep == ASSUME IInv, NEW c \in Caller, Answer(c) PROVE IInv'
<1> USE ConstantsAssumption
<1>1. TypeOK /\ SharedTyped /\ OwnFacts(c) /\ call[c] \in Call /\ CachedIsUsable /\ LockUnique
    BY InvSplit DEF IInv
<1>2. PICK t \in Token, expire \in 1 .. Expire :
        /\ Granted(t, expire)
        /\ IF call[c].mode = "plain"
           THEN SendWith(c, t)
           ELSE IF CacheTtl(expire) = 0
           THEN Fail(c)
           ELSE call' = [call EXCEPT ![c].pc = "put", ![c].tok = t, ![c].age = 0,
                                     ![c].ttl = CacheTtl(expire)]
    BY DEF Answer
<1>3. /\ life' \in [Token -> 0 .. Expire] /\ made' \in 0 .. MaxTokens
      /\ \A u \in Token : life'[u] >= life[u]
      /\ life'[t] = expire
    BY <1>2, GrantFacts
<1>4. /\ revoked' = revoked /\ cache' = cache /\ lock' = lock /\ asked' \in 0 .. Failed
      /\ call[c].pc = "issue"
    BY AskedTypes DEF Answer, Step
<1>5. SharedTyped' /\ LockUnique'
    BY <1>1, <1>3, <1>4 DEF SharedTyped, LockUnique
<1>6. CachedIsUsable'
  <2> SUFFICES ASSUME cache.left > 0, cache.tok \notin revoked
               PROVE  life'[cache.tok] + CacheLatency >= cache.left + Margin
      BY <1>4 DEF CachedIsUsable
  <2>1. cache.tok \in Token /\ cache.left \in Nat
        BY <1>1 DEF SharedTyped
  <2>2. life[cache.tok] \in Nat /\ life'[cache.tok] \in Nat /\ life'[cache.tok] >= life[cache.tok]
        BY <1>1, <1>3, <2>1 DEF SharedTyped
  <2>3. life[cache.tok] + CacheLatency >= cache.left + Margin
        BY <1>1 DEF CachedIsUsable
  <2>4. QED BY <2>1, <2>2, <2>3
<1>7. CASE SendWith(c, t)
  <2>1. Frame(c) /\ Fields(c, "send", "plain", t)
        BY <1>1, <1>7, SendMoves
  <2>2. OwnFacts(c)'
        BY <2>1, LimitIsNat DEF Fields, OwnFacts, InTime, Limit, HolderCovered, PendingIsUsable
  <2>3. QED BY <1>3, <1>4, <1>5, <1>6, <2>1, <2>2, FrameStep
<1>8. CASE Fail(c)
  <2>1. PICK pc \in {"release", "idle"} : Frame(c) /\ Fields(c, pc, "plain", NoToken)
        BY <1>1, <1>8, FailMoves
  <2>2. OwnFacts(c)'
        BY <2>1, LimitIsNat DEF Fields, OwnFacts, InTime, Limit, HolderCovered, PendingIsUsable
  <2>3. QED BY <1>3, <1>4, <1>5, <1>6, <2>1, <2>2, FrameStep
<1>9. CASE /\ CacheTtl(expire) # 0
           /\ call' = [call EXCEPT ![c].pc = "put", ![c].tok = t, ![c].age = 0,
                                   ![c].ttl = CacheTtl(expire)]
  <2>1. CacheTtl(expire) \in 0 .. Expire /\ CacheTtl(expire) + Margin = expire
        BY <1>9 DEF CacheTtl
  <2> DEFINE ttl == CacheTtl(expire)
             r == [call[c] EXCEPT !.pc = "put", !.tok = t, !.age = 0, !.ttl = ttl]
  <2>3. call' = [call EXCEPT ![c] = r]
        BY <1>9
  <2>13. ttl \in 0 .. Expire /\ ttl = CacheTtl(expire)
        BY <2>1
  <2> HIDE DEF ttl
  <2>11. r \in Call
    <3>1. "put" \in Pc /\ t \in 0 .. MaxTokens /\ 0 \in Nat
          BY DEF Pc
    <3>2. [call[c] EXCEPT !.pc = "put", !.tok = t] \in Call
          BY <1>1, <3>1 DEF Call
    <3>3. QED BY <2>13, <3>1, <3>2, <1>1 DEF Call
  <2>12. r.pc = "put" /\ r.tok = t /\ r.age = 0 /\ r.ttl = ttl /\ r.mode = call[c].mode
        BY <1>1 DEF Call
  <2>2. /\ r \in Call /\ r.pc = "put" /\ r.tok = t /\ r.age = 0 /\ r.ttl = CacheTtl(expire)
        /\ r.mode = call[c].mode
        BY <2>13, <2>11, <2>12
  <2> HIDE DEF r
  <2>4. /\ Frame(c)
        /\ call'[c].pc = "put" /\ call'[c].tok = t /\ call'[c].age = 0
        /\ call'[c].ttl = CacheTtl(expire) /\ call'[c].mode = call[c].mode
        BY <1>1, <2>2, <2>3 DEF TypeOK, Frame
  <2>5. InTime(c)'
        BY <2>4, LimitIsNat DEF InTime, Limit
  <2>6. call[c].mode = "locked" => lock'[c] + 0 + MaxIssue + CacheLatency >= LockTtl
    <3>4. call[c].age \in Nat /\ lock[c] \in Nat
          BY <1>1 DEF SharedTyped, Call
    <3>5. call[c].age <= MaxIssue
      <4>1. Timed(c) => call[c].age <= Limit(c)
            BY <1>1 DEF OwnFacts, InTime
      <4>2. call[c].pc = "issue"
            BY <1>4
      <4>3. Timed(c) /\ Limit(c) = MaxIssue
            BY <4>2 DEF Timed, Limit
      <4>4. QED BY <4>1, <4>3
    <3>1. call[c].age \in Nat /\ lock[c] \in Nat /\ call[c].age <= MaxIssue
          BY <3>4, <3>5
    <3>2. call[c].mode = "locked" => lock[c] + call[c].age + CacheLatency >= LockTtl
          BY <1>1, <1>4 DEF OwnFacts, HolderCovered
    <3>3. QED BY <1>4, <3>1, <3>2
  <2>7. HolderCovered(c)'
        BY <2>4, <2>6 DEF HolderCovered
  <2>8. PendingIsUsable(c)'
        BY <1>3, <2>1, <2>4 DEF PendingIsUsable
  <2>9. OwnFacts(c)'
        BY <2>4, <2>5, <2>7, <2>8 DEF OwnFacts
  <2>10. QED BY <1>3, <1>4, <1>5, <1>6, <2>4, <2>9, FrameStep
<1>10. QED BY <1>2, <1>7, <1>8, <1>9

(* What a write to the cache leaves, whether or not its reply is lost.     *)
LEMMA CacheWritten ==
    ASSUME IInv, NEW c \in Caller, call[c].pc = "put",
           cache' \in {cache, [tok |-> call[c].tok, left |-> call[c].ttl]},
           UNCHANGED <<server, lock>>, asked' \in 0 .. Failed
    PROVE  SharedTyped' /\ CachedIsUsable' /\ LockUnique'
<1> USE ConstantsAssumption
<1>1. SharedTyped /\ OwnFacts(c) /\ call[c] \in Call /\ CachedIsUsable /\ LockUnique
    BY InvSplit
<1>2. /\ call[c].tok \in Token /\ call[c].ttl \in 0 .. Expire
      /\ call[c].age \in Nat /\ call[c].age <= CacheLatency
    BY <1>1 DEF Call, OwnFacts, InTime, Timed, Limit
<1>3. SharedTyped' /\ LockUnique'
  <2>1. /\ life' = life /\ made' = made /\ revoked' = revoked /\ lock' = lock
        BY DEF server
  <2>2. /\ cache' \in [tok : 0 .. MaxTokens, left : 0 .. Expire]
        /\ cache'.left > 0 => cache'.tok # NoToken
    <3>1. /\ cache \in [tok : 0 .. MaxTokens, left : 0 .. Expire]
          /\ cache.left > 0 => cache.tok # NoToken
          BY <1>1 DEF SharedTyped
    <3>2. /\ [tok |-> call[c].tok, left |-> call[c].ttl] \in [tok : 0 .. MaxTokens, left : 0 .. Expire]
          /\ call[c].tok # NoToken
          BY <1>2
    <3>3. QED BY <3>1, <3>2
  <2>3. SharedTyped'
        BY <1>1, <2>1, <2>2 DEF SharedTyped
  <2>4. LockUnique'
        BY <1>1, <2>1 DEF LockUnique
  <2>5. QED BY <2>3, <2>4
<1>4. ASSUME cache' = cache PROVE CachedIsUsable'
    BY <1>1, <1>4 DEF CachedIsUsable, server
<1>5. ASSUME cache' = [tok |-> call[c].tok, left |-> call[c].ttl] PROVE CachedIsUsable'
  <2>1. call[c].tok \notin revoked
          => life[call[c].tok] + call[c].age >= call[c].ttl + Margin
        BY <1>1 DEF OwnFacts, PendingIsUsable
  <2>2. life[call[c].tok] \in Nat
        BY <1>1, <1>2 DEF SharedTyped
  <2>3. call[c].tok \notin revoked
          => life[call[c].tok] + CacheLatency >= call[c].ttl + Margin
        BY <1>2, <2>1, <2>2
  <2>4. QED BY <1>5, <2>3 DEF CachedIsUsable, server
<1>6. QED BY <1>3, <1>4, <1>5

LEMMA PutSteps == ASSUME IInv, NEW c \in Caller, Put(c) \/ PutFails(c) PROVE IInv'
<1> USE ConstantsAssumption
<1>1. TypeOK /\ SharedTyped /\ call[c] \in Call /\ call[c].tok \in 0 .. MaxTokens
    BY InvSplit DEF IInv, Call
<1>2. /\ call[c].pc = "put" /\ UNCHANGED <<server, lock>> /\ asked' \in 0 .. Failed
      /\ cache' \in {cache, [tok |-> call[c].tok, left |-> call[c].ttl]}
    BY AskedTypes DEF Put, PutFails, Step
<1>3. SharedTyped' /\ CachedIsUsable' /\ LockUnique'
    BY <1>2, CacheWritten
<1>4. \E pc \in {"release", "read", "idle"}, tok \in 0 .. MaxTokens :
        Frame(c) /\ Fields(c, pc, "plain", tok)
  <2>1. CASE Put(c)
        BY <1>1, <2>1, ReleaseMoves, EnterMoves DEF Put, Pc
  <2>2. CASE PutFails(c)
        BY <1>1, <2>2, FailMoves DEF PutFails
  <2>3. QED BY <2>1, <2>2
<1>5. Frame(c) /\ OwnFacts(c)'
    BY <1>4, LimitIsNat DEF Fields, OwnFacts, InTime, Limit, HolderCovered, PendingIsUsable
<1>6. revoked' = revoked /\ lock' = lock /\ \A t \in Token : life'[t] >= life[t]
    BY <1>1, <1>2 DEF server, SharedTyped
<1>7. QED BY <1>3, <1>5, <1>6, FrameStep

LEMMA RevokeStep == ASSUME IInv, Revoke PROVE IInv'
<1> USE ConstantsAssumption
<1>1. SharedTyped /\ CachedIsUsable /\ LockUnique /\ \A c \in Caller : OwnFacts(c)
    BY InvSplit
<1>2. /\ made \in Token /\ life' = [life EXCEPT ![made] = 0]
      /\ revoked' = revoked \cup {made}
      /\ UNCHANGED <<made, cache, lock, call>> /\ asked' = Failed
    BY <1>1 DEF Revoke, CurrentLife, SharedTyped
<1>3. SharedTyped' /\ LockUnique'
    BY <1>1, <1>2 DEF SharedTyped, LockUnique
<1>4. CachedIsUsable'
    BY <1>1, <1>2 DEF CachedIsUsable, SharedTyped
<1>5. ASSUME NEW c \in Caller PROVE OwnFacts(c)'
  <2>1. OwnFacts(c)
        BY <1>1
  <2>2. Limit(c)' = Limit(c) /\ (Timed(c)' <=> Timed(c))
        BY <1>2 DEF Limit, Timed
  <2>3. InTime(c)' /\ HolderCovered(c)'
        BY <1>2, <2>1, <2>2 DEF OwnFacts, InTime, HolderCovered
  <2>4. PendingIsUsable(c)'
        BY <1>1, <1>2, <2>1 DEF OwnFacts, PendingIsUsable, SharedTyped
  <2>5. QED BY <1>2, <2>1, <2>3, <2>4 DEF OwnFacts
<1>6. call' \in [Caller -> Call]
    BY <1>2, InvSplit
<1>7. QED BY <1>3, <1>4, <1>5, <1>6 DEF IInv, TypeOK, SharedTyped, OwnFacts

(* A second passes: every lifetime loses it, every timed step gains it.    *)
LEMMA TickStep == ASSUME IInv, Tick PROVE IInv'
<1> USE ConstantsAssumption
<1>1. SharedTyped /\ CachedIsUsable /\ LockUnique /\ call \in [Caller -> Call]
    BY InvSplit
<1>2. \A n \in Nat : Less(n) \in Nat /\ Less(n) <= n /\ Less(n) + 1 >= n
    BY DEF Less
<1>3. /\ life' = [t \in Token |-> Less(life[t])]
      /\ lock' = [c \in Caller |-> Less(lock[c])]
      /\ made' = made /\ revoked' = revoked
    BY DEF Tick
<1>4. life' \in [Token -> 0 .. Expire] /\ lock' \in [Caller -> 0 .. LockTtl]
  <2>1. \A m \in Nat : \A n \in 0 .. m : Less(n) \in 0 .. m
        BY DEF Less
  <2>2. life' \in [Token -> 0 .. Expire]
        BY <1>1, <1>3, <2>1 DEF SharedTyped
  <2>3. lock' \in [Caller -> 0 .. LockTtl]
        BY <1>1, <1>3, <2>1 DEF SharedTyped
  <2>4. QED BY <2>2, <2>3
<1>5. \/ cache.left > 1 /\ cache' = [cache EXCEPT !.left = @ - 1]
      \/ cache' = Empty
    BY DEF Tick
<1>6. cache' \in [tok : 0 .. MaxTokens, left : 0 .. Expire]
  <2>1. cache \in [tok : 0 .. MaxTokens, left : 0 .. Expire]
        BY <1>1 DEF SharedTyped
  <2>2. Empty \in [tok : 0 .. MaxTokens, left : 0 .. Expire]
        BY DEF Empty
  <2>3. cache.left > 1 => cache.left - 1 \in 0 .. Expire
        BY <2>1
  <2>4. QED BY <1>5, <2>1, <2>2, <2>3
<1>7. cache'.left > 0 => /\ cache'.tok = cache.tok /\ cache'.left = cache.left - 1
                         /\ cache.left > 1
    BY <1>1, <1>5 DEF SharedTyped, Empty
<1>8. asked' \in 0 .. Failed
    BY <1>1 DEF Tick, SharedTyped
<1>9. SharedTyped'
    BY <1>1, <1>3, <1>4, <1>6, <1>7, <1>8 DEF SharedTyped
<1>10. LockUnique'
  <2> SUFFICES ASSUME NEW c \in Caller, NEW d \in Caller, lock'[c] > 0, lock'[d] > 0 PROVE c = d
      BY DEF LockUnique
  <2>1. lock[c] \in Nat /\ lock[d] \in Nat /\ lock'[c] = Less(lock[c]) /\ lock'[d] = Less(lock[d])
      BY <1>1, <1>3 DEF SharedTyped
  <2>2. lock[c] > 0 /\ lock[d] > 0
      BY <1>2, <2>1
  <2>3. QED BY <1>1, <2>2 DEF LockUnique
<1>11. CachedIsUsable'
  <2> SUFFICES ASSUME cache'.left > 0, cache'.tok \notin revoked'
               PROVE  life'[cache'.tok] + CacheLatency >= cache'.left + Margin
      BY DEF CachedIsUsable
  <2>1. cache.left \in Nat /\ cache.tok \in Token /\ cache.left > 1 /\ cache.tok \notin revoked
      BY <1>1, <1>3, <1>7 DEF SharedTyped
  <2>2. life[cache.tok] \in Nat /\ life'[cache.tok] = Less(life[cache.tok])
      BY <1>1, <1>3, <2>1 DEF SharedTyped
  <2>3. life[cache.tok] + CacheLatency >= cache.left + Margin
      BY <1>1, <2>1 DEF CachedIsUsable
  <2>4. Less(life[cache.tok]) \in Nat /\ Less(life[cache.tok]) + 1 >= life[cache.tok]
      BY <1>2, <2>2
  <2>5. life'[cache.tok] + CacheLatency >= cache.left - 1 + Margin
      BY <2>1, <2>2, <2>3, <2>4
  <2>6. QED BY <1>7, <2>5
<1>12. ASSUME NEW c \in Caller PROVE call'[c] \in Call /\ OwnFacts(c)'
  <2>1. call[c] \in Call /\ OwnFacts(c) /\ lock[c] \in Nat
        BY <1>1, InvSplit DEF SharedTyped
  <2>2. call'[c] = IF Timed(c) THEN [call[c] EXCEPT !.age = @ + 1]
                   ELSE IF call[c].pc = "wait" THEN [call[c] EXCEPT !.pc = "poll"]
                   ELSE call[c]
        BY DEF Tick
  <2>3. CASE Timed(c)
    <3>1. /\ call'[c].age = call[c].age + 1 /\ call'[c].pc = call[c].pc
          /\ call'[c].mode = call[c].mode /\ call'[c].tok = call[c].tok
          /\ call'[c].ttl = call[c].ttl /\ call'[c] \in Call
          BY <2>1, <2>2, <2>3 DEF Call
    <3>2. call[c].age \in Nat /\ call[c].ttl \in Nat /\ call[c].tok \in 0 .. MaxTokens
          BY <2>1 DEF Call
    <3>3. Limit(c)' = Limit(c) /\ Limit(c) \in Nat /\ call[c].age < Limit(c)
          BY <3>1, <2>3, LimitIsNat DEF Limit, Tick
    <3>4. InTime(c)'
          BY <3>1, <3>2, <3>3 DEF InTime
    <3>5. lock'[c] \in Nat /\ lock'[c] + call'[c].age >= lock[c] + call[c].age
      <4>1. lock'[c] = Less(lock[c])
            BY <1>3
      <4>2. Less(lock[c]) \in Nat /\ Less(lock[c]) + 1 >= lock[c]
            BY <1>2, <2>1
      <4>3. QED BY <2>1, <3>1, <3>2, <4>1, <4>2
    <3>6. HolderCovered(c)'
      <4>1. call'[c].pc = "recheck" => lock'[c] + call'[c].age >= LockTtl
            BY <2>1, <3>1, <3>2, <3>5 DEF OwnFacts, HolderCovered
      <4>2. (call'[c].pc = "issue" /\ call'[c].mode = "locked")
                => lock'[c] + call'[c].age + CacheLatency >= LockTtl
            BY <2>1, <3>1, <3>2, <3>5 DEF OwnFacts, HolderCovered
      <4>3. (call'[c].pc = "put" /\ call'[c].mode = "locked")
                => lock'[c] + call'[c].age + MaxIssue + CacheLatency >= LockTtl
            BY <2>1, <3>1, <3>2, <3>5 DEF OwnFacts, HolderCovered
      <4>4. QED BY <4>1, <4>2, <4>3 DEF HolderCovered
    <3>7. PendingIsUsable(c)'
      <4> SUFFICES ASSUME call[c].pc = "put", call[c].tok \notin revoked
                   PROVE  life'[call[c].tok] + (call[c].age + 1) >= call[c].ttl + Margin
          BY <1>3, <3>1 DEF PendingIsUsable
      <4>1. call[c].tok \in Token
            BY <2>1, <3>2 DEF OwnFacts
      <4>2. life[call[c].tok] \in Nat /\ life'[call[c].tok] = Less(life[call[c].tok])
            BY <1>1, <1>3, <4>1 DEF SharedTyped
      <4>3. life[call[c].tok] + call[c].age >= call[c].ttl + Margin
            BY <2>1 DEF OwnFacts, PendingIsUsable
      <4>4. Less(life[call[c].tok]) \in Nat /\ Less(life[call[c].tok]) + 1 >= life[call[c].tok]
            BY <1>2, <4>2
      <4>5. QED BY <3>2, <4>2, <4>3, <4>4
    <3>8. QED BY <2>1, <3>1, <3>4, <3>6, <3>7 DEF OwnFacts
  <2>4. CASE ~Timed(c) /\ call[c].pc = "wait"
    <3>1. call'[c].pc = "poll" /\ call'[c] \in Call
          BY <2>1, <2>2, <2>4 DEF Call, Pc
    <3>2. QED BY <3>1 DEF OwnFacts, InTime, Timed, HolderCovered, PendingIsUsable
  <2>5. CASE ~Timed(c) /\ call[c].pc # "wait"
    <3>1. call'[c] = call[c]
          BY <2>2, <2>5
    <3>2. call[c].pc \notin {"lock", "recheck", "issue", "put", "release", "send"}
          BY <2>5 DEF Timed
    <3>3. QED BY <2>1, <3>1, <3>2
              DEF OwnFacts, InTime, Timed, HolderCovered, PendingIsUsable
  <2>6. QED BY <2>3, <2>4, <2>5
<1>13. call' \in [Caller -> Call]
    BY <1>12 DEF Tick
<1>14. QED BY <1>9, <1>10, <1>11, <1>12, <1>13 DEF IInv, TypeOK, SharedTyped, OwnFacts

-----------------------------------------------------------------------------
LEMMA Inductive == IInv /\ [Next]_vars => IInv'
<1> SUFFICES ASSUME IInv, [Next]_vars PROVE IInv'
    OBVIOUS
<1>1. CASE Tick
    BY <1>1, TickStep
<1>2. CASE Revoke
    BY <1>2, RevokeStep
<1>3. ASSUME NEW c \in Caller, Start(c) \/ Step(c) \/ Cancel(c) PROVE IInv'
    BY <1>3, QuietSteps, AcquireStep, AcquireFailsStep, RecheckStep, ReleaseStep,
       AnswerStep, PutSteps DEF Step
<1>4. CASE UNCHANGED vars
    BY <1>4 DEF vars, IInv, TypeOK, LockUnique, CachedIsUsable, InTime, Timed, Limit,
                HolderCovered, PendingIsUsable
<1>5. QED BY <1>1, <1>2, <1>3, <1>4 DEF Next

(* The variables keep their types, the lock has one holder, and the lock   *)
(* and the pending token still have the time they need.                    *)
THEOREM Invariant == Spec => []IInv
BY Initial, Inductive, PTL DEF Spec

(* A cached token Feishu has not withdrawn outlives its cache entry by the *)
(* margin less one cache round trip (cache_ttl_seconds, issue_and_cache).  *)
THEOREM CachedTokensAreUsable == Spec => []CachedIsUsable
<1>1. IInv => CachedIsUsable
    BY DEF IInv
<1>2. QED BY Invariant, <1>1, PTL

(* Who works under the lock.                                               *)
Holding == {c \in Caller : call[c].pc = "recheck"} \cup Refreshing

LEMMA HoldersUnique ==
    ASSUME IInv, Covered
    PROVE  \A c, d \in Holding : c = d
<1> USE ConstantsAssumption
<1>1. ASSUME NEW c \in Holding PROVE c \in Caller /\ lock[c] > 0
  <2>1. /\ c \in Caller /\ call[c] \in Call /\ OwnFacts(c) /\ lock[c] \in Nat
        /\ call[c].pc = "recheck" \/ (call[c].mode = "locked" /\ call[c].pc \in {"issue", "put"})
        BY <1>1, InvSplit DEF Holding, Refreshing, SharedTyped
  <2>2. call[c].age \in Nat
        BY <2>1 DEF Call
  <2>3. CASE call[c].pc = "recheck"
    <3>1. call[c].age <= CacheLatency /\ lock[c] + call[c].age >= LockTtl
          BY <2>1, <2>3 DEF OwnFacts, InTime, Timed, Limit, HolderCovered
    <3>2. QED
          BY <2>1, <2>2, <3>1 DEF Covered
  <2>4. CASE call[c].pc = "issue" /\ call[c].mode = "locked"
    <3>1. call[c].age <= MaxIssue /\ lock[c] + call[c].age + CacheLatency >= LockTtl
          BY <2>1, <2>4 DEF OwnFacts, InTime, Timed, Limit, HolderCovered
    <3>2. QED
          BY <2>1, <2>2, <3>1 DEF Covered
  <2>5. CASE call[c].pc = "put" /\ call[c].mode = "locked"
    <3>1. /\ call[c].age <= CacheLatency
          /\ lock[c] + call[c].age + MaxIssue + CacheLatency >= LockTtl
          BY <2>1, <2>5 DEF OwnFacts, InTime, Timed, Limit, HolderCovered
    <3>2. QED
          BY <2>1, <2>2, <3>1 DEF Covered
  <2>6. QED
        BY <2>1, <2>3, <2>4, <2>5
<1>2. LockUnique
    BY DEF IInv
<1>3. QED
    BY <1>1, <1>2 DEF LockUnique

(* If the lock's TTL covers the token request and two cache round trips,   *)
(* at most one caller refreshes under the lock at a time, with any number  *)
(* of cancelled holders and lost replies (LOCK_TTL_SECONDS, TOKEN_RETRY).  *)
THEOREM RefreshIsExclusive == ASSUME Covered PROVE Spec => []OneRefresher
<1>1. IInv => OneRefresher
    BY HoldersUnique DEF Holding, OneRefresher
<1>2. QED
    BY Invariant, <1>1, PTL

-----------------------------------------------------------------------------
(* Feishu makes a new token before too little is left of the old one for   *)
(* the cache to take it (cache_ttl_seconds).                               *)
Cacheable == Margin < Renew

(* Single flight, while nothing has gone wrong: a token on its way to the  *)
(* cache is the only answer since the cache was last filled.               *)
Flight ==
    asked # Failed =>
        /\ \A c \in Caller :
              /\ call[c].pc # "delete"
              /\ call[c].pc \in {"issue", "put"} => call[c].mode = "locked" /\ cache.left = 0
              /\ call[c].pc = "put" => asked = 1 /\ call[c].ttl > 0
        /\ asked = 0 => cache.left = 0
        /\ asked = 1 => cache.left > 0 \/ \E c \in Caller : call[c].pc = "put"
        /\ asked # 2

LEMMA FlightInitial == Init => Flight
<1>1. New.pc = "idle"
    BY DEF New
<1>2. QED
    BY <1>1 DEF Init, Flight, Empty

(* A step to a place outside the token request, by a caller whose token    *)
(* was not on its way to the cache.                                        *)
LEMMA FlightCalm ==
    ASSUME IInv, Flight, NEW c \in Caller, Frame(c), call[c].pc # "put",
           call'[c].pc \notin {"delete", "issue", "put"}, cache' = cache, asked' = asked
    PROVE  Flight'
<1> SUFFICES ASSUME asked # Failed PROVE Flight'
    BY DEF Flight
<1>1. \A d \in Caller : call[d].pc = "put" => d # c
    OBVIOUS
<1>2. \A d \in Caller : d # c => call'[d] = call[d]
    BY DEF Frame
<1>3. QED
    BY <1>1, <1>2 DEF Flight

LEMMA FlightQuiet ==
    ASSUME IInv, Flight, NEW c \in Caller, asked' # Failed,
           Start(c) \/ Read(c) \/ Acquire(c) \/ Poll(c) \/ Release(c) \/ Accepted(c)
    PROVE  Flight'
<1>1. TypeOK /\ cache.tok \in 0 .. MaxTokens /\ call[c] \in Call /\ call[c].tok \in 0 .. MaxTokens
    BY CacheTypes, InvSplit DEF IInv, Call
<1>2. call[c].pc # "put" /\ cache' = cache /\ asked' = asked
    BY DEF Start, Read, Acquire, Poll, Release, Accepted, FailedIfHit
<1>3. Frame(c) /\ call'[c].pc \notin {"delete", "issue", "put"}
  <2>1. CASE Start(c)
        BY <1>1, <2>1, EnterMoves DEF Start, Fields, Pc
  <2>2. CASE Read(c)
    <3>1. SendWith(c, cache.tok) \/ Enter(c, "lock")
          BY <2>2 DEF Read
    <3>2. QED
          BY <1>1, <3>1, EnterMoves, SendMoves DEF Fields, Pc
  <2>3. CASE Acquire(c)
    <3>1. Enter(c, "recheck") \/ Enter(c, "wait")
          BY <2>3 DEF Acquire
    <3>2. QED
          BY <1>1, <3>1, EnterMoves DEF Fields, Pc
  <2>4. CASE Poll(c)
    <3>1. \/ SendWith(c, cache.tok)
          \/ /\ call[c].rounds + 1 # WaitAttempts
             /\ call' = [call EXCEPT ![c].pc = "wait", ![c].rounds = call[c].rounds + 1]
          BY <2>4 DEF Poll
    <3>2. CASE SendWith(c, cache.tok)
          BY <1>1, <3>2, SendMoves DEF Fields
    <3>3. CASE /\ call[c].rounds + 1 # WaitAttempts
               /\ call' = [call EXCEPT ![c].pc = "wait", ![c].rounds = call[c].rounds + 1]
      <4> DEFINE r == [call[c] EXCEPT !.pc = "wait", !.rounds = call[c].rounds + 1]
      <4>1. call[c].rounds + 1 \in 0 .. WaitAttempts - 1
            BY <1>1, <3>3, ConstantsAssumption DEF Call
      <4>2. r \in Call /\ r.pc = "wait"
            BY <1>1, <4>1 DEF Call, Pc
      <4>3. call' = [call EXCEPT ![c] = r]
            BY <3>3
      <4> HIDE DEF r
      <4>4. QED
            BY <1>1, <4>2, <4>3 DEF TypeOK, Frame
    <3>4. QED
          BY <3>1, <3>2, <3>3
  <2>5. CASE Release(c)
    <3>1. SendWith(c, call[c].tok) \/ Return(c)
          BY <2>5 DEF Release
    <3>2. QED
          BY <1>1, <3>1, SendMoves, ReturnMoves DEF Fields
  <2>6. CASE Accepted(c)
        BY <1>1, <2>6, ReturnMoves DEF Accepted, Fields
  <2>7. QED
        BY <2>1, <2>2, <2>3, <2>4, <2>5, <2>6
<1>4. QED
    BY <1>2, <1>3, FlightCalm

LEMMA FlightRecheck ==
    ASSUME IInv, Covered, Flight, NEW c \in Caller, Recheck(c), asked' # Failed
    PROVE  Flight'
<1>1. TypeOK /\ cache.tok \in 0 .. MaxTokens /\ cache.left \in Nat /\ call[c].pc = "recheck"
         /\ cache' = cache /\ asked' = asked
    BY CacheTypes DEF IInv, Recheck, FailedIfHit
<1>2. CASE ReleaseWith(c, cache.tok)
  <2>1. Frame(c) /\ call'[c].pc = "release"
        BY <1>1, <1>2, ReleaseMoves DEF Fields
  <2>2. QED
        BY <1>1, <2>1, FlightCalm
<1>3. CASE Issue(c, "locked") /\ FailedIfHit
  <2>1. Frame(c) /\ call'[c].pc = "issue" /\ call'[c].mode = "locked"
        BY <1>1, <1>3, IssueMoves DEF Fields
  <2>2. cache.left = 0
        BY <1>1, <1>3 DEF FailedIfHit, Hit
  <2>3. \A d \in Caller : d # c => call'[d] = call[d]
        BY <2>1 DEF Frame
  <2>4. QED
        BY <1>1, <2>1, <2>2, <2>3 DEF Flight
<1>4. QED
    BY <1>2, <1>3 DEF Recheck

LEMMA FlightAnswer ==
    ASSUME IInv, Covered, Cacheable, Flight, NEW c \in Caller, Answer(c), asked' # Failed
    PROVE  Flight'
<1> USE ConstantsAssumption
<1>1. /\ call[c].pc = "issue" /\ call[c].mode = "locked" /\ cache.left = 0 /\ cache' = cache
      /\ asked # Failed /\ asked \in {0, 1} /\ call[c] \in Call
    BY CacheTypes, InvSplit DEF Answer, Flight
<1>2. \A d \in Caller : call[d].pc = "put" => d = c
    BY <1>1, HoldersUnique DEF Flight, Holding, Refreshing
<1>3. asked = 0 /\ asked' = 1
    BY <1>1, <1>2 DEF Flight, Answer
<1>4. PICK t \in Token, expire \in 1 .. Expire :
        /\ Granted(t, expire)
        /\ IF CacheTtl(expire) = 0
           THEN Fail(c)
           ELSE call' = [call EXCEPT ![c].pc = "put", ![c].tok = t, ![c].age = 0,
                                     ![c].ttl = CacheTtl(expire)]
    BY <1>1 DEF Answer
<1>5. CacheTtl(expire) \in Nat \ {0}
  <2>1. expire >= Renew
        BY <1>4 DEF Granted
  <2>2. QED
        BY <2>1 DEF CacheTtl, Cacheable
<1>6. /\ call'[c].pc = "put" /\ call'[c].mode = "locked" /\ call'[c].ttl > 0
      /\ \A d \in Caller : d # c => call'[d] = call[d]
  <2> DEFINE ttl == CacheTtl(expire)
             r == [call[c] EXCEPT !.pc = "put", !.tok = t, !.age = 0, !.ttl = ttl]
  <2>1. ttl \in Nat \ {0} /\ call \in [Caller -> Call]
        BY <1>5, InvSplit
  <2>2. call' = [call EXCEPT ![c] = r]
        BY <1>4, <2>1
  <2> HIDE DEF ttl
  <2>3. r.pc = "put" /\ r.mode = "locked" /\ r.ttl = ttl
        BY <1>1 DEF Call
  <2> HIDE DEF r
  <2>4. call'[c] = r /\ \A d \in Caller : d # c => call'[d] = call[d]
        BY <2>1, <2>2
  <2>5. QED
        BY <2>1, <2>3, <2>4
<1>7. \A d \in Caller : d # c => call[d].pc \notin {"put", "delete"}
    BY <1>1, <1>2 DEF Flight
<1>8. QED
    BY <1>1, <1>3, <1>6, <1>7 DEF Flight

LEMMA FlightPut ==
    ASSUME IInv, Covered, Flight, NEW c \in Caller, Put(c), asked' # Failed
    PROVE  Flight'
<1>1. /\ call[c].pc = "put" /\ call[c].mode = "locked" /\ call[c].ttl > 0 /\ asked = 1
      /\ asked' = 1 /\ cache'.left = call[c].ttl
    BY DEF Put, Flight
<1>2. TypeOK /\ call[c].tok \in 0 .. MaxTokens
    BY InvSplit DEF IInv, Call
<1>3. Frame(c) /\ call'[c].pc = "release"
    BY <1>1, <1>2, ReleaseMoves DEF Put, Fields
<1>4. \A d \in Caller : d # c => call'[d] = call[d] /\ call[d].pc \notin {"issue", "put", "delete"}
    BY <1>1, <1>3, HoldersUnique DEF Flight, Holding, Refreshing, Frame
<1>5. QED
    BY <1>1, <1>3, <1>4 DEF Flight

LEMMA FlightTick == ASSUME IInv, Flight, Tick, asked' # Failed PROVE Flight'
<1>1. cache.left \in Nat /\ asked # Failed
    BY CacheTypes DEF Tick
<1>2. \A c \in Caller : /\ call[c].pc = "wait" => call'[c].pc = "poll"
                        /\ call[c].pc # "wait" => /\ call'[c].pc = call[c].pc
                                                  /\ call'[c].mode = call[c].mode
                                                  /\ call'[c].ttl = call[c].ttl
    BY InvSplit DEF Tick, Timed, Call
<1>3. /\ cache.left > 1 => cache'.left = cache.left - 1 /\ asked' = asked
      /\ cache.left = 1 => cache'.left = 0 /\ asked' = 0
      /\ cache.left = 0 => cache'.left = 0 /\ asked' = asked
    BY <1>1, InvSplit DEF Tick, Empty, SharedTyped
<1>4. \A c \in Caller : call'[c].pc \in {"issue", "put", "delete"} => call[c].pc # "wait"
    BY <1>2
<1>5. QED
    BY <1>1, <1>2, <1>3, <1>4 DEF Flight

LEMMA FlightStep ==
    ASSUME IInv, Covered, Cacheable, Flight, [Next]_vars
    PROVE  Flight'
<1> SUFFICES ASSUME asked' # Failed PROVE Flight'
    BY DEF Flight
<1>1. CASE Tick
    BY <1>1, FlightTick
<1>2. CASE Revoke
    BY <1>2 DEF Revoke
<1>3. ASSUME NEW c \in Caller, Start(c) \/ Step(c) \/ Cancel(c) PROVE Flight'
  <2>1. ~AcquireFails(c) /\ ~IssueFails(c) /\ ~PutFails(c) /\ ~Rejected(c) /\ ~Cancel(c)
        BY DEF AcquireFails, IssueFails, PutFails, Rejected, Cancel
  <2>2. ~Delete(c)
        BY DEF Delete, Flight
  <2>3. QED
        BY <1>3, <2>1, <2>2, FlightQuiet, FlightRecheck, FlightAnswer, FlightPut DEF Step
<1>4. CASE UNCHANGED vars
    BY <1>4 DEF vars, Flight
<1>5. QED
    BY <1>1, <1>2, <1>3, <1>4 DEF Next

(* Single flight: as long as nothing fails, no token is rejected and no    *)
(* waiter runs out of patience, any number of callers ask Feishu once per  *)
(* cached token (the lock and the second look at the cache).               *)
THEOREM OneRequestPerToken == ASSUME Covered, Cacheable PROVE Spec => []AskedOnce
<1>1. IInv /\ Flight /\ [Next]_vars => Flight'
    BY FlightStep
<1>2. Flight => AskedOnce
    BY DEF Flight, AskedOnce
<1>3. Init => Flight
    BY FlightInitial
<1>4. QED
    BY Invariant, <1>1, <1>2, <1>3, PTL DEF Spec

-----------------------------------------------------------------------------
(* FeishuCall.  What is on its way to Feishu, and what was carried out.    *)
Pending(c) == {x \in copies : x[1] = c}
Nothing(c) == Pending(c) = {} /\ effects[c] = 0
OnTheWay(c) == Pending(c) \subseteq {<<c, out[c].sent>>} /\ effects[c] = 0
AtMostOnce(c) == OnTheWay(c) \/ (Pending(c) = {} /\ effects[c] = 1)

(* A request that must not be repeated is sent again only after a rejected *)
(* token, and then nothing of it is left.                                  *)
Repeatable(c) ==
    /\ out[c].pc = "idle" => Nothing(c)
    /\ ~out[c].kind.idempotent =>
          /\ out[c].pc \in {"token", "send", "refresh"} => Nothing(c)
          /\ out[c].pc = "await" => OnTheWay(c)
          /\ out[c].pc = "answer" /\ Out!MayRefresh(c) => Nothing(c)
          /\ AtMostOnce(c)

(* The time a round may have spent, by the requests and waits it took.     *)
TimeOf(sends, waits) == sends * (Timeout * Second) + waits * MaxRetryAfter
Budget(pc, attempt) ==
    CASE pc = "await" -> TimeOf(attempt - 1, attempt - 1)
      [] pc \in {"answer", "refresh"} -> TimeOf(attempt, attempt - 1)
      [] pc = "done" -> TimeOf(MaxAttempts, MaxAttempts - 1)
      [] OTHER -> TimeOf(attempt, attempt)

Attempts(pc) ==
    CASE pc \in {"idle", "token"} -> {0}
      [] pc = "send" -> 0 .. MaxAttempts - 1
      [] pc = "done" -> 0 .. MaxAttempts
      [] OTHER -> 1 .. MaxAttempts

InBudget(c) ==
    /\ out[c].attempt \in Attempts(out[c].pc)
    /\ out[c].spent <= Budget(out[c].pc, out[c].attempt)

CallPc == {"idle", "token", "send", "await", "answer", "refresh", "done"}
Outcomes == {"none", "ok", "conflict", "failed", "dropped"}
CallRecord == [pc : CallPc, kind : Out!Kinds, attempt : Nat, sent : Nat,
               refreshed : BOOLEAN, spent : Nat, reply : Out!Replies \cup {Out!Lost},
               outcome : Outcomes]
CallTyped ==
    /\ out \in [Request -> CallRecord]
    /\ effects \in [Request -> Nat]
    /\ copies \in SUBSET (Request \X Nat)
    /\ \A x \in copies : x[2] <= out[x[1]].sent

CallInv == CallTyped /\ \A c \in Request : Repeatable(c) /\ InBudget(c)

LEMMA Product == \A a, b \in Nat : a * b \in Nat
    OBVIOUS

LEMMA ProductGrows ==
    ASSUME NEW a \in Nat, NEW b \in Nat, NEW k \in Nat, a <= b
    PROVE  a * k <= b * k
<1>1. PICK d \in Nat : b = d + a
    <2>1. b - a \in Nat /\ b = (b - a) + a
          OBVIOUS
    <2>2. QED
          BY <2>1
<1>2. (d + a) * k = d * k + a * k
    OBVIOUS
<1>3. d * k \in Nat /\ a * k \in Nat
    BY Product
<1>4. \A x, y \in Nat : y <= x + y
    OBVIOUS
<1>5. QED
    BY <1>1, <1>2, <1>3, <1>4

LEMMA Power == \A n \in Nat : 2 ^ n \in Nat
<1> TAKE n \in Nat
<1>1. IsFiniteSet(1 .. n) /\ Cardinality(1 .. n) = n
    BY FS_Interval
<1>2. IsFiniteSet(SUBSET (1 .. n)) /\ Cardinality(SUBSET (1 .. n)) = 2 ^ n
    BY <1>1, FS_SUBSET
<1>3. QED
    BY <1>2, FS_CardinalityType

LEMMA Times == Timeout * Second \in Nat /\ MaxRetryAfter \in Nat /\ MaxAttempts \in Nat \ {0}
    BY PolicyIsLegal, Product DEF Out!PolicyAssumption

LEMMA TimeType == \A m, n \in Nat : TimeOf(m, n) \in Nat
    BY Times, Product DEF TimeOf

LEMMA TimeGrows ==
    ASSUME NEW m \in Nat, NEW n \in Nat
    PROVE  /\ TimeOf(m + 1, n) = TimeOf(m, n) + Timeout * Second
           /\ TimeOf(m, n + 1) = TimeOf(m, n) + MaxRetryAfter
<1> DEFINE T == Timeout * Second
           mT == m * T
           nR == n * MaxRetryAfter
<1>1. T \in Nat /\ MaxRetryAfter \in Nat /\ mT \in Nat /\ nR \in Nat
    BY Times, Product
<1>2. TimeOf(m, n) = mT + nR
    BY DEF TimeOf
<1>3. TimeOf(m + 1, n) = (mT + T) + nR
    BY <1>1 DEF TimeOf
<1>4. TimeOf(m, n + 1) = mT + (nR + MaxRetryAfter)
    BY <1>1 DEF TimeOf
<1> HIDE DEF T, mT, nR
<1>5. mT + T + nR = mT + nR + T /\ mT + (nR + MaxRetryAfter) = mT + nR + MaxRetryAfter
    BY <1>1
<1>6. Timeout * Second = T
    BY DEF T
<1>7. QED
    BY <1>2, <1>3, <1>4, <1>5, <1>6

LEMMA TimeMonotone ==
    ASSUME NEW m \in Nat, NEW n \in Nat, NEW k \in Nat, NEW l \in Nat, m <= k, n <= l
    PROVE  TimeOf(m, n) <= TimeOf(k, l)
<1> DEFINE mT == m * (Timeout * Second)
           kT == k * (Timeout * Second)
           nR == n * MaxRetryAfter
           lR == l * MaxRetryAfter
<1>1. mT \in Nat /\ kT \in Nat /\ nR \in Nat /\ lR \in Nat
    BY Times, Product
<1>2. mT <= kT /\ nR <= lR
    BY Times, ProductGrows
<1>3. TimeOf(m, n) = mT + nR /\ TimeOf(k, l) = kT + lR
    BY DEF TimeOf
<1> HIDE DEF mT, kT, nR, lR
<1>4. QED
    BY <1>1, <1>2, <1>3

(* What a round may have spent grows with its steps, up to the worst case. *)
LEMMA Budgets ==
    ASSUME NEW a \in Nat
    PROVE  /\ Budget("idle", 0) = 0 /\ Budget("token", 0) = 0 /\ Budget("send", 0) = 0
           /\ Budget("await", a + 1) = Budget("send", a)
           /\ a > 0 => /\ Budget("answer", a) = Budget("await", a) + Timeout * Second
                       /\ Budget("refresh", a) = Budget("answer", a)
                       /\ Budget("send", a) = Budget("answer", a) + MaxRetryAfter
           /\ \A pc \in CallPc : a \in Attempts(pc) =>
                  /\ Budget(pc, a) \in Nat
                  /\ Budget(pc, a) <= Budget("done", MaxAttempts)
<1>1. TimeOf(0, 0) = 0
    BY Times DEF TimeOf
<1>2. Budget("idle", 0) = 0 /\ Budget("token", 0) = 0 /\ Budget("send", 0) = 0
    BY <1>1 DEF Budget
<1>3. Budget("await", a + 1) = Budget("send", a)
  <2>1. (a + 1) - 1 = a
        OBVIOUS
  <2>2. QED
        BY <2>1 DEF Budget
<1>4. ASSUME a > 0
      PROVE  /\ Budget("answer", a) = Budget("await", a) + Timeout * Second
             /\ Budget("refresh", a) = Budget("answer", a)
             /\ Budget("send", a) = Budget("answer", a) + MaxRetryAfter
  <2>1. a - 1 \in Nat /\ (a - 1) + 1 = a
        BY <1>4
  <2>2. TimeOf(a, a - 1) = TimeOf(a - 1, a - 1) + Timeout * Second
        BY <2>1, TimeGrows
  <2>3. TimeOf(a, a) = TimeOf(a, a - 1) + MaxRetryAfter
        BY <2>1, TimeGrows
  <2>4. QED
        BY <2>2, <2>3 DEF Budget
<1>5. ASSUME NEW pc \in CallPc, a \in Attempts(pc)
      PROVE  Budget(pc, a) \in Nat /\ Budget(pc, a) <= Budget("done", MaxAttempts)
  <2>1. MaxAttempts \in Nat \ {0}
        BY Times
  <2>2. Budget("done", MaxAttempts) = TimeOf(MaxAttempts, MaxAttempts - 1)
        BY DEF Budget
  <2>3. PICK m \in 0 .. MaxAttempts, n \in 0 .. MaxAttempts - 1 : Budget(pc, a) = TimeOf(m, n)
    <3>1. CASE pc \in {"idle", "token", "send"}
      <4>1. a \in 0 .. MaxAttempts - 1
            BY <1>5, <2>1, <3>1 DEF Attempts
      <4>2. Budget(pc, a) = TimeOf(a, a)
            BY <3>1 DEF Budget
      <4>3. QED
            BY <2>1, <4>1, <4>2
    <3>2. CASE pc = "await"
      <4>1. a - 1 \in 0 .. MaxAttempts - 1
            BY <1>5, <2>1, <3>2 DEF Attempts
      <4>2. Budget(pc, a) = TimeOf(a - 1, a - 1)
            BY <3>2 DEF Budget
      <4>3. QED
            BY <2>1, <4>1, <4>2
    <3>3. CASE pc \in {"answer", "refresh"}
      <4>1. a - 1 \in 0 .. MaxAttempts - 1 /\ a \in 0 .. MaxAttempts
            BY <1>5, <2>1, <3>3 DEF Attempts
      <4>2. Budget(pc, a) = TimeOf(a, a - 1)
            BY <3>3 DEF Budget
      <4>3. QED
            BY <2>1, <4>1, <4>2
    <3>4. CASE pc = "done"
      <4>1. Budget(pc, a) = TimeOf(MaxAttempts, MaxAttempts - 1)
            BY <3>4 DEF Budget
      <4>2. QED
            BY <2>1, <4>1
    <3>5. QED
          BY <3>1, <3>2, <3>3, <3>4 DEF CallPc
  <2>4. QED
        BY <2>1, <2>2, <2>3, TimeType, TimeMonotone
<1>6. QED
    BY <1>2, <1>3, <1>4, <1>5

(* An advised wait is capped, an exponential one lower still.              *)
LEMMA Backoffs ==
    ASSUME NEW a \in Nat \ {0}, NEW advice \in Advice \cup {NoAdvice}
    PROVE  Out!BackoffMs(a, advice) \in 0 .. MaxRetryAfter
<1>1. /\ Second \in Nat /\ BaseBackoff \in Nat /\ MaxBackoff \in Nat /\ MaxRetryAfter \in Nat
      /\ MaxBackoff <= MaxRetryAfter /\ Advice \subseteq Nat
    BY PolicyIsLegal DEF Out!PolicyAssumption
<1>2. CASE advice # NoAdvice
  <2>1. advice * Second \in Nat
        BY <1>1, <1>2, Product
  <2>2. QED
        BY <1>1, <1>2, <2>1 DEF Out!BackoffMs, Out!Smaller, Out!Larger
<1>3. CASE advice = NoAdvice
  <2>1. a - 1 \in Nat /\ 2 ^ (a - 1) \in Nat
        BY Power
  <2>2. BaseBackoff * 2 ^ (a - 1) \in Nat
        BY <1>1, <2>1, Product
  <2>3. QED
        BY <1>1, <1>3, <2>2 DEF Out!BackoffMs, Out!Smaller
<1>4. QED
    BY <1>2, <1>3

LEMMA ReplyFacts ==
    ASSUME NEW r \in Out!Replies \cup {Out!Lost}
    PROVE  /\ Out!AdviceOf(r) \in Advice \cup {NoAdvice}
           /\ Out!Classify(r) = "token_expired" => r.code = "expired"
           /\ Out!Classify(Out!Lost) = "retry"
<1>1. r.advice \in Advice \cup {NoAdvice}
    BY DEF Out!Replies, Out!Lost
<1>2. Out!AdviceOf(r) \in Advice \cup {NoAdvice}
    BY <1>1 DEF Out!AdviceOf
<1>3. Out!Classify(Out!Lost) = "retry"
    BY DEF Out!Classify, Out!Lost
<1>4. Out!Classify(r) = "token_expired" => r.code = "expired"
    BY DEF Out!Classify, Out!ClassifyByCode
<1>5. QED
    BY <1>2, <1>3, <1>4

-----------------------------------------------------------------------------
LEMMA CallInitial == Out!Init => CallInv
<1> SUFFICES ASSUME Out!Init PROVE CallInv
    OBVIOUS
<1>1. Out!Idle \in CallRecord /\ Out!Idle.pc = "idle" /\ Out!Idle.attempt = 0
         /\ Out!Idle.spent = 0 /\ Out!Idle.sent = 0
  <2> DEFINE k0 == CHOOSE k \in Out!Kinds : TRUE
  <2>1. k0 \in Out!Kinds
    <3>1. [raw |-> TRUE, idempotent |-> TRUE] \in Out!Kinds
          BY DEF Out!Kinds
    <3>2. QED
          BY <3>1
  <2>2. Out!Idle = [pc |-> "idle", kind |-> k0, attempt |-> 0, sent |-> 0, refreshed |-> FALSE,
                    spent |-> 0, reply |-> Out!Lost, outcome |-> "none"]
        BY DEF Out!Idle
  <2> HIDE DEF k0
  <2>3. Out!Idle \in CallRecord
        BY <2>1, <2>2 DEF CallRecord, CallPc, Outcomes
  <2>4. QED
        BY <2>2, <2>3
<1>2. CallTyped
    BY <1>1 DEF Out!Init, CallTyped
<1>3. ASSUME NEW c \in Request PROVE Repeatable(c) /\ InBudget(c)
  <2>1. out[c] = Out!Idle /\ Nothing(c)
        BY DEF Out!Init, Nothing, Pending
  <2>2. Repeatable(c)
        BY <1>1, <2>1 DEF Repeatable, AtMostOnce, OnTheWay, Nothing
  <2>3. InBudget(c)
        BY <1>1, <2>1, Budgets DEF InBudget, Attempts
  <2>4. QED
        BY <2>2, <2>3
<1>4. QED
    BY <1>2, <1>3 DEF CallInv

(* A step of one call leaves the others as they were.                      *)
OthersStand(c) ==
    \A d \in Request \ {c} :
        /\ out'[d] = out[d] /\ effects'[d] = effects[d]
        /\ {x \in copies' : x[1] = d} = Pending(d)

LEMMA CallFrame ==
    ASSUME CallInv, NEW c \in Request, OthersStand(c),
           CallTyped', Repeatable(c)', InBudget(c)'
    PROVE  CallInv'
<1>1. ASSUME NEW d \in Request \ {c} PROVE Repeatable(d)' /\ InBudget(d)'
  <2>1. out'[d] = out[d] /\ effects'[d] = effects[d] /\ Pending(d)' = Pending(d)
        BY DEF OthersStand, Pending
  <2>2. Repeatable(d) /\ InBudget(d)
        BY DEF CallInv
  <2>3. QED
        BY <2>1, <2>2
           DEF Repeatable, InBudget, AtMostOnce, OnTheWay, Nothing, Out!MayRefresh
<1>2. QED
    BY <1>1 DEF CallInv

(* A step inside the caller: nothing is sent, nothing comes back.          *)
LEMMA CallLocal ==
    ASSUME CallInv, NEW c \in Request, NEW r \in CallRecord,
           out' = [out EXCEPT ![c] = r], UNCHANGED <<copies, effects>>,
           r.sent = out[c].sent
    PROVE  CallTyped' /\ OthersStand(c) /\ out'[c] = r
           /\ (Nothing(c) => Nothing(c)') /\ (OnTheWay(c) => OnTheWay(c)')
           /\ (AtMostOnce(c) => AtMostOnce(c)') /\ (Nothing(c) => AtMostOnce(c)')
<1>1. out \in [Request -> CallRecord] /\ CallTyped
    BY DEF CallInv, CallTyped
<1>2. out'[c] = r /\ \A d \in Request \ {c} : out'[d] = out[d]
    BY <1>1
<1>3. out' \in [Request -> CallRecord]
    BY <1>1
<1>4. \A d \in Request : out'[d].sent = out[d].sent
    BY <1>2
<1>5. \A x \in copies : x[1] \in Request
    BY <1>1 DEF CallTyped
<1>6. CallTyped'
    BY <1>1, <1>3, <1>4, <1>5 DEF CallTyped
<1>7. OthersStand(c)
    BY <1>2 DEF OthersStand, Pending
<1>8. QED
    BY <1>2, <1>4, <1>6, <1>7 DEF Nothing, OnTheWay, AtMostOnce, Pending

LEMMA OneCallReturns ==
    ASSUME CallInv, NEW c \in Request, NEW outcome \in Outcomes, out[c].pc # "idle",
           Out!Return(c, outcome), UNCHANGED <<copies, effects>>
    PROVE  CallInv'
<1> DEFINE r == [out[c] EXCEPT !.pc = "done", !.outcome = outcome, !.reply = Out!Lost]
<1>1. out[c] \in CallRecord
    BY DEF CallInv, CallTyped
<1>2. r \in CallRecord /\ r.pc = "done" /\ r.sent = out[c].sent /\ r.kind = out[c].kind
         /\ r.attempt = out[c].attempt /\ r.spent = out[c].spent
    BY <1>1 DEF CallRecord, CallPc
<1>3. out' = [out EXCEPT ![c] = r]
  <2>1. out \in [Request -> CallRecord]
        BY DEF CallInv, CallTyped
  <2>2. QED
        BY <2>1 DEF Out!Return
<1> HIDE DEF r
<1>4. CallTyped' /\ OthersStand(c) /\ out'[c] = r /\ (AtMostOnce(c) => AtMostOnce(c)')
    BY <1>2, <1>3, CallLocal
<1>5. Repeatable(c)'
    BY <1>2, <1>4 DEF Repeatable, CallInv
<1>6. InBudget(c)'
  <2>1. InBudget(c) /\ out[c].attempt \in Nat /\ out[c].pc \in CallPc /\ out[c].spent \in Nat
        BY <1>1 DEF CallInv, CallRecord
  <2>2. /\ Budget(out[c].pc, out[c].attempt) \in Nat
        /\ Budget(out[c].pc, out[c].attempt) <= Budget("done", MaxAttempts)
        BY <2>1, Budgets DEF InBudget
  <2>3. Budget("done", MaxAttempts) \in Nat
        BY Budgets, Times DEF Attempts, CallPc
  <2>4. Budget("done", out[c].attempt) = Budget("done", MaxAttempts)
        BY DEF Budget
  <2>5. out[c].spent <= Budget("done", out[c].attempt)
        BY <2>1, <2>2, <2>3, <2>4 DEF InBudget
  <2>6. out[c].attempt \in Attempts("done")
        BY <2>1, Times DEF InBudget, Attempts, CallPc
  <2>7. QED
        BY <1>2, <1>4, <2>5, <2>6 DEF InBudget
<1>7. QED
    BY <1>4, <1>5, <1>6, CallFrame

LEMMA BeginStep ==
    ASSUME CallInv, NEW c \in Request, NEW kind \in Out!Kinds, Out!Begin(c, kind)
    PROVE  CallInv'
<1> DEFINE pc == IF kind.raw THEN "send" ELSE "token"
           r == [out[c] EXCEPT !.pc = pc, !.kind = kind]
<1>1. out[c] \in CallRecord /\ out[c].pc = "idle" /\ Nothing(c) /\ InBudget(c)
    BY DEF CallInv, CallTyped, Repeatable, Out!Begin
<1>2. r \in CallRecord /\ r.pc = pc /\ r.sent = out[c].sent
         /\ r.attempt = out[c].attempt /\ r.spent = out[c].spent
    BY <1>1 DEF CallRecord, CallPc
<1>3. out' = [out EXCEPT ![c] = r] /\ UNCHANGED <<copies, effects>>
  <2>1. out \in [Request -> CallRecord]
        BY DEF CallInv, CallTyped
  <2>2. QED
        BY <2>1 DEF Out!Begin, Out!feishu
<1> HIDE DEF r
<1>4. CallTyped' /\ OthersStand(c) /\ out'[c] = r /\ Nothing(c)' /\ AtMostOnce(c)'
    BY <1>1, <1>2, <1>3, CallLocal
<1>5. pc \in {"token", "send"}
    OBVIOUS
<1> HIDE DEF pc
<1>6. Repeatable(c)'
    BY <1>2, <1>4, <1>5 DEF Repeatable
<1>7. InBudget(c)'
  <2>1. out[c].attempt = 0 /\ out[c].spent <= 0
        BY <1>1, Budgets DEF InBudget, Attempts
  <2>2. 0 \in Attempts(pc) /\ Budget(pc, 0) = 0
        BY <1>5, Budgets, Times DEF Attempts
  <2>3. QED
        BY <1>2, <1>4, <2>1, <2>2 DEF InBudget
<1>8. QED
    BY <1>4, <1>6, <1>7, CallFrame

LEMMA GetTokenStep ==
    ASSUME CallInv, NEW c \in Request, Out!GetToken(c)
    PROVE  CallInv'
<1>1. UNCHANGED <<copies, effects>> /\ out[c].pc = "token"
    BY DEF Out!GetToken, Out!feishu
<1>2. CASE Out!Return(c, "failed")
    BY <1>1, <1>2, OneCallReturns DEF Outcomes
<1>3. CASE Out!Goto(c, "send")
  <2> DEFINE r == [out[c] EXCEPT !.pc = "send"]
  <2>1. out \in [Request -> CallRecord] /\ Repeatable(c) /\ InBudget(c)
        BY DEF CallInv, CallTyped
  <2>2. r \in CallRecord /\ r.pc = "send" /\ r.sent = out[c].sent /\ r.kind = out[c].kind
           /\ r.attempt = out[c].attempt /\ r.spent = out[c].spent
        BY <2>1 DEF CallRecord, CallPc
  <2>3. out' = [out EXCEPT ![c] = r]
        BY <1>3, <2>1 DEF Out!Goto
  <2> HIDE DEF r
  <2>4. CallTyped' /\ OthersStand(c) /\ out'[c] = r /\ (Nothing(c) => Nothing(c)')
           /\ (AtMostOnce(c) => AtMostOnce(c)')
        BY <1>1, <2>2, <2>3, CallLocal
  <2>5. Repeatable(c)'
        BY <1>1, <2>1, <2>2, <2>4 DEF Repeatable
  <2>6. InBudget(c)'
    <3>1. out[c].attempt = 0 /\ out[c].spent <= 0
          BY <1>1, <2>1, Budgets DEF InBudget, Attempts
    <3>2. 0 \in Attempts("send") /\ Budget("send", 0) = 0
          BY Budgets, Times DEF Attempts
    <3>3. QED
          BY <2>2, <2>4, <3>1, <3>2 DEF InBudget
  <2>7. QED
        BY <2>4, <2>5, <2>6, CallFrame
<1>4. QED
    BY <1>2, <1>3 DEF Out!GetToken

LEMMA SendStep ==
    ASSUME CallInv, NEW c \in Request, Out!Send(c)
    PROVE  CallInv'
<1> DEFINE r == [out[c] EXCEPT !.pc = "await", !.attempt = @ + 1, !.sent = @ + 1]
           x == <<c, out[c].sent + 1>>
<1>1. CallTyped /\ out \in [Request -> CallRecord] /\ Repeatable(c) /\ InBudget(c)
         /\ out[c].pc = "send" /\ effects' = effects
    BY DEF CallInv, CallTyped, Out!Send
<1>2. /\ r \in CallRecord /\ r.pc = "await" /\ r.sent = out[c].sent + 1 /\ r.kind = out[c].kind
      /\ r.attempt = out[c].attempt + 1 /\ r.spent = out[c].spent
      /\ out[c].sent \in Nat /\ out[c].attempt \in Nat /\ out[c].spent \in Nat
  <2>1. out[c] \in CallRecord
        BY <1>1
  <2>2. /\ out[c].sent \in Nat /\ out[c].attempt \in Nat /\ out[c].spent \in Nat
        /\ out[c].sent + 1 \in Nat /\ out[c].attempt + 1 \in Nat /\ "await" \in CallPc
        BY <2>1 DEF CallRecord, CallPc
  <2>3. QED
        BY <2>1, <2>2 DEF CallRecord
<1>3. out' = [out EXCEPT ![c] = r]
    BY <1>1 DEF Out!Send
<1>4. copies' = copies \cup {x} /\ x[1] = c /\ x[2] = r.sent /\ x \in Request \X Nat
    BY <1>2 DEF Out!Send
<1> HIDE DEF r, x
<1>5. out'[c] = r /\ (\A d \in Request \ {c} : out'[d] = out[d]) /\ out' \in [Request -> CallRecord]
    BY <1>1, <1>2, <1>3
<1>6. CallTyped'
  <2>1. \A y \in copies' : y[2] <= out'[y[1]].sent
    <3>1. ASSUME NEW y \in copies PROVE y[2] <= out'[y[1]].sent
      <4>1. y[1] \in Request /\ y[2] \in Nat /\ y[2] <= out[y[1]].sent
            BY <1>1 DEF CallTyped
      <4>2. CASE y[1] = c
            BY <1>2, <1>5, <4>1, <4>2
      <4>3. CASE y[1] # c
            BY <1>5, <4>1, <4>3
      <4>4. QED
            BY <4>2, <4>3
    <3>2. x[2] <= out'[x[1]].sent
          BY <1>2, <1>4, <1>5
    <3>3. QED
          BY <1>4, <3>1, <3>2
  <2>2. QED
        BY <1>1, <1>4, <1>5, <2>1 DEF CallTyped
<1>7. OthersStand(c)
    BY <1>1, <1>4, <1>5 DEF OthersStand, Pending
<1>8. Repeatable(c)'
  <2>1. ASSUME Nothing(c) PROVE OnTheWay(c)'
    <3>1. x = <<c, r.sent>>
          BY <1>2 DEF x
    <3>2. Pending(c)' = {x}
          BY <1>4, <2>1 DEF Nothing, Pending
    <3>3. QED
          BY <1>1, <1>5, <2>1, <3>1, <3>2 DEF Nothing, OnTheWay
  <2>2. QED
        BY <1>1, <1>2, <1>5, <2>1 DEF Repeatable, AtMostOnce
<1>9. InBudget(c)'
  <2>1. out[c].attempt + 1 \in Attempts("await")
        BY <1>1, <1>2, Times DEF InBudget, Attempts
  <2>2. Budget("await", out[c].attempt + 1) = Budget("send", out[c].attempt)
        BY <1>2, Budgets
  <2>3. QED
        BY <1>1, <1>2, <1>5, <2>1, <2>2 DEF InBudget
<1>10. QED
    BY <1>6, <1>7, <1>8, <1>9, CallFrame

(* A copy leaves the net, and Feishu has carried it out or not.            *)
LEMMA CopyHandled ==
    ASSUME CallInv, NEW c \in Request, NEW n, \E done \in BOOLEAN : Out!CarriedOut(c, n, done)
    PROVE  /\ <<c, n>> \in Pending(c)
           /\ copies' \in SUBSET copies
           /\ effects' \in [Request -> Nat]
           /\ effects'[c] \in {effects[c], effects[c] + 1}
           /\ \A d \in Request \ {c} :
                 effects'[d] = effects[d] /\ {x \in copies' : x[1] = d} = Pending(d)
           /\ OnTheWay(c) => n = out[c].sent /\ Pending(c)' = {}
<1>1. effects \in [Request -> Nat]
    BY DEF CallInv, CallTyped
<1>2. effects' \in [Request -> Nat] /\ effects'[c] \in {effects[c], effects[c] + 1}
         /\ \A d \in Request \ {c} : effects'[d] = effects[d]
    BY <1>1 DEF Out!CarriedOut
<1>3. copies' = copies \ {<<c, n>>} /\ <<c, n>> \in copies
    BY DEF Out!CarriedOut
<1>4. <<c, n>> \in Pending(c) /\ Pending(c)' = Pending(c) \ {<<c, n>>}
    BY <1>3 DEF Pending
<1>5. \A d \in Request \ {c} : {x \in copies' : x[1] = d} = Pending(d)
    BY <1>3 DEF Pending
<1>6. OnTheWay(c) => n = out[c].sent /\ Pending(c)' = {}
    BY <1>4 DEF OnTheWay
<1>7. QED
    BY <1>2, <1>3, <1>4, <1>5, <1>6

LEMMA HandleStep ==
    ASSUME CallInv, NEW c \in Request, NEW reply \in Out!Replies,
           NEW time \in {0, Timeout * Second}, Out!Handle(c, reply, time)
    PROVE  CallInv'
<1> DEFINE r == [out[c] EXCEPT !.pc = "answer", !.reply = reply, !.spent = @ + time]
<1>1. CallTyped /\ out \in [Request -> CallRecord] /\ Repeatable(c) /\ InBudget(c)
         /\ out[c].pc = "await"
    BY DEF CallInv, CallTyped, Out!Handle
<1>2. \E done \in BOOLEAN :
          Out!MayAnswer(c, reply, done) /\ Out!CarriedOut(c, out[c].sent, done)
    BY DEF Out!Handle
<1>3. /\ copies' \in SUBSET copies
      /\ effects' \in [Request -> Nat]
      /\ effects'[c] \in {effects[c], effects[c] + 1}
      /\ \A d \in Request \ {c} :
            effects'[d] = effects[d] /\ {x \in copies' : x[1] = d} = Pending(d)
      /\ OnTheWay(c) => Pending(c)' = {}
  <2> DEFINE n == out[c].sent
  <2>1. \E done \in BOOLEAN : Out!CarriedOut(c, n, done)
        BY <1>2
  <2> HIDE DEF n
  <2>2. QED
        BY <2>1, CopyHandled
<1>4. reply.code = "expired" => effects'[c] = effects[c]
  <2>1. effects \in [Request -> Nat]
        BY <1>1 DEF CallTyped
  <2>2. QED
        BY <1>2, <2>1 DEF Out!MayAnswer, Out!CarriedOut
<1>5. /\ r \in CallRecord /\ r.pc = "answer" /\ r.sent = out[c].sent /\ r.kind = out[c].kind
      /\ r.attempt = out[c].attempt /\ r.spent = out[c].spent + time /\ r.reply = reply
      /\ out[c].attempt \in Nat /\ out[c].spent \in Nat /\ time \in Nat
      /\ time <= Timeout * Second
  <2> DEFINE T == Timeout * Second
  <2>1. out[c] \in CallRecord /\ T \in Nat /\ time \in {0, T}
        BY <1>1, Times
  <2> HIDE DEF T
  <2>2. out[c].attempt \in Nat /\ out[c].spent \in Nat /\ time \in Nat /\ time <= T
           /\ out[c].spent + time \in Nat /\ "answer" \in CallPc
        BY <2>1 DEF CallRecord, CallPc
  <2>3. r \in CallRecord /\ r.pc = "answer" /\ r.sent = out[c].sent /\ r.kind = out[c].kind
           /\ r.attempt = out[c].attempt /\ r.spent = out[c].spent + time /\ r.reply = reply
        BY <2>1, <2>2 DEF CallRecord
  <2>4. QED
        BY <2>2, <2>3 DEF T
<1>6. out' = [out EXCEPT ![c] = r]
    BY <1>1 DEF Out!Handle
<1> HIDE DEF r
<1>7. out'[c] = r /\ (\A d \in Request \ {c} : out'[d] = out[d]) /\ out' \in [Request -> CallRecord]
         /\ \A d \in Request : out'[d].sent = out[d].sent
    BY <1>1, <1>5, <1>6
<1>8. CallTyped'
    BY <1>1, <1>3, <1>7 DEF CallTyped
<1>9. OthersStand(c)
    BY <1>3, <1>7 DEF OthersStand
<1>10. Repeatable(c)'
  <2>1. ASSUME ~out[c].kind.idempotent
        PROVE  AtMostOnce(c)' /\ (Out!MayRefresh(c)' => Nothing(c)')
    <3>1. OnTheWay(c)
          BY <1>1, <2>1 DEF Repeatable
    <3>2. Pending(c)' = {} /\ effects'[c] \in {0, 1}
          BY <1>3, <3>1 DEF OnTheWay
    <3>3. ASSUME Out!MayRefresh(c)' PROVE effects'[c] = 0
      <4>1. reply.code = "expired"
            BY <1>5, <1>7, <3>3, ReplyFacts DEF Out!MayRefresh
      <4>2. QED
            BY <1>4, <3>1, <4>1 DEF OnTheWay
    <3>4. AtMostOnce(c)'
          BY <3>2 DEF AtMostOnce, OnTheWay
    <3>5. Out!MayRefresh(c)' => Nothing(c)'
          BY <3>2, <3>3 DEF Nothing
    <3>6. QED
          BY <3>4, <3>5
  <2>2. QED
        BY <1>5, <1>7, <2>1 DEF Repeatable
<1>11. InBudget(c)'
  <2>1. out[c].attempt \in Attempts("answer") /\ out[c].attempt > 0
        BY <1>1, <1>5, Times DEF InBudget, Attempts
  <2>2. Budget("answer", out[c].attempt) = Budget("await", out[c].attempt) + Timeout * Second
        BY <1>5, <2>1, Budgets
  <2>3. Budget("await", out[c].attempt) \in Nat /\ out[c].spent <= Budget("await", out[c].attempt)
        BY <1>1, <1>5, Budgets DEF InBudget, CallPc
  <2> DEFINE T == Timeout * Second
  <2>4. out[c].spent + time <= Budget("await", out[c].attempt) + T
    <3>1. T \in Nat /\ time <= T
          BY <1>5, Times
    <3> HIDE DEF T
    <3>2. QED
          BY <1>5, <2>3, <3>1
  <2>5. QED
        BY <1>5, <1>7, <2>1, <2>2, <2>4 DEF InBudget
<1>12. QED
    BY <1>8, <1>9, <1>10, <1>11, CallFrame

LEMMA HandleLateStep ==
    ASSUME CallInv, NEW c \in Request, NEW n, Out!HandleLate(c, n)
    PROVE  CallInv'
<1>1. CallTyped /\ Repeatable(c) /\ InBudget(c) /\ out' = out
    BY DEF CallInv, CallTyped, Out!HandleLate
<1>2. /\ <<c, n>> \in Pending(c)
      /\ copies' \in SUBSET copies
      /\ effects' \in [Request -> Nat]
      /\ effects'[c] \in {effects[c], effects[c] + 1}
      /\ \A d \in Request \ {c} :
            effects'[d] = effects[d] /\ {x \in copies' : x[1] = d} = Pending(d)
      /\ OnTheWay(c) => n = out[c].sent /\ Pending(c)' = {}
  <2>1. \E done \in BOOLEAN : Out!CarriedOut(c, n, done)
        BY DEF Out!HandleLate
  <2>2. QED
        BY <2>1, CopyHandled
<1>3. CallTyped'
    BY <1>1, <1>2 DEF CallTyped
<1>4. OthersStand(c)
    BY <1>1, <1>2 DEF OthersStand
<1>5. InBudget(c)'
    BY <1>1 DEF InBudget
<1>6. Repeatable(c)'
  <2>1. ~Nothing(c)
        BY <1>2 DEF Nothing
  <2>2. ASSUME ~out[c].kind.idempotent
        PROVE  /\ out[c].pc \notin {"token", "send", "refresh", "await"}
               /\ ~(out[c].pc = "answer" /\ Out!MayRefresh(c))
               /\ AtMostOnce(c)'
    <3>1. AtMostOnce(c)
          BY <1>1, <2>2 DEF Repeatable
    <3>2. OnTheWay(c)
          BY <1>2, <3>1 DEF AtMostOnce
    <3>3. Pending(c)' = {} /\ effects'[c] \in {0, 1} /\ n = out[c].sent
          BY <1>2, <3>2 DEF OnTheWay
    <3>4. AtMostOnce(c)'
          BY <3>3 DEF AtMostOnce, OnTheWay
    <3>5. out[c].pc # "await"
          BY <3>3 DEF Out!HandleLate
    <3>6. QED
          BY <1>1, <2>1, <2>2, <3>4, <3>5 DEF Repeatable
  <2>3. Out!MayRefresh(c)' <=> Out!MayRefresh(c)
        BY <1>1 DEF Out!MayRefresh
  <2>4. QED
        BY <1>1, <2>1, <2>2, <2>3 DEF Repeatable
<1>7. QED
    BY <1>3, <1>4, <1>5, <1>6, CallFrame

LEMMA GiveUpWaitingStep ==
    ASSUME CallInv, NEW c \in Request, Out!GiveUpWaiting(c)
    PROVE  CallInv'
<1> DEFINE T == Timeout * Second
           r == [out[c] EXCEPT !.pc = "answer", !.reply = Out!Lost, !.spent = @ + T]
<1>1. CallTyped /\ out \in [Request -> CallRecord] /\ Repeatable(c) /\ InBudget(c)
         /\ out[c].pc = "await" /\ effects' = effects
    BY DEF CallInv, CallTyped, Out!GiveUpWaiting
<1>2. out' = [out EXCEPT ![c] = r]
    BY <1>1 DEF Out!GiveUpWaiting
<1>3. T \in Nat
    BY Times
<1> HIDE DEF T
<1>4. /\ r \in CallRecord /\ r.pc = "answer" /\ r.sent = out[c].sent /\ r.kind = out[c].kind
      /\ r.attempt = out[c].attempt /\ r.spent = out[c].spent + T /\ r.reply = Out!Lost
      /\ out[c].attempt \in Nat /\ out[c].spent \in Nat
  <2>1. out[c] \in CallRecord
        BY <1>1
  <2>2. out[c].attempt \in Nat /\ out[c].spent \in Nat /\ out[c].spent + T \in Nat
           /\ "answer" \in CallPc
        BY <1>3, <2>1 DEF CallRecord, CallPc
  <2>3. QED
        BY <2>1, <2>2 DEF CallRecord
<1> HIDE DEF r
<1>5. out'[c] = r /\ (\A d \in Request \ {c} : out'[d] = out[d]) /\ out' \in [Request -> CallRecord]
         /\ \A d \in Request : out'[d].sent = out[d].sent
    BY <1>1, <1>2, <1>4
<1>6. copies' \in SUBSET copies
         /\ \A d \in Request \ {c} : {x \in copies' : x[1] = d} = Pending(d)
    BY DEF Out!GiveUpWaiting, Pending
<1>7. CallTyped'
    BY <1>1, <1>5, <1>6 DEF CallTyped
<1>8. OthersStand(c)
    BY <1>1, <1>5, <1>6 DEF OthersStand
<1>9. Repeatable(c)'
  <2>1. ~Out!MayRefresh(c)'
        BY <1>4, <1>5, ReplyFacts DEF Out!MayRefresh
  <2>2. OnTheWay(c) => AtMostOnce(c)'
    <3>1. Pending(c)' \in SUBSET Pending(c)
          BY <1>6 DEF Pending
    <3>2. QED
          BY <1>1, <1>4, <1>5, <3>1 DEF OnTheWay, AtMostOnce
  <2>3. QED
        BY <1>1, <1>4, <1>5, <2>1, <2>2 DEF Repeatable
<1>10. InBudget(c)'
  <2>1. out[c].attempt \in Attempts("answer") /\ out[c].attempt > 0
        BY <1>1, <1>4, Times DEF InBudget, Attempts
  <2>2. Budget("answer", out[c].attempt) = Budget("await", out[c].attempt) + T
        BY <1>4, <2>1, Budgets DEF T
  <2>3. Budget("await", out[c].attempt) \in Nat /\ out[c].spent <= Budget("await", out[c].attempt)
        BY <1>1, <1>4, Budgets DEF InBudget, CallPc
  <2>4. QED
        BY <1>3, <1>4, <1>5, <2>1, <2>2, <2>3 DEF InBudget
<1>11. QED
    BY <1>7, <1>8, <1>9, <1>10, CallFrame

LEMMA ReplyStep ==
    ASSUME CallInv, NEW c \in Request, Out!Answer(c)
    PROVE  CallInv'
<1>1. out \in [Request -> CallRecord] /\ out[c] \in CallRecord /\ Repeatable(c) /\ InBudget(c)
         /\ out[c].pc = "answer" /\ UNCHANGED <<copies, effects>>
    BY DEF CallInv, CallTyped, Out!Answer, Out!feishu
<1>2. out[c].attempt \in Nat \ {0} /\ out[c].spent \in Nat
         /\ out[c].attempt <= MaxAttempts /\ out[c].spent <= Budget("answer", out[c].attempt)
    BY <1>1, Times DEF CallRecord, InBudget, Attempts
<1>3. ASSUME Out!Resends(c),
             out' = [out EXCEPT ![c].pc = "send", ![c].reply = Out!Lost, ![c].spent =
                        @ + Out!BackoffMs(out[c].attempt, Out!AdviceOf(out[c].reply))]
      PROVE  CallInv'
  <2> DEFINE wait == Out!BackoffMs(out[c].attempt, Out!AdviceOf(out[c].reply))
             r == [out[c] EXCEPT !.pc = "send", !.reply = Out!Lost, !.spent = @ + wait]
  <2>1. wait \in 0 .. MaxRetryAfter
    <3>1. out[c].reply \in Out!Replies \cup {Out!Lost}
          BY <1>1 DEF CallRecord
    <3>2. QED
          BY <1>2, <3>1, ReplyFacts, Backoffs
  <2>2. out' = [out EXCEPT ![c] = r]
        BY <1>1, <1>3
  <2> HIDE DEF wait
  <2>3. r \in CallRecord /\ r.pc = "send" /\ r.sent = out[c].sent /\ r.kind = out[c].kind
           /\ r.attempt = out[c].attempt /\ r.spent = out[c].spent + wait
    <3>1. out[c].spent + wait \in Nat /\ "send" \in CallPc
          BY <1>2, <2>1, Times DEF CallPc
    <3>2. QED
          BY <1>1, <3>1 DEF CallRecord
  <2> HIDE DEF r
  <2>4. CallTyped' /\ OthersStand(c) /\ out'[c] = r
        BY <1>1, <2>2, <2>3, CallLocal
  <2>5. Repeatable(c)'
        BY <1>3, <2>3, <2>4 DEF Repeatable, Out!Resends
  <2>6. InBudget(c)'
    <3>1. out[c].attempt \in Attempts("send")
          BY <1>2, <1>3, Times DEF Attempts, Out!Resends
    <3>2. Budget("send", out[c].attempt) = Budget("answer", out[c].attempt) + MaxRetryAfter
          BY <1>2, Budgets
    <3>3. Budget("answer", out[c].attempt) \in Nat
          BY <1>1, <1>2, Budgets DEF InBudget, CallPc
    <3>4. out[c].spent + wait <= Budget("send", out[c].attempt)
          BY <1>2, <2>1, <3>2, <3>3, Times
    <3>5. QED
          BY <2>3, <2>4, <3>1, <3>4 DEF InBudget
  <2>7. QED
        BY <2>4, <2>5, <2>6, CallFrame
<1>4. ASSUME Out!MayRefresh(c), Out!Goto(c, "refresh")
      PROVE  CallInv'
  <2> DEFINE r == [out[c] EXCEPT !.pc = "refresh"]
  <2>1. r \in CallRecord /\ r.pc = "refresh" /\ r.sent = out[c].sent /\ r.kind = out[c].kind
           /\ r.attempt = out[c].attempt /\ r.spent = out[c].spent
        BY <1>1 DEF CallRecord, CallPc
  <2>2. out' = [out EXCEPT ![c] = r]
        BY <1>1, <1>4 DEF Out!Goto
  <2> HIDE DEF r
  <2>3. CallTyped' /\ OthersStand(c) /\ out'[c] = r /\ (Nothing(c) => Nothing(c)')
           /\ (AtMostOnce(c) => AtMostOnce(c)')
        BY <1>1, <2>1, <2>2, CallLocal
  <2>4. Repeatable(c)'
        BY <1>1, <1>4, <2>1, <2>3 DEF Repeatable
  <2>5. InBudget(c)'
    <3>1. out[c].attempt \in Attempts("refresh")
          BY <1>2, Times DEF Attempts
    <3>2. QED
          BY <1>2, <2>1, <2>3, <3>1, Budgets DEF InBudget
  <2>6. QED
        BY <2>3, <2>4, <2>5, CallFrame
<1>5. ASSUME Out!Return(c, Out!Outcome(c))
      PROVE  CallInv'
  <2>1. Out!Outcome(c) \in Outcomes
        BY DEF Out!Outcome, Outcomes
  <2>2. QED
        BY <1>1, <1>5, <2>1, OneCallReturns
<1>6. QED
    BY <1>3, <1>4, <1>5 DEF Out!Answer

LEMMA RefreshStep ==
    ASSUME CallInv, NEW c \in Request, Out!Refresh(c)
    PROVE  CallInv'
<1>1. out \in [Request -> CallRecord] /\ out[c] \in CallRecord /\ Repeatable(c)
         /\ out[c].pc = "refresh" /\ UNCHANGED <<copies, effects>>
    BY DEF CallInv, CallTyped, Out!Refresh, Out!feishu
<1>2. CASE Out!Return(c, "failed")
    BY <1>1, <1>2, OneCallReturns DEF Outcomes
<1>3. ASSUME out' = [out EXCEPT ![c].pc = "token", ![c].refreshed = TRUE, ![c].attempt = 0,
                                ![c].spent = 0, ![c].reply = Out!Lost]
      PROVE  CallInv'
  <2> DEFINE r == [out[c] EXCEPT !.pc = "token", !.refreshed = TRUE, !.attempt = 0,
                                 !.spent = 0, !.reply = Out!Lost]
  <2>1. r \in CallRecord /\ r.pc = "token" /\ r.sent = out[c].sent /\ r.kind = out[c].kind
           /\ r.attempt = 0 /\ r.spent = 0
        BY <1>1 DEF CallRecord, CallPc
  <2>2. out' = [out EXCEPT ![c] = r]
        BY <1>1, <1>3
  <2> HIDE DEF r
  <2>3. CallTyped' /\ OthersStand(c) /\ out'[c] = r /\ (Nothing(c) => Nothing(c)')
           /\ (AtMostOnce(c) => AtMostOnce(c)')
        BY <1>1, <2>1, <2>2, CallLocal
  <2>4. Repeatable(c)'
        BY <1>1, <2>1, <2>3 DEF Repeatable
  <2>5. InBudget(c)'
        BY <2>1, <2>3, Budgets DEF InBudget, Attempts
  <2>6. QED
        BY <2>3, <2>4, <2>5, CallFrame
<1>4. QED
    BY <1>2, <1>3 DEF Out!Refresh

LEMMA CallNextStep ==
    ASSUME CallInv, [Out!Next]_(Out!vars)
    PROVE  CallInv'
<1>1. ASSUME NEW c \in Request, Out!Step(c) \/ Out!Cancel(c) \/ \E kind \in Out!Kinds : Out!Begin(c, kind)
      PROVE  CallInv'
  <2>1. ASSUME Out!Cancel(c) PROVE CallInv'
        BY <2>1, OneCallReturns DEF Out!Cancel, Out!feishu, Outcomes
  <2>2. QED
        BY <1>1, <2>1, GetTokenStep, SendStep, GiveUpWaitingStep, ReplyStep, RefreshStep,
           BeginStep DEF Out!Step
<1>2. ASSUME NEW c \in Request, NEW r \in Out!Replies, NEW time \in {0, Timeout * Second},
             Out!Handle(c, r, time)
      PROVE  CallInv'
    BY <1>2, HandleStep
<1>3. ASSUME NEW x \in copies, Out!HandleLate(x[1], x[2])
      PROVE  CallInv'
  <2>1. x[1] \in Request
        BY DEF CallInv, CallTyped
  <2>2. QED
        BY <1>3, <2>1, HandleLateStep
<1>4. CASE UNCHANGED Out!vars
  <2>1. \A c \in Request : Pending(c)' = Pending(c)
        BY <1>4 DEF Out!vars, Pending
  <2>2. QED
        BY <1>4, <2>1 DEF Out!vars, CallInv, CallTyped, Repeatable, InBudget, AtMostOnce,
           OnTheWay, Nothing, Out!MayRefresh
<1>5. QED
    BY <1>1, <1>2, <1>3, <1>4 DEF Out!Next

LEMMA ExecutedOnceHolds == CallInv => ExecutedOnce
    BY DEF CallInv, CallTyped, Repeatable, AtMostOnce, OnTheWay, ExecutedOnce, Out!ExecutedOnce

LEMMA WithinWorstCaseHolds == CallInv => WithinWorstCase
<1> SUFFICES ASSUME CallInv, NEW c \in Request
             PROVE  out[c].spent <= Out!WorstCaseSeconds * Second
    BY DEF WithinWorstCase, Out!WithinWorstCase
<1> DEFINE T == Timeout * Second
           q == MaxRetryAfter \div Second
<1>1. /\ Second \in Nat \ {0} /\ MaxAttempts \in Nat \ {0} /\ Timeout \in Nat
      /\ MaxRetryAfter \in Nat /\ MaxRetryAfter % Second = 0 /\ T \in Nat
    BY PolicyIsLegal, Times DEF Out!PolicyAssumption
<1>2. q \in Nat /\ MaxRetryAfter = q * Second
    BY <1>1
<1> HIDE DEF q
<1>3. Out!WorstCaseSeconds * Second = Budget("done", MaxAttempts)
  <2> DEFINE n == MaxAttempts - 1
  <2>1. n \in Nat
        BY <1>1
  <2>2. Budget("done", MaxAttempts) = MaxAttempts * (Timeout * Second) + n * (q * Second)
        BY <1>2 DEF Budget, TimeOf
  <2>3. Out!WorstCaseSeconds = Timeout * MaxAttempts + q * n
        BY DEF Out!WorstCaseSeconds, q
  <2> HIDE DEF n
  <2>4. (Timeout * MaxAttempts + q * n) * Second
           = MaxAttempts * (Timeout * Second) + n * (q * Second)
        BY <1>1, <1>2, <2>1
  <2>5. QED
        BY <2>2, <2>3, <2>4
<1>4. out[c].spent \in Nat /\ out[c].attempt \in Nat /\ out[c].pc \in CallPc /\ InBudget(c)
    BY DEF CallInv, CallTyped, CallRecord
<1>5. /\ Budget(out[c].pc, out[c].attempt) \in Nat
      /\ Budget(out[c].pc, out[c].attempt) <= Budget("done", MaxAttempts)
    BY <1>4, Budgets DEF InBudget
<1>6. Budget("done", MaxAttempts) \in Nat
    BY <1>1, Budgets DEF Attempts, CallPc
<1>7. QED
    BY <1>3, <1>4, <1>5, <1>6 DEF InBudget

LEMMA CallAlways == Out!Spec => []CallInv
<1>1. Out!Init => CallInv
    BY CallInitial
<1>2. CallInv /\ [Out!Next]_(Out!vars) => CallInv'
    BY CallNextStep
<1>3. QED
    BY <1>1, <1>2, PTL DEF Out!Spec

(* A request that is not idempotent takes effect at most once, for any     *)
(* policy and any number of calls, whatever is lost, late or rejected      *)
(* (disposition, send_with_retry).                                         *)
THEOREM SentOnce == Out!Spec => []ExecutedOnce
    BY CallAlways, ExecutedOnceHolds, PTL

(* A round of attempts, with the waits in between, ends within what        *)
(* worst_case_seconds computes for the policy, for every policy that meets *)
(* PolicyAssumption as those of transport/mod.rs do.                       *)
THEOREM BudgetKept == Out!Spec => []WithinWorstCase
    BY CallAlways, WithinWorstCaseHolds, PTL
=============================================================================
