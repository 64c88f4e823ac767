-------------------------- MODULE HttpSend_proofs --------------------------
(***************************************************************************)
(* Proofs about HttpSend, for every set of tasks and hosts, every retry    *)
(* policy and every breaker configuration.                                 *)
(***************************************************************************)
EXTENDS HttpSend, Integers, TLAPS

Local == [pc : {"idle", "guard", "sent", "sleep", "done"}, host : Host,
          policy : Policy, attempt : Nat, budget : Int, hits : Nat, reply : Reply]

(* How often the upstream has been hit follows from the loop's counter. *)
Counted(c) ==
    /\ c.attempt <= MaxRetries
    /\ c.policy = "once" => c.attempt = 0
    /\ c.pc \in {"guard", "sleep"} => c.hits = c.attempt
    /\ c.pc = "sent" => c.hits = c.attempt + 1
    /\ c.pc \in {"idle", "done"} => c.hits <= c.attempt + 1

IInv == send \in [Task -> Local] /\ \A t \in Task : Counted(send[t])

LEMMA Fields ==
    ASSUME NEW c \in Local
    PROVE  /\ c.attempt \in Nat /\ c.hits \in Nat /\ c.budget \in Int
           /\ c.pc \in {"idle", "guard", "sent", "sleep", "done"}
           /\ c.policy \in Policy /\ c.host \in Host /\ c.reply \in Reply
BY DEF Local

LEMMA NoReplyIsReply == NoReply \in Reply
BY Zenon DEF NoReply, Reply

LEMMA LoopedLocal ==
    ASSUME NEW c \in Local, NEW a \in Nat, NEW b \in Int
    PROVE  [c EXCEPT !.pc = "sleep", !.attempt = a, !.budget = b] \in Local
BY DEF Local

LEMMA HitLocal ==
    ASSUME NEW c \in Local, NEW n \in Nat, NEW r \in Reply
    PROVE  [c EXCEPT !.pc = "sent", !.reply = r, !.hits = n] \in Local
BY DEF Local

(* One task's locals are replaced by ones that count right. *)
LEMMA Update ==
    ASSUME IInv, NEW t \in Task, NEW c \in Local, Counted(c),
           send' = [send EXCEPT ![t] = c]
    PROVE  IInv'
BY DEF IInv, Counted

LEMMA FreshCounted ==
    ASSUME NEW h \in Host, NEW policy \in Policy
    PROVE  Fresh(h, policy) \in Local /\ Counted(Fresh(h, policy))
<1>1. Fresh(h, policy) \in Local
    BY NoReplyIsReply, RetryAssumption DEF Fresh, Local
<1>2. Counted(Fresh(h, policy))
    BY RetryAssumption DEF Fresh, Counted
<1>3. QED
    BY <1>1, <1>2

LEMMA IdleCounted ==
    ASSUME Host # {}
    PROVE  Idle \in Local /\ Counted(Idle)
<1>1. (CHOOSE h \in Host : TRUE) \in Host
    OBVIOUS
<1>2. "once" \in Policy
    BY DEF Policy
<1>3. Idle \in Local
    <2>1. Fresh(CHOOSE h \in Host : TRUE, "once") \in Local
        BY <1>1, <1>2, FreshCounted
    <2>2. QED
        BY <2>1 DEF Idle, Local
<1>4. Counted(Idle)
    BY <1>1, <1>2, RetryAssumption DEF Idle, Fresh, Counted
<1>5. QED
    BY <1>3, <1>4

LEMMA GuardStep ==
    ASSUME IInv, NEW t \in Task, NEW lag, Guard(t, lag)
    PROVE  IInv'
<1>0. send[t] \in Local /\ Counted(send[t])
    BY DEF IInv
<1>1. CASE send[t].pc = "guard" /\ send' = [send EXCEPT ![t].pc = "done", ![t].reply = NoReply]
    <2> DEFINE c == [send[t] EXCEPT !.pc = "done", !.reply = NoReply]
    <2>1. c \in Local /\ Counted(c)
        <3>1. c \in Local
            BY <1>0, NoReplyIsReply DEF Local
        <3>2. c.pc = "done" /\ c.hits = send[t].hits /\ c.attempt = send[t].attempt
              /\ c.policy = send[t].policy
            BY <1>0 DEF Local
        <3>3. QED
            BY <1>0, <1>1, <3>1, <3>2, Fields DEF Counted
    <2>2. send' = [send EXCEPT ![t] = c]
        BY <1>1 DEF IInv
    <2>3. QED
        BY <2>1, <2>2, Update
<1>2. ASSUME send[t].pc = "guard", NEW r \in Reply,
             send' = [send EXCEPT ![t].pc = "sent", ![t].reply = r, ![t].hits = @ + 1]
      PROVE  IInv'
    <2> DEFINE c == [send[t] EXCEPT !.pc = "sent", !.reply = r, !.hits = @ + 1]
    <2>1. c \in Local /\ Counted(c)
        <3>1. c \in Local
            <4>1. send[t].hits + 1 \in Nat
                BY <1>0, Fields
            <4>2. QED
                BY <1>0, <1>2, <4>1, HitLocal
        <3>2. c.pc = "sent" /\ c.hits = send[t].hits + 1 /\ c.attempt = send[t].attempt
              /\ c.policy = send[t].policy
            BY <1>0 DEF Local
        <3>3. QED
            BY <1>0, <1>2, <3>1, <3>2, Fields DEF Counted
    <2>2. send' = [send EXCEPT ![t] = c]
        BY <1>2 DEF IInv
    <2>3. QED
        BY <2>1, <2>2, Update
<1>3. QED
    BY <1>1, <1>2 DEF Guard

LEMMA SleepsInt ==
    ASSUME NEW t \in Task, send[t].budget \in Int, NEW sleep \in Sleeps(t)
    PROVE  sleep \in Int
BY DEF Sleeps, Smaller, Jittered

LEMMA AnswerStep ==
    ASSUME IInv, NEW t \in Task, NEW lag, Response(t, lag)
    PROVE  IInv'
<1>0. send[t] \in Local /\ Counted(send[t]) /\ send[t].pc = "sent"
    BY DEF IInv, Response
<1>1. CASE send' = [send EXCEPT ![t].pc = "done"]
    <2> DEFINE c == [send[t] EXCEPT !.pc = "done"]
    <2>1. c \in Local /\ Counted(c)
        BY <1>0 DEF Local, Counted
    <2>2. send' = [send EXCEPT ![t] = c]
        BY <1>1 DEF IInv
    <2>3. QED
        BY <2>1, <2>2, Update
<1>2. ASSUME WantsRetry(t), NEW sleep \in Sleeps(t), GoesOn(t, sleep)
      PROVE  IInv'
    <2> DEFINE c == [send[t] EXCEPT !.pc = "sleep", !.attempt = @ + 1, !.budget = @ - sleep]
    <2>1. send[t].budget \in Int /\ send[t].attempt \in Nat
        BY <1>0 DEF Local
    <2>2. sleep \in Int
        BY <1>2, <2>1, SleepsInt
    <2>3. c \in Local
        <3>1. send[t].attempt + 1 \in Nat /\ send[t].budget - sleep \in Int
            BY <2>1, <2>2
        <3>2. QED
            BY <1>0, <3>1, LoopedLocal
    <2>4. send[t].attempt < Retries(t)
        BY <1>2 DEF WantsRetry
    <2>5. Counted(c)
        <3>1. c.pc = "sleep" /\ c.hits = send[t].hits /\ c.attempt = send[t].attempt + 1
              /\ c.policy = send[t].policy
            BY <1>0 DEF Local
        <3>2. send[t].attempt < MaxRetries /\ send[t].policy # "once"
            BY <2>1, <2>4, RetryAssumption DEF Retries
        <3>3. QED
            BY <1>0, <2>1, <3>1, <3>2, RetryAssumption DEF Counted
    <2>6. send' = [send EXCEPT ![t] = c]
        BY <1>2 DEF GoesOn, IInv
    <2>7. QED
        BY <2>3, <2>5, <2>6, Update
<1>3. QED
    BY <1>1, <1>2 DEF Response

LEMMA Step ==
    ASSUME IInv, Host # {}, [SendNext]_sendVars
    PROVE  IInv'
<1>1. CASE UNCHANGED send
    BY <1>1 DEF IInv
<1>2. ASSUME NEW t \in Task, NEW h \in Host, NEW policy \in Policy, Send(t, h, policy)
      PROVE  IInv'
    BY <1>2, FreshCounted, Update DEF Send
<1>3. ASSUME NEW t \in Task, NEW lag, Guard(t, lag) \/ Response(t, lag)
      PROVE  IInv'
    BY <1>3, GuardStep, AnswerStep
<1>4. ASSUME NEW t \in Task, Wake(t)
      PROVE  IInv'
    <2> DEFINE c == [send[t] EXCEPT !.pc = "guard"]
    <2>1. c \in Local /\ Counted(c)
        BY <1>4 DEF IInv, Wake, Local, Counted
    <2>2. send' = [send EXCEPT ![t] = c]
        BY <1>4 DEF Wake, IInv
    <2>3. QED
        BY <2>1, <2>2, Update
<1>5. ASSUME NEW t \in Task, Drop(t)
      PROVE  IInv'
    BY <1>5, IdleCounted, Update DEF Drop
<1>6. QED
    BY <1>1, <1>2, <1>3, <1>4, <1>5 DEF SendNext, Flip, BreakerTick, sendVars

(* No call reaches the upstream more often than its policy allows, however *)
(* the breaker, the clock and the other tasks interleave with it.          *)
THEOREM HitsAreBounded ==
    ASSUME Host # {}
    PROVE  SendSpec => []HitsWithinPolicy
<1>1. SendInit => IInv
    <2>1. Idle \in Local /\ Counted(Idle)
        BY IdleCounted
    <2>2. QED
        BY <2>1 DEF SendInit, IInv
<1>2. IInv /\ [SendNext]_sendVars => IInv'
    BY Step
<1>3. IInv => HitsWithinPolicy
    <2> SUFFICES ASSUME IInv, NEW t \in Task
                 PROVE  send[t].hits <= IF send[t].policy = "retried" THEN MaxRetries + 1 ELSE 1
        BY DEF HitsWithinPolicy
    <2>1. send[t] \in Local
        BY DEF IInv
    <2>2. /\ send[t].hits \in Nat /\ send[t].attempt \in Nat
          /\ send[t].pc \in {"idle", "guard", "sent", "sleep", "done"}
          /\ send[t].policy \in Policy
        BY <2>1 DEF Local
    <2>3. send[t].hits <= send[t].attempt + 1
        BY <2>2 DEF IInv, Counted
    <2>4. send[t].attempt <= MaxRetries /\ (send[t].policy = "once" => send[t].attempt = 0)
        BY DEF IInv, Counted
    <2>5. QED
        BY <2>2, <2>3, <2>4, RetryAssumption DEF Policy
<1>4. QED
    BY <1>1, <1>2, <1>3, PTL DEF SendSpec
=============================================================================
