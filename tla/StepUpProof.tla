----------------------------- MODULE StepUpProof -----------------------------
(***************************************************************************)
(* Step-up re-authentication: a guarded action answers with a signed       *)
(* challenge, completing it yields a short-lived proof, and the middleware *)
(* lets one request per proof through.  The proof itself is a JWT; that it *)
(* was used is remembered by a StepUpProofStore, in memory or in Redis,    *)
(* no longer than the proof is thought to be valid.                        *)
(*                                                                         *)
(* Times are whole seconds.  A Redis key is taken to vanish as the second  *)
(* of its expiry begins.                                                   *)
(***************************************************************************)
EXTENDS Naturals, Sequences

CONSTANTS
    Target,         \* subject, action and resource a proof is bound to
    Request,
    ChallengeTtl, ProofTtl,
    MaxChallenges, MaxProofs, MaxTime,  \* bounds of a behaviour
    MaxLatency      \* bound: seconds between verify_proof and the store's answer

TtlAssumption ==
    /\ ChallengeTtl \in Nat \ {0} /\ ProofTtl \in Nat \ {0}
    /\ MaxProofs \in Nat

VARIABLES
    store,          \* which StepUpProofStore is installed
    now,
    challenges,     \* issued challenges: target and exp
    proofs,         \* issued proofs: target and exp
    marks,          \* proof -> second its mark in the store lasts to (0: no mark)
    req,            \* request -> where it is
    passes          \* proof -> consumptions that succeeded, up to 2 (history)

vars == <<store, now, challenges, proofs, marks, req, passes>>

Proof == 1 .. MaxProofs
Idle == [pc |-> "idle", on |-> 0, since |-> 0, at |-> 0]
At(pc, on) == [pc |-> pc, on |-> on, since |-> now, at |-> 0]
Return(r) == req' = [req EXCEPT ![r] = Idle]

(* jsonwebtoken with leeway 0 refuses a token only once exp < now. *)
Valid(token) == now <= token.exp

Init ==
    /\ store \in {"memory", "redis"}
    /\ now = 0
    /\ challenges = << >>
    /\ proofs = << >>
    /\ marks = [p \in Proof |-> 0]
    /\ req = [r \in Request |-> Idle]
    /\ passes = [p \in Proof |-> 0]

Tick ==
    /\ now < MaxTime
    /\ \A r \in Request : req[r].pc \in {"clock", "consume"} => now - req[r].since < MaxLatency
    /\ now' = now + 1
    /\ UNCHANGED <<store, challenges, proofs, marks, req, passes>>

(* The middleware finds no proof header: issue_challenge. *)
Challenge(g) ==
    /\ Len(challenges) < MaxChallenges
    /\ challenges' = Append(challenges, [target |-> g, exp |-> now + ChallengeTtl])
    /\ UNCHANGED <<store, now, proofs, marks, req, passes>>

(* complete_challenge up to the await on the credential verifier ...       *)
Complete(r, c) ==
    /\ req[r].pc = "idle"
    /\ Valid(challenges[c])
    /\ req' = [req EXCEPT ![r] = At("verifying", c)]
    /\ UNCHANGED <<store, now, challenges, proofs, marks, passes>>

(* ... and after it: the proof counts from now. *)
Completed(r) ==
    /\ req[r].pc = "verifying"
    /\ \/ /\ Len(proofs) < MaxProofs
          /\ proofs' = Append(proofs, [target |-> challenges[req[r].on].target,
                                       exp |-> now + ProofTtl])
       \/ UNCHANGED proofs
    /\ Return(r)
    /\ UNCHANGED <<store, now, challenges, marks, passes>>

(* The guarded action is called with a proof: verify_proof. *)
Present(r, p, g) ==
    /\ req[r].pc = "idle"
    /\ Valid(proofs[p]) /\ proofs[p].target = g
    /\ req' = [req EXCEPT ![r] = At("clock", p)]
    /\ UNCHANGED <<store, now, challenges, proofs, marks, passes>>

(* consume() reads the clock before it takes the lock or asks Redis. *)
ReadClock(r) ==
    /\ req[r].pc = "clock"
    /\ req' = [req EXCEPT ![r].pc = "consume", ![r].at = now]
    /\ UNCHANGED <<store, now, challenges, proofs, marks, passes>>

Retained(at) == {q \in Proof : marks[q] > at}

(* Variant of Marked: SET EX without NX. *)
MarkedNever(p, at) == IF store = "memory" THEN p \in Retained(at) ELSE FALSE

Marked(p, at) == IF store = "memory" THEN p \in Retained(at) ELSE now < marks[p]

MarkTtl(p, at) == IF proofs[p].exp > at THEN proofs[p].exp - at ELSE 1

UpTo2(n) == IF n > 2 THEN 2 ELSE n

Consume(r) ==
    LET p == req[r].on
        at == req[r].at
        kept == [q \in Proof |-> IF store = "redis" \/ q \in Retained(at) THEN marks[q] ELSE 0]
    IN
    /\ req[r].pc = "consume"
    /\ IF Marked(p, at)
       THEN marks' = kept /\ UNCHANGED passes
       ELSE /\ marks' = [kept EXCEPT ![p] = IF store = "redis" THEN now + MarkTtl(p, at) ELSE proofs[p].exp]
            /\ passes' = [passes EXCEPT ![p] = UpTo2(@ + 1)]
    /\ Return(r)
    /\ UNCHANGED <<store, now, challenges, proofs>>

(* The request is dropped, or Redis fails before the command is applied. *)
Abort(r) ==
    /\ req[r].pc # "idle"
    /\ Return(r)
    /\ UNCHANGED <<store, now, challenges, proofs, marks, passes>>

Next ==
    \/ Tick
    \/ \E g \in Target : Challenge(g)
    \/ \E r \in Request :
        \/ \E c \in DOMAIN challenges : Complete(r, c)
        \/ Completed(r)
        \/ \E p \in DOMAIN proofs, g \in Target : Present(r, p, g)
        \/ ReadClock(r)
        \/ Consume(r)
        \/ Abort(r)

Spec == Init /\ [][Next]_vars

-----------------------------------------------------------------------------
Token == [target : Target, exp : Nat]

(* A mark belongs to an issued proof and hardly outlasts it.               *)
TypeOK ==
    /\ now \in 0 .. MaxTime
    /\ challenges \in Seq(Token) /\ proofs \in Seq(Token)
    /\ marks \in [Proof -> Nat]
    /\ \A p \in Proof : marks[p] # 0 =>
        p \in DOMAIN proofs /\ marks[p] <= proofs[p].exp + MaxLatency + 1
    /\ req \in [Request -> [pc : {"idle", "verifying", "clock", "consume"},
                            on : 0 .. MaxProofs + MaxChallenges,
                            since : 0 .. MaxTime, at : 0 .. MaxTime]]
    /\ passes \in [Proof -> 0 .. 2]

(* Until it expires a proof lets one request through, however many present *)
(* it at once and however late the store answers (StepUpProofStore::       *)
(* consume, both stores; "atomic first write wins", step_up.rs:173).       *)
Over == [p \in Proof |-> p \in DOMAIN proofs /\ proofs[p].exp <= now]
Use == INSTANCE OneShot WITH Item <- Proof, uses <- passes, over <- Over
ProofUsedOnce == Use!Spec

(* "One-shot, kept at least until the proof expires" (step_up.rs:173): a   *)
(* proof lets one request through in its whole life, its last second       *)
(* included.                                                               *)
ProofIsOneShot == \A p \in Proof : passes[p] <= 1

(* "Replayable for the same resource within its TTL; one re-authentication *)
(* starts transfers again and again" (step_up.rs:258): before it expires,  *)
(* no request that presents it is told it was used.                        *)
ProofReplayableInTtl ==
    \A r \in Request : (req[r].pc = "consume" /\ now < proofs[req[r].on].exp)
        => ~Marked(req[r].on, req[r].at)
=============================================================================
