----------------------------- MODULE MCAuthGuards -----------------------------
(***************************************************************************)
(* The guards of yang-base that turn calls away, checked in one run: those *)
(* of sign-in, which live in Redis -- the attempt limits, the mailed code, *)
(* the step-up proof and the TOTP step -- and the HTTP client's circuit    *)
(* breaker.  They share no state, so a behaviour is one of one guard: it   *)
(* is chosen in the initial state and the others keep their first values.  *)
(***************************************************************************)
EXTENDS CircuitBreaker, TLC

CONSTANTS
    Request,                            \* EmailCode, StepUpProof, TotpStep
    Ip, Identity, IpAttempts, UsernameAttempts, Window, Unit,
    IpLimit, EmailLimit, GlobalLimit, EmailCooldown, Ttl, MaxAttempts, MaxCodes,
    Target, ChallengeTtl, ProofTtl, MaxChallenges, MaxProofs, MaxTime,
    Code, WindowSeconds, Tolerance, TotpMaxTime,
    MaxLatency

VARIABLES
    guard,
    attempts, calls, passed,                                  \* AuthRateLimit
    counter, cooling, code, made, send, uses, wrongs, age,    \* EmailCode
    store, now, challenges, proofs, marks, req, passes,       \* StepUpProof
    codeAt, clock, used, match, accepted                      \* TotpStep

rateVars == <<attempts, calls, passed>>
emailVars == <<counter, cooling, code, made, send, uses, wrongs, age>>
proofVars == <<store, now, challenges, proofs, marks, req, passes>>
totpVars == <<codeAt, clock, used, match, accepted>>
signInVars == <<rateVars, emailVars, proofVars, totpVars>>

Rate == INSTANCE AuthRateLimit
Email == INSTANCE EmailCode WITH Cooldown <- EmailCooldown
Proofs == INSTANCE StepUpProof
Totp == INSTANCE TotpStep WITH now <- clock, req <- match, MaxTime <- TotpMaxTime

ASSUME GuardsAssumption ==
    /\ Rate!RateAssumption /\ Email!ConfigAssumption
    /\ Proofs!TtlAssumption /\ Totp!ConfigAssumption

MCInit ==
    /\ guard \in {"breaker", "rate", "email", "proof", "totp"}
    /\ Init /\ Rate!Init /\ Email!Init /\ Proofs!Init /\ Totp!Init
    /\ guard # "proof" => store = "memory"
    /\ guard # "totp" => codeAt = [s \in Totp!Step |-> CHOOSE c \in Code : TRUE]

MCNext ==
    \/ /\ guard = "breaker" /\ Next
       /\ UNCHANGED <<guard, signInVars>>
    \/ /\ guard = "rate" /\ Rate!Next
       /\ UNCHANGED <<guard, states, emailVars, proofVars, totpVars>>
    \/ /\ guard = "email" /\ Email!Next
       /\ UNCHANGED <<guard, states, rateVars, proofVars, totpVars>>
    \/ /\ guard = "proof" /\ Proofs!Next
       /\ UNCHANGED <<guard, states, rateVars, emailVars, totpVars>>
    \/ /\ guard = "totp" /\ Totp!Next
       /\ UNCHANGED <<guard, states, rateVars, emailVars, proofVars>>

MCSpec == MCInit /\ [][MCNext]_<<guard, states, signInVars>>

Symmetric == Permutations(Request) \cup Permutations(Identity) \cup Permutations(Host)

-----------------------------------------------------------------------------
(* The properties are stated in the guards' modules.                       *)

(* AuthRateLimiter: at most twice the limit per window, and a key that is  *)
(* left alone for a window is free again.                                  *)
WindowsAreFixed == Rate!AdmittedPerWindow /\ Rate!SilenceResets
(* RegistrationEmailVerification: wrong guesses wear a code out. *)
GuessesAreCounted == Email!GuessesAreCounted
(* RegistrationEmailVerification: a code is consumed once, and a failed    *)
(* delivery spares a newer code.                                           *)
CodesAreOneShot == Email!ConsumedOnce /\ Email!NewerCodeSurvives
(* StepUpProofStore: one request per proof, until it expires. *)
ProofUsedOnce == Proofs!ProofUsedOnce
(* TotpLiteVerifier: a time step is accepted once while it is tolerated. *)
StepUsedOnce == Totp!StepUsedOnce
=============================================================================
