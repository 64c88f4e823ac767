------------------------------ MODULE TotpStep ------------------------------
(***************************************************************************)
(* TotpLiteVerifier: a code is accepted for every time step within the     *)
(* tolerance that it matches, and a Redis script consumes all those steps  *)
(* at once, if none of them was consumed before.  The marks' TTL is        *)
(* computed from the clock reading the steps were matched with.            *)
(*                                                                         *)
(* Times are whole seconds, the unit of `now' and of EX.  totp-lite and    *)
(* the shared secret are one function from time steps to codes.            *)
(***************************************************************************)
EXTENDS Naturals, FiniteSets, FiniteSetsExt

CONSTANTS
    Request,
    Code,
    WindowSeconds, Tolerance,
    MaxTime,        \* bound: last second of a behaviour
    MaxLatency      \* bound: seconds from the clock reading to the script

ConfigAssumption ==
    WindowSeconds \in Nat \ {0} /\ Tolerance \in Nat /\ MaxTime \in Nat

VARIABLES
    codeAt,     \* step -> its code
    now,
    used,       \* step -> second at which its Redis key expires (0: never set)
    req,        \* request -> pc, the clock reading and the code
    accepted    \* step -> times it was accepted, up to 2 (history)

vars == <<codeAt, now, used, req, accepted>>

Step == 0 .. MaxTime \div WindowSeconds + Tolerance
Idle == [pc |-> "idle", at |-> 0, code |-> CHOOSE c \in Code : TRUE]

Init ==
    /\ codeAt \in [Step -> Code]
    /\ now = 0
    /\ used = [s \in Step |-> 0]
    /\ req = [r \in Request |-> Idle]
    /\ accepted = [s \in Step |-> 0]

Tick ==
    /\ now < MaxTime
    /\ \A r \in Request : req[r].pc = "script" => now - req[r].at < MaxLatency
    /\ now' = now + 1
    /\ UNCHANGED <<codeAt, used, req, accepted>>

(* saturating at the first step *)
Near(at) == LET current == at \div WindowSeconds IN
    {s \in Step : s + Tolerance >= current /\ s <= current + Tolerance}

Hits(code, at) == {s \in Near(at) : codeAt[s] = code}

(* Variant of the next definition: only the latest matching step. *)
MatchingLast(code, at) ==
    IF Hits(code, at) = {} THEN {} ELSE {Max(Hits(code, at))}

Matching(code, at) == Hits(code, at)
Matched(r) == Matching(req[r].code, req[r].at)

Match(r, code) ==
    /\ req[r].pc = "idle"
    /\ Matching(code, now) # {}
    /\ req' = [req EXCEPT ![r] = [pc |-> "script", at |-> now, code |-> code]]
    /\ UNCHANGED <<codeAt, now, used, accepted>>

(* The first second at which a code of step s matches no more. *)
EndOfTolerance(s) == (s + Tolerance + 1) * WindowSeconds

(* The marks last until the latest of the matching steps ends. *)
MarkTtl(r) == EndOfTolerance(Max(Matched(r))) - req[r].at

UpTo2(n) == IF n > 2 THEN 2 ELSE n

Script(r) ==
    /\ req[r].pc = "script"
    /\ IF \E s \in Matched(r) : now < used[s]
       THEN UNCHANGED <<used, accepted>>
       ELSE /\ used' = [s \in Step |-> IF s \in Matched(r) THEN now + MarkTtl(r) ELSE used[s]]
            /\ accepted' = [s \in Step |->
                    IF s \in Hits(req[r].code, req[r].at) THEN UpTo2(accepted[s] + 1) ELSE accepted[s]]
    /\ req' = [req EXCEPT ![r] = Idle]
    /\ UNCHANGED <<codeAt, now>>

(* Redis fails before the script runs: the sign-in is refused. *)
Abort(r) ==
    /\ req[r].pc = "script"
    /\ req' = [req EXCEPT ![r] = Idle]
    /\ UNCHANGED <<codeAt, now, used, accepted>>

Next ==
    \/ Tick
    \/ \E r \in Request :
        \/ \E code \in Code : Match(r, code)
        \/ Script(r)
        \/ Abort(r)

Spec == Init /\ [][Next]_vars

-----------------------------------------------------------------------------
(* A mark is gone as soon as its step cannot match any more. *)
TypeOK ==
    /\ codeAt \in [Step -> Code]
    /\ now \in 0 .. MaxTime
    /\ \A s \in Step : used[s] \in 0 .. MaxTime + (2 * Tolerance + 1) * WindowSeconds
    /\ req \in [Request -> [pc : {"idle", "script"}, at : 0 .. MaxTime, code : Code]]
    /\ accepted \in [Step -> 0 .. 2]

(* While it is tolerated a time step is accepted once: at the same moment  *)
(* on two instances, when its window has passed, through a code that other *)
(* steps share, or by a script that runs late.                             *)
StepUsedOnce == \A s \in Step : now < EndOfTolerance(s) => accepted[s] <= 1

(* The same for good, also by scripts that run after the tolerance. *)
StepUsedOnceEver == \A s \in Step : accepted[s] <= 1
=============================================================================
