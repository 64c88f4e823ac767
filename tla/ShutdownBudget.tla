--------------------------- MODULE ShutdownBudget ---------------------------
(***************************************************************************)
(* yang-runtime's ShutdownBudget: the first begin() fixes one absolute     *)
(* deadline for the whole process, wait_started() sleeps on a Notify until *)
(* there is one, and every phase runs until its own future ends or the     *)
(* shared deadline, less a reserve, has come.                              *)
(*                                                                         *)
(* tokio is external: notify_waiters() wakes every Notified created        *)
(* before it, polled or not, and timeout_at polls its future first.        *)
(***************************************************************************)
EXTENDS Naturals

CONSTANTS
    Trigger,        \* callers of begin()
    Phase,          \* callers of run_phase_with_reserve(), one phase each
    Total,          \* the budget
    MaxReserve,     \* bound: reserves asked for
    MaxTime         \* bound: last instant of a behaviour

ASSUME BudgetAssumption == Total \in Nat /\ MaxReserve \in Nat /\ MaxTime \in Nat

VARIABLES
    now,
    window,     \* the shared window: whether it is set, started_at and deadline
    begin,      \* trigger -> pc and the deadline it returned
    phase       \* phase -> pc, reserve, whether its Notified was woken, start, deadline

budgetVars == <<now, window, begin, phase>>

NotSet == [set |-> FALSE, started |-> 0, deadline |-> 0]

BudgetInit ==
    /\ now = 0
    /\ window = NotSet
    /\ begin = [b \in Trigger |-> [pc |-> "idle", deadline |-> 0]]
    /\ phase \in [Phase -> [pc : {"new"}, reserve : 0 .. MaxReserve, woken : {FALSE},
                            start : {0}, deadline : {0}]]

-----------------------------------------------------------------------------
Opened == [set |-> TRUE, started |-> now, deadline |-> now + Total]

(* begin: all under the lock; a later caller gets the first one's deadline. *)
Begin(b) ==
    /\ begin[b].pc = "idle"
    /\ IF window.set
       THEN /\ begin' = [begin EXCEPT ![b] = [pc |-> "done", deadline |-> window.deadline]]
            /\ UNCHANGED window
       ELSE /\ window' = Opened
            /\ begin' = [begin EXCEPT ![b] = [pc |-> "notify", deadline |-> now + Total]]
    /\ UNCHANGED <<now, phase>>

(* The lock is free again; waiters created from now on look for themselves. *)
Notify(b) ==
    /\ begin[b].pc = "notify"
    /\ begin' = [begin EXCEPT ![b].pc = "done"]
    /\ phase' = [p \in Phase |-> IF phase[p].pc \in {"created", "asleep"}
                                 THEN [phase[p] EXCEPT !.woken = TRUE] ELSE phase[p]]
    /\ UNCHANGED <<now, window>>

-----------------------------------------------------------------------------
Smaller(a, b) == IF a <= b THEN a ELSE b

(* Variant of the next definition: every phase has the whole budget. *)
PhaseDeadlineFresh(p) == now + Total - Smaller(phase[p].reserve, Total)

PhaseDeadline(p) == window.deadline - Smaller(phase[p].reserve, Total)

Run(p) ==
    phase' = [phase EXCEPT ![p].pc = "running", ![p].start = now,
                           ![p].deadline = PhaseDeadline(p)]

(* run_phase's first look, before wait_started *)
EnterPhase(p) ==
    /\ phase[p].pc = "new"
    /\ IF window.set THEN Run(p) ELSE phase' = [phase EXCEPT ![p].pc = "wait"]
    /\ UNCHANGED <<now, window, begin>>

(* Variant of Wait: look first, create the Notified afterwards. *)
WaitLookFirst(p) ==
    /\ \/ /\ phase[p].pc = "wait"
          /\ IF window.set THEN Run(p) ELSE phase' = [phase EXCEPT ![p].pc = "looked"]
       \/ /\ phase[p].pc = "looked"
          /\ phase' = [phase EXCEPT ![p].pc = "asleep", ![p].woken = FALSE]
    /\ UNCHANGED <<now, window, begin>>

(* wait_started: create the Notified, then look, then sleep. *)
Wait(p) ==
    /\ \/ /\ phase[p].pc = "wait"
          /\ phase' = [phase EXCEPT ![p].pc = "created", ![p].woken = FALSE]
       \/ /\ phase[p].pc = "created"
          /\ IF window.set THEN Run(p) ELSE phase' = [phase EXCEPT ![p].pc = "asleep"]
    /\ UNCHANGED <<now, window, begin>>

Wake(p) ==
    /\ phase[p].pc = "asleep"
    /\ phase[p].woken
    /\ phase' = [phase EXCEPT ![p].pc = "wait"]
    /\ UNCHANGED <<now, window, begin>>

(* The phase's own future is ready. *)
Complete(p) ==
    /\ phase[p].pc = "running"
    /\ phase' = [phase EXCEPT ![p].pc = "completed"]
    /\ UNCHANGED <<now, window, begin>>

Overdue(p) == phase[p].pc = "running" /\ now >= phase[p].deadline

Timeout(p) ==
    /\ Overdue(p)
    /\ phase' = [phase EXCEPT ![p].pc = "timeout"]
    /\ UNCHANGED <<now, window, begin>>

(* A timer that is due fires before time goes on. *)
Tick ==
    /\ now < MaxTime
    /\ \A p \in Phase : ~Overdue(p)
    /\ now' = now + 1
    /\ UNCHANGED <<window, begin, phase>>

BudgetNext ==
    \/ Tick
    \/ \E b \in Trigger : Begin(b) \/ Notify(b)
    \/ \E p \in Phase : EnterPhase(p) \/ Wait(p) \/ Wake(p) \/ Complete(p) \/ Timeout(p)

(* Tasks are scheduled and timers fire; a phase's future may never be ready. *)
BudgetSpec ==
    /\ BudgetInit /\ [][BudgetNext]_budgetVars
    /\ WF_budgetVars(Tick)
    /\ \A b \in Trigger : WF_budgetVars(Notify(b))
    /\ \A p \in Phase : WF_budgetVars(EnterPhase(p) \/ Wait(p) \/ Wake(p)) /\ WF_budgetVars(Timeout(p))

-----------------------------------------------------------------------------
(* A deadline lies within the window; a phase that runs has one. *)
BudgetTypeOK ==
    /\ now \in 0 .. MaxTime
    /\ window \in [set : BOOLEAN, started : 0 .. MaxTime, deadline : 0 .. MaxTime + Total]
    /\ begin \in [Trigger -> [pc : {"idle", "notify", "done"}, deadline : 0 .. MaxTime + Total]]
    /\ phase \in [Phase -> [pc : {"new", "wait", "created", "asleep", "running",
                                  "completed", "timeout"},
                            reserve : 0 .. MaxReserve, woken : BOOLEAN,
                            start : 0 .. MaxTime, deadline : 0 .. MaxTime + Total]]
    /\ \A p \in Phase : phase[p].pc \in {"running", "timeout", "completed"} =>
        phase[p].deadline \in window.started .. window.deadline

(* Every caller of begin() is given the same deadline, whoever was first.  *)
SameDeadline ==
    \A b \in Trigger : begin[b].pc \in {"notify", "done"} => begin[b].deadline = window.deadline

(* No phase, early or late, alone or beside others, is still running when  *)
(* the one shared budget, less its reserve, is used up.                    *)
BudgetIsShared ==
    \A p \in Phase : phase[p].pc = "running" =>
        \/ now <= window.started + Total - Smaller(phase[p].reserve, Total)
        \/ now = phase[p].start

(* Once shutdown has begun every phase gets going, even one that was just  *)
(* about to fall asleep when the waiters were notified.                    *)
NoLostWakeup ==
    \A p \in Phase : window.set ~> phase[p].pc \in {"running", "completed", "timeout"}
=============================================================================
