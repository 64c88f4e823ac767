----------------------------- MODULE MCLifecycle -----------------------------
(***************************************************************************)
(* The two machines of an orderly end, checked in one run: Lifecycle       *)
(* (yang-base's registration and graceful_shutdown) and ShutdownBudget     *)
(* (yang-runtime's deadline).  The crates share no state, so a behaviour   *)
(* is one of one machine, chosen in the initial state; the other keeps its *)
(* first values.  Liveness rules symmetry out.                             *)
(***************************************************************************)
EXTENDS Lifecycle, ShutdownBudget

VARIABLE machine

MCInit ==
    /\ machine \in {"tools", "budget"}
    /\ Init /\ BudgetInit
    /\ machine = "tools" => \A p \in Phase : phase[p].reserve = 0
    /\ machine = "budget" => \A i \in Instance : nameOf[i] = CHOOSE n \in Name : TRUE

MCNext ==
    \/ machine = "tools" /\ Next /\ UNCHANGED <<machine, budgetVars>>
    \/ machine = "budget" /\ BudgetNext /\ UNCHANGED <<machine, vars>>

Budget(A) == machine = "budget" /\ A

(* The fairness of Spec and of BudgetSpec, each for its machine. *)
MCSpec ==
    /\ MCInit /\ [][MCNext]_<<machine, vars, budgetVars>>
    /\ \A c \in Closer : WF_vars(StopStep(c)) /\ SF_vars(Lock(c))
    /\ WF_budgetVars(Budget(Tick))
    /\ \A b \in Trigger : WF_budgetVars(Notify(b))
    /\ \A p \in Phase :
        /\ WF_budgetVars(Budget(EnterPhase(p) \/ Wait(p) \/ Wake(p)))
        /\ WF_budgetVars(Timeout(p))
=============================================================================
