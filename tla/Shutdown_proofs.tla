-------------------------- MODULE Shutdown_proofs ---------------------------
(***************************************************************************)
(* Shutting down: Lifecycle and ShutdownBudget, each for any number of     *)
(* participants, callers dropped at any await.                             *)
(***************************************************************************)
EXTENDS Lifecycle, ShutdownBudget, TLAPS

(***************************************************************************)
(* Lifecycle: a name has one winner, a shutdown that returns leaves        *)
(* nothing open, and nothing is closed before the plugins were stopped.    *)
(*                                                                         *)
(* ClosedOnReturn is not inductive: a caller that finds the state closed   *)
(* returns at once, so "closed" itself must imply that nothing is open,    *)
(* and that rests on who holds the lock and how far it has come (Closing). *)
(***************************************************************************)
Closing ==
    /\ state = "closed" => open = {}
    /\ \A c \in Closer :
        /\ stop[c].pc \in {"redis", "mysql"} => state = "closing"
        /\ stop[c].pc = "mysql" => "redis" \notin open
        /\ stop[c].pc = "done" => state = "closed"

IInv == TypeOK /\ OneWinner /\ Closing

(* What was registered when shutdown began stays registered, so that every *)
(* caller lists it; it is in the list of a caller or has been stopped.     *)
Hooking ==
    /\ first = {} => state = "running" /\ \A c \in Closer : stop[c].pc = "idle"
    /\ UNION first \subseteq Registered
    /\ \A c \in Closer :
        /\ stop[c].pc = "hooks" => \A i \in UNION first : i \in stop[c].left \/ stopped[i]
        /\ stop[c].pc \notin {"idle", "hooks"} => \A i \in UNION first : stopped[i]
    /\ HooksBeforeClose

-----------------------------------------------------------------------------
LEMMA InitInv == Init => IInv
BY AbsentAssumption DEF Init, IInv, TypeOK, OneWinner, Closing, Idle, Pc, Resource

(* The map of plugins is only touched by the insertion under the lock.     *)
LEMMA RegisterInv ==
    ASSUME IInv, NEW i \in Instance,
           RegisterCheck(i) \/ RegisterCallback(i) \/ RegisterInsert(i)
    PROVE  IInv'
<1>1. Closing'
  BY DEF IInv, Closing, RegisterCheck, RegisterCallback, RegisterInsert, tools
<1>2. CASE RegisterCheck(i)
  <2>1. TypeOK'
    BY <1>2 DEF IInv, TypeOK, RegisterCheck, Enter, tools, Pc
  <2>2. OneWinner'
    BY <1>2, AbsentAssumption DEF IInv, TypeOK, OneWinner, RegisterCheck, Enter
  <2> QED BY <1>1, <2>1, <2>2 DEF IInv
<1>3. CASE RegisterCallback(i)
  <2>1. TypeOK'
    BY <1>3 DEF IInv, TypeOK, RegisterCallback, Enter, tools, Pc
  <2>2. OneWinner'
    BY <1>3 DEF IInv, TypeOK, OneWinner, RegisterCallback, Enter
  <2> QED BY <1>1, <2>1, <2>2 DEF IInv
<1>4. CASE RegisterInsert(i)
  <2>1. TypeOK'
    BY <1>4 DEF IInv, TypeOK, RegisterInsert, Enter, tools, Pc
  <2>3. ASSUME ~Taken(i) PROVE OneWinner'
    <3> SUFFICES ASSUME NEW j \in Instance
                 PROVE  reg'[j] = "ok" <=> plugins'[nameOf[j]] = j
      BY <1>4 DEF RegisterInsert, OneWinner
    <3>1. /\ reg' = [reg EXCEPT ![i] = "ok"]
          /\ plugins' = [plugins EXCEPT ![nameOf[i]] = i]
          /\ plugins[nameOf[i]] = NoPlugin
      BY <1>4, <2>3 DEF RegisterInsert, Enter, Taken
    <3>2. nameOf[i] \in Name /\ nameOf[j] \in Name
      BY DEF IInv, TypeOK
    <3>3. CASE j = i
      BY <3>1, <3>2, <3>3 DEF IInv, TypeOK
    <3>4. CASE j # i /\ nameOf[j] = nameOf[i]
      <4>1. reg[j] # "ok"
        BY <3>1, <3>4, AbsentAssumption DEF IInv, OneWinner
      <4> QED BY <3>1, <3>2, <3>4, <4>1 DEF IInv, TypeOK
    <3>5. CASE j # i /\ nameOf[j] # nameOf[i]
      BY <3>1, <3>2, <3>5 DEF IInv, TypeOK, OneWinner
    <3> QED BY <3>3, <3>4, <3>5
  <2>4. OneWinner'
    <3>1. CASE Taken(i)
      BY <1>4, <3>1 DEF IInv, TypeOK, OneWinner, RegisterInsert, Enter
    <3> QED BY <2>3, <3>1
  <2> QED BY <1>1, <2>1, <2>4 DEF IInv
<1> QED BY <1>2, <1>3, <1>4

-----------------------------------------------------------------------------
(* Callers that keep the map, its winners and every name.                  *)
LEMMA StopKeepsWinners ==
    ASSUME OneWinner, UNCHANGED <<nameOf, plugins, reg>>
    PROVE  OneWinner'
BY DEF OneWinner

LEMMA ListInv == ASSUME IInv, NEW c \in Closer, List(c) PROVE IInv'
<1>1. Registered \subseteq Instance
  BY DEF IInv, TypeOK, Registered
<1>2. TypeOK'
  BY <1>1 DEF IInv, TypeOK, List, tools, Pc
<1>3. OneWinner'
  BY StopKeepsWinners DEF IInv, List
<1>4. Closing'
  BY DEF IInv, TypeOK, Closing, List, tools
<1> QED BY <1>2, <1>3, <1>4 DEF IInv

LEMMA HookInv == ASSUME IInv, NEW c \in Closer, NEW i \in Instance, Hook(c, i) PROVE IInv'
<1>1. stop'[c].pc = stop[c].pc /\ \A d \in Closer \ {c} : stop'[d] = stop[d]
  BY DEF IInv, TypeOK, Hook
<1>2. TypeOK'
  BY DEF IInv, TypeOK, Hook, tools, Pc
<1>3. OneWinner'
  BY StopKeepsWinners DEF IInv, Hook
<1>4. Closing'
  BY <1>1 DEF IInv, TypeOK, Closing, Hook, tools
<1> QED BY <1>2, <1>3, <1>4 DEF IInv

LEMMA AfterHooksInv == ASSUME IInv, NEW c \in Closer, AfterHooks(c) PROVE IInv'
<1>1. TypeOK'
  BY DEF IInv, TypeOK, AfterHooks, HooksDone, Goto, tools, Pc
<1>2. OneWinner'
  BY StopKeepsWinners DEF IInv, AfterHooks
<1>3. Closing'
  BY DEF IInv, TypeOK, Closing, AfterHooks, Goto, tools
<1> QED BY <1>1, <1>2, <1>3 DEF IInv

(* Only the holder is between Lock and the end, so nobody else's steps     *)
(* can make the state say closed while it works.                           *)
LEMMA LockInv == ASSUME IInv, NEW c \in Closer, Lock(c) PROVE IInv'
<1>1. TypeOK'
  BY AbsentAssumption DEF IInv, TypeOK, Lock, LockFree, Finish, Goto, AlreadyClosed, Pc
<1>2. OneWinner'
  BY StopKeepsWinners DEF IInv, Lock, LockFree
<1>3. Closing'
  BY AbsentAssumption DEF IInv, TypeOK, Closing, Lock, LockFree, Finish, Goto, AlreadyClosed
<1> QED BY <1>1, <1>2, <1>3 DEF IInv

LEMMA CloseInv ==
    ASSUME IInv, NEW c \in Closer, CloseRedis(c) \/ CloseMysql(c)
    PROVE  IInv'
<1>1. TypeOK'
  <2>1. CASE CloseRedis(c)
    BY <2>1, AbsentAssumption DEF IInv, TypeOK, CloseRedis, Goto, Pc, Resource
  <2>2. CASE CloseMysql(c)
    BY <2>2, AbsentAssumption DEF IInv, TypeOK, CloseMysql, Finish, Goto, Pc, Resource
  <2> QED BY <2>1, <2>2
<1>2. OneWinner'
  BY StopKeepsWinners DEF IInv, CloseRedis, CloseMysql
<1>3. Closing'
  BY AbsentAssumption
     DEF IInv, TypeOK, Closing, CloseRedis, CloseMysql, Finish, Goto, Resource
<1> QED BY <1>1, <1>2, <1>3 DEF IInv

LEMMA CancelInv == ASSUME IInv, NEW c \in Closer, Cancel(c) PROVE IInv'
<1>1. TypeOK'
  BY AbsentAssumption DEF IInv, TypeOK, Cancel, Idle, Pc
<1>2. OneWinner'
  BY StopKeepsWinners DEF IInv, Cancel
<1>3. Closing'
  BY DEF IInv, TypeOK, Closing, Cancel, Idle
<1> QED BY <1>1, <1>2, <1>3 DEF IInv

LEMMA StutterInv == ASSUME IInv, UNCHANGED vars PROVE IInv'
BY DEF IInv, TypeOK, OneWinner, Closing, vars

LEMMA NextInv == IInv /\ [Next]_vars => IInv'
<1> SUFFICES ASSUME IInv, [Next]_vars PROVE IInv'
  OBVIOUS
<1>1. CASE \E i \in Instance : RegisterCheck(i) \/ RegisterCallback(i) \/ RegisterInsert(i)
  BY <1>1, RegisterInv
<1>2. ASSUME NEW c \in Closer, List(c) \/ StopStep(c) \/ Cancel(c)
      PROVE  IInv'
  BY <1>2, ListInv, HookInv, AfterHooksInv, LockInv, CloseInv, CancelInv DEF StopStep
<1>3. CASE UNCHANGED vars
  BY <1>3, StutterInv
<1> QED BY <1>1, <1>2, <1>3 DEF Next

(* The inductive invariant holds throughout.                               *)
THEOREM Invariant == Spec => []IInv
<1>1. Init => IInv
  BY InitInv
<1>2. IInv /\ [Next]_vars => IInv'
  BY NextInv
<1> QED BY <1>1, <1>2, PTL DEF Spec

(* However the registrations of one name interleave, exactly the instance  *)
(* in the map was told Ok (PluginManager::register).                       *)
THEOREM NamesHaveOneWinner == Spec => []OneWinner
<1>1. IInv => OneWinner
  BY DEF IInv
<1> QED BY <1>1, Invariant, PTL

(* A graceful_shutdown that returns leaves no resource open, whatever      *)
(* other callers did and wherever they were dropped (Tools::close).        *)
THEOREM ReturnsClosed == Spec => []ClosedOnReturn
<1>1. IInv => ClosedOnReturn
  BY DEF IInv, Closing, ClosedOnReturn
<1> QED BY <1>1, Invariant, PTL

-----------------------------------------------------------------------------
LEMMA HookingKept ==
    ASSUME Hooking, UNCHANGED first, state' = "running" \/ UNCHANGED state,
           Registered \subseteq Registered', \A i \in UNION first : stopped[i] => stopped'[i],
           \A c \in Closer : \/ UNCHANGED stop[c]
                            \/ stop'[c].pc = "idle"
                            \/ /\ stop[c].pc \notin {"idle", "hooks"}
                               /\ stop'[c].pc \notin {"idle", "hooks"}
    PROVE  Hooking'
BY DEF Hooking, HooksBeforeClose

LEMMA HookingStep == IInv /\ Hooking /\ [Next]_vars => Hooking'
<1> SUFFICES ASSUME IInv, Hooking, [Next]_vars PROVE Hooking'
  OBVIOUS
<1>1. ASSUME NEW i \in Instance, RegisterCheck(i) \/ RegisterCallback(i) \/ RegisterInsert(i)
      PROVE  Hooking'
  <2>1. UNCHANGED <<first, state, stop, stopped>>
    BY <1>1 DEF RegisterCheck, RegisterCallback, RegisterInsert, tools
  <2>2. Registered \subseteq Registered'
    <3>1. CASE UNCHANGED plugins
      BY <3>1 DEF Registered
    <3>2. CASE ~Taken(i) /\ plugins' = [plugins EXCEPT ![nameOf[i]] = i]
      BY <3>2 DEF Registered, Taken, IInv, TypeOK
    <3> QED BY <1>1, <3>1, <3>2 DEF RegisterCheck, RegisterCallback, RegisterInsert
  <2> QED BY <2>1, <2>2, HookingKept
<1>2. ASSUME NEW c \in Closer, List(c) PROVE Hooking'
  <2>1. /\ stop'[c].pc = "hooks" /\ stop'[c].left = Registered
        /\ \A d \in Closer \ {c} : stop'[d] = stop[d]
        /\ first' = IF first = {} THEN {Registered} ELSE first
        /\ UNCHANGED <<state, stopped>> /\ Registered' = Registered
    BY <1>2 DEF List, IInv, TypeOK, tools, Registered
  <2> HIDE DEF Registered
  <2>2. CASE first = {}
    <3>1. first' = {Registered} /\ UNION first' = Registered /\ first' # {}
      BY <2>1, <2>2
    <3> QED BY <2>1, <2>2, <3>1 DEF Hooking, HooksBeforeClose
  <2>3. CASE first # {}
    BY <2>1, <2>3 DEF Hooking, HooksBeforeClose
  <2> QED BY <2>2, <2>3
<1>3. ASSUME NEW c \in Closer, NEW i \in Instance, Hook(c, i) PROVE Hooking'
  <2>1. /\ stop[c].pc = "hooks" /\ stop'[c].pc = "hooks" /\ stop'[c].left = stop[c].left \ {i}
        /\ \A d \in Closer \ {c} : stop'[d] = stop[d]
        /\ stopped'[i] /\ \A j \in Instance : stopped[j] => stopped'[j]
        /\ UNCHANGED <<first, state>> /\ Registered' = Registered
    BY <1>3 DEF Hook, IInv, TypeOK, tools, Registered
  <2>2. UNION first \subseteq Instance
    BY DEF IInv, TypeOK
  <2> QED BY <2>1, <2>2 DEF Hooking, HooksBeforeClose
<1>4. ASSUME NEW c \in Closer, AfterHooks(c) PROVE Hooking'
  <2>1. /\ stop[c].pc = "hooks" /\ stop[c].left = {} /\ stop'[c].pc = "lock"
        /\ \A d \in Closer \ {c} : stop'[d] = stop[d]
        /\ UNCHANGED <<first, state, stopped>> /\ Registered' = Registered
    BY <1>4 DEF AfterHooks, HooksDone, Goto, IInv, TypeOK, tools, Registered
  <2> QED BY <2>1 DEF Hooking, HooksBeforeClose
<1>5. ASSUME NEW c \in Closer, Lock(c) \/ CloseRedis(c) \/ CloseMysql(c) PROVE Hooking'
  <2>1. /\ stop[c].pc \notin {"idle", "hooks"} /\ stop'[c].pc \notin {"idle", "hooks"}
        /\ \A d \in Closer \ {c} : stop'[d] = stop[d]
        /\ UNCHANGED <<first, stopped>> /\ Registered' = Registered
    BY <1>5 DEF Lock, LockFree, CloseRedis, CloseMysql, Finish, Goto, IInv, TypeOK, Registered
  <2> QED BY <2>1 DEF Hooking, HooksBeforeClose
<1>6. ASSUME NEW c \in Closer, Cancel(c) PROVE Hooking'
  <2>1. /\ stop'[c].pc = "idle" /\ \A d \in Closer \ {c} : stop'[d] = stop[d]
        /\ UNCHANGED <<first, state, stopped>> /\ Registered' = Registered
    BY <1>6 DEF Cancel, Idle, IInv, TypeOK, Registered
  <2> QED BY <2>1, HookingKept
<1>7. CASE UNCHANGED vars
  BY <1>7, HookingKept DEF vars, Registered
<1> QED BY <1>1, <1>2, <1>3, <1>4, <1>5, <1>6, <1>7 DEF Next, StopStep

(* Nothing is closed before every plugin that was registered when shutdown *)
(* began has been stopped, whoever began it, whoever closes and wherever   *)
(* callers were dropped (graceful_shutdown).                               *)
THEOREM HooksComeFirst == Spec => []HooksBeforeClose
<1>1. Init => Hooking
  BY DEF Init, Hooking, HooksBeforeClose, Idle
<1>2. Hooking => HooksBeforeClose
  BY DEF Hooking
<1> QED BY <1>1, <1>2, HookingStep, Invariant, PTL DEF Spec

(* Tools never returns to running, and closed is final (Tools::close).     *)
THEOREM StaysClosed == Spec => NeverReopens
<1>1. IInv /\ [Next]_vars =>
        [/\ state = "closed" => state' = "closed"
         /\ state = "closing" => state' # "running"]_vars
  BY DEF IInv, Closing, Next, StopStep, RegisterCheck, RegisterCallback, RegisterInsert, List,
         Hook, AfterHooks, Lock, LockFree, AlreadyClosed, CloseRedis, CloseMysql, Cancel, tools, vars
<1> QED BY <1>1, Invariant, PTL DEF Spec, NeverReopens
-----------------------------------------------------------------------------
(***************************************************************************)
(* ShutdownBudget, for any total and any reserves: there is one deadline   *)
(* and every phase obeys it.                                               *)
(*                                                                         *)
(* Neither property is inductive: both need that the window, once open, is *)
(* Total long, and that a running phase took its deadline from it.         *)
(***************************************************************************)
OneWindow ==
    /\ window.set => window.deadline = window.started + Total
    /\ \A b \in Trigger : begin[b].pc # "idle" => window.set
    /\ \A p \in Phase : phase[p].pc \in {"running", "completed", "timeout"} => window.set
    /\ \A p \in Phase : phase[p].pc = "running" => phase[p].deadline = PhaseDeadline(p)

BudgetInv == BudgetTypeOK /\ SameDeadline /\ BudgetIsShared /\ OneWindow

PhaseLocals ==
    [pc : {"new", "wait", "created", "asleep", "running", "completed", "timeout"},
     reserve : 0 .. MaxReserve, woken : BOOLEAN,
     start : 0 .. MaxTime, deadline : 0 .. MaxTime + Total]
BeginLocals == [pc : {"idle", "notify", "done"}, deadline : 0 .. MaxTime + Total]

Window == [set : BOOLEAN, started : 0 .. MaxTime, deadline : 0 .. MaxTime + Total]
InWindow ==
    \A p \in Phase : phase[p].pc \in {"running", "timeout", "completed"} =>
        phase[p].deadline \in window.started .. window.deadline

(* The parts of two states of a phase that the invariant speaks of.        *)
SamePhase(p) ==
    /\ phase'[p].pc = phase[p].pc /\ phase'[p].reserve = phase[p].reserve
    /\ phase'[p].start = phase[p].start /\ phase'[p].deadline = phase[p].deadline

-----------------------------------------------------------------------------
LEMMA BudgetInitInv == BudgetInit => BudgetInv
<1> SUFFICES ASSUME BudgetInit PROVE BudgetInv
  OBVIOUS
<1>1. ASSUME NEW p \in Phase
      PROVE  /\ phase[p].pc = "new" /\ phase[p].reserve \in 0 .. MaxReserve
             /\ phase[p].woken = FALSE /\ phase[p].start = 0 /\ phase[p].deadline = 0
             /\ phase[p] = [pc |-> phase[p].pc, reserve |-> phase[p].reserve,
                            woken |-> phase[p].woken, start |-> phase[p].start,
                            deadline |-> phase[p].deadline]
  BY DEF BudgetInit
<1>2. phase \in [Phase -> [pc : {"new", "wait", "created", "asleep", "running",
                                 "completed", "timeout"},
                           reserve : 0 .. MaxReserve, woken : BOOLEAN,
                           start : 0 .. MaxTime, deadline : 0 .. MaxTime + Total]]
  <2>1. 0 \in 0 .. MaxTime /\ 0 \in 0 .. MaxTime + Total
    BY BudgetAssumption
  <2> QED BY <1>1, <2>1 DEF BudgetInit
<1>3. BudgetTypeOK
  <2>1. 0 \in 0 .. MaxTime /\ 0 \in 0 .. MaxTime + Total
    BY BudgetAssumption
  <2>4. \A p \in Phase : phase[p].pc = "new"
    BY <1>1
  <2>2. window \in [set : BOOLEAN, started : 0 .. MaxTime, deadline : 0 .. MaxTime + Total]
    BY <2>1 DEF BudgetInit, NotSet
  <2>3. begin \in [Trigger -> [pc : {"idle", "notify", "done"}, deadline : 0 .. MaxTime + Total]]
    BY <2>1 DEF BudgetInit
  <2> QED BY <1>2, <2>1, <2>2, <2>3, <2>4 DEF BudgetInit, BudgetTypeOK
<1>4. SameDeadline /\ BudgetIsShared /\ OneWindow
  BY <1>1 DEF BudgetInit, SameDeadline, BudgetIsShared, OneWindow, NotSet
<1> QED BY <1>3, <1>4 DEF BudgetInv

LEMMA BeginInv == ASSUME BudgetInv, NEW b \in Trigger, Begin(b) PROVE BudgetInv'
<1>1. CASE window.set
  BY <1>1, BudgetAssumption
     DEF Begin, BudgetInv, BudgetTypeOK, SameDeadline, BudgetIsShared, OneWindow, PhaseDeadline, Smaller
<1>2. CASE ~window.set
  <2>1. /\ window' = Opened
        /\ begin' = [begin EXCEPT ![b] = [pc |-> "notify", deadline |-> now + Total]]
        /\ now' = now /\ phase' = phase
    BY <1>2 DEF Begin
  <2>2. \A d \in Trigger : begin[d].pc = "idle"
    BY <1>2 DEF BudgetInv, OneWindow
  <2>3. \A p \in Phase : phase[p].pc \notin {"running", "timeout", "completed"}
    BY <1>2 DEF BudgetInv, OneWindow
  <2>4. BudgetTypeOK'
    <3>1. now \in 0 .. MaxTime /\ now + Total \in 0 .. MaxTime + Total
      BY BudgetAssumption DEF BudgetInv, BudgetTypeOK
    <3>2. window' \in [set : BOOLEAN, started : 0 .. MaxTime, deadline : 0 .. MaxTime + Total]
      BY <2>1, <3>1 DEF Opened
    <3>3. begin' \in [Trigger -> [pc : {"idle", "notify", "done"},
                                  deadline : 0 .. MaxTime + Total]]
      BY <2>1, <3>1 DEF BudgetInv, BudgetTypeOK
    <3>4. \A p \in Phase : phase'[p].pc \notin {"running", "timeout", "completed"}
      BY <2>1, <2>3 DEF BudgetInv, BudgetTypeOK, OneWindow
    <3> QED BY <2>1, <3>2, <3>3, <3>4 DEF BudgetInv, BudgetTypeOK
  <2>5. SameDeadline' /\ BudgetIsShared' /\ OneWindow'
    BY <2>1, <2>2, <2>3, BudgetAssumption
       DEF BudgetInv, BudgetTypeOK, SameDeadline, BudgetIsShared, OneWindow, Opened
  <2> QED BY <2>4, <2>5 DEF BudgetInv
<1> QED BY <1>1, <1>2

(* When now and window stay, the locals and InWindow are what BudgetTypeOK adds. *)
LEMMA LocalsTyped ==
    ASSUME BudgetTypeOK, UNCHANGED <<now, window>>, begin' \in [Trigger -> BeginLocals],
           phase' \in [Phase -> PhaseLocals], InWindow'
    PROVE  BudgetTypeOK'
<1>1. now' \in 0 .. MaxTime /\ window' \in Window
  BY DEF BudgetTypeOK, Window
<1> QED BY <1>1 DEF BudgetTypeOK, InWindow, PhaseLocals, BeginLocals, Window

LEMMA NotifyInv == ASSUME BudgetInv, NEW b \in Trigger, Notify(b) PROVE BudgetInv'
<1>1. phase \in [Phase -> PhaseLocals] /\ begin \in [Trigger -> BeginLocals]
  BY DEF BudgetInv, BudgetTypeOK, PhaseLocals, BeginLocals
<1>2. /\ begin[b].pc = "notify" /\ begin' = [begin EXCEPT ![b].pc = "done"]
      /\ now' = now /\ window' = window
  BY DEF Notify
<1>3. \A p \in Phase : phase'[p] = [phase[p] EXCEPT !.woken = TRUE] \/ phase'[p] = phase[p]
  BY DEF Notify
<1>4. \A p \in Phase : phase'[p] \in PhaseLocals /\ SamePhase(p)
  BY <1>1, <1>3 DEF PhaseLocals, SamePhase
<1>5. phase' \in [Phase -> PhaseLocals]
  BY <1>4 DEF Notify
<1>6. /\ begin' \in [Trigger -> BeginLocals]
      /\ \A d \in Trigger : begin'[d].deadline = begin[d].deadline
      /\ \A d \in Trigger :
            \/ begin'[d].pc = begin[d].pc
            \/ begin[d].pc = "notify" /\ begin'[d].pc = "done"
  <2>1. /\ [begin[b] EXCEPT !.pc = "done"] \in BeginLocals
        /\ [begin[b] EXCEPT !.pc = "done"].deadline = begin[b].deadline
        /\ [begin[b] EXCEPT !.pc = "done"].pc = "done"
    BY <1>1 DEF BeginLocals
  <2>2. begin' = [begin EXCEPT ![b] = [begin[b] EXCEPT !.pc = "done"]]
    BY <1>2
  <2>3. begin[b].pc = "notify" /\ begin'[b] = [begin[b] EXCEPT !.pc = "done"]
        /\ \A d \in Trigger \ {b} : begin'[d] = begin[d]
    BY <1>1, <1>2
  <2>4. begin' \in [Trigger -> BeginLocals]
    BY <1>1, <2>1, <2>2
  <2> QED BY <2>1, <2>3, <2>4
<1>11. InWindow'
  <2>1. InWindow
    BY DEF BudgetInv, BudgetTypeOK, InWindow
  <2> QED BY <1>2, <1>4, <2>1 DEF InWindow, SamePhase
<1>7. BudgetTypeOK'
  BY <1>2, <1>5, <1>6, <1>11, LocalsTyped DEF BudgetInv
<1>8. SameDeadline'
  BY <1>2, <1>6 DEF BudgetInv, SameDeadline
<1>9. BudgetIsShared'
  BY <1>2, <1>4 DEF BudgetInv, BudgetIsShared, SamePhase
<1>10. OneWindow'
  <2>1. \A p \in Phase : PhaseDeadline(p)' = PhaseDeadline(p)
    BY <1>2, <1>4 DEF SamePhase, PhaseDeadline
  <2> QED BY <1>2, <1>4, <1>6, <2>1 DEF BudgetInv, OneWindow, SamePhase
<1> QED BY <1>7, <1>8, <1>9, <1>10 DEF BudgetInv

(* A phase that gets going takes its deadline from the open window.        *)
LEMMA RunInv ==
    ASSUME BudgetInv, NEW p \in Phase, window.set, Run(p), UNCHANGED <<now, window, begin>>
    PROVE  BudgetInv'
<1> DEFINE d == PhaseDeadline(p)
<1>1. d \in 0 .. MaxTime + Total /\ d \in window.started .. window.deadline
  BY BudgetAssumption DEF BudgetInv, BudgetTypeOK, OneWindow, PhaseDeadline, Smaller
<1>2. /\ \A q \in Phase \ {p} : phase'[q] = phase[q]
      /\ phase'[p].pc = "running" /\ phase'[p].start = now /\ phase'[p].deadline = d
      /\ phase'[p].reserve = phase[p].reserve
  BY DEF BudgetInv, BudgetTypeOK, Run
<1>3. phase' \in [Phase -> PhaseLocals]
  <2>1. phase' = [phase EXCEPT ![p].pc = "running", ![p].start = now, ![p].deadline = d]
    BY DEF Run
  <2>2. phase \in [Phase -> PhaseLocals] /\ now \in 0 .. MaxTime
    BY DEF BudgetInv, BudgetTypeOK, PhaseLocals
  <2>3. d \in 0 .. MaxTime + Total
    BY <1>1
  <2> HIDE DEF d
  <2>4. [phase[p] EXCEPT !.pc = "running", !.start = now, !.deadline = d] \in PhaseLocals
    BY <2>2, <2>3 DEF PhaseLocals
  <2>5. phase' = [phase EXCEPT ![p] = [phase[p] EXCEPT !.pc = "running", !.start = now,
                                                       !.deadline = d]]
    BY <2>1
  <2> QED BY <2>2, <2>4, <2>5
<1> HIDE DEF d
<1>7. InWindow'
  BY <1>1, <1>2 DEF BudgetInv, BudgetTypeOK, InWindow
<1>8. begin' \in [Trigger -> BeginLocals]
  BY DEF BudgetInv, BudgetTypeOK, BeginLocals
<1>4. BudgetTypeOK'
  BY <1>3, <1>7, <1>8, LocalsTyped DEF BudgetInv
<1>5. OneWindow'
  BY <1>2 DEF BudgetInv, OneWindow, PhaseDeadline, d
<1>6. SameDeadline' /\ BudgetIsShared'
  BY <1>2 DEF BudgetInv, SameDeadline, BudgetIsShared
<1> QED BY <1>4, <1>5, <1>6 DEF BudgetInv

(* Every other step of a phase leaves it out of "running".                 *)
LEMMA RestInv ==
    ASSUME BudgetInv, NEW p \in Phase, UNCHANGED <<now, window, begin>>,
           NEW pc \in {"wait", "created", "asleep", "completed", "timeout"},
           NEW woken \in BOOLEAN,
           pc \in {"completed", "timeout"} => phase[p].pc = "running",
           phase' = [phase EXCEPT ![p].pc = pc, ![p].woken = woken]
    PROVE  BudgetInv'
<1>1. phase \in [Phase -> PhaseLocals]
  BY DEF BudgetInv, BudgetTypeOK, PhaseLocals
<1>2. /\ [phase[p] EXCEPT !.pc = pc, !.woken = woken] \in PhaseLocals
      /\ phase' = [phase EXCEPT ![p] = [phase[p] EXCEPT !.pc = pc, !.woken = woken]]
  BY <1>1 DEF PhaseLocals
<1>3. phase' \in [Phase -> PhaseLocals]
  BY <1>1, <1>2
<1>4. /\ \A q \in Phase \ {p} : phase'[q] = phase[q]
      /\ phase'[p].pc = pc /\ phase'[p].deadline = phase[p].deadline
  BY <1>1 DEF PhaseLocals
<1>8. InWindow'
  BY <1>4 DEF BudgetInv, BudgetTypeOK, InWindow
<1>9. begin' \in [Trigger -> BeginLocals]
  BY DEF BudgetInv, BudgetTypeOK, BeginLocals
<1>5. BudgetTypeOK'
  BY <1>3, <1>8, <1>9, LocalsTyped DEF BudgetInv
<1>6. SameDeadline'
  BY DEF BudgetInv, SameDeadline
<1>7. BudgetIsShared'
  BY <1>4 DEF BudgetInv, BudgetIsShared
<1>10. OneWindow'
  <2>1. \A q \in Phase : phase'[q].pc = "running" => PhaseDeadline(q)' = PhaseDeadline(q)
    BY <1>4 DEF PhaseDeadline
  <2> QED BY <1>4, <2>1 DEF BudgetInv, OneWindow
<1> QED BY <1>5, <1>6, <1>7, <1>10 DEF BudgetInv

LEMMA PhaseInv ==
    ASSUME BudgetInv, NEW p \in Phase,
           EnterPhase(p) \/ Wait(p) \/ Wake(p) \/ Complete(p) \/ Timeout(p)
    PROVE  BudgetInv'
<1> DEFINE Rests(pc, woken) == phase' = [phase EXCEPT ![p].pc = pc, ![p].woken = woken]
<1>0. /\ phase[p].woken \in BOOLEAN
      /\ UNCHANGED <<now, window, begin>>
      /\ \A pc \in STRING : phase' = [phase EXCEPT ![p].pc = pc] => Rests(pc, phase[p].woken)
  BY DEF BudgetInv, BudgetTypeOK, EnterPhase, Wait, Wake, Complete, Timeout
<1>1. CASE window.set /\ Run(p)
  BY <1>0, <1>1, RunInv
<1>2. CASE Rests("wait", phase[p].woken) \/ Rests("asleep", phase[p].woken)
           \/ Rests("created", FALSE)
  BY <1>0, <1>2, RestInv
<1>3. CASE phase[p].pc = "running"
           /\ (Rests("completed", phase[p].woken) \/ Rests("timeout", phase[p].woken))
  BY <1>0, <1>3, RestInv
<1>4. \/ window.set /\ Run(p)
      \/ Rests("wait", phase[p].woken) \/ Rests("asleep", phase[p].woken)
         \/ Rests("created", FALSE)
      \/ phase[p].pc = "running"
         /\ (Rests("completed", phase[p].woken) \/ Rests("timeout", phase[p].woken))
  BY <1>0 DEF EnterPhase, Wait, Wake, Complete, Timeout, Overdue
<1> QED BY <1>1, <1>2, <1>3, <1>4

(* Time waits for a timer that is due.                                     *)
LEMMA TickInv == ASSUME BudgetInv, Tick PROVE BudgetInv'
<1>1. BudgetTypeOK' /\ SameDeadline' /\ OneWindow'
  BY BudgetAssumption DEF Tick, BudgetInv, BudgetTypeOK, SameDeadline, OneWindow, PhaseDeadline
<1>2. ASSUME NEW p \in Phase, phase[p].pc = "running"
      PROVE  now + 1 <= window.started + Total - Smaller(phase[p].reserve, Total)
  BY <1>2, BudgetAssumption
     DEF Tick, Overdue, BudgetInv, BudgetTypeOK, OneWindow, PhaseDeadline, Smaller
<1>3. BudgetIsShared'
  BY <1>2 DEF Tick, BudgetIsShared
<1> QED BY <1>1, <1>3 DEF BudgetInv

LEMMA BudgetNextInv == BudgetInv /\ [BudgetNext]_budgetVars => BudgetInv'
<1> SUFFICES ASSUME BudgetInv, [BudgetNext]_budgetVars PROVE BudgetInv'
  OBVIOUS
<1>1. CASE Tick
  BY <1>1, TickInv
<1>2. CASE \E b \in Trigger : Begin(b) \/ Notify(b)
  BY <1>2, BeginInv, NotifyInv
<1>3. CASE \E p \in Phase : EnterPhase(p) \/ Wait(p) \/ Wake(p) \/ Complete(p) \/ Timeout(p)
  BY <1>3, PhaseInv
<1>4. CASE UNCHANGED budgetVars
  BY <1>4 DEF budgetVars, BudgetInv, BudgetTypeOK, SameDeadline, BudgetIsShared, OneWindow, PhaseDeadline
<1> QED BY <1>1, <1>2, <1>3, <1>4 DEF BudgetNext

(* The inductive invariant holds throughout.                               *)
THEOREM BudgetInvariant == BudgetSpec => []BudgetInv
<1>1. BudgetInit => BudgetInv
  BY BudgetInitInv
<1>2. BudgetInv /\ [BudgetNext]_budgetVars => BudgetInv'
  BY BudgetNextInv
<1> QED BY <1>1, <1>2, PTL DEF BudgetSpec

(* Every caller of begin() gets the first caller's deadline.               *)
THEOREM BeginIsIdempotent == BudgetSpec => []SameDeadline
<1>1. BudgetInv => SameDeadline
  BY DEF BudgetInv
<1> QED BY <1>1, BudgetInvariant, PTL

(* No phase of run_phase_with_reserve outlasts the shared budget less its  *)
(* reserve, except one that only starts after that, for no time at all.    *)
THEOREM PhasesShareTheBudget == BudgetSpec => []BudgetIsShared
<1>1. BudgetInv => BudgetIsShared
  BY DEF BudgetInv
<1> QED BY <1>1, BudgetInvariant, PTL
=============================================================================
