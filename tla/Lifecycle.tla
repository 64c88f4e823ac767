------------------------------ MODULE Lifecycle ------------------------------
(***************************************************************************)
(* Start and end of an application: PluginManager::register from several   *)
(* tasks, and graceful_shutdown (first every plugin's on_shutdown, then    *)
(* Tools::close), which may be called more than once and, run under a      *)
(* deadline, may be dropped at any await.  The order in which a caller     *)
(* stops the plugins is PluginOrder's subject; here it is any order.       *)
(***************************************************************************)
EXTENDS Naturals, FiniteSets

CONSTANTS
    Instance,       \* plugin objects, each registered by a task of its own
    Name,           \* plugin names
    Closer,         \* callers of graceful_shutdown
    Cancels,        \* TRUE: a caller may be dropped
    NoPlugin, NoCloser      \* not an instance, not a closer

ASSUME AbsentAssumption == NoPlugin \notin Instance /\ NoCloser \notin Closer

VARIABLES
    nameOf,         \* instance -> the name it reports
    plugins,        \* name -> registered instance, or NoPlugin
    reg,            \* instance -> where its register() is
    stop,           \* closer -> pc, and the plugins still to stop
    holder,         \* closer holding close_lock, or NoCloser
    state,          \* ToolsState
    open,           \* resources not closed yet
    stopped,        \* instance -> on_shutdown was called (history)
    first           \* {the plugins registered when the first shutdown began}, or {}
                    \* before that (history)

vars == <<nameOf, plugins, reg, stop, holder, state, open, stopped, first>>

Resource == {"redis", "mysql"}
Idle == [pc |-> "idle", left |-> {}]

Init ==
    /\ nameOf \in [Instance -> Name]
    /\ plugins = [n \in Name |-> NoPlugin]
    /\ reg = [i \in Instance |-> "idle"]
    /\ stop = [c \in Closer |-> Idle]
    /\ holder = NoCloser
    /\ state = "running"
    /\ open = Resource
    /\ stopped = [i \in Instance |-> FALSE]
    /\ first = {}

Enter(i, pc) == reg' = [reg EXCEPT ![i] = pc]
Goto(c, pc) == stop' = [stop EXCEPT ![c].pc = pc]
tools == <<holder, state, open>>

-----------------------------------------------------------------------------
(* First phase, under the read lock. *)
RegisterCheck(i) ==
    /\ reg[i] = "idle"
    /\ Enter(i, IF plugins[nameOf[i]] = NoPlugin THEN "callback" ELSE "refused")
    /\ UNCHANGED <<nameOf, plugins, stop, tools, stopped, first>>

(* on_register, without a lock *)
RegisterCallback(i) ==
    /\ reg[i] = "callback"
    /\ Enter(i, "insert") \/ Enter(i, "failed")
    /\ UNCHANGED <<nameOf, plugins, stop, tools, stopped, first>>

(* Variant of the next definition: the name is not looked up again. *)
TakenUnchecked(i) == FALSE

Taken(i) == plugins[nameOf[i]] # NoPlugin

(* Second phase, under the write lock. *)
RegisterInsert(i) ==
    /\ reg[i] = "insert"
    /\ IF Taken(i)
       THEN Enter(i, "refused") /\ UNCHANGED plugins
       ELSE Enter(i, "ok") /\ plugins' = [plugins EXCEPT ![nameOf[i]] = i]
    /\ UNCHANGED <<nameOf, stop, tools, stopped, first>>

-----------------------------------------------------------------------------
(* graceful_shutdown: PluginManager::shutdown works on a snapshot. *)
Registered == {plugins[n] : n \in Name} \ {NoPlugin}

List(c) ==
    /\ stop[c].pc = "idle"
    /\ stop' = [stop EXCEPT ![c] = [pc |-> "hooks", left |-> Registered]]
    /\ first' = IF first = {} THEN {Registered} ELSE first
    /\ UNCHANGED <<nameOf, plugins, reg, tools, stopped>>

(* on_shutdown of one plugin; its error is kept and the loop goes on. *)
Hook(c, i) ==
    /\ i \in stop[c].left
    /\ stop' = [stop EXCEPT ![c].left = @ \ {i}]
    /\ stopped' = [stopped EXCEPT ![i] = TRUE]
    /\ UNCHANGED <<nameOf, plugins, reg, tools, first>>

(* Variant of the next definition: the callbacks are not awaited. *)
HooksDoneUnawaited(c) == TRUE

HooksDone(c) == stop[c].left = {}

AfterHooks(c) ==
    /\ stop[c].pc = "hooks"
    /\ HooksDone(c)
    /\ Goto(c, "lock")
    /\ UNCHANGED <<nameOf, plugins, reg, tools, stopped, first>>

(* Variant of the next definition: a close under way counts. *)
AlreadyClosing == state # "running"

AlreadyClosed == state = "closed"

(* After the last resource, or at once. *)
Finish(c) ==
    /\ holder' = NoCloser
    /\ Goto(c, "done")

(* Variant of the next definition: a caller that finds a close under way   *)
(* waits for its end.                                                      *)
LockAwaited == holder = NoCloser /\ state # "closing"

LockFree == holder = NoCloser

(* Tools::close *)
Lock(c) ==
    /\ stop[c].pc = "lock"
    /\ LockFree
    /\ IF AlreadyClosed
       THEN Finish(c) /\ UNCHANGED state
       ELSE holder' = c /\ Goto(c, "redis") /\ state' = "closing"
    /\ UNCHANGED <<nameOf, plugins, reg, open, stopped, first>>

CloseRedis(c) ==
    /\ stop[c].pc = "redis"
    /\ open' = open \ {"redis"}
    /\ Goto(c, "mysql")
    /\ UNCHANGED <<nameOf, plugins, reg, holder, state, stopped, first>>

CloseMysql(c) ==
    /\ stop[c].pc = "mysql"
    /\ open' = open \ {"mysql"}
    /\ state' = "closed"
    /\ Finish(c)
    /\ UNCHANGED <<nameOf, plugins, reg, stopped, first>>

(* The future is dropped: the lock guard with it, the state stays. *)
Cancel(c) ==
    /\ Cancels
    /\ stop[c].pc \notin {"idle", "done"}
    /\ holder' = IF holder = c THEN NoCloser ELSE holder
    /\ stop' = [stop EXCEPT ![c] = Idle]
    /\ UNCHANGED <<nameOf, plugins, reg, state, open, stopped, first>>

StopStep(c) ==
    \/ \E i \in Instance : Hook(c, i)
    \/ AfterHooks(c)
    \/ Lock(c)
    \/ CloseRedis(c)
    \/ CloseMysql(c)

Next ==
    \/ \E i \in Instance : RegisterCheck(i) \/ RegisterCallback(i) \/ RegisterInsert(i)
    \/ \E c \in Closer : List(c) \/ StopStep(c) \/ Cancel(c)

(* Tasks are scheduled, callbacks return, tokio's mutex is fair. *)
Spec == Init /\ [][Next]_vars /\ \A c \in Closer : WF_vars(StopStep(c)) /\ SF_vars(Lock(c))

-----------------------------------------------------------------------------
Pc == {"idle", "hooks", "lock", "redis", "mysql", "done"}

(* The lock is held exactly while the resources are being closed; plugins  *)
(* are left to stop only in the first phase.                               *)
TypeOK ==
    /\ nameOf \in [Instance -> Name]
    /\ plugins \in [Name -> Instance \cup {NoPlugin}]
    /\ reg \in [Instance -> {"idle", "callback", "insert", "ok", "refused", "failed"}]
    /\ stop \in [Closer -> [pc : Pc, left : SUBSET Instance]]
    /\ \A c \in Closer : stop[c].left # {} => stop[c].pc = "hooks"
    /\ \A c \in Closer : holder = c <=> stop[c].pc \in {"redis", "mysql"}
    /\ state \in {"running", "closing", "closed"}
    /\ open \subseteq Resource
    /\ stopped \in [Instance -> BOOLEAN]
    /\ first \subseteq SUBSET Instance

(* Of the plugins that claim one name, however their registrations         *)
(* interleave, exactly the one in the map was told Ok.                     *)
OneWinner ==
    \A i \in Instance : reg[i] = "ok" <=> plugins[nameOf[i]] = i

(* When a graceful_shutdown returns, all resources are closed, also if an  *)
(* earlier caller was dropped half-way (Tools::close).                     *)
ClosedOnReturn ==
    \A c \in Closer : stop[c].pc = "done" => open = {} /\ state = "closed"

(* Tools never comes back to life, and closed is only said once it is so.  *)
NeverReopens ==
    [][/\ state = "closed" => state' = "closed"
       /\ state = "closing" => state' # "running"]_vars

(* Nothing is closed before every plugin that was there when shutdown      *)
(* began has been stopped, also if the caller that began it was dropped    *)
(* and another one closes (graceful_shutdown's order).                     *)
HooksBeforeClose == state # "running" => \A i \in UNION first : stopped[i]

(* A shutdown that is not dropped returns, whatever the other callers do.  *)
ShutdownReturns == \A c \in Closer : stop[c].pc = "lock" ~> stop[c].pc \in {"done", "idle"}

(* "Called when the system shuts down, to release resources": when the     *)
(* shutdown is over, every plugin that was registered has been stopped.    *)
EveryPluginIsStopped ==
    (\E c \in Closer : stop[c].pc = "done") =>
        \A i \in Instance : reg[i] = "ok" => stopped[i]
=============================================================================
