-------------------------- MODULE RedisTransaction --------------------------
(***************************************************************************)
(* yang-db's RedisTransaction: commands fixed when the transaction is      *)
(* built, WATCH / MULTI / EXEC with automatic replay on a conflict, over   *)
(* the bounded connection pool.  Every task follows the documented use:    *)
(* read a counter, build a transaction that sets it to what was read plus  *)
(* one, exec().  Redis (the watched key, EXEC's reply) and the pool        *)
(* (permits, waiting with a time limit) are modelled from how exec() uses  *)
(* them.                                                                   *)
(***************************************************************************)
EXTENDS Naturals, FiniteSets

CONSTANTS
    Task,
    MaxConnections,     \* the pool's max_size
    MaxRetries,         \* MAX_RETRIES (100 in the code)
    MaxForeign          \* bound: writes by clients outside the pool

ASSUME PoolAssumption ==
    /\ IsFiniteSet(Task)
    /\ MaxConnections \in Nat \ {0}
    /\ MaxRetries \in Nat \ {0}
    /\ MaxForeign \in Nat

VARIABLES
    value,      \* the counter in Redis
    foreign,    \* writes made by other clients so far
    free,       \* idle connections
    tx          \* task -> the locals of its exec()

vars == <<value, foreign, free, tx>>

(* `read': what the commands were built from; `dirty': the server saw a    *)
(* write to the key since this connection's WATCH; `watches', `applied':   *)
(* how often WATCH was sent and the commands took effect.                  *)
New == [pc |-> "read", read |-> 0, dirty |-> FALSE, retries |-> 0, watches |-> 0,
        applied |-> 0, result |-> "none"]

Init ==
    /\ value = 0
    /\ foreign = 0
    /\ free = MaxConnections
    /\ tx = [t \in Task |-> New]

Holding(t) == tx[t].pc \in {"watch", "exec", "again"}

Goto(t, pc) == tx' = [tx EXCEPT ![t].pc = pc]
Return(t, result) == tx' = [tx EXCEPT ![t].pc = "done", ![t].result = result]

(* The server marks every connection that watches the key. *)
Dirtied == [u \in Task |-> [tx[u] EXCEPT !.dirty = tx[u].pc = "exec"]]

-----------------------------------------------------------------------------
(* The caller reads and builds the transaction; nothing is watched yet. *)
Build(t) ==
    /\ tx[t].pc = "read"
    /\ free > 0
    /\ tx' = [tx EXCEPT ![t].pc = "get", ![t].read = value]
    /\ UNCHANGED <<value, foreign, free>>

(* pool().get() before the loop: a connection, or the wait times out. *)
Get(t) ==
    /\ tx[t].pc = "get"
    /\ free > 0
    /\ free' = free - 1
    /\ Goto(t, "watch")
    /\ UNCHANGED <<value, foreign>>

GetTimesOut(t) ==
    /\ tx[t].pc = "get"
    /\ free = 0
    /\ Return(t, "pool")
    /\ UNCHANGED <<value, foreign, free>>

Watch(t) ==
    /\ tx[t].pc = "watch"
    /\ tx' = [tx EXCEPT ![t].pc = "exec", ![t].dirty = FALSE, ![t].watches = @ + 1]
    /\ UNCHANGED <<value, foreign, free>>

(* The queue of fixed commands takes effect as one step of the server. *)
Apply(t, pc, result) ==
    /\ value' = tx[t].read + 1
    /\ tx' = [Dirtied EXCEPT ![t] =
                [tx[t] EXCEPT !.pc = pc, !.result = result, !.applied = @ + 1]]

ExecCommits(t) ==
    /\ tx[t].pc = "exec"
    /\ ~tx[t].dirty
    /\ Apply(t, "done", "ok")
    /\ free' = free + 1
    /\ UNCHANGED foreign

Counted(t) == tx[t].retries + 1

(* The counted retry is given up at the limit; otherwise the next          *)
(* connection is waited for while `conn' still holds this one.             *)
Replay(t) ==
    /\ tx[t].pc = "exec"
    /\ IF Counted(t) >= MaxRetries
       THEN /\ tx' = [tx EXCEPT ![t].pc = "done", ![t].result = "conflict",
                                ![t].retries = Counted(t)]
            /\ free' = free + 1
       ELSE /\ tx' = [tx EXCEPT ![t].pc = "again", ![t].retries = Counted(t)]
            /\ UNCHANGED free
    /\ UNCHANGED <<value, foreign>>

(* is_watch_conflict: EXEC answered Nil. *)
ExecConflicts(t) == tx[t].dirty /\ Replay(t)

(* is_exec_abort_error: a queued command was refused (out of memory, ...), *)
(* EXEC answered EXECABORT, and that passes for a conflict as well.        *)
ExecAborts(t) == ~tx[t].dirty /\ Replay(t)

(* Variant of Again: the old connection is never given back. *)
AgainLeaks(t) ==
    /\ tx[t].pc = "again"
    /\ free > 0
    /\ free' = free - 1
    /\ Goto(t, "watch")
    /\ UNCHANGED <<value, foreign>>

(* The new connection arrives, then the old one is dropped into the pool. *)
Again(t) ==
    /\ tx[t].pc = "again"
    /\ free > 0
    /\ Goto(t, "watch")
    /\ UNCHANGED <<value, foreign, free>>

(* Variant of AgainTimesOut: the pool is built without a waiting limit. *)
AgainWaits(t) == FALSE /\ UNCHANGED <<tx[t], vars>>

AgainTimesOut(t) ==
    /\ tx[t].pc = "again"
    /\ free = 0
    /\ Return(t, "pool")
    /\ free' = free + 1
    /\ UNCHANGED <<value, foreign>>

(* Variant of AfterError: a broken EXEC is retried like a conflict. *)
AfterErrorRetry == "watch"

AfterError == "done"

(* WATCH or EXEC fails on the connection: the error is returned.  The      *)
(* server may have executed the EXEC whose reply was lost.                 *)
CommandFails(t) ==
    /\ tx[t].pc \in {"watch", "exec"}
    /\ \/ /\ tx' = [tx EXCEPT ![t].pc = AfterError, ![t].result = "error"]
          /\ UNCHANGED value
       \/ tx[t].pc = "exec" /\ ~tx[t].dirty /\ Apply(t, AfterError, "error")
    /\ free' = IF AfterError = "done" THEN free + 1 ELSE free
    /\ UNCHANGED foreign

(* The caller drops the future; the connection goes back, and the pool's   *)
(* recycling hook sends UNWATCH before it is lent again.  An EXEC that is  *)
(* already on the wire may still take effect.                              *)
Cancel(t) ==
    /\ Holding(t) \/ tx[t].pc = "get"
    /\ \/ Return(t, "cancelled") /\ UNCHANGED value
       \/ tx[t].pc = "exec" /\ ~tx[t].dirty /\ Apply(t, "done", "cancelled")
    /\ free' = IF Holding(t) THEN free + 1 ELSE free
    /\ UNCHANGED foreign

ForeignWrite ==
    /\ foreign < MaxForeign
    /\ foreign' = foreign + 1
    /\ tx' = Dirtied
    /\ UNCHANGED <<value, free>>

Next ==
    \/ ForeignWrite
    \/ \E t \in Task :
        \/ Build(t)
        \/ Get(t)
        \/ GetTimesOut(t)
        \/ Watch(t)
        \/ ExecCommits(t)
        \/ ExecConflicts(t)
        \/ ExecAborts(t)
        \/ Again(t)
        \/ AgainTimesOut(t)
        \/ CommandFails(t)
        \/ Cancel(t)

(* Tasks are scheduled, Redis answers, and a wait on the pool ends. *)
Fairness ==
    \A t \in Task :
        /\ WF_vars(Get(t) \/ GetTimesOut(t))
        /\ WF_vars(Again(t) \/ AgainTimesOut(t))
        /\ WF_vars(Watch(t))
        /\ WF_vars(ExecCommits(t) \/ Replay(t) \/ CommandFails(t))

Spec == Init /\ [][Next]_vars /\ Fairness

-----------------------------------------------------------------------------
Pc == {"read", "get", "watch", "exec", "again", "done"}
Result == {"none", "ok", "conflict", "pool", "error", "cancelled"}

(* A conflict reported as final used exactly the permitted rounds. *)
TypeOK ==
    /\ value \in 0 .. Cardinality(Task)
    /\ foreign \in 0 .. MaxForeign
    /\ free \in 0 .. MaxConnections
    /\ tx \in [Task -> [pc : Pc, read : Nat, dirty : BOOLEAN, retries : 0 .. MaxRetries,
                        watches : 0 .. MaxRetries, applied : Nat, result : Result]]

(* No connection is lost or lent twice, on any return path. *)
PoolConserved == free + Cardinality({t \in Task : Holding(t)}) = MaxConnections

(* The commands take effect at most once however often they are replayed,  *)
(* exactly once if exec() said Ok, and not at all if it reported an        *)
(* unresolved conflict or a pool error (INCR and HINCRBY rely on it).      *)
AppliedOnce ==
    \A t \in Task :
        /\ tx[t].applied <= 1
        /\ tx[t].result = "ok" => tx[t].applied = 1
        /\ tx[t].result \in {"conflict", "pool"} => tx[t].applied = 0

(* exec() returns, however many writers compete. *)
ExecReturns == \A t \in Task : tx[t].pc = "get" ~> tx[t].pc = "done"

Committed == {t \in Task : tx[t].result = "ok"}

(* The documented balance deduction with WATCH: two successful             *)
(* transactions never both build on the same value.                        *)
NoLostUpdate == \A t, u \in Committed : tx[t].read = tx[u].read => t = u

(* A conflict is replayed: some transaction that holds a connection can    *)
(* always go on, instead of all of them waiting for a second one.          *)
RetryCanProceed == free = 0 => \E t \in Task : tx[t].pc \in {"watch", "exec"}

(* "retried MAX_RETRIES times" means MAX_RETRIES replays of the first try. *)
AllRetriesUsed ==
    \A t \in Task : tx[t].result = "conflict" => tx[t].watches = MaxRetries + 1
=============================================================================
