----------------------- MODULE RedisTransaction_proofs -----------------------
(***************************************************************************)
(* For every finite set of tasks, every pool size and every retry limit:   *)
(* a connection is free or held by one transaction, and a transaction      *)
(* applies its commands once if it reports success and never if it reports *)
(* a conflict or an exhausted pool.                                        *)
(***************************************************************************)
EXTENDS RedisTransaction, FiniteSetTheorems, TLAPS

Flag == BOOLEAN
Local == [pc : Pc, read : Nat, dirty : Flag, retries : Nat, watches : Nat,
          applied : Nat, result : Result]

(* Until it returns, a transaction has neither applied nor reported. *)
Clean(c) ==
    /\ c.pc # "done" => c.applied = 0 /\ c.result = "none"
    /\ c.applied <= 1
    /\ c.result = "ok" => c.applied = 1
    /\ c.result \in {"conflict", "pool"} => c.applied = 0

Holders == {t \in Task : Holding(t)}

IInv ==
    /\ value \in Nat /\ free \in Nat
    /\ tx \in [Task -> Local]
    /\ \A t \in Task : Clean(tx[t])
    /\ free + Cardinality(Holders) = MaxConnections

-----------------------------------------------------------------------------
(* What the updates of a transaction's record do to its fields. *)
LEMMA SetPc ==
    ASSUME NEW c \in Local, NEW pc \in Pc
    PROVE  /\ [c EXCEPT !.pc = pc] \in Local
           /\ [c EXCEPT !.pc = pc].pc = pc
           /\ [c EXCEPT !.pc = pc].applied = c.applied
           /\ [c EXCEPT !.pc = pc].result = c.result
BY DEF Local

LEMMA SetDirty ==
    ASSUME NEW c \in Local, NEW d \in Flag
    PROVE  /\ [c EXCEPT !.dirty = d] \in Local
           /\ [c EXCEPT !.dirty = d].pc = c.pc
           /\ [c EXCEPT !.dirty = d].applied = c.applied
           /\ [c EXCEPT !.dirty = d].result = c.result
BY DEF Local

LEMMA DirtiedRecords ==
    ASSUME tx \in [Task -> Local]
    PROVE  /\ Dirtied \in [Task -> Local]
           /\ \A u \in Task : /\ Dirtied[u].pc = tx[u].pc
                              /\ Dirtied[u].applied = tx[u].applied
                              /\ Dirtied[u].result = tx[u].result
<1>1. ASSUME NEW u \in Task
      PROVE  /\ Dirtied[u] \in Local
             /\ Dirtied[u].pc = tx[u].pc
             /\ Dirtied[u].applied = tx[u].applied
             /\ Dirtied[u].result = tx[u].result
    <2>1. (tx[u].pc = "exec") \in Flag
        BY Zenon DEF Flag
    <2>2. Dirtied[u] = [tx[u] EXCEPT !.dirty = (tx[u].pc = "exec")]
        BY DEF Dirtied
    <2>3. QED
        BY <2>1, <2>2, SetDirty
<1>2. QED
    BY <1>1 DEF Dirtied

-----------------------------------------------------------------------------
(* Bookkeeping of the pool: who holds a connection before and after. *)
LEMMA HoldersFinite == IsFiniteSet(Holders) /\ Cardinality(Holders) \in Nat
BY PoolAssumption, FS_Subset, FS_CardinalityType DEF Holders

LEMMA Taken ==
    ASSUME IInv, NEW t \in Task, ~Holding(t), Holders' = Holders \cup {t},
           free > 0, free' = free - 1
    PROVE  free' \in Nat /\ free' + Cardinality(Holders') = MaxConnections
<1>1. Cardinality(Holders') = Cardinality(Holders) + 1
    BY HoldersFinite, FS_AddElement DEF Holders
<1>2. QED
    BY <1>1, HoldersFinite DEF IInv

LEMMA Released ==
    ASSUME IInv, NEW t \in Task, Holding(t), Holders' = Holders \ {t}, free' = free + 1
    PROVE  free' \in Nat /\ free' + Cardinality(Holders') = MaxConnections
<1>1. Cardinality(Holders') = Cardinality(Holders) - 1
    BY HoldersFinite, FS_RemoveElement DEF Holders
<1>2. QED
    BY <1>1, HoldersFinite DEF IInv

(* One transaction moves, the others keep their place in the pool. *)
Others(t) == \A u \in Task \ {t} : tx'[u].pc = tx[u].pc

LEMMA HoldersAfter ==
    ASSUME NEW t \in Task, Others(t)
    PROVE  /\ Holding(t)' /\ ~Holding(t) => Holders' = Holders \cup {t}
           /\ ~Holding(t)' /\ Holding(t) => Holders' = Holders \ {t}
           /\ (Holding(t)' <=> Holding(t)) => Holders' = Holders
BY DEF Others, Holders, Holding

(* The three ways a step can touch the pool, for a step of task t. *)
LEMMA StepInv ==
    ASSUME IInv, NEW t \in Task, tx' \in [Task -> Local], Others(t),
           \A u \in Task : Clean(tx'[u]), value' \in Nat,
           \/ ~Holding(t) /\ Holding(t)' /\ free > 0 /\ free' = free - 1
           \/ Holding(t) /\ ~Holding(t)' /\ free' = free + 1
           \/ (Holding(t)' <=> Holding(t)) /\ free' = free
    PROVE  IInv'
<1>1. free' \in Nat /\ free' + Cardinality(Holders') = MaxConnections
    <2>1. CASE ~Holding(t) /\ Holding(t)' /\ free > 0 /\ free' = free - 1
        BY <2>1, HoldersAfter, Taken
    <2>2. CASE Holding(t) /\ ~Holding(t)' /\ free' = free + 1
        BY <2>2, HoldersAfter, Released
    <2>3. CASE (Holding(t)' <=> Holding(t)) /\ free' = free
        <3>1. Holders' = Holders
            BY <2>3, HoldersAfter
        <3>2. QED
            BY <2>3, <3>1 DEF IInv
    <2>4. QED
        BY <2>1, <2>2, <2>3
<1>2. QED
    BY <1>1 DEF IInv

(* A step that replaces only t's record, by c. *)
LEMMA Replace ==
    ASSUME IInv, NEW t \in Task, NEW c \in Local, Clean(c), tx' = [tx EXCEPT ![t] = c]
    PROVE  /\ tx' \in [Task -> Local] /\ Others(t) /\ tx'[t] = c
           /\ \A u \in Task : Clean(tx'[u])
BY DEF IInv, Others

-----------------------------------------------------------------------------
LEMMA GotoClean ==
    ASSUME IInv, NEW t \in Task, NEW pc \in Pc, tx[t].pc # "done", Goto(t, pc)
    PROVE  /\ tx' \in [Task -> Local] /\ Others(t) /\ tx'[t].pc = pc
           /\ \A u \in Task : Clean(tx'[u])
<1> DEFINE c == [tx[t] EXCEPT !.pc = pc]
<1>1. tx[t] \in Local /\ Clean(tx[t])
    BY DEF IInv
<1>2. c \in Local /\ c.pc = pc /\ c.applied = tx[t].applied /\ c.result = tx[t].result
    BY <1>1, SetPc
<1>3. Clean(c)
    BY <1>1, <1>2 DEF Clean
<1>4. tx' = [tx EXCEPT ![t] = c]
    BY DEF Goto, IInv
<1>5. QED
    BY <1>2, <1>3, <1>4, Replace

LEMMA ReturnClean ==
    ASSUME IInv, NEW t \in Task, NEW result \in Result \ {"ok"}, tx[t].pc # "done",
           tx' = [tx EXCEPT ![t].pc = "done", ![t].result = result]
    PROVE  /\ tx' \in [Task -> Local] /\ Others(t) /\ tx'[t].pc = "done"
           /\ \A u \in Task : Clean(tx'[u])
<1> DEFINE c == [tx[t] EXCEPT !.pc = "done", !.result = result]
<1>1. tx[t] \in Local /\ Clean(tx[t])
    BY DEF IInv
<1>2. c \in Local /\ c.pc = "done" /\ c.applied = tx[t].applied /\ c.result = result
    BY <1>1 DEF Local, Pc
<1>3. Clean(c)
    BY <1>1, <1>2 DEF Clean
<1>4. tx' = [tx EXCEPT ![t] = c]
    BY DEF IInv
<1>5. QED
    BY <1>2, <1>3, <1>4, Replace

LEMMA ApplyClean ==
    ASSUME IInv, NEW t \in Task, NEW result \in {"ok", "error", "cancelled"},
           tx[t].pc = "exec", Apply(t, "done", result)
    PROVE  /\ tx' \in [Task -> Local] /\ Others(t) /\ tx'[t].pc = "done"
           /\ \A u \in Task : Clean(tx'[u])
           /\ value' \in Nat
<1> DEFINE c == [tx[t] EXCEPT !.pc = "done", !.result = result, !.applied = @ + 1]
<1>1. tx[t] \in Local /\ Clean(tx[t]) /\ tx[t].applied = 0 /\ tx[t].read \in Nat
    BY DEF IInv, Clean, Local
<1>2. c \in Local /\ c.pc = "done" /\ c.applied = 1 /\ c.result = result
    <2>1. tx[t].applied + 1 = 1 /\ 1 \in Nat
        BY <1>1
    <2>2. c = [tx[t] EXCEPT !.pc = "done", !.result = result, !.applied = 1]
        BY <2>1
    <2>3. QED
        <3>1. result \in Result /\ "done" \in Pc
            BY DEF Result, Pc
        <3>2. c \in Local
            BY <1>1, <2>1, <2>2, <3>1 DEF Local
        <3>3. c.pc = "done" /\ c.applied = 1 /\ c.result = result
            BY <1>1, <2>2 DEF Local
        <3>4. QED
            BY <3>2, <3>3
<1>3. Clean(c)
    BY <1>2 DEF Clean
<1>4. tx' = [Dirtied EXCEPT ![t] = c]
    BY DEF Apply
<1>5. /\ Dirtied \in [Task -> Local]
      /\ \A u \in Task : /\ Dirtied[u].pc = tx[u].pc
                         /\ Dirtied[u].applied = tx[u].applied
                         /\ Dirtied[u].result = tx[u].result
    BY DirtiedRecords DEF IInv
<1>6. ASSUME NEW u \in Task \ {t}
      PROVE  Clean(tx'[u]) /\ tx'[u].pc = tx[u].pc
    <2>1. tx'[u] = Dirtied[u] /\ Clean(tx[u])
        BY <1>4, <1>5 DEF IInv
    <2>2. QED
        BY <1>5, <2>1 DEF Clean
<1>7. tx'[t] = c /\ tx' \in [Task -> Local]
    BY <1>2, <1>4, <1>5
<1>8. value' \in Nat
    BY <1>1 DEF Apply
<1>9. QED
    BY <1>2, <1>3, <1>6, <1>7, <1>8 DEF Others

-----------------------------------------------------------------------------
LEMMA BuildStep ==
    ASSUME IInv, NEW t \in Task, Build(t)
    PROVE  IInv'
<1> DEFINE c == [tx[t] EXCEPT !.pc = "get", !.read = value]
<1>1. tx[t] \in Local /\ Clean(tx[t]) /\ value \in Nat
    BY DEF IInv
<1>2. c \in Local /\ c.pc = "get" /\ c.applied = tx[t].applied /\ c.result = tx[t].result
    BY <1>1 DEF Local, Pc
<1>3. Clean(c)
    BY <1>1, <1>2 DEF Clean, Build
<1>4. tx' = [tx EXCEPT ![t] = c]
    BY DEF Build, IInv
<1>5. /\ tx' \in [Task -> Local] /\ Others(t) /\ tx'[t] = c
      /\ \A u \in Task : Clean(tx'[u])
    BY <1>2, <1>3, <1>4, Replace
<1>6. ~Holding(t) /\ ~Holding(t)'
    BY <1>2, <1>5 DEF Build, Holding
<1>7. QED
    BY <1>1, <1>5, <1>6, StepInv DEF Build

LEMMA WatchStep ==
    ASSUME IInv, NEW t \in Task, Watch(t)
    PROVE  IInv'
<1> DEFINE c == [tx[t] EXCEPT !.pc = "exec", !.dirty = FALSE, !.watches = @ + 1]
<1>1. tx[t] \in Local /\ Clean(tx[t]) /\ value \in Nat
    BY DEF IInv
<1>2. c \in Local /\ c.pc = "exec" /\ c.applied = tx[t].applied /\ c.result = tx[t].result
    <2>1. tx[t].watches + 1 \in Nat
        BY <1>1 DEF Local
    <2>2. FALSE \in Flag
        BY Zenon DEF Flag
    <2>3. ASSUME NEW w \in Nat, NEW f \in Flag
          PROVE  LET e == [tx[t] EXCEPT !.pc = "exec", !.dirty = f, !.watches = w] IN
                 /\ e \in Local
                 /\ e.pc = "exec" /\ e.applied = tx[t].applied /\ e.result = tx[t].result
        BY <1>1 DEF Local, Pc
    <2>4. QED
        BY <2>1, <2>2, <2>3
<1>3. Clean(c)
    BY <1>1, <1>2 DEF Clean, Watch
<1>4. tx' = [tx EXCEPT ![t] = c]
    BY DEF Watch, IInv
<1>5. /\ tx' \in [Task -> Local] /\ Others(t) /\ tx'[t] = c
      /\ \A u \in Task : Clean(tx'[u])
    BY <1>2, <1>3, <1>4, Replace
<1>6. Holding(t) /\ Holding(t)'
    BY <1>2, <1>5 DEF Watch, Holding
<1>7. QED
    BY <1>1, <1>5, <1>6, StepInv DEF Watch

LEMMA ConflictStep ==
    ASSUME IInv, NEW t \in Task, Replay(t)
    PROVE  IInv'
<1>1. tx[t] \in Local /\ Clean(tx[t]) /\ value \in Nat /\ tx[t].pc = "exec" /\ Counted(t) \in Nat
    BY DEF IInv, Replay, Counted, Local
<1>2. CASE /\ tx' = [tx EXCEPT ![t].pc = "done", ![t].result = "conflict",
                               ![t].retries = Counted(t)]
           /\ free' = free + 1
    <2> DEFINE c == [tx[t] EXCEPT !.pc = "done", !.result = "conflict", !.retries = Counted(t)]
    <2>1. c \in Local /\ c.pc = "done" /\ c.applied = tx[t].applied /\ c.result = "conflict"
        BY <1>1 DEF Local, Pc, Result
    <2>2. Clean(c)
        BY <1>1, <2>1 DEF Clean
    <2>3. tx' = [tx EXCEPT ![t] = c]
        BY <1>2 DEF IInv
    <2>4. /\ tx' \in [Task -> Local] /\ Others(t) /\ tx'[t] = c
          /\ \A u \in Task : Clean(tx'[u])
        BY <2>1, <2>2, <2>3, Replace
    <2>5. Holding(t) /\ ~Holding(t)'
        BY <1>1, <2>1, <2>4 DEF Holding
    <2>6. QED
        BY <1>1, <1>2, <2>4, <2>5, StepInv DEF Replay
<1>3. CASE /\ tx' = [tx EXCEPT ![t].pc = "again", ![t].retries = Counted(t)]
           /\ UNCHANGED free
    <2> DEFINE c == [tx[t] EXCEPT !.pc = "again", !.retries = Counted(t)]
    <2>1. c \in Local /\ c.pc = "again" /\ c.applied = tx[t].applied /\ c.result = tx[t].result
        BY <1>1 DEF Local, Pc
    <2>2. Clean(c)
        BY <1>1, <2>1 DEF Clean
    <2>3. tx' = [tx EXCEPT ![t] = c]
        BY <1>3 DEF IInv
    <2>4. /\ tx' \in [Task -> Local] /\ Others(t) /\ tx'[t] = c
          /\ \A u \in Task : Clean(tx'[u])
        BY <2>1, <2>2, <2>3, Replace
    <2>5. Holding(t) /\ Holding(t)'
        BY <1>1, <2>1, <2>4 DEF Holding
    <2>6. QED
        BY <1>1, <1>3, <2>4, <2>5, StepInv DEF Replay
<1>4. QED
    BY <1>2, <1>3 DEF Replay

(* A step that only moves t's program counter. *)
LEMMA GotoStep ==
    ASSUME IInv, NEW t \in Task,
           \/ Get(t) \/ Again(t)
    PROVE  IInv'
<1>1. "watch" \in Pc /\ tx[t].pc # "done" /\ Goto(t, "watch")
    BY DEF Pc, Get, Again
<1>2. /\ tx' \in [Task -> Local] /\ Others(t) /\ tx'[t].pc = "watch"
      /\ \A u \in Task : Clean(tx'[u])
    BY <1>1, GotoClean
<1>3. Holding(t)'
    BY <1>2 DEF Holding
<1>4. value' \in Nat
    BY DEF IInv, Get, Again
<1>5. CASE Get(t)
    BY <1>2, <1>3, <1>4, <1>5, StepInv DEF Get, Holding
<1>6. CASE Again(t)
    BY <1>2, <1>3, <1>4, <1>6, StepInv DEF Again, Holding
<1>7. QED
    BY <1>5, <1>6

(* A step with which t returns without having applied anything. *)
LEMMA FailStep ==
    ASSUME IInv, NEW t \in Task, NEW result \in Result \ {"ok"}, tx[t].pc # "done",
           tx' = [tx EXCEPT ![t].pc = "done", ![t].result = result], UNCHANGED value,
           free' = IF Holding(t) THEN free + 1 ELSE free
    PROVE  IInv'
<1>1. /\ tx' \in [Task -> Local] /\ Others(t) /\ tx'[t].pc = "done"
      /\ \A u \in Task : Clean(tx'[u])
    BY ReturnClean
<1>2. ~Holding(t)'
    BY <1>1 DEF Holding
<1>3. value' \in Nat
    BY DEF IInv
<1>4. QED
    BY <1>1, <1>2, <1>3, StepInv

(* A step with which the server executes t's commands. *)
LEMMA ApplyStep ==
    ASSUME IInv, NEW t \in Task, NEW result \in {"ok", "error", "cancelled"},
           tx[t].pc = "exec", Apply(t, "done", result), free' = free + 1
    PROVE  IInv'
<1>1. /\ tx' \in [Task -> Local] /\ Others(t) /\ tx'[t].pc = "done"
      /\ \A u \in Task : Clean(tx'[u])
      /\ value' \in Nat
    BY ApplyClean
<1>2. Holding(t) /\ ~Holding(t)'
    BY <1>1 DEF Holding
<1>3. QED
    BY <1>1, <1>2, StepInv

LEMMA ForeignStep ==
    ASSUME IInv, ForeignWrite
    PROVE  IInv'
<1>1. /\ tx' \in [Task -> Local]
      /\ \A u \in Task : /\ tx'[u].pc = tx[u].pc
                         /\ tx'[u].applied = tx[u].applied
                         /\ tx'[u].result = tx[u].result
    BY DirtiedRecords DEF ForeignWrite, IInv
<1>2. \A u \in Task : Clean(tx'[u])
    BY <1>1 DEF IInv, Clean
<1>3. Holders' = Holders
    BY <1>1 DEF Holders, Holding
<1>4. QED
    BY <1>1, <1>2, <1>3 DEF ForeignWrite, IInv

LEMMA TaskStep ==
    ASSUME IInv, NEW t \in Task,
           \/ GetTimesOut(t) \/ AgainTimesOut(t) \/ ExecCommits(t) \/ CommandFails(t) \/ Cancel(t)
    PROVE  IInv'
<1>0. {"pool", "error", "cancelled"} \subseteq Result \ {"ok"}
    BY DEF Result
<1>1. CASE GetTimesOut(t)
    BY <1>0, <1>1, FailStep DEF GetTimesOut, Return, Holding
<1>2. CASE AgainTimesOut(t)
    BY <1>0, <1>2, FailStep DEF AgainTimesOut, Return, Holding
<1>3. CASE ExecCommits(t)
    BY <1>3, ApplyStep DEF ExecCommits
<1>4. CASE CommandFails(t)
    <2>1. Holding(t) /\ free' = free + 1 /\ tx[t].pc # "done"
        BY <1>4 DEF CommandFails, AfterError, Holding
    <2>2. CASE /\ tx' = [tx EXCEPT ![t].pc = AfterError, ![t].result = "error"]
               /\ UNCHANGED value
        BY <1>0, <2>1, <2>2, FailStep DEF AfterError
    <2>3. CASE tx[t].pc = "exec" /\ Apply(t, AfterError, "error")
        BY <2>1, <2>3, ApplyStep DEF AfterError
    <2>4. QED
        BY <1>4, <2>2, <2>3 DEF CommandFails
<1>5. CASE Cancel(t)
    <2>1. tx[t].pc # "done" /\ free' = IF Holding(t) THEN free + 1 ELSE free
        BY <1>5 DEF Cancel, Holding
    <2>2. CASE Return(t, "cancelled") /\ UNCHANGED value
        BY <1>0, <2>1, <2>2, FailStep DEF Return
    <2>3. CASE tx[t].pc = "exec" /\ Apply(t, "done", "cancelled")
        BY <2>1, <2>3, ApplyStep DEF Holding
    <2>4. QED
        BY <1>5, <2>2, <2>3 DEF Cancel
<1>6. QED
    BY <1>1, <1>2, <1>3, <1>4, <1>5

LEMMA Initial == Init => IInv
<1> SUFFICES ASSUME Init PROVE IInv
    OBVIOUS
<1>1. New \in Local /\ Clean(New)
    <2>1. FALSE \in Flag
        BY Zenon DEF Flag
    <2>2. QED
        <3>1. New \in Local
            BY <2>1 DEF New, Local, Pc, Result
        <3>2. New.pc = "read" /\ New.applied = 0 /\ New.result = "none"
            BY DEF New
        <3>3. QED
            BY <3>1, <3>2 DEF Clean
<1>2. Holders = {}
    BY DEF Init, New, Holders, Holding
<1>3. QED
    BY <1>1, <1>2, FS_EmptySet, PoolAssumption DEF Init, IInv

(* Connections are free or held by one exec() each, and commands were      *)
(* applied as often as exec() got: the inductive invariant of exec().      *)
THEOREM Invariant == Spec => []IInv
<1>1. IInv /\ [Next]_vars => IInv'
    <2> SUFFICES ASSUME IInv, [Next]_vars PROVE IInv'
        OBVIOUS
    <2>1. CASE UNCHANGED vars
        <3>1. value' = value /\ free' = free /\ tx' = tx /\ Holders' = Holders
            BY <2>1 DEF vars, Holders, Holding
        <3>2. QED
            BY <3>1 DEF IInv
    <2>2. CASE ForeignWrite
        BY <2>2, ForeignStep
    <2>3. ASSUME NEW t \in Task, Build(t) PROVE IInv'
        BY <2>3, BuildStep
    <2>4. ASSUME NEW t \in Task, Get(t) \/ Again(t) PROVE IInv'
        BY <2>4, GotoStep
    <2>5. ASSUME NEW t \in Task, Watch(t) PROVE IInv'
        BY <2>5, WatchStep
    <2>6. ASSUME NEW t \in Task, ExecConflicts(t) \/ ExecAborts(t) PROVE IInv'
        BY <2>6, ConflictStep DEF ExecConflicts, ExecAborts
    <2>7. ASSUME NEW t \in Task,
                 \/ GetTimesOut(t) \/ AgainTimesOut(t) \/ ExecCommits(t)
                 \/ CommandFails(t) \/ Cancel(t)
          PROVE  IInv'
        BY <2>7, TaskStep
    <2>8. QED
        BY <2>1, <2>2, <2>3, <2>4, <2>5, <2>6, <2>7 DEF Next
<1>2. QED
    BY <1>1, Initial, PTL DEF Spec

(* Every return path gives the connection back exactly once. *)
THEOREM PoolIsConserved == Spec => []PoolConserved
<1>1. IInv => PoolConserved
    BY DEF IInv, PoolConserved, Holders
<1>2. QED
    BY <1>1, Invariant, PTL

(* Replaying a transaction never applies its commands a second time. *)
THEOREM CommandsApplyOnce == Spec => []AppliedOnce
<1>1. IInv => AppliedOnce
    BY DEF IInv, Clean, AppliedOnce
<1>2. QED
    BY <1>1, Invariant, PTL
=============================================================================
