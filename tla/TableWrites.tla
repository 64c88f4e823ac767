----------------------------- MODULE TableWrites -----------------------------
(***************************************************************************)
(* Writes to one table: the protected writes of yang-base's TableQuery     *)
(* (tenant scope, soft-delete guard, created_at), alone or inside a        *)
(* yang_db::Transaction, next to yang-db's own batches, which know nothing *)
(* of tenants and wrap several chunks into a transaction.                  *)
(*                                                                         *)
(* A row is found by a column with a unique index over the whole table.    *)
(* MySQL is external: a statement takes effect as a whole or not at all,   *)
(* and the rows it wrote stay locked until its transaction ends.  `rows'   *)
(* is what the last statements left; `undo' is what a rollback restores.   *)
(***************************************************************************)
EXTENDS Naturals, Sequences, FiniteSets

CONSTANTS
    Writer,        \* concurrent requests (tasks)
    Tenant,
    Key,            \* values of the unique column
    ChunkSize,      \* rows per statement of a batch (500 or 1000 in the code)
    MaxStatements   \* bound: statements of one transaction

ASSUME TableAssumption ==
    /\ Tenant \cap {"system", "none"} = {}
    /\ IsFiniteSet(Key)
    /\ ChunkSize \in Nat \ {0} /\ MaxStatements \in Nat

VARIABLES
    soft,           \* the table has a soft_delete_field
    rows,           \* key -> row
    call            \* request -> its query, and the transaction it holds

tableVars == <<soft, rows, call>>

System == "system"          \* the scope of a query without tenant
Earlier == "earlier"        \* who created the rows that were there before
Row(tenant, trashed, created) == [tenant |-> tenant, trashed |-> trashed, created |-> created]
Absent == Row("none", FALSE, "none")    \* the columns without a guard are left out
Present == {k \in Key : rows[k] # Absent}

(* History: of the asked rows done were written and kept committed.        *)
New == [pc |-> "idle", kind |-> "auto", scope |-> System, withTrashed |-> TRUE,
        op |-> "none", rest |-> << >>, undo |-> [k \in {} |-> Absent], asked |-> 0, done |-> 0, kept |-> 0,
        torn |-> FALSE]

TableInit ==
    /\ soft \in BOOLEAN
    /\ rows \in [Key -> {Absent} \cup
                        [tenant : Tenant, trashed : {FALSE, soft}, created : {Earlier}]]
    /\ call = [r \in Writer |-> New]

-----------------------------------------------------------------------------
Scoped(r) == call[r].scope # System
Guarded(r) == soft /\ ~call[r].withTrashed

(* scope_tenant and apply_where_guards: the rows of `where' a query means. *)
Meant(r, where) ==
    {k \in where \cap Present :
        /\ Scoped(r) => rows[k].tenant = call[r].scope
        /\ Guarded(r) => ~rows[k].trashed}

(* update, delete: refused as "the whole table" when nothing restricts the *)
(* query.  The condition of the caller is a set of keys, Key if it has none. *)
Restricted(r, where) == where # Key \/ Scoped(r) \/ Guarded(r)

(* prepare_and_validate_insert, validate_update_data: the tenant column is *)
(* injected into a scoped query and refused from its caller.               *)
MayName(r, tenant) == Scoped(r) => tenant = "none"

Injected(r, tenant) == IF Scoped(r) THEN call[r].scope ELSE tenant

Inserted(r, tenant) == Row(Injected(r, tenant), FALSE, r)
Updated(row, tenant) == IF tenant = "none" THEN row ELSE [row EXCEPT !.tenant = tenant]
Deleted(row) == IF soft THEN [row EXCEPT !.trashed = TRUE] ELSE Absent

(* InnoDB: a statement waits for the rows other transactions have written. *)
Free(r, keys) == \A o \in Writer \ {r} : keys \cap DOMAIN call[o].undo = {}

(* One statement of r on the examined keys gives some of them new rows.    *)
Executes(r, examined, new, next) ==
    /\ Free(r, examined)
    /\ rows' = [k \in Key |-> IF k \in DOMAIN new THEN new[k] ELSE rows[k]]
    /\ LET undo == call[r].undo
           logged == [k \in DOMAIN undo \cup DOMAIN new |->
                         IF k \in DOMAIN undo THEN undo[k] ELSE rows[k]]
       IN  call' = [call EXCEPT ![r] = [next EXCEPT !.undo = logged]]
    /\ UNCHANGED soft

-----------------------------------------------------------------------------
(* table_query or system_table_query, on the pool or in begin_transaction. *)
Begin(r) ==
    /\ call[r].pc = "idle"
    /\ \E kind \in {"auto", "tx"}, scope \in Tenant \cup {System}, withTrashed \in {TRUE, ~soft} :
          call' = [call EXCEPT ![r] = [New EXCEPT !.pc = "open", !.kind = kind,
                                       !.scope = scope, !.withTrashed = withTrashed]]
    /\ UNCHANGED <<soft, rows>>

(* Batches, in any order; a key twice in one batch is left out. *)
Lists == {s \in UNION {[1 .. n -> Key] : n \in 1 .. Cardinality(Key)} :
              \A i, j \in DOMAIN s : s[i] = s[j] => i = j}

(* insert_batch, update_batch, upsert_batch of a plain QueryBuilder: no    *)
(* scope, no guard, and a transaction of their own.                        *)
BeginBatch(r) ==
    /\ call[r].pc = "idle"
    /\ \E op \in {"insert", "update", "upsert"}, list \in Lists :
          call' = [call EXCEPT ![r] = [New EXCEPT !.pc = "open", !.kind = "batch", !.op = op,
                                       !.rest = list, !.asked = Len(list)]]
    /\ UNCHANGED <<soft, rows>>

(* A protected query writes: an autocommit statement is committed by the   *)
(* server, one in a transaction leaves it open.                            *)
Ready(r) ==
    /\ call[r].pc = "open" /\ call[r].kind # "batch" /\ call[r].rest = << >>
    /\ call[r].asked < MaxStatements
Wrote(r) == [call[r] EXCEPT !.pc = IF call[r].kind = "auto" THEN "committing" ELSE @,
                            !.asked = @ + 1, !.done = @ + 1]

Insert(r) ==
    /\ Ready(r)
    /\ \E k \in Key \ Present, tenant \in Tenant \cup {"none"} :
          /\ MayName(r, tenant) /\ Injected(r, tenant) # "none"
          /\ Executes(r, {k}, [key \in {k} |-> Inserted(r, tenant)], Wrote(r))

Update(r) ==
    /\ Ready(r)
    /\ \E where \in {{k} : k \in Key} \cup {Key}, tenant \in Tenant \cup {"none"} :
          /\ Restricted(r, where) /\ MayName(r, tenant)
          /\ Executes(r, where,
                 [k \in Meant(r, where) |-> Updated(rows[k], tenant)], Wrote(r))

Delete(r) ==
    /\ Ready(r)
    /\ \E where \in {{k} : k \in Key} \cup {Key} :
          /\ Restricted(r, where)
          /\ Executes(r, where, [k \in Meant(r, where) |-> Deleted(rows[k])], Wrote(r))

(* Variant of the next definition: the scope is not a condition. *)
PlansUpsertOfScoped(r) == call[r].kind = "tx" /\ (soft => call[r].withTrashed)

(* plan_upsert_batch: ON DUPLICATE KEY UPDATE has no WHERE, so a query     *)
(* with any condition is refused, and one that would need the guard.       *)
PlansUpsert(r) == call[r].kind = "tx" /\ ~Scoped(r) /\ ~Guarded(r)

UpsertInTx(r) ==
    /\ Ready(r) /\ PlansUpsert(r)
    /\ \E list \in Lists :
          call' = [call EXCEPT ![r] = [call[r] EXCEPT !.op = "upsert", !.rest = list,
                                                      !.asked = @ + Len(list)]]
    /\ UNCHANGED <<soft, rows>>

(* One chunk of a batch.  MySQL refuses an insert of a key that is there;  *)
(* upsert assigns the columns it was told to, which may be the tenant's;   *)
(* update_batch has no condition but the keys.                             *)
ChunkRows(r, keys, tenant, moved) ==
    CASE call[r].op = "insert" -> [k \in keys |-> Inserted(r, tenant)]
      [] call[r].op = "update" -> [k \in keys \cap Present |-> Updated(rows[k], "none")]
      [] call[r].op = "upsert" ->
            [k \in keys |-> IF k \in Present THEN Updated(rows[k], moved)
                                             ELSE Inserted(r, tenant)]

ChunkLen(r) == IF Len(call[r].rest) < ChunkSize THEN Len(call[r].rest) ELSE ChunkSize

(* Variant of the next definition: every chunk is committed by itself. *)
AutocommittedChunk(r) ==
    [call[r] EXCEPT !.done = @ + ChunkLen(r), !.kept = @ + ChunkLen(r),
                    !.rest = SubSeq(@, ChunkLen(r) + 1, Len(@)),
                    !.pc = IF call[r].kind = "batch" /\ Len(call[r].rest) = ChunkLen(r)
                           THEN "committing" ELSE @]

(* The transaction stays open until the last chunk was written. *)
AfterChunk(r) ==
    [call[r] EXCEPT !.done = @ + ChunkLen(r),
                    !.rest = SubSeq(@, ChunkLen(r) + 1, Len(@)),
                    !.pc = IF call[r].kind = "batch" /\ Len(call[r].rest) = ChunkLen(r)
                           THEN "committing" ELSE @]

Chunk(r) ==
    /\ call[r].pc = "open" /\ call[r].rest # << >>
    /\ LET keys == {call[r].rest[i] : i \in 1 .. ChunkLen(r)} IN
       /\ call[r].op = "insert" => keys \cap Present = {}
       /\ \E tenant \in Tenant : \E moved \in {"none", tenant} :
             Executes(r, keys, ChunkRows(r, keys, tenant, moved), AfterChunk(r))

(* Transaction::commit, called by the user of a transaction. *)
Commits(r) ==
    /\ call[r].pc = "open" /\ call[r].kind = "tx" /\ call[r].rest = << >>
    /\ call' = [call EXCEPT ![r] = [call[r] EXCEPT !.pc = "committing"]]
    /\ UNCHANGED <<soft, rows>>

(* History: some of what was asked is committed and some not, or an Ok was *)
(* given for what is not.                                                  *)
Torn(r, result, kept) == kept # call[r].asked /\ (result = "ok" \/ kept # 0)

(* The call fails (refused, duplicate key, lock wait, deadlock), its       *)
(* future is dropped, or the user rolls back: the transaction is dropped.  *)
Abort(r) ==
    /\ call[r].pc = "open"
    /\ call' = [call EXCEPT ![r] = [New EXCEPT !.pc = "dropped", !.undo = call[r].undo,
                                               !.torn = Torn(r, "failed", call[r].kept)]]
    /\ UNCHANGED <<soft, rows>>

(* The server commits; the reply may be lost. *)
Committed(r) ==
    /\ call[r].pc = "committing"
    /\ \E pc \in {"ok", "failed"} :
          call' = [call EXCEPT ![r] = [New EXCEPT !.pc = pc, !.torn = Torn(r, pc, call[r].done)]]
    /\ UNCHANGED <<soft, rows>>

(* The server rolls back: the connection was told to, or was lost, also on *)
(* the way to a commit.                                                    *)
RolledBack(r) ==
    /\ call[r].pc \in {"dropped", "committing"}
    /\ rows' = [k \in Key |-> IF k \in DOMAIN call[r].undo THEN call[r].undo[k] ELSE rows[k]]
    /\ call' = [call EXCEPT ![r] = [New EXCEPT !.pc = "failed",
                             !.torn = call[r].torn \/ Torn(r, "failed", call[r].kept)]]
    /\ UNCHANGED soft

TableNext ==
    \E r \in Writer :
        \/ Begin(r) \/ BeginBatch(r)
        \/ Insert(r) \/ Update(r) \/ Delete(r) \/ UpsertInTx(r) \/ Chunk(r)
        \/ Commits(r) \/ Abort(r) \/ Committed(r) \/ RolledBack(r)

TableSpec == TableInit /\ [][TableNext]_tableVars
-----------------------------------------------------------------------------
TableTypeOK ==
    LET Rows == {Absent} \cup [tenant : Tenant, trashed : BOOLEAN,
                               created : Writer \cup {Earlier}]
    IN  /\ soft \in BOOLEAN
        /\ rows \in [Key -> Rows]
        /\ \A r \in Writer :
              /\ call[r].pc \in {"idle", "open", "committing", "dropped", "ok", "failed"}
              /\ call[r].kind \in {"auto", "tx", "batch"}
              /\ call[r].scope \in Tenant \cup {System}
              /\ call[r].rest \in Seq(Key)
              /\ DOMAIN call[r].undo \subseteq Key
              /\ \A k \in DOMAIN call[r].undo : call[r].undo[k] \in Rows

(* A write reaches only what its query may touch: a scoped request leaves  *)
(* the rows of other tenants alone and gives none away, a guarded one      *)
(* leaves the trash alone, nobody takes a row out of the trash, and where  *)
(* rows are only marked as deleted none is lost or created anew            *)
(* (table_query, apply_where_guards, upsert_batch_in_tx).                  *)
WritesStayInReach ==
    \A r \in Writer : call[r].pc # "dropped" => \A k \in DOMAIN call[r].undo :
        LET old == call[r].undo[k]
            new == rows[k]
        IN  /\ Scoped(r) => {old.tenant, new.tenant} \subseteq {call[r].scope, "none"}
            /\ Guarded(r) => ~old.trashed
            /\ old.trashed => new.trashed
            /\ soft /\ old # Absent => new.created = old.created

(* A batch is committed as a whole or not at all, however many statements  *)
(* it is cut into and whenever it fails or is dropped; and what was        *)
(* answered with Ok is there (insert_batch, update_batch, upsert_batch,    *)
(* upsert_batch_in_tx, Transaction).                                       *)
AllOrNothing == \A r \in Writer : ~call[r].torn
=============================================================================
