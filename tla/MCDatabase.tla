----------------------------- MODULE MCDatabase -----------------------------
(***************************************************************************)
(* The two protocols that run against a data store, checked in one run:    *)
(* yang-db's Redis transactions and yang-base's schema synchroniser.  They *)
(* share nothing, so a behaviour is one of one of them.                    *)
(***************************************************************************)
EXTENDS RedisTransaction, SchemaReleases

VARIABLE store

MCInit ==
    /\ Init
    /\ \/ store = "mysql" /\ SyncInit
       \/ /\ store = "redis"
          /\ want = << >> /\ db = << >> /\ holder = {} /\ writes = 0 /\ faults = 0
          /\ sync = [i \in Instance |-> Idle]

MCNext ==
    \/ store = "redis" /\ Next /\ UNCHANGED <<store, syncVars>>
    \/ store = "mysql" /\ SyncNext /\ UNCHANGED <<store, vars>>

(* Neither machine's fair actions are enabled before it has been started. *)
MCSpec ==
    /\ MCInit /\ [][MCNext]_<<store, vars, syncVars>>
    /\ Fairness
    /\ \A i \in Instance : WF_syncVars(Step(i))
=============================================================================
