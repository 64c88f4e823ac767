----------------------------- MODULE MCRequests -----------------------------
(***************************************************************************)
(* What a request may do, checked in one run: use a session (TokenSession) *)
(* and write to its tenant's rows (TableWrites).  The two share no state,  *)
(* so a behaviour is one of one of them.                                   *)
(***************************************************************************)
EXTENDS TokenSession, TableWrites, TLC

VARIABLE part

(* The application may revoke both tokens of the first pair, and the       *)
(* refresh token of the second.                                            *)
MCRevocable == {<<1, "access">>, <<1, "refresh">>, <<2, "refresh">>}

(* Tenants are alike: an arrangement of rows and its mirror image are one. *)
FirstTenant == CHOOSE t \in Tenant : TRUE

MCInit ==
    /\ part \in {"session", "table"}
    /\ Init /\ TableInit
    /\ part = "session" => ~soft /\ rows = [k \in Key |-> Absent]
    /\ Present # {} => \E k \in Key : rows[k].tenant = FirstTenant

MCNext ==
    \/ part = "session" /\ Next /\ UNCHANGED <<part, tableVars>>
    \/ part = "table" /\ TableNext /\ UNCHANGED <<part, vars>>

MCSpec == MCInit /\ [][MCNext]_<<part, vars, tableVars>>

Symmetric == Permutations(Request) \cup Permutations(Writer)
=============================================================================
