----------------------------- MODULE MCClients ------------------------------
(***************************************************************************)
(* What the libraries ask of others, checked in one run: yang-feishu's     *)
(* token and calls (FeishuClient) and yang-base's HTTP client behind its   *)
(* circuit breaker (HttpSend).  They share no state, so a behaviour is one *)
(* of one machine, chosen in the initial state; the others keep their      *)
(* first values.  Liveness rules symmetry out.                             *)
(***************************************************************************)
EXTENDS FeishuClient, HttpSend

VARIABLE machine

MCInit ==
    /\ machine \in {"token", "call", "http"}
    /\ Init /\ Out!Init /\ SendInit

MCNext ==
    \/ machine = "token" /\ Next /\ UNCHANGED <<machine, outVars, sendVars>>
    \/ machine = "call" /\ Out!Next /\ UNCHANGED <<machine, vars, sendVars>>
    \/ machine = "http" /\ SendNext /\ UNCHANGED <<machine, vars, outVars>>

Http(A) == machine = "http" /\ A

(* The fairness of FeishuCall!Spec and of SendSpec, each for its machine. *)
MCSpec ==
    /\ MCInit /\ [][MCNext]_<<machine, vars, outVars, sendVars>>
    /\ \A c \in Request : WF_outVars(machine = "call" /\ Out!Step(c))
    /\ WF_sendVars(Http(BreakerTick))
    /\ \A t \in Task :
        /\ WF_sendVars(\E lag \in Breaker!Lag : Guard(t, lag))
        /\ SF_sendVars(\E lag \in Breaker!Lag : Response(t, lag))
        /\ WF_sendVars(Wake(t))
        /\ \A h \in Host : SF_sendVars(Http(\E policy \in Policy : Send(t, h, policy)))
=============================================================================
