---------------------------- MODULE FeishuClient ----------------------------
(***************************************************************************)
(* yang-feishu's client: the shared token (FeishuToken) and the calls that *)
(* are made with it (FeishuCall).  A call sees the token as one step of    *)
(* its own, the token sees a call's sends as one step, so neither shares   *)
(* state with the other; the lock of the first is sized after the worst    *)
(* case of the second.                                                     *)
(***************************************************************************)
EXTENDS FeishuToken

CONSTANTS Request, Second, MaxAttempts, BaseBackoff, MaxBackoff, MaxRetryAfter,
          Timeout, Advice, NoAdvice

VARIABLES out, copies, effects

Out == INSTANCE FeishuCall WITH call <- out
outVars == <<out, copies, effects>>

ASSUME PolicyIsLegal == Out!PolicyAssumption

(* A request that is not idempotent takes effect at most once, whatever    *)
(* was lost, late or sent again after a rejected token.                    *)
ExecutedOnce == Out!ExecutedOnce

(* A round of attempts takes at most worst_case_seconds, on which the      *)
(* lifetime of the token lock rests.                                       *)
WithinWorstCase == Out!WithinWorstCase

(* Every call returns, though Feishu throttles it, rejects its token or    *)
(* does not answer.                                                        *)
CallReturns == Out!CallReturns
=============================================================================
