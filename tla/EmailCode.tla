------------------------------ MODULE EmailCode ------------------------------
(***************************************************************************)
(* RegistrationEmailVerification for one mailbox: the send limits and the  *)
(* resend cooldown, the stored code with its count of wrong guesses, the   *)
(* delivery that may fail long after a newer code was stored, and the two  *)
(* ways of checking a code (verify_only, consume).  Every Lua script is    *)
(* one step of Redis; everything between two scripts is an await.          *)
(***************************************************************************)
EXTENDS Naturals, FiniteSets

CONSTANTS
    Request,            \* concurrent send requests, each from its own address
    IpLimit, EmailLimit, GlobalLimit,
    Window, Cooldown, Ttl,      \* seconds (EmailVerificationConfig)
    Unit,               \* ticks per second
    MaxAttempts,
    MaxCodes            \* bound: codes generated

ConfigAssumption ==
    /\ Cooldown \in Nat \ {0} /\ Ttl \in Nat \ {0} /\ Unit \in Nat \ {0}
    /\ MaxAttempts \in Nat \ {0} /\ MaxCodes \in Nat

VARIABLES
    counter,    \* the three send counters of each request
    cooling,    \* ticks until the cooldown key expires (0: no key)
    code,       \* the stored code, its wrong guesses, ticks until it expires
    made,       \* codes generated
    send,       \* request -> the locals of its request_inner
    uses,       \* code -> times consumed (history)
    wrongs,     \* wrong guesses answered since the stored code was stored (history)
    age         \* ticks since the stored code was stored (history)

vars == <<counter, cooling, code, made, send, uses, wrongs, age>>

Key == Request \cup {"email", "global"}
Limit == [k \in Key |-> CASE k = "email" -> EmailLimit
                          [] k = "global" -> GlobalLimit
                          [] OTHER -> IpLimit]
KeysOf(r) == {r, "email", "global"}
Counters == INSTANCE FixedWindow

Issued == 1 .. MaxCodes
NoCode == 0
None == [id |-> NoCode, wrong |-> 0, left |-> 0]
Idle == [pc |-> "idle", id |-> NoCode]
At(pc, id) == [pc |-> pc, id |-> id]

Init ==
    /\ Counters!Start
    /\ cooling = 0
    /\ code = None
    /\ made = 0
    /\ send = [r \in Request |-> Idle]
    /\ uses = [i \in Issued |-> 0]
    /\ wrongs = 0
    /\ age = 0

history == <<uses, wrongs, age>>

Goto(r, pc, id) == send' = [send EXCEPT ![r] = At(pc, id)]
Return(r) == send' = [send EXCEPT ![r] = Idle]

-----------------------------------------------------------------------------
(* RESERVE_SEND_SCRIPT: nothing is counted during the cooldown; SET NX     *)
(* leaves a cooldown key that still exists as it is.                       *)
InCooldown == Counters!RedisTtl(cooling) > 0

Admits(r) == ~InCooldown /\ Counters!Over(KeysOf(r)) = {}

Limited(r) ==
    /\ send[r].pc = "idle"
    /\ ~InCooldown /\ ~Admits(r)
    /\ Counters!CountOn(KeysOf(r))
    /\ UNCHANGED <<cooling, code, made, send, history>>

(* With deliver = false the limits are used up and nothing is sent. *)
Reserve(r, deliver) ==
    /\ send[r].pc = "idle"
    /\ Admits(r)
    /\ Counters!CountOn(KeysOf(r))
    /\ cooling' = IF cooling = 0 THEN Cooldown * Unit ELSE cooling
    /\ IF deliver THEN Goto(r, "store", NoCode) ELSE UNCHANGED send
    /\ UNCHANGED <<code, made, uses, wrongs, age>>

Stored(id) ==
    /\ code' = [id |-> id, wrong |-> 0, left |-> Ttl * Unit]
    /\ age' = 0 /\ wrongs' = 0

(* SETEX of a fresh code; the command may fail, even after it was applied. *)
Store(r) ==
    /\ send[r].pc = "store"
    /\ made < MaxCodes
    /\ made' = made + 1
    /\ \/ Stored(made + 1) /\ send' \in {[send EXCEPT ![r] = s] : s \in {At("deliver", made + 1), Idle}}
       \/ UNCHANGED <<code, age, wrongs>> /\ Return(r)
    /\ UNCHANGED <<counter, cooling, uses>>

Deliver(r) ==
    /\ send[r].pc = "deliver"
    /\ Return(r) \/ Goto(r, "reclaim", send[r].id)
    /\ UNCHANGED <<counter, cooling, code, made, history>>

(* DELETE_IF_CURRENT_SCRIPT *)
Reclaimed(id) == IF code.id = id THEN None ELSE code

Reclaim(r) ==
    /\ send[r].pc = "reclaim"
    /\ code' = Reclaimed(send[r].id)
    /\ Return(r)
    /\ UNCHANGED <<counter, cooling, made, history>>

(* The request is dropped at an await, or Redis answers with an error. *)
Abort(r) ==
    /\ send[r].pc # "idle"
    /\ Return(r)
    /\ UNCHANGED <<counter, cooling, code, made, history>>

-----------------------------------------------------------------------------
(* Variant of the next definition: verify_only does not count. *)
GuessedFree == code

(* The wrong digest, in both scripts: SET .. KEEPTTL or DEL at the limit. *)
Guessed ==
    IF code.wrong + 1 >= MaxAttempts THEN None ELSE [code EXCEPT !.wrong = @ + 1]

Guess ==
    /\ code # None
    /\ code' = Guessed
    /\ wrongs' = wrongs + 1
    /\ UNCHANGED <<counter, cooling, made, send, uses, age>>

(* Variant of the next definition: the code that matched stays. *)
ConsumedKept == code

ConsumedCode == None

(* consume with a code somebody was sent, the stored one or an older one. *)
Consume(i) ==
    /\ code # None
    /\ i = code.id
    /\ code' = ConsumedCode
    /\ uses' = [uses EXCEPT ![i] = @ + 1]
    /\ UNCHANGED <<counter, cooling, made, send, wrongs, age>>

Less(n) == IF n > 0 THEN n - 1 ELSE 0

Tick ==
    /\ Counters!Elapse
    /\ cooling' = Less(cooling)
    /\ code' = IF code.left > 1 THEN [code EXCEPT !.left = @ - 1] ELSE None
    /\ age' = IF code.left > 1 THEN age + 1 ELSE 0
    /\ wrongs' = IF code.left > 1 THEN wrongs ELSE 0
    /\ UNCHANGED <<made, send, uses>>

Next ==
    \/ Tick
    \/ Guess
    \/ \E i \in Issued : Consume(i)
    \/ \E r \in Request :
        \/ Limited(r)
        \/ \E deliver \in BOOLEAN : Reserve(r, deliver)
        \/ Store(r)
        \/ Deliver(r)
        \/ Reclaim(r)
        \/ Abort(r)

Spec == Init /\ [][Next]_vars

-----------------------------------------------------------------------------
(* A stored code has wrong guesses left and expires. *)
TypeOK ==
    /\ Counters!Expiring
    /\ cooling \in 0 .. Cooldown * Unit
    /\ code = None \/ code \in [id : 1 .. made, wrong : 0 .. MaxAttempts - 1,
                                left : 1 .. Ttl * Unit]
    /\ made \in 0 .. MaxCodes
    /\ send \in [Request -> [pc : {"idle", "store", "deliver", "reclaim"}, id : 0 .. made]]
    /\ uses \in [Issued -> Nat]
    /\ wrongs \in Nat
    /\ age \in Nat

(* A code answers at most MaxAttempts wrong guesses, whether verify_only   *)
(* or consume is asked, and no guess prolongs its life.                    *)
GuessesAreCounted == code # None => wrongs < MaxAttempts /\ age < Ttl * Unit

(* A failed delivery takes back its own code, never the newer one that     *)
(* another request stored meanwhile (DELETE_IF_CURRENT_SCRIPT).            *)
NewerCodeSurvives ==
    [][\A r \in Request : (send[r].pc = "reclaim" /\ send'[r] = Idle)
        => code' = code \/ code.id = send[r].id]_vars

(* A code is consumed once and for good, although verify_only may accept   *)
(* it any number of times before and several requests may consume it at    *)
(* once.                                                                   *)
Over == [i \in Issued |-> FALSE]
Consumption == INSTANCE OneShot WITH Item <- Issued, over <- Over
ConsumedOnce == Consumption!Spec
=============================================================================
