----------------------------- MODULE FixedWindow -----------------------------
(***************************************************************************)
(* The Redis counters behind yang-base's limits: the loop over KEYS shared *)
(* by RATE_LIMIT_SCRIPT, FAILURE_COUNT_SCRIPT and RESERVE_SEND_SCRIPT.     *)
(* The script is one step of Redis.  TTLs are kept in ticks, Unit of them  *)
(* to the second, because Redis answers TTL rounded to the nearest second. *)
(***************************************************************************)
EXTENDS Naturals, FiniteSets, FiniteSetsExt

CONSTANTS
    Key,        \* counter keys
    Limit,      \* key -> calls allowed per window
    Window,     \* window_seconds
    Unit        \* ticks per second

VARIABLE counter    \* key -> its value and the ticks until it expires (0: no key)

NoCounter == [count |-> 0, left |-> 0]
Start == counter = [k \in Key |-> NoCounter]

(* TTL of a key that expires in `left' ticks: (milliseconds + 500) / 1000 *)
RedisTtl(left) == (2 * left + Unit) \div (2 * Unit)

(* Counts above the limit behave alike. *)
Incremented(k) ==
    IF counter[k].count > Limit[k] THEN counter[k].count ELSE counter[k].count + 1

(* Variant of the next definition: every call adds a window. *)
LeftExtended(k) == counter[k].left + Window * Unit

(* EXPIRE on the first call, and again when TTL answers less than one. *)
LeftAfter(k) ==
    IF counter[k].count = 0 \/ RedisTtl(counter[k].left) < 1
    THEN Window * Unit
    ELSE counter[k].left

After(k) == [count |-> Incremented(k), left |-> LeftAfter(k)]

CountOn(S) == counter' = [k \in Key |-> IF k \in S THEN After(k) ELSE counter[k]]

Over(S) == {k \in S : Incremented(k) > Limit[k]}

Delete(S) == counter' = [k \in Key |-> IF k \in S THEN NoCounter ELSE counter[k]]

Elapse ==
    counter' = [k \in Key |->
        IF counter[k].left > 1 THEN [counter[k] EXCEPT !.left = @ - 1] ELSE NoCounter]

(* No counter without an expiry: an interrupted caller leaves none behind. *)
Expiring ==
    counter \in {f \in [Key -> [count : 0 .. Max({Limit[k] : k \in Key}) + 1,
                                left : 0 .. Window * Unit]] :
                    \A k \in Key : f[k].count = 0 <=> f[k].left = 0}
=============================================================================
