---------------------------- MODULE TokenSession ----------------------------
(***************************************************************************)
(* Sessions of yang-base's TokenManager: JWT access/refresh pairs, their   *)
(* rotation, and the two revocation layers kept in Redis (a blacklist key  *)
(* per jti and a "minimum iat" watermark per subject, both with a TTL).    *)
(*                                                                         *)
(* Times are whole seconds, as in the code.  Every operation that reads    *)
(* the clock and then sends a Redis command is two steps; MaxLatency is    *)
(* how many second boundaries may pass between the two.                    *)
(***************************************************************************)
EXTENDS Naturals, Sequences, FiniteSets

CONSTANTS
    Subject,        \* users
    Request,        \* concurrent HTTP requests (tasks)
    AccessTtl,      \* access_token_expiry, in seconds
    RefreshTtl,     \* refresh_token_expiry, in seconds
    Revocable,      \* bound: tokens the application revokes one by one
    MaxPairs,       \* bound: token pairs issued in a behaviour
    MaxTime,        \* bound: last second of a behaviour
    MaxLatency      \* bound: seconds from a clock read to its Redis command

ASSUME SubjectAssumption == Subject # {}
ASSUME TtlAssumption == AccessTtl \in Nat \ {0} /\ RefreshTtl \in Nat \ {0}
ASSUME BoundAssumption == MaxPairs \in Nat /\ MaxTime \in Nat /\ MaxLatency \in Nat

VARIABLES
    now,            \* wall clock shared by the instances and Redis
    pairs,          \* the claims of every pair issued so far, oldest first
    blacklist,      \* token -> second at which its Redis key expires (0: never set)
    watermark,      \* subject -> min_iat and the second its key expires
    req             \* request -> where it is and what it holds

vars == <<now, pairs, blacklist, watermark, req>>

TokenType == {"access", "refresh"}
PairId == 1 .. MaxPairs
Token == PairId \X TokenType        \* a jti
NoToken == <<0, "refresh">>
ASSUME RevocableAssumption == Revocable \subseteq Token
Second == 0 .. MaxTime

Ttl(type) == IF type = "access" THEN AccessTtl ELSE RefreshTtl

(* Variant of the next definition: the watermark lives as long as an access token. *)
WatermarkTtlShort == AccessTtl

(* revocation_watermark_ttl: the longer of the two lifetimes *)
WatermarkTtl == IF RefreshTtl >= AccessTtl THEN RefreshTtl ELSE AccessTtl

Claims == [sub : Subject, iat : Second, parent : 0 .. MaxPairs]
At(pc, tok, sub, second) == [pc |-> pc, tok |-> tok, sub |-> sub, at |-> second]
Idle == At("idle", NoToken, CHOOSE s \in Subject : TRUE, 0)

Issued(t) == t[1] \in DOMAIN pairs
Sub(t) == pairs[t[1]].sub
Iat(t) == pairs[t[1]].iat
Exp(t) == Iat(t) + Ttl(t[2])

-----------------------------------------------------------------------------
(* jsonwebtoken with leeway 0 refuses a token only once exp < now. *)
JwtValid(t) == Issued(t) /\ now <= Exp(t)

Blacklisted(t) == now < blacklist[t]

Watermarked(t) ==
    /\ now < watermark[Sub(t)].until
    /\ Iat(t) <= watermark[Sub(t)].minIat

Revoked(t) == Blacklisted(t) \/ Watermarked(t)

(* verify_token_checked: signature and claims, then one EXISTS + GET. *)
Accepts(t) == JwtValid(t) /\ ~Revoked(t)

-----------------------------------------------------------------------------
Init ==
    /\ now = 0
    /\ pairs = << >>
    /\ blacklist = [t \in Token |-> 0]
    /\ watermark = [s \in Subject |-> [minIat |-> 0, until |-> 0]]
    /\ req = [r \in Request |-> Idle]

CanIssue == Len(pairs) < MaxPairs
Issue(s, iat, parent) ==
    pairs' = Append(pairs, [sub |-> s, iat |-> iat, parent |-> parent])

Goto(r, pc, second) == req' = [req EXCEPT ![r] = At(pc, @.tok, @.sub, second)]
Return(r) == req' = [req EXCEPT ![r] = Idle]

(* A request that holds a clock reading and has not sent its command yet. *)
HoldsClock(r) == req[r].pc \in {"spend", "mark", "blacklist"}

Tick ==
    /\ now < MaxTime
    /\ \A r \in Request : HoldsClock(r) => now - req[r].at < MaxLatency
    /\ now' = now + 1
    /\ UNCHANGED <<pairs, blacklist, watermark, req>>

(* LoginAction: the verifier accepted the credentials. *)
Login(s) ==
    /\ CanIssue
    /\ Issue(s, now, 0)
    /\ UNCHANGED <<now, blacklist, watermark, req>>

(* RefreshAction, first await: verify_token_checked on the old token. *)
RefreshVerify(r, t) ==
    /\ req[r].pc = "idle"
    /\ t[2] = "refresh"
    /\ Accepts(t)
    /\ req' = [req EXCEPT ![r] = At("resolving", t, Sub(t), 0)]
    /\ UNCHANGED <<now, pairs, blacklist, watermark>>

(* The claims resolver fails (or the request is cancelled): nothing spent. *)
ResolveFails(r) ==
    /\ req[r].pc = "resolving"
    /\ Return(r)
    /\ UNCHANGED <<now, pairs, blacklist, watermark>>

(* Variant of RotateClock: no expiry test before SET NX EX. *)
RotateClockUntested(r) ==
    /\ req[r].pc = "resolving"
    /\ Goto(r, "spend", now)
    /\ UNCHANGED <<now, pairs, blacklist, watermark>>

(* rotate_refresh_token_from_claims: read the clock; an expired token ends *)
(* with TokenExpired before the blacklist is touched.                      *)
RotateClock(r) ==
    /\ req[r].pc = "resolving"
    /\ IF Exp(req[r].tok) <= now THEN Return(r) ELSE Goto(r, "spend", now)
    /\ UNCHANGED <<now, pairs, blacklist, watermark>>

(* Variants: a TTL one second short; SET EX without NX. *)
SpendTtlShort(r) == Exp(req[r].tok) - req[r].at - 1
LosesSetEx(r) == Exp(req[r].tok) = req[r].at

(* ttl = exp - now; try_revoke_once never sends EX 0. *)
SpendTtl(r) == Exp(req[r].tok) - req[r].at
LosesSetNx(r) == SpendTtl(r) = 0 \/ Blacklisted(req[r].tok)

(* SET NX EX wins: the old token is spent and a new pair is issued with    *)
(* the clock reading of RotateClock -- or the request dies after the       *)
(* command and the pair is never delivered.                                *)
RotateWins(r) ==
    /\ req[r].pc = "spend"
    /\ ~LosesSetNx(r)
    /\ blacklist' = [blacklist EXCEPT ![req[r].tok] = now + SpendTtl(r)]
    /\ \/ CanIssue /\ Issue(req[r].sub, req[r].at, req[r].tok[1])
       \/ UNCHANGED pairs
    /\ Return(r)
    /\ UNCHANGED <<now, watermark>>

(* SET NX EX loses: taken for a replay, revoke_by_subject follows. *)
RotateLoses(r) ==
    /\ req[r].pc = "spend"
    /\ LosesSetNx(r)
    /\ Goto(r, "revoking", 0)
    /\ UNCHANGED <<now, pairs, blacklist, watermark>>

(* LogoutAction: the target only has to decode; a bearer of the same user, *)
(* or without a bearer the target itself, has to be unrevoked.             *)
LogoutVerify(r, t) ==
    /\ req[r].pc = "idle"
    /\ JwtValid(t)
    /\ \/ Accepts(t)
       \/ \E p \in DOMAIN pairs : Accepts(<<p, "access">>) /\ pairs[p].sub = Sub(t)
    /\ req' = [req EXCEPT ![r] = At("revoking", NoToken, Sub(t), 0)]
    /\ UNCHANGED <<now, pairs, blacklist, watermark>>

(* revoke_by_subject, first half: read the clock. *)
MarkClock(r) ==
    /\ req[r].pc = "revoking"
    /\ Goto(r, "mark", now)
    /\ UNCHANGED <<now, pairs, blacklist, watermark>>

(* revoke_by_subject, second half: SETEX the watermark. *)
Mark(r) ==
    /\ req[r].pc = "mark"
    /\ watermark' = [watermark EXCEPT ![req[r].sub] =
                        [minIat |-> req[r].at, until |-> now + WatermarkTtl]]
    /\ Return(r)
    /\ UNCHANGED <<now, pairs, blacklist>>

(* revoke_token / revoke_claims: a token with no lifetime left needs no key. *)
RevokeClock(r, t) ==
    /\ req[r].pc = "idle"
    /\ t \in Revocable
    /\ JwtValid(t)
    /\ Exp(t) > now
    /\ req' = [req EXCEPT ![r] = At("blacklist", t, Sub(t), now)]
    /\ UNCHANGED <<now, pairs, blacklist, watermark>>

Blacklist(r) ==
    /\ req[r].pc = "blacklist"
    /\ blacklist' = [blacklist EXCEPT ![req[r].tok] = now + Exp(req[r].tok) - req[r].at]
    /\ Return(r)
    /\ UNCHANGED <<now, pairs, watermark>>

(* Any await on Redis or on a cancelled request may fail before the        *)
(* command is applied: the `?' returns and nothing was written.            *)
RedisFails(r) ==
    /\ req[r].pc \in {"spend", "revoking", "mark", "blacklist"}
    /\ Return(r)
    /\ UNCHANGED <<now, pairs, blacklist, watermark>>

Next ==
    \/ Tick
    \/ \E s \in Subject : Login(s)
    \/ \E r \in Request :
        \/ \E t \in Token :
            \/ RefreshVerify(r, t)
            \/ LogoutVerify(r, t)
            \/ RevokeClock(r, t)
        \/ ResolveFails(r)
        \/ RotateClock(r)
        \/ RotateWins(r)
        \/ RotateLoses(r)
        \/ MarkClock(r)
        \/ Mark(r)
        \/ Blacklist(r)
        \/ RedisFails(r)

Spec == Init /\ [][Next]_vars

-----------------------------------------------------------------------------
Pc == {"idle", "resolving", "spend", "revoking", "mark", "blacklist"}
Progress == [pc : Pc, tok : Token \cup {NoToken}, sub : Subject, at : Second]

(* The values the variables range over. *)
TypeOK ==
    /\ now \in Second
    /\ pairs \in Seq(Claims) /\ Len(pairs) <= MaxPairs
    /\ blacklist \in [Token -> Nat]
    /\ watermark \in [Subject -> [minIat : Second, until : Nat]]
    /\ req \in [Request -> Progress]

Children(p) == {c \in DOMAIN pairs : pairs[c].parent = p}

(* While a refresh token lives it is exchanged for at most one new pair,   *)
(* however many requests rotate it at once and however late their commands *)
(* come; a second pair is issued only when the token has expired           *)
(* (rotate_refresh_token: SET NX EX for the rest of its life).             *)
RotatedOnce ==
    \A c, d \in DOMAIN pairs :
        (c # d /\ pairs[c].parent = pairs[d].parent /\ pairs[c].parent # 0)
            => Exp(<<pairs[c].parent, "refresh">>) <= now

(* "Of concurrent requests only the first writes the blacklist, all later  *)
(* ones are refused" (manager.rs:779): one exchange, ever.                 *)
OneExchangeEver ==
    \A c, d \in DOMAIN pairs :
        (pairs[c].parent = pairs[d].parent /\ pairs[c].parent # 0) => c = d

(* Once exchanged, a refresh token is refused for the rest of its life     *)
(* (the blacklist key outlives the token, revoke_claims' TTL arithmetic).  *)
SpentIsRefused ==
    \A p \in DOMAIN pairs : LET t == <<p, "refresh">> IN
        (Children(p) # {} /\ now < Exp(t)) => ~Accepts(t)

(* A rotation asks for family revocation only when its token was spent or  *)
(* revoked by someone, never because it merely expired.                    *)
ReuseIsReal ==
    \A r \in Request : (req[r].pc \in {"revoking", "mark"} /\ req[r].tok # NoToken)
        => blacklist[req[r].tok] # 0

(* r's watermark, of a second before t was issued, overwrites a newer one. *)
Overtaken(r, t) ==
    /\ req[r].pc = "mark" /\ req[r].sub = Sub(t) /\ req[r].at < Iat(t)
    /\ watermark'[Sub(t)].minIat = req[r].at

(* A revoked token stays revoked until the second it expires, whatever     *)
(* keys run out and whatever later revocations overwrite; only a watermark *)
(* that was computed before the token was issued, and reaches Redis after  *)
(* the one that revoked it, may revive it (revocation_watermark_ttl,       *)
(* revoke_by_subject).                                                     *)
RevocationSticks ==
    [][\A t \in Token : (Issued(t) /\ Revoked(t) /\ now' < Exp(t))
        => Revoked(t)' \/ \E r \in Request : Overtaken(r, t)]_vars

(* Without that exception: revoking "invalidates all tokens issued before  *)
(* at once", and no revoked session comes back (revocation.rs:203, :207).  *)
RevocationIsFinal ==
    [][\A t \in Token : (Issued(t) /\ Revoked(t) /\ now' < Exp(t)) => Revoked(t)']_vars

(* The same, including the last second in which the JWT still decodes.     *)
RevokedUntilUnusable ==
    [][\A t \in Token : (Issued(t) /\ Revoked(t)) => ~Accepts(t)']_vars

(* Revoking every session of a user leaves no usable session behind: a     *)
(* rotation that was in flight issues nothing that is accepted             *)
(* (revoke_by_subject, LogoutAction).                                      *)
NoSessionFromRevoked ==
    [][\A p \in (DOMAIN pairs') \ DOMAIN pairs :
        LET parent == pairs'[p].parent IN
            (parent # 0 /\ Watermarked(<<parent, "refresh">>)) => ~Accepts(<<p, "refresh">>)']_vars

(* Rotation implements the one-shot contract, per refresh token. *)
Uses == [p \in PairId |-> Cardinality(Children(p))]
Over == [p \in PairId |-> p \in DOMAIN pairs /\ Exp(<<p, "refresh">>) <= now]
Rotation == INSTANCE OneShot WITH Item <- PairId, uses <- Uses, over <- Over
RotationIsOneShot == Rotation!Spec
=============================================================================
