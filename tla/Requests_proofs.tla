--------------------------- MODULE Requests_proofs ---------------------------
(***************************************************************************)
(* What a request may do, for every set of requests, subjects, tenants,    *)
(* keys and every bound: TokenSession first, then TableWrites.             *)
(*                                                                         *)
(* WritesStayInReach compares the first and the last row of a transaction. *)
(* It is kept because what one statement may do to a row (Allowed) can be  *)
(* chained, and because rows written by one transaction are touched by no  *)
(* other (Disjoint), also while that one is being rolled back.             *)
(***************************************************************************)
EXTENDS TokenSession, TableWrites, FiniteSetTheorems, TLAPS

(* A request that carries a token carries one that has been issued; a      *)
(* rotation carries a refresh token with lifetime left at its clock        *)
(* reading, and no clock reading lies in the future.                       *)
Sound(q) ==
    /\ q.at <= now
    /\ q.pc \in {"resolving", "spend", "blacklist"} => q.tok \in Token /\ Issued(q.tok)
    /\ q.pc \in {"resolving", "spend"} => q.tok[2] = "refresh"
    /\ q.pc \in {"spend", "blacklist"} => q.at < Exp(q.tok)

RequestInv == \A r \in Request : Sound(req[r])

Inv == TypeOK /\ RequestInv

-----------------------------------------------------------------------------
LEMMA TokenShape ==
    ASSUME NEW t \in Token
    PROVE  t[1] \in PairId /\ t[2] \in TokenType /\ t = <<t[1], t[2]>>
BY DEF Token

LEMMA NoTokenShape == NoToken \notin Token
BY DEF NoToken, Token, PairId

LEMMA IdleSound == now \in Second => Idle \in Progress /\ Sound(Idle)
BY SubjectAssumption, BoundAssumption, NoTokenShape
   DEF Idle, At, Progress, Pc, Sound, Second

(* Claims of issued tokens, as numbers. *)
LEMMA ClaimTypes ==
    ASSUME TypeOK, NEW t \in Token, Issued(t)
    PROVE  Sub(t) \in Subject /\ Iat(t) \in Second /\ Exp(t) \in Nat
<1>1. pairs[t[1]] \in Claims
    BY DEF TypeOK, Issued
<1>2. Sub(t) \in Subject /\ Iat(t) \in Second
    BY <1>1 DEF Claims, Sub, Iat
<1>3. Ttl(t[2]) \in Nat
    BY TtlAssumption DEF Ttl
<1>4. QED
    BY <1>2, <1>3, BoundAssumption DEF Exp, Second

(* Issuing a pair keeps the claims of the tokens already issued. *)
LEMMA IssueKeeps ==
    ASSUME TypeOK, NEW s \in Subject, NEW iat \in Second, NEW q \in 0 .. MaxPairs,
           CanIssue, Issue(s, iat, q)
    PROVE  /\ pairs' \in Seq(Claims) /\ Len(pairs') = Len(pairs) + 1 /\ Len(pairs') <= MaxPairs
           /\ DOMAIN pairs' = DOMAIN pairs \cup {Len(pairs) + 1}
           /\ \A p \in DOMAIN pairs : pairs'[p] = pairs[p]
           /\ pairs'[Len(pairs) + 1] = [sub |-> s, iat |-> iat, parent |-> q]
BY BoundAssumption DEF TypeOK, CanIssue, Issue, Claims

(* A step of one request that leaves it sound preserves the invariant,     *)
(* also when it issues a pair.                                              *)
LEMMA RequestStep ==
    ASSUME Inv, NEW r \in Request, NEW q \in Progress, Sound(q),
           req' = [req EXCEPT ![r] = q],
           now' = now,
           pairs' \in Seq(Claims), Len(pairs') <= MaxPairs,
           DOMAIN pairs \subseteq DOMAIN pairs', \A p \in DOMAIN pairs : pairs'[p] = pairs[p],
           blacklist' \in [Token -> Nat],
           watermark' \in [Subject -> [minIat : Second, until : Nat]]
    PROVE  Inv'
<1>1. TypeOK'
    BY DEF Inv, TypeOK
<1>2. ASSUME NEW r2 \in Request PROVE Sound(req[r2])'
    <2>1. req'[r2] = IF r2 = r THEN q ELSE req[r2]
        BY DEF Inv, TypeOK
    <2>2. CASE r2 = r
        BY <2>1, <2>2 DEF Sound, Issued, Exp, Iat
    <2>3. CASE r2 # r
        BY <2>1, <2>3 DEF Sound, Issued, Exp, Iat, Inv, RequestInv
    <2>4. QED
        BY <2>2, <2>3
<1>3. QED
    BY <1>1, <1>2 DEF Inv, RequestInv

(* A step that issues a pair or lets time pass, requests standing still. *)
LEMMA WorldStep ==
    ASSUME Inv, UNCHANGED <<blacklist, watermark, req>>,
           now' \in Second, now <= now',
           pairs' \in Seq(Claims), Len(pairs') <= MaxPairs,
           DOMAIN pairs \subseteq DOMAIN pairs', \A p \in DOMAIN pairs : pairs'[p] = pairs[p]
    PROVE  Inv'
<1>1. TypeOK'
    BY DEF Inv, TypeOK
<1>2. ASSUME NEW r \in Request PROVE Sound(req[r])'
    <2>1. req[r] \in Progress /\ Sound(req[r]) /\ req'[r] = req[r]
        BY DEF Inv, TypeOK, RequestInv
    <2>2. QED
        BY <2>1, BoundAssumption DEF Sound, Issued, Exp, Iat, Inv, TypeOK, Second, Progress
<1>3. QED
    BY <1>1, <1>2 DEF Inv, RequestInv
-----------------------------------------------------------------------------
LEMMA InvInit == Init => Inv
<1> SUFFICES ASSUME Init PROVE Inv
    OBVIOUS
<1>1. now \in Second /\ Idle \in Progress /\ Sound(Idle)
    BY IdleSound, BoundAssumption DEF Init, Second
<1>2. QED
    BY <1>1, BoundAssumption DEF Init, Inv, TypeOK, RequestInv, Second, Claims

LEMMA InvStep == Inv /\ [Next]_vars => Inv'
<1> SUFFICES ASSUME Inv, [Next]_vars PROVE Inv'
    OBVIOUS
<1> USE BoundAssumption
<1>idle. now \in Second /\ now' = now => Idle \in Progress /\ Sound(Idle)
    BY IdleSound
<1>1. CASE Tick
    BY <1>1, WorldStep DEF Tick, Inv, TypeOK, Second
<1>2. ASSUME NEW s \in Subject, Login(s) PROVE Inv'
    <2>1. pairs' \in Seq(Claims) /\ Len(pairs') <= MaxPairs /\ DOMAIN pairs \subseteq DOMAIN pairs'
            /\ \A p \in DOMAIN pairs : pairs'[p] = pairs[p]
        <3>1. CanIssue /\ Issue(s, now, 0) /\ now \in Second /\ 0 \in 0 .. MaxPairs /\ TypeOK
            BY <1>2 DEF Login, Inv, TypeOK
        <3>2. QED
            BY <3>1, IssueKeeps
    <2>2. QED
        BY <1>2, <2>1, WorldStep DEF Login, Inv, TypeOK, Second
<1>3. ASSUME NEW r \in Request, NEW t \in Token, RefreshVerify(r, t) PROVE Inv'
    <2> DEFINE q == At("resolving", t, Sub(t), 0)
    <2>1. q \in Progress /\ Sound(q)
        BY <1>3, ClaimTypes DEF RefreshVerify, Accepts, JwtValid, Inv, TypeOK, At, Progress, Pc, Sound, Second
    <2>2. QED
        BY <1>3, <2>1, RequestStep DEF RefreshVerify, Inv, TypeOK
<1>4. ASSUME NEW r \in Request, NEW t \in Token, LogoutVerify(r, t) PROVE Inv'
    <2> DEFINE q == At("revoking", NoToken, Sub(t), 0)
    <2>1. q \in Progress /\ Sound(q)
        BY <1>4, ClaimTypes DEF LogoutVerify, JwtValid, Inv, TypeOK, At, Progress, Pc, Sound, Second
    <2>2. QED
        BY <1>4, <2>1, RequestStep DEF LogoutVerify, Inv, TypeOK
<1>5. ASSUME NEW r \in Request, NEW t \in Token, RevokeClock(r, t) PROVE Inv'
    <2> DEFINE q == At("blacklist", t, Sub(t), now)
    <2>1. q \in Progress /\ Sound(q)
        BY <1>5, ClaimTypes DEF RevokeClock, JwtValid, Inv, TypeOK, At, Progress, Pc, Sound, Second
    <2>2. QED
        BY <1>5, <2>1, RequestStep DEF RevokeClock, Inv, TypeOK
<1>6. ASSUME NEW r \in Request, ResolveFails(r) \/ RedisFails(r) PROVE Inv'
    BY <1>6, <1>idle, RequestStep DEF ResolveFails, RedisFails, Return, Inv, TypeOK
<1>7. ASSUME NEW r \in Request, RotateClock(r) PROVE Inv'
    <2> DEFINE q == At("spend", req[r].tok, req[r].sub, now)
    <2>1. CASE Exp(req[r].tok) <= now
        BY <1>7, <2>1, <1>idle, RequestStep DEF RotateClock, Return, Inv, TypeOK
    <2>2. CASE ~(Exp(req[r].tok) <= now)
        <3>1. req[r] \in Progress /\ Sound(req[r]) /\ now \in Second
            BY DEF Inv, TypeOK, RequestInv
        <3>2. q \in Progress /\ Sound(q)
            BY <1>7, <2>2, <3>1, ClaimTypes
            DEF RotateClock, Inv, At, Progress, Pc, Sound, Second
        <3>3. req' = [req EXCEPT ![r] = q]
            BY <1>7, <2>2 DEF RotateClock, Goto
        <3>4. QED
            BY <1>7, <3>2, <3>3, RequestStep DEF RotateClock, Inv, TypeOK
    <2>3. QED
        BY <2>1, <2>2
<1>8. ASSUME NEW r \in Request, RotateWins(r) PROVE Inv'
    <2>1. req[r] \in Progress /\ Sound(req[r]) /\ req[r].tok \in Token /\ Issued(req[r].tok)
        BY <1>8 DEF RotateWins, Inv, TypeOK, RequestInv, Sound
    <2>2. now + SpendTtl(r) \in Nat
        <3>1. Exp(req[r].tok) \in Nat /\ req[r].at \in Nat /\ req[r].at < Exp(req[r].tok) /\ now \in Nat
            BY <1>8, <2>1, ClaimTypes DEF RotateWins, Inv, TypeOK, Sound, Progress, Second
        <3>2. QED
            BY <3>1 DEF SpendTtl
    <2>3. blacklist' \in [Token -> Nat]
        BY <1>8, <2>2 DEF RotateWins, Inv, TypeOK
    <2>4. pairs' \in Seq(Claims) /\ Len(pairs') <= MaxPairs /\ DOMAIN pairs \subseteq DOMAIN pairs'
            /\ \A p \in DOMAIN pairs : pairs'[p] = pairs[p]
        <3>1. req[r].sub \in Subject /\ req[r].at \in Second /\ req[r].tok[1] \in 0 .. MaxPairs
            BY <2>1, TokenShape DEF Progress, PairId
        <3>2. CASE UNCHANGED pairs
            BY <3>2 DEF Inv, TypeOK
        <3>3. CASE CanIssue /\ Issue(req[r].sub, req[r].at, req[r].tok[1])
            BY <3>1, <3>3, IssueKeeps DEF Inv
        <3>4. QED
            BY <1>8, <3>2, <3>3 DEF RotateWins
    <2>5. QED
        BY <1>8, <2>3, <2>4, <1>idle, RequestStep DEF RotateWins, Return, Inv, TypeOK
<1>9. ASSUME NEW r \in Request, RotateLoses(r) PROVE Inv'
    <2> DEFINE q == At("revoking", req[r].tok, req[r].sub, 0)
    <2>1. req[r] \in Progress /\ now \in Second
        BY DEF Inv, TypeOK
    <2>2. q \in Progress /\ Sound(q)
        BY <2>1 DEF At, Progress, Pc, Sound, Second
    <2>3. req' = [req EXCEPT ![r] = q]
        BY <1>9 DEF RotateLoses, Goto
    <2>4. QED
        BY <1>9, <2>2, <2>3, RequestStep DEF RotateLoses, Inv, TypeOK
<1>10. ASSUME NEW r \in Request, MarkClock(r) PROVE Inv'
    <2> DEFINE q == At("mark", req[r].tok, req[r].sub, now)
    <2>1. req[r] \in Progress /\ now \in Second
        BY DEF Inv, TypeOK
    <2>2. q \in Progress /\ Sound(q)
        BY <2>1 DEF At, Progress, Pc, Sound, Second
    <2>3. req' = [req EXCEPT ![r] = q]
        BY <1>10 DEF MarkClock, Goto
    <2>4. QED
        BY <1>10, <2>2, <2>3, RequestStep DEF MarkClock, Inv, TypeOK
<1>11. ASSUME NEW r \in Request, Mark(r) PROVE Inv'
    <2>1. now + WatermarkTtl \in Nat
        BY TtlAssumption DEF WatermarkTtl, Inv, TypeOK, Second
    <2>2. watermark' \in [Subject -> [minIat : Second, until : Nat]]
        BY <1>11, <2>1 DEF Mark, Inv, TypeOK, Progress
    <2>3. QED
        BY <1>11, <2>2, <1>idle, RequestStep DEF Mark, Return, Inv, TypeOK
<1>12. ASSUME NEW r \in Request, Blacklist(r) PROVE Inv'
    <2>1. req[r] \in Progress /\ Sound(req[r]) /\ req[r].tok \in Token /\ Issued(req[r].tok)
        BY <1>12 DEF Blacklist, Inv, TypeOK, RequestInv, Sound
    <2>2. now + Exp(req[r].tok) - req[r].at \in Nat
        <3>1. Exp(req[r].tok) \in Nat /\ req[r].at \in Nat /\ req[r].at < Exp(req[r].tok) /\ now \in Nat
            BY <1>12, <2>1, ClaimTypes DEF Blacklist, Inv, TypeOK, Sound, Progress, Second
        <3>2. QED
            BY <3>1
    <2>3. blacklist' \in [Token -> Nat]
        BY <1>12, <2>2 DEF Blacklist, Inv, TypeOK
    <2>4. QED
        BY <1>12, <2>3, <1>idle, RequestStep DEF Blacklist, Return, Inv, TypeOK
<1>13. CASE UNCHANGED vars
    BY <1>13, WorldStep DEF vars, Inv, TypeOK, Second
<1>14. QED
    BY <1>1, <1>2, <1>3, <1>4, <1>5, <1>6, <1>7, <1>8, <1>9, <1>10, <1>11, <1>12, <1>13
    DEF Next

(* The variables keep their types, and every request in flight holds an    *)
(* issued token with lifetime left at the second it read.                  *)
THEOREM TypeCorrect == Spec => []TypeOK
<1>1. Inv => TypeOK
    BY DEF Inv
<1>2. QED
    BY <1>1, InvInit, InvStep, PTL DEF Spec
-----------------------------------------------------------------------------
(* The Redis keys: a blacklist key, once set, lasts at least as long as    *)
(* its token; a watermark lasts one full lifetime past its minimum iat.    *)
Covered ==
    \A t \in Token : IF Issued(t) THEN blacklist[t] = 0 \/ Exp(t) <= blacklist[t]
                                  ELSE blacklist[t] = 0

(* A pair that came from a rotation left its parent's key behind. *)
Lineage ==
    \A c \in DOMAIN pairs : pairs[c].parent # 0 =>
        /\ pairs[c].parent \in DOMAIN pairs
        /\ blacklist[<<pairs[c].parent, "refresh">>] # 0

Marks ==
    \A s \in Subject :
        /\ watermark[s].minIat <= now
        /\ \/ watermark[s].until = 0
           \/ watermark[s].minIat + WatermarkTtl <= watermark[s].until

Ledger == Inv /\ Covered /\ Lineage /\ Marks /\ ReuseIsReal

(* An issued token outlives the second it was issued in. *)
LEMMA ExpPositive ==
    ASSUME TypeOK, NEW t \in Token, Issued(t)
    PROVE  Exp(t) \in Nat /\ Exp(t) > 0 /\ Iat(t) \in Nat /\ Exp(t) <= Iat(t) + WatermarkTtl
<1>1. Iat(t) \in Second
    BY ClaimTypes
<1>2. WatermarkTtl \in Nat /\ Ttl(t[2]) \in Nat /\ Ttl(t[2]) > 0 /\ Ttl(t[2]) <= WatermarkTtl
    BY TtlAssumption DEF Ttl, WatermarkTtl
<1>3. QED
    BY <1>1, <1>2, BoundAssumption DEF Exp, Second

LEMMA LedgerInit == Init => Ledger
<1> SUFFICES ASSUME Init PROVE Ledger
    OBVIOUS
<1>1. Inv
    BY InvInit
<1>2. \A t \in Token : blacklist[t] = 0
    BY DEF Init
<1>3. \A r \in Request : req[r].pc = "idle"
    BY DEF Init, Idle, At
<1>4. Covered
    BY <1>2 DEF Covered
<1>5. Lineage
    BY DEF Init, Lineage
<1>6. Marks
    BY DEF Init, Marks
<1>7. ReuseIsReal
    BY <1>3 DEF ReuseIsReal
<1>8. QED
    BY <1>1, <1>4, <1>5, <1>6, <1>7 DEF Ledger

(* A step that leaves the pairs and the blacklist alone. *)
LEMMA LedgerFrame ==
    ASSUME Ledger, Inv', UNCHANGED <<pairs, blacklist>>, Marks',
           \A r \in Request : \/ req'[r] = req[r]
                             \/ req'[r].pc \notin {"revoking", "mark"}
                             \/ req'[r].tok = NoToken
                             \/ blacklist[req'[r].tok] # 0
    PROVE  Ledger'
BY DEF Ledger, Covered, Lineage, ReuseIsReal, Issued, Exp, Iat

(* A step that sets the key of the token its request carries, for at least  *)
(* that token's life.                                                       *)
LEMMA LedgerSpend ==
    ASSUME Ledger, Inv', NEW r \in Request, NEW until \in Nat,
           req[r].tok \in Token, Issued(req[r].tok), Exp(req[r].tok) <= until,
           blacklist' = [blacklist EXCEPT ![req[r].tok] = until],
           UNCHANGED <<now, watermark>>, Return(r),
           \/ UNCHANGED pairs
           \/ req[r].tok[2] = "refresh" /\ CanIssue /\ Issue(req[r].sub, req[r].at, req[r].tok[1])
    PROVE  Ledger'
<1> DEFINE k == req[r].tok
<1>1. TypeOK /\ TypeOK' /\ req[r] \in Progress
    BY DEF Ledger, Inv, TypeOK
<1>2. Exp(k) \in Nat /\ 0 < Exp(k) /\ until # 0
    BY <1>1, ExpPositive
<1>3. \A t \in Token : blacklist'[t] = IF t = k THEN until ELSE blacklist[t]
    BY <1>1 DEF TypeOK
<1>4. /\ DOMAIN pairs \subseteq DOMAIN pairs' /\ \A p \in DOMAIN pairs : pairs'[p] = pairs[p]
      /\ \A p \in DOMAIN pairs' \ DOMAIN pairs : k[2] = "refresh" /\ pairs'[p].parent = k[1]
    <2>1. CASE UNCHANGED pairs
        BY <2>1
    <2>2. CASE req[r].tok[2] = "refresh" /\ CanIssue /\ Issue(req[r].sub, req[r].at, req[r].tok[1])
        <3>1. req[r].sub \in Subject /\ req[r].at \in Second /\ k[1] \in 0 .. MaxPairs
            BY <1>1, TokenShape DEF Progress, PairId
        <3>2. /\ DOMAIN pairs' = DOMAIN pairs \cup {Len(pairs) + 1}
              /\ \A p \in DOMAIN pairs : pairs'[p] = pairs[p]
              /\ pairs'[Len(pairs) + 1] = [sub |-> req[r].sub, iat |-> req[r].at, parent |-> k[1]]
            BY <1>1, <2>2, <3>1, IssueKeeps
        <3>3. QED
            BY <2>2, <3>2
    <2>3. QED
        BY <2>1, <2>2
<1>5. Covered'
    <2> SUFFICES ASSUME NEW t \in Token
                 PROVE  IF Issued(t)' THEN blacklist'[t] = 0 \/ Exp(t)' <= blacklist'[t]
                                     ELSE blacklist'[t] = 0
        BY DEF Covered
    <2>1. Issued(t) => Issued(t)' /\ Exp(t)' = Exp(t)
        BY <1>4 DEF Issued, Exp, Iat
    <2>2. CASE t = k
        BY <1>3, <2>1, <2>2
    <2>3. CASE t # k
        <3>1. blacklist'[t] = blacklist[t]
            BY <1>3, <2>3
        <3>2. IF Issued(t) THEN blacklist[t] = 0 \/ Exp(t) <= blacklist[t] ELSE blacklist[t] = 0
            BY DEF Ledger, Covered
        <3>3. QED
            BY <2>1, <3>1, <3>2
    <2>4. QED
        BY <2>2, <2>3
<1>6. Lineage'
    <2> SUFFICES ASSUME NEW c \in DOMAIN pairs', pairs'[c].parent # 0
                 PROVE  pairs'[c].parent \in DOMAIN pairs' /\ blacklist'[<<pairs'[c].parent, "refresh">>] # 0
        BY DEF Lineage
    <2>1. CASE c \in DOMAIN pairs
        <3>1. pairs[c].parent \in DOMAIN pairs /\ blacklist[<<pairs[c].parent, "refresh">>] # 0
            BY <1>4, <2>1 DEF Ledger, Lineage
        <3>2. <<pairs[c].parent, "refresh">> \in Token
            <4>1. pairs[c].parent \in PairId
                BY <1>1, <3>1, BoundAssumption DEF TypeOK, PairId
            <4>2. QED
                BY <4>1 DEF Token, TokenType
        <3>3. QED
            BY <1>2, <1>3, <1>4, <2>1, <3>1, <3>2
    <2>2. CASE c \notin DOMAIN pairs
        <3>1. pairs'[c].parent = k[1] /\ k[2] = "refresh"
            BY <1>4, <2>2
        <3>3. k = <<k[1], "refresh">>
            BY <3>1, TokenShape
        <3>2. QED
            BY <1>2, <1>3, <1>4, <3>1, <3>3 DEF Issued
    <2>3. QED
        BY <2>1, <2>2
<1>7. Marks'
    BY DEF Ledger, Marks
<1>8. ReuseIsReal'
    <2> SUFFICES ASSUME NEW r2 \in Request, req'[r2].pc \in {"revoking", "mark"}, req'[r2].tok # NoToken
                 PROVE  blacklist'[req'[r2].tok] # 0
        BY DEF ReuseIsReal
    <2>1. r2 # r /\ req'[r2] = req[r2]
        BY <1>1 DEF Return, Idle, At, TypeOK
    <2>2. blacklist[req[r2].tok] # 0 /\ req[r2].tok \in Token
        BY <1>1, <2>1 DEF Ledger, ReuseIsReal, TypeOK, Progress
    <2>3. QED
        BY <1>2, <1>3, <2>1, <2>2
<1>9. QED
    BY <1>5, <1>6, <1>7, <1>8 DEF Ledger
(* Issuing a pair to a fresh login. *)
LEMMA LedgerLogin ==
    ASSUME Ledger, Inv', NEW s \in Subject, Login(s)
    PROVE  Ledger'
<1>1. TypeOK /\ now \in Second /\ 0 \in 0 .. MaxPairs /\ CanIssue /\ Issue(s, now, 0)
    BY BoundAssumption DEF Ledger, Inv, TypeOK, Login
<1>2. /\ DOMAIN pairs' = DOMAIN pairs \cup {Len(pairs) + 1}
      /\ \A p \in DOMAIN pairs : pairs'[p] = pairs[p]
      /\ pairs'[Len(pairs) + 1] = [sub |-> s, iat |-> now, parent |-> 0]
    BY <1>1, IssueKeeps
<1>3. UNCHANGED <<now, blacklist, watermark, req>>
    BY DEF Login
<1>4. Covered'
    <2> SUFFICES ASSUME NEW t \in Token
                 PROVE  IF Issued(t)' THEN blacklist[t] = 0 \/ Exp(t)' <= blacklist[t]
                                     ELSE blacklist[t] = 0
        BY <1>3 DEF Covered
    <2>1. CASE Issued(t)
        BY <1>2, <2>1 DEF Ledger, Covered, Issued, Exp, Iat
    <2>2. CASE ~Issued(t)
        BY <2>2 DEF Ledger, Covered
    <2>3. QED
        BY <2>1, <2>2
<1>5. Lineage'
    <2> SUFFICES ASSUME NEW c \in DOMAIN pairs', pairs'[c].parent # 0
                 PROVE  pairs'[c].parent \in DOMAIN pairs' /\ blacklist[<<pairs'[c].parent, "refresh">>] # 0
        BY <1>3 DEF Lineage
    <2>1. c \in DOMAIN pairs /\ pairs'[c] = pairs[c]
        BY <1>2
    <2>2. QED
        BY <1>2, <2>1 DEF Ledger, Lineage
<1>6. Marks' /\ ReuseIsReal'
    BY <1>3 DEF Ledger, Marks, ReuseIsReal
<1>7. QED
    BY <1>4, <1>5, <1>6 DEF Ledger

LEMMA LedgerStep == Ledger /\ [Next]_vars => Ledger'
<1> SUFFICES ASSUME Ledger, [Next]_vars PROVE Ledger'
    OBVIOUS
<1>a. Inv /\ Inv' /\ TypeOK /\ RequestInv
    BY InvStep DEF Ledger, Inv
<1>b. UNCHANGED <<now, watermark>> => Marks'
    BY DEF Ledger, Marks
<1>c. Idle.pc = "idle"
    BY DEF Idle, At
<1>1. CASE Tick
    <2>1. Marks'
        <3>1. \A s \in Subject : watermark[s].minIat \in Nat /\ now \in Nat /\ now' = now + 1
            BY <1>1, <1>a DEF Tick, TypeOK, Second
        <3>2. QED
            BY <1>1, <3>1 DEF Tick, Marks, Ledger
    <2>2. QED
        BY <1>1, <2>1, <1>a, LedgerFrame DEF Tick
<1>2. ASSUME NEW s \in Subject, Login(s) PROVE Ledger'
    BY <1>2, <1>a, LedgerLogin
<1>3. ASSUME NEW r \in Request, NEW t \in Token,
             RefreshVerify(r, t) \/ LogoutVerify(r, t) \/ RevokeClock(r, t)
      PROVE  Ledger'
    <2>1. \A r2 \in Request : \/ req'[r2] = req[r2]
                             \/ req'[r2].pc \notin {"revoking", "mark"}
                             \/ req'[r2].tok = NoToken
        BY <1>3, <1>a DEF RefreshVerify, LogoutVerify, RevokeClock, At, TypeOK
    <2>2. UNCHANGED <<now, pairs, blacklist, watermark>>
        BY <1>3 DEF RefreshVerify, LogoutVerify, RevokeClock
    <2>3. QED
        BY <2>1, <2>2, <1>a, <1>b, LedgerFrame
<1>4. ASSUME NEW r \in Request, ResolveFails(r) \/ RedisFails(r) PROVE Ledger'
    <2>1. \A r2 \in Request : req'[r2] = req[r2] \/ req'[r2].pc \notin {"revoking", "mark"}
        BY <1>4, <1>a, <1>c DEF ResolveFails, RedisFails, Return, TypeOK
    <2>2. UNCHANGED <<now, pairs, blacklist, watermark>>
        BY <1>4 DEF ResolveFails, RedisFails
    <2>3. QED
        BY <2>1, <2>2, <1>a, <1>b, LedgerFrame
<1>5. ASSUME NEW r \in Request, RotateClock(r) PROVE Ledger'
    <2>1. \A r2 \in Request : req'[r2] = req[r2] \/ req'[r2].pc \notin {"revoking", "mark"}
        BY <1>5, <1>a, <1>c DEF RotateClock, Return, Goto, At, TypeOK
    <2>2. UNCHANGED <<now, pairs, blacklist, watermark>>
        BY <1>5 DEF RotateClock
    <2>3. QED
        BY <2>1, <2>2, <1>a, <1>b, LedgerFrame
<1>6. ASSUME NEW r \in Request, RotateWins(r) PROVE Ledger'
    <2>1. req[r] \in Progress /\ Sound(req[r]) /\ req[r].tok \in Token /\ Issued(req[r].tok)
            /\ req[r].tok[2] = "refresh" /\ now \in Nat
        BY <1>6, <1>a DEF RotateWins, TypeOK, RequestInv, Sound, Second
    <2>2. now + SpendTtl(r) \in Nat /\ Exp(req[r].tok) <= now + SpendTtl(r)
        <3>1. Exp(req[r].tok) \in Nat /\ req[r].at \in Nat /\ req[r].at < Exp(req[r].tok) /\ req[r].at <= now
            BY <1>6, <1>a, <2>1, ClaimTypes DEF RotateWins, Sound, Progress, Second
        <3>2. QED
            BY <2>1, <3>1 DEF SpendTtl
    <2>3. QED
        BY <1>6, <1>a, <2>1, <2>2, LedgerSpend DEF RotateWins
<1>7. ASSUME NEW r \in Request, RotateLoses(r) PROVE Ledger'
    <2>1. req[r] \in Progress /\ Sound(req[r]) /\ req[r].tok \in Token /\ Issued(req[r].tok)
        BY <1>7, <1>a DEF RotateLoses, TypeOK, RequestInv, Sound
    <2>2. blacklist[req[r].tok] # 0
        <3>1. Exp(req[r].tok) \in Nat /\ req[r].at \in Nat /\ req[r].at < Exp(req[r].tok) /\ now \in Nat
            BY <1>7, <1>a, <2>1, ClaimTypes DEF RotateLoses, Sound, Progress, Second, TypeOK
        <3>2. SpendTtl(r) # 0
            BY <3>1 DEF SpendTtl
        <3>3. QED
            BY <1>7, <3>1, <3>2 DEF RotateLoses, LosesSetNx, Blacklisted
    <2>3. \A r2 \in Request : req'[r2] = req[r2] \/ blacklist[req'[r2].tok] # 0
        BY <1>7, <1>a, <2>2 DEF RotateLoses, Goto, At, TypeOK
    <2>4. UNCHANGED <<now, pairs, blacklist, watermark>>
        BY <1>7 DEF RotateLoses
    <2>5. QED
        BY <2>3, <2>4, <1>a, <1>b, LedgerFrame
<1>8. ASSUME NEW r \in Request, MarkClock(r) PROVE Ledger'
    <2>1. \A r2 \in Request : \/ req'[r2] = req[r2]
                             \/ req'[r2].tok = NoToken
                             \/ blacklist[req'[r2].tok] # 0
        BY <1>8, <1>a DEF MarkClock, Goto, At, TypeOK, Ledger, ReuseIsReal
    <2>2. UNCHANGED <<now, pairs, blacklist, watermark>>
        BY <1>8 DEF MarkClock
    <2>3. QED
        BY <2>1, <2>2, <1>a, <1>b, LedgerFrame
<1>9. ASSUME NEW r \in Request, Mark(r) PROVE Ledger'
    <2>1. \A r2 \in Request : req'[r2] = req[r2] \/ req'[r2].pc \notin {"revoking", "mark"}
        BY <1>9, <1>a, <1>c DEF Mark, Return, TypeOK
    <2>2. req[r].at <= now /\ req[r].at \in Nat /\ now \in Nat /\ WatermarkTtl \in Nat
        BY <1>a, TtlAssumption DEF RequestInv, Sound, TypeOK, Progress, Second, WatermarkTtl
    <2>3. Marks'
        BY <1>9, <1>a, <2>2 DEF Mark, Marks, Ledger, TypeOK
    <2>4. QED
        BY <1>9, <2>1, <2>3, <1>a, LedgerFrame DEF Mark
<1>10. ASSUME NEW r \in Request, Blacklist(r) PROVE Ledger'
    <2> DEFINE until == now + Exp(req[r].tok) - req[r].at
    <2>1. req[r] \in Progress /\ Sound(req[r]) /\ req[r].tok \in Token /\ Issued(req[r].tok) /\ now \in Nat
        BY <1>10, <1>a DEF Blacklist, TypeOK, RequestInv, Sound, Second
    <2>2. until \in Nat /\ Exp(req[r].tok) <= until
        <3>1. Exp(req[r].tok) \in Nat /\ req[r].at \in Nat /\ req[r].at < Exp(req[r].tok) /\ req[r].at <= now
            BY <1>10, <1>a, <2>1, ClaimTypes DEF Blacklist, Sound, Progress, Second
        <3>2. QED
            BY <2>1, <3>1
    <2>3. UNCHANGED pairs /\ UNCHANGED <<now, watermark>> /\ Return(r)
            /\ blacklist' = [blacklist EXCEPT ![req[r].tok] = until]
        BY <1>10 DEF Blacklist
    <2> HIDE DEF until
    <2>4. QED
        BY <1>a, <2>1, <2>2, <2>3, LedgerSpend
<1>11. CASE UNCHANGED vars
    BY <1>11, <1>a, <1>b, LedgerFrame DEF vars
<1>12. QED
    BY <1>1, <1>2, <1>3, <1>4, <1>5, <1>6, <1>7, <1>8, <1>9, <1>10, <1>11 DEF Next

LEMMA LedgerInvariant == Spec => []Ledger
BY LedgerInit, LedgerStep, PTL DEF Spec
-----------------------------------------------------------------------------
(* Family revocation is never triggered by a token that merely expired:    *)
(* the expiry test of rotate_refresh_token_from_claims separates the two.  *)
THEOREM ReuseIsRealHolds == Spec => []ReuseIsReal
<1>1. Ledger => ReuseIsReal
    BY DEF Ledger
<1>2. QED
    BY <1>1, LedgerInvariant, PTL

(* A refresh token that was exchanged is refused until it expires, whatever *)
(* the delay between reading the clock and reaching Redis.                 *)
THEOREM SpentIsRefusedHolds == Spec => []SpentIsRefused
<1>1. Ledger => SpentIsRefused
    <2> SUFFICES ASSUME Ledger, NEW p \in DOMAIN pairs, Children(p) # {}, now < Exp(<<p, "refresh">>)
                 PROVE  ~Accepts(<<p, "refresh">>)
        BY DEF SpentIsRefused
    <2> DEFINE t == <<p, "refresh">>
    <2>1. PICK c \in DOMAIN pairs : pairs[c].parent = p
        BY DEF Children
    <2>2. TypeOK /\ p \in PairId /\ p # 0
        BY BoundAssumption DEF Ledger, Inv, TypeOK, PairId
    <2>3. t \in Token /\ Issued(t)
        BY <2>2 DEF Token, TokenType, Issued
    <2>4. blacklist[t] # 0 /\ Exp(t) <= blacklist[t]
        BY <2>1, <2>2, <2>3 DEF Ledger, Lineage, Covered
    <2>5. now < blacklist[t]
        BY <2>2, <2>3, <2>4, ClaimTypes DEF TypeOK, Second
    <2>6. QED
        BY <2>5 DEF Accepts, Revoked, Blacklisted
<1>2. QED
    BY <1>1, LedgerInvariant, PTL

-----------------------------------------------------------------------------
(* No step takes the blacklist key of an issued token back, and none        *)
(* changes an issued token's claims.                                        *)
LEMMA KeyStays ==
    ASSUME Inv, [Next]_vars, NEW t \in Token, Issued(t)
    PROVE  /\ Issued(t)' /\ Exp(t)' = Exp(t) /\ Iat(t)' = Iat(t) /\ Sub(t)' = Sub(t)
           /\ blacklist[t] # 0 => blacklist'[t] # 0
<1>a. TypeOK /\ RequestInv
    BY DEF Inv
<1> DEFINE Kept == /\ DOMAIN pairs \subseteq DOMAIN pairs'
                   /\ \A p \in DOMAIN pairs : pairs'[p] = pairs[p]
<1>b. Kept => Issued(t)' /\ Exp(t)' = Exp(t) /\ Iat(t)' = Iat(t) /\ Sub(t)' = Sub(t)
    BY DEF Issued, Exp, Iat, Sub
<1>1. ASSUME NEW s \in Subject, Login(s) PROVE Kept /\ UNCHANGED blacklist
    <2>1. CanIssue /\ Issue(s, now, 0) /\ now \in Second /\ 0 \in 0 .. MaxPairs
        BY <1>1, <1>a, BoundAssumption DEF Login, TypeOK
    <2>2. QED
        BY <1>1, <2>1, <1>a, IssueKeeps DEF Login
<1>2. ASSUME NEW r \in Request, RotateWins(r) \/ Blacklist(r)
      PROVE  Kept /\ (blacklist[t] # 0 => blacklist'[t] # 0)
    <2> DEFINE k == req[r].tok
    <2>1. req[r] \in Progress /\ k \in Token /\ Issued(k) /\ req[r].at < Exp(k) /\ now \in Nat /\ req[r].at <= now
        BY <1>2, <1>a DEF RotateWins, Blacklist, TypeOK, RequestInv, Sound, Second
    <2>2. Exp(k) \in Nat /\ req[r].at \in Nat /\ k[1] \in 0 .. MaxPairs /\ req[r].sub \in Subject /\ req[r].at \in Second
        BY <2>1, <1>a, ClaimTypes, TokenShape DEF Progress, Second, PairId
    <2>3. now + SpendTtl(r) # 0 /\ now + Exp(k) - req[r].at # 0
        BY <2>1, <2>2 DEF SpendTtl
    <2>4. blacklist[t] # 0 => blacklist'[t] # 0
        <3>1. CASE RotateWins(r)
            BY <3>1, <2>1, <2>3, <1>a DEF RotateWins, TypeOK
        <3>2. CASE Blacklist(r)
            BY <3>2, <2>1, <2>3, <1>a DEF Blacklist, TypeOK
        <3>3. QED
            BY <1>2, <3>1, <3>2
    <2>5. Kept
        <3>1. CASE UNCHANGED pairs
            BY <3>1
        <3>2. CASE CanIssue /\ Issue(req[r].sub, req[r].at, k[1])
            BY <3>2, <2>2, <1>a, IssueKeeps
        <3>3. QED
            BY <1>2, <3>1, <3>2 DEF RotateWins, Blacklist
    <2>6. QED
        BY <2>4, <2>5
<1>3. ASSUME NEW r \in Request, NEW t2 \in Token,
             RefreshVerify(r, t2) \/ LogoutVerify(r, t2) \/ RevokeClock(r, t2)
      PROVE  UNCHANGED <<pairs, blacklist>>
    BY <1>3 DEF RefreshVerify, LogoutVerify, RevokeClock
<1>4. ASSUME NEW r \in Request, \/ ResolveFails(r) \/ RotateClock(r) \/ RotateLoses(r)
                                \/ MarkClock(r) \/ Mark(r) \/ RedisFails(r)
      PROVE  UNCHANGED <<pairs, blacklist>>
    BY <1>4 DEF ResolveFails, RotateClock, RotateLoses, MarkClock, Mark, RedisFails
<1>5. CASE UNCHANGED <<pairs, blacklist>>
    BY <1>5, <1>b
<1>6. Kept /\ (blacklist[t] # 0 => blacklist'[t] # 0)
    BY <1>1, <1>2, <1>3, <1>4, <1>5 DEF Next, Tick, vars
<1>7. QED
    BY <1>6, <1>b

(* Time does not go back, and what was issued keeps its life. *)
LEMMA LifeStays ==
    ASSUME Inv, [Next]_vars
    PROVE  /\ now \in Nat /\ now' \in Nat /\ now <= now'
           /\ \A p \in DOMAIN pairs :
                /\ p \in PairId /\ p \in DOMAIN pairs'
                /\ Exp(<<p, "refresh">>) \in Nat
                /\ Exp(<<p, "refresh">>)' = Exp(<<p, "refresh">>)
<1>1. TypeOK /\ now \in Nat
    BY DEF Inv, TypeOK, Second
<1>2. now' = now \/ now' = now + 1
    BY DEF Next, vars, Tick, Login, RefreshVerify, LogoutVerify, RevokeClock, ResolveFails,
           RotateClock, RotateWins, RotateLoses, MarkClock, Mark, Blacklist, RedisFails
<1>3. ASSUME NEW p \in DOMAIN pairs
      PROVE  /\ p \in PairId /\ p \in DOMAIN pairs'
             /\ Exp(<<p, "refresh">>) \in Nat
             /\ Exp(<<p, "refresh">>)' = Exp(<<p, "refresh">>)
    <2>1. p \in PairId
        BY <1>1, BoundAssumption DEF TypeOK, PairId
    <2>2. <<p, "refresh">> \in Token /\ Issued(<<p, "refresh">>)
        BY <2>1 DEF Token, TokenType, Issued
    <2>3. Issued(<<p, "refresh">>)' /\ Exp(<<p, "refresh">>)' = Exp(<<p, "refresh">>)
        BY <2>2, KeyStays
    <2>4. QED
        BY <1>1, <2>1, <2>2, <2>3, ClaimTypes DEF Issued
<1>4. QED
    BY <1>1, <1>2, <1>3

(* Every step either issues nothing, or a pair without parent, or the      *)
(* first pair of some refresh token, or a pair of an expired one.          *)
LEMMA PairsStep ==
    ASSUME Ledger, [Next]_vars
    PROVE  \/ UNCHANGED pairs
           \/ /\ DOMAIN pairs' = DOMAIN pairs \cup {Len(pairs) + 1}
              /\ \A p \in DOMAIN pairs : pairs'[p] = pairs[p]
              /\ \/ pairs'[Len(pairs) + 1].parent = 0
                 \/ LET k == pairs'[Len(pairs) + 1].parent IN
                    /\ k \in DOMAIN pairs
                    /\ \/ \A c \in DOMAIN pairs : pairs[c].parent # k
                       \/ Exp(<<k, "refresh">>) <= now
<1>a. Inv /\ TypeOK /\ RequestInv /\ Covered /\ Lineage
    BY DEF Ledger, Inv
<1>2. ASSUME NEW s \in Subject, Login(s)
      PROVE  /\ DOMAIN pairs' = DOMAIN pairs \cup {Len(pairs) + 1}
             /\ \A p \in DOMAIN pairs : pairs'[p] = pairs[p]
             /\ pairs'[Len(pairs) + 1].parent = 0
    <2>1. CanIssue /\ Issue(s, now, 0) /\ now \in Second /\ 0 \in 0 .. MaxPairs
        BY <1>2, <1>a, BoundAssumption DEF Login, TypeOK
    <2>2. /\ DOMAIN pairs' = DOMAIN pairs \cup {Len(pairs) + 1}
          /\ \A p \in DOMAIN pairs : pairs'[p] = pairs[p]
          /\ pairs'[Len(pairs) + 1] = [sub |-> s, iat |-> now, parent |-> 0]
        BY <2>1, <1>a, IssueKeeps
    <2>3. QED
        BY <2>2
<1>3. ASSUME NEW r \in Request, RotateWins(r), ~UNCHANGED pairs
      PROVE  LET k == pairs'[Len(pairs) + 1].parent IN
             /\ DOMAIN pairs' = DOMAIN pairs \cup {Len(pairs) + 1}
             /\ \A p \in DOMAIN pairs : pairs'[p] = pairs[p]
             /\ k \in DOMAIN pairs
             /\ (\A c \in DOMAIN pairs : pairs[c].parent # k) \/ Exp(<<k, "refresh">>) <= now
    <2> DEFINE k == req[r].tok
    <2>1. req[r] \in Progress /\ Sound(req[r]) /\ k \in Token /\ Issued(k) /\ k[1] \in PairId /\ k = <<k[1], "refresh">>
        BY <1>3, <1>a, TokenShape DEF RotateWins, TypeOK, RequestInv, Sound
    <2>2. /\ DOMAIN pairs' = DOMAIN pairs \cup {Len(pairs) + 1}
          /\ \A p \in DOMAIN pairs : pairs'[p] = pairs[p]
          /\ pairs'[Len(pairs) + 1] = [sub |-> req[r].sub, iat |-> req[r].at, parent |-> k[1]]
        <3>1. req[r].sub \in Subject /\ req[r].at \in Second /\ k[1] \in 0 .. MaxPairs
                /\ CanIssue /\ Issue(req[r].sub, req[r].at, k[1])
            BY <1>3, <2>1 DEF RotateWins, Progress, PairId
        <3>2. QED
            BY <3>1, <1>a, IssueKeeps
    <2>3. Exp(k) \in Nat /\ now \in Nat
        BY <1>a, <2>1, ClaimTypes DEF TypeOK, Second
    <2>4. ~Blacklisted(k)
        BY <1>3 DEF RotateWins, LosesSetNx
    <2>5. blacklist[k] = 0 \/ Exp(k) <= now
        BY <1>a, <2>1, <2>3, <2>4 DEF Blacklisted, Covered, TypeOK
    <2>6. ASSUME NEW c \in DOMAIN pairs, pairs[c].parent = k[1] PROVE blacklist[k] # 0
        BY <1>a, <2>1, <2>6 DEF Lineage, PairId
    <2>7. k[1] \in DOMAIN pairs
        BY <2>1 DEF Issued
    <2>8. QED
        BY <2>1, <2>2, <2>5, <2>6, <2>7
<1>4. ASSUME NEW r \in Request, NEW t \in Token, RefreshVerify(r, t) \/ LogoutVerify(r, t) \/ RevokeClock(r, t)
      PROVE  UNCHANGED pairs
    BY <1>4 DEF RefreshVerify, LogoutVerify, RevokeClock
<1>5. ASSUME NEW r \in Request, \/ ResolveFails(r) \/ RotateClock(r) \/ RotateLoses(r) \/ MarkClock(r)
                                \/ Mark(r) \/ Blacklist(r) \/ RedisFails(r)
      PROVE  UNCHANGED pairs
    BY <1>5 DEF ResolveFails, RotateClock, RotateLoses, MarkClock, Mark, Blacklist, RedisFails
<1>6. QED
    BY <1>2, <1>3, <1>4, <1>5 DEF Next, Tick, vars

(* While a refresh token lives it is exchanged for at most one pair, for   *)
(* any number of concurrent requests and any delay of their commands: SET  *)
(* NX EX admits one, and its key lasts at least as long as the token.      *)
THEOREM RotatedOnceHolds == Spec => []RotatedOnce
<1>1. Init => RotatedOnce
    BY DEF Init, RotatedOnce
<1>2. Ledger /\ RotatedOnce /\ [Next]_vars => RotatedOnce'
    <2> SUFFICES ASSUME Ledger, RotatedOnce, [Next]_vars,
                        NEW c \in DOMAIN pairs', NEW d \in DOMAIN pairs', NEW k,
                        c # d, pairs'[c].parent = k, pairs'[d].parent = k, k # 0
                 PROVE  Exp(<<k, "refresh">>)' <= now'
        BY DEF RotatedOnce
    <2>1. Inv /\ Lineage
        BY DEF Ledger
    <2>2. k \in DOMAIN pairs /\ Exp(<<k, "refresh">>) <= now
        <3>1. CASE c \in DOMAIN pairs /\ d \in DOMAIN pairs
            <4>1. pairs[c].parent = k /\ pairs[d].parent = k
                BY <3>1, PairsStep
            <4>2. QED
                BY <2>1, <3>1, <4>1 DEF RotatedOnce, Lineage
        <3>2. CASE ~(c \in DOMAIN pairs /\ d \in DOMAIN pairs)
            BY <3>2, PairsStep
        <3>3. QED
            BY <3>1, <3>2
    <2>3. QED
        BY <2>1, <2>2, LifeStays
<1>3. QED
    BY <1>1, <1>2, LedgerInvariant, PTL DEF Spec
-----------------------------------------------------------------------------
(* Only Mark moves a watermark. *)
LEMMA WatermarkMoves ==
    ASSUME [Next]_vars
    PROVE  UNCHANGED watermark \/ \E r \in Request : Mark(r)
BY DEF Next, vars, Tick, Login, RefreshVerify, LogoutVerify, RevokeClock, ResolveFails,
       RotateClock, RotateWins, RotateLoses, MarkClock, Blacklist, RedisFails

LEMMA SticksStep ==
    ASSUME Ledger, Ledger', [Next]_vars, NEW t \in Token,
           Issued(t), Revoked(t), now' < Exp(t)
    PROVE  Revoked(t)' \/ \E r \in Request : Overtaken(r, t)
<1>a. Inv /\ TypeOK /\ TypeOK' /\ now \in Nat /\ now' \in Nat
    BY DEF Ledger, Inv, TypeOK, Second
<1>b. Issued(t)' /\ Exp(t)' = Exp(t) /\ Iat(t)' = Iat(t) /\ Sub(t)' = Sub(t)
        /\ (blacklist[t] # 0 => blacklist'[t] # 0)
    BY <1>a, KeyStays
<1>c. Exp(t) \in Nat /\ Iat(t) \in Nat /\ Exp(t) <= Iat(t) + WatermarkTtl /\ Sub(t) \in Subject
    BY <1>a, ExpPositive, ClaimTypes
<1>1. CASE Blacklisted(t)
    <2>1. blacklist[t] # 0
        BY <1>1, <1>a DEF Blacklisted
    <2>2. Exp(t)' <= blacklist'[t]
        BY <2>1, <1>b DEF Ledger, Covered
    <2>3. now' < blacklist'[t]
        BY <2>2, <1>a, <1>b, <1>c DEF TypeOK
    <2>4. QED
        BY <2>3 DEF Revoked, Blacklisted
<1>2. CASE Watermarked(t)
    <2> DEFINE w == watermark[Sub(t)]  v == watermark'[Sub(t)]
    <2>1. Iat(t) <= w.minIat /\ now < w.until
        BY <1>2 DEF Watermarked
    <2>2. w.minIat \in Nat /\ w.until \in Nat /\ v.minIat \in Nat /\ v.until \in Nat
            /\ WatermarkTtl \in Nat /\ WatermarkTtl > 0
        BY <1>a, <1>c, TtlAssumption DEF TypeOK, Second, WatermarkTtl
    <2>3. w.minIat + WatermarkTtl <= w.until
        BY <2>1, <2>2, <1>a, <1>c DEF Ledger, Marks
    <2>4. CASE v = w
        <3>1. Iat(t) <= v.minIat /\ now' < v.until
            BY <2>1, <2>2, <2>3, <2>4, <1>a, <1>c
        <3>2. QED
            BY <3>1, <1>b DEF Revoked, Watermarked
    <2>5. ASSUME NEW r \in Request, Mark(r), req[r].sub = Sub(t)
          PROVE  Revoked(t)' \/ Overtaken(r, t)
        <3>1. v.minIat = req[r].at /\ v.until = now + WatermarkTtl /\ now' = now
            BY <2>5, <1>a, <1>c DEF Mark, TypeOK
        <3>2. CASE req[r].at < Iat(t)
            BY <2>5, <3>1, <3>2 DEF Overtaken, Mark
        <3>3. CASE ~(req[r].at < Iat(t))
            <4>1. Iat(t) <= v.minIat /\ now' < v.until
                BY <2>2, <3>1, <3>3, <1>a, <1>c
            <4>2. QED
                BY <4>1, <1>b DEF Revoked, Watermarked
        <3>4. QED
            BY <3>2, <3>3
    <2>6. ASSUME NEW r \in Request, Mark(r), req[r].sub # Sub(t)
          PROVE  v = w
        <3>1. watermark' = [watermark EXCEPT ![req[r].sub] =
                            [minIat |-> req[r].at, until |-> now + WatermarkTtl]]
            BY <2>6 DEF Mark
        <3>2. QED
            BY <2>6, <3>1, <1>a, <1>c DEF TypeOK
    <2>7. UNCHANGED watermark => v = w
        OBVIOUS
    <2> HIDE DEF v, w
    <2>8. QED
        BY <2>4, <2>5, <2>6, <2>7, WatermarkMoves
<1>3. QED
    BY <1>1, <1>2 DEF Revoked

(* A revoked token stays revoked until the second it expires, for any      *)
(* delay of the commands, unless a watermark lands that was computed       *)
(* before the token was issued: keys outlast the tokens they revoke.       *)
THEOREM RevocationSticksHolds == Spec => RevocationSticks
<1>1. Ledger /\ Ledger' /\ [Next]_vars
        => [\A t \in Token : (Issued(t) /\ Revoked(t) /\ now' < Exp(t))
                => Revoked(t)' \/ \E r \in Request : Overtaken(r, t)]_vars
    BY SticksStep
<1>2. QED
    BY <1>1, LedgerInvariant, PTL DEF Spec, RevocationSticks
-----------------------------------------------------------------------------
(* Rotation, seen as a count of exchanges per refresh token and the end of *)
(* its life, implements the one-shot contract of module OneShot.           *)
LEMMA OneShotInit == Init => Rotation!Init
<1> SUFFICES ASSUME Init PROVE Rotation!Init
    OBVIOUS
<1>1. DOMAIN pairs = {}
    BY DEF Init
<1>2. \A p \in PairId : Children(p) = {}
    BY <1>1 DEF Children
<1>3. Over = [p \in PairId |-> FALSE]
    BY <1>1, Zenon DEF Over
<1>4. Cardinality({}) = 0
    BY FS_EmptySet
<1>5. QED
    BY <1>2, <1>3, <1>4 DEF Rotation!Init, Uses

LEMMA LivesEndStep ==
    ASSUME Inv, [Next]_vars
    PROVE  Rotation!LivesEnd
<1>1. Over' \in [PairId -> BOOLEAN]
    BY DEF Over
<1>2. ASSUME NEW p \in PairId, Over[p] PROVE Over'[p]
    <2>1. p \in DOMAIN pairs /\ Exp(<<p, "refresh">>) <= now
        BY <1>2 DEF Over
    <2>2. p \in DOMAIN pairs' /\ Exp(<<p, "refresh">>)' <= now'
        BY <2>1, LifeStays
    <2>3. QED
        BY <2>2 DEF Over
<1>3. QED
    BY <1>1, <1>2 DEF Rotation!LivesEnd

LEMMA OneShotStep ==
    ASSUME Ledger, [Next]_vars
    PROVE  [Rotation!Next]_<<Uses, Over>>
<1>a. Inv /\ TypeOK /\ Rotation!LivesEnd
    BY LivesEndStep DEF Ledger, Inv
<1>1. ASSUME Uses' = Uses PROVE Rotation!Next
    BY <1>1, <1>a DEF Rotation!Next
<1> DEFINE n == Len(pairs) + 1
<1>2. CASE UNCHANGED pairs
    <2>1. Uses' = Uses
        BY <1>2 DEF Uses, Children
    <2>2. QED
        BY <1>1, <2>1
<1>3. CASE /\ DOMAIN pairs' = DOMAIN pairs \cup {n}
           /\ \A p \in DOMAIN pairs : pairs'[p] = pairs[p]
           /\ pairs'[n].parent = 0
    <2>1. \A p \in PairId : Children(p)' = Children(p)
        BY <1>3 DEF Children, PairId
    <2>2. Uses' = Uses
        BY <2>1 DEF Uses
    <2>3. QED
        BY <1>1, <2>2
<1>4. ASSUME NEW k, k = pairs'[n].parent,
             /\ DOMAIN pairs' = DOMAIN pairs \cup {n}
             /\ \A p \in DOMAIN pairs : pairs'[p] = pairs[p]
             /\ k \in DOMAIN pairs
             /\ (\A c \in DOMAIN pairs : pairs[c].parent # k) \/ Exp(<<k, "refresh">>) <= now
      PROVE  Rotation!Next
    <2>1. k \in PairId /\ DOMAIN pairs = 1 .. Len(pairs) /\ Len(pairs) \in Nat
        BY <1>a, <1>4, LifeStays DEF TypeOK
    <2>2. n \notin DOMAIN pairs /\ IsFiniteSet(DOMAIN pairs)
        BY <2>1, FS_Interval
    <2>3. \A p \in PairId : p # k => Children(p)' = Children(p)
        BY <1>4 DEF Children
    <2>4. Children(k)' = Children(k) \cup {n}
        BY <1>4 DEF Children
    <2>5. IsFiniteSet(Children(k)) /\ n \notin Children(k)
        BY <2>2, FS_Subset DEF Children
    <2>6. Cardinality(Children(k) \cup {n}) = Cardinality(Children(k)) + 1
        BY <2>5, FS_AddElement
    <2>7. Uses' = [Uses EXCEPT ![k] = @ + 1]
        <3>1. \A p \in PairId : Uses'[p] = IF p = k THEN Uses[k] + 1 ELSE Uses[p]
            BY <2>1, <2>3, <2>4, <2>6 DEF Uses
        <3>2. Uses = [p \in PairId |-> Uses[p]] /\ Uses' = [p \in PairId |-> Uses'[p]]
            BY DEF Uses
        <3>3. QED
            BY <2>1, <3>1, <3>2
    <2>8. Uses[k] = 0 \/ Over[k]
        <3>1. CASE \A c \in DOMAIN pairs : pairs[c].parent # k
            <4>1. Children(k) = {}
                BY <3>1 DEF Children
            <4>2. QED
                BY <2>1, <4>1, FS_EmptySet DEF Uses
        <3>2. CASE Exp(<<k, "refresh">>) <= now
            BY <1>4, <2>1, <3>2 DEF Over
        <3>3. QED
            BY <1>4, <3>1, <3>2
    <2>9. QED
        BY <1>a, <2>1, <2>7, <2>8 DEF Rotation!Next, Rotation!Use
<1>5. QED
    BY <1>2, <1>3, <1>4, PairsStep

(* Rotation is a one-shot registry of refresh tokens, for any delay of the *)
(* commands: every step of the session model uses a token that lives for   *)
(* the first time, or uses none that lives                                 *)
(* (rotate_refresh_token_from_claims_with_refresh_claims).                 *)
THEOREM RotationImplementsOneShot == Spec => RotationIsOneShot
<1>1. Ledger /\ [Next]_vars => [Rotation!Next]_<<Uses, Over>>
    BY OneShotStep
<1>2. QED
    BY <1>1, OneShotInit, LedgerInvariant, PTL
    DEF Spec, RotationIsOneShot, Rotation!Spec
-----------------------------------------------------------------------------
(* Table writes: a write stays in the reach of its query, and a batch is   *)
(* committed as a whole or not at all.                                     *)

Rows(s) ==
    {Absent} \cup [tenant : Tenant, trashed : {FALSE, s}, created : Writer \cup {Earlier}]

Undos(s) == UNION {[D -> Rows(s)] : D \in SUBSET Key}

Calls(s) ==
    [pc : {"idle", "open", "committing", "dropped", "ok", "failed"},
     kind : {"auto", "tx", "batch"}, scope : Tenant \cup {System}, withTrashed : BOOLEAN,
     op : {"none", "insert", "update", "upsert"}, rest : Seq(Key), undo : Undos(s),
     asked : Nat, done : Nat, kept : Nat, torn : BOOLEAN]

(* What one statement of the call c may make of a row.                     *)
Allowed(s, c, old, new) ==
    /\ c.scope # System => {old.tenant, new.tenant} \subseteq {c.scope, "none"}
    /\ (s /\ ~c.withTrashed) => ~old.trashed
    /\ old.trashed => new.trashed
    /\ (s /\ old # Absent) => new # Absent /\ new.created = old.created

(* The books of one call, and who may write in batches.                    *)
Balanced(s, c) ==
    /\ c \in Calls(s)
    /\ c.kept = 0 /\ ~c.torn
    /\ c.done + Len(c.rest) = c.asked
    /\ c.pc = "committing" => c.rest = << >>
    /\ c.kind = "batch" \/ c.rest # << >> =>
          c.scope = System /\ (s => c.withTrashed)
    /\ c.rest # << >> => c.op # "none"

Disjoint ==
    \A r, o \in Writer : r # o => DOMAIN call[r].undo \cap DOMAIN call[o].undo = {}

Reach ==
    \A r \in Writer : call[r].pc # "dropped" =>
        \A k \in DOMAIN call[r].undo : Allowed(soft, call[r], call[r].undo[k], rows[k])

TableInv ==
    /\ soft \in BOOLEAN
    /\ rows \in [Key -> Rows(soft)]
    /\ call \in [Writer -> Calls(soft)]
    /\ \A r \in Writer : Balanced(soft, call[r])
    /\ Disjoint
    /\ Reach

-----------------------------------------------------------------------------
(* Absent is no row, and a log of rows is a function on some of the keys.  *)
LEMMA AbsentIsNoRow ==
    ASSUME NEW s \in BOOLEAN, NEW row \in Rows(s)
    PROVE  /\ row # Absent => row.tenant \in Tenant /\ row.created \in Writer \cup {Earlier}
                              /\ row.trashed \in {FALSE, s}
           /\ row.tenant \in Tenant => row # Absent
<1>1. Absent.tenant = "none" /\ "none" \notin Tenant
  BY TableAssumption DEF Absent, Row
<1>2. row = Absent \/ row \in [tenant : Tenant, trashed : {FALSE, s}, created : Writer \cup {Earlier}]
  BY DEF Rows
<1>3. row.tenant \in Tenant => row # Absent
  BY <1>1
<1> QED
  BY <1>2, <1>3

LEMMA UndosAre ==
    ASSUME NEW s \in BOOLEAN, NEW u \in Undos(s)
    PROVE  DOMAIN u \subseteq Key /\ \A k \in DOMAIN u : u[k] \in Rows(s)
BY DEF Undos

LEMMA NewIsSound == ASSUME NEW s \in BOOLEAN PROVE Balanced(s, New) /\ DOMAIN New.undo = {}
<1>1. [k \in {} |-> Absent] \in [{} -> Rows(s)]
  OBVIOUS
<1>2. New.undo \in Undos(s)
  BY <1>1 DEF New, Undos
<1>3. New \in Calls(s)
  BY <1>2 DEF New, Calls
<1> QED
  BY <1>3 DEF New, Balanced

LEMMA TableInitInv == TableInit => TableInv
<1> SUFFICES ASSUME TableInit PROVE TableInv
  OBVIOUS
<1>1. rows \in [Key -> Rows(soft)]
  BY DEF TableInit, Rows
<1>2. \A r \in Writer : Balanced(soft, call[r]) /\ DOMAIN call[r].undo = {}
  BY NewIsSound DEF TableInit
<1>3. call \in [Writer -> Calls(soft)]
  BY NewIsSound DEF TableInit, Balanced
<1> QED
  BY <1>1, <1>2, <1>3 DEF TableInit, TableInv, Disjoint, Reach

-----------------------------------------------------------------------------
(* A step of one call that leaves the rows alone.                          *)
LEMMA LocalInv ==
    ASSUME TableInv, NEW r \in Writer, NEW c, Balanced(soft, c),
           DOMAIN c.undo \subseteq DOMAIN call[r].undo,
           c.pc # "dropped" => \A k \in DOMAIN c.undo : Allowed(soft, c, c.undo[k], rows[k]),
           call' = [call EXCEPT ![r] = c], UNCHANGED <<soft, rows>>
    PROVE  TableInv'
<1>1. call'[r] = c /\ \A o \in Writer \ {r} : call'[o] = call[o]
  BY DEF TableInv
<1>2. call' \in [Writer -> Calls(soft)]
  BY DEF TableInv, Balanced
<1>3. \A o \in Writer : Balanced(soft, call'[o])
  BY <1>1 DEF TableInv
<1>4. Disjoint'
  BY <1>1 DEF TableInv, Disjoint
<1>5. Reach'
  BY <1>1 DEF TableInv, Reach
<1> QED
  BY <1>2, <1>3, <1>4, <1>5 DEF TableInv

(* One statement: each row it gives is allowed by the query, and it takes  *)
(* the call as far as next says.                                           *)
LEMMA StatementInv ==
    ASSUME TableInv, NEW r \in Writer, NEW examined \in SUBSET Key,
           NEW D \in SUBSET examined, NEW new \in [D -> Rows(soft)],
           NEW next, Balanced(soft, next), next.undo = call[r].undo,
           call[r].pc # "dropped", next.pc # "dropped",
           next.scope = call[r].scope, next.withTrashed = call[r].withTrashed,
           \A k \in D : Allowed(soft, call[r], rows[k], new[k]),
           Executes(r, examined, new, next)
    PROVE  TableInv'
<1> DEFINE undo == call[r].undo
           logged == [k \in DOMAIN undo \cup D |-> IF k \in DOMAIN undo THEN undo[k] ELSE rows[k]]
           c == [next EXCEPT !.undo = logged]
<1>1. /\ \A o \in Writer \ {r} : examined \cap DOMAIN call[o].undo = {}
      /\ rows' = [k \in Key |-> IF k \in D THEN new[k] ELSE rows[k]]
      /\ call' = [call EXCEPT ![r] = c]
      /\ soft' = soft
  BY DEF Executes, Free
<1>2. undo \in Undos(soft) /\ next \in Calls(soft)
  BY DEF TableInv, Calls, Balanced
<1>3. DOMAIN undo \subseteq Key /\ \A k \in DOMAIN undo : undo[k] \in Rows(soft)
  BY <1>2, UndosAre DEF TableInv
<1>4. logged \in Undos(soft)
  <2>1. logged \in [DOMAIN undo \cup D -> Rows(soft)]
    BY <1>3 DEF TableInv
  <2>2. DOMAIN undo \cup D \in SUBSET Key
    BY <1>3
  <2> QED
    BY <2>1, <2>2 DEF Undos
<1>5. /\ c \in Calls(soft) /\ c.undo = logged /\ c.pc = next.pc
      /\ c.scope = call[r].scope /\ c.withTrashed = call[r].withTrashed
      /\ Balanced(soft, c)
  <2> HIDE DEF logged
  <2> QED
    BY <1>2, <1>4 DEF Calls, Balanced
<1>6. call'[r] = c /\ \A o \in Writer \ {r} : call'[o] = call[o]
  BY <1>1 DEF TableInv
<1>7. rows' \in [Key -> Rows(soft)]
  BY <1>1 DEF TableInv
<1>8. call' \in [Writer -> Calls(soft)] /\ \A o \in Writer : Balanced(soft, call'[o])
  BY <1>1, <1>5, <1>6 DEF TableInv
<1>9. DOMAIN c.undo = DOMAIN undo \cup D
  BY <1>5
<1>10. Disjoint'
  <2>1. \A o \in Writer \ {r} : DOMAIN c.undo \cap DOMAIN call[o].undo = {}
    BY <1>1, <1>9 DEF TableInv, Disjoint
  <2> HIDE DEF c
  <2> QED
    BY <2>1, <1>6 DEF TableInv, Disjoint
<1>11. \A k \in DOMAIN c.undo : Allowed(soft, c, c.undo[k], rows'[k])
  <2> TAKE k \in DOMAIN c.undo
  <2>1. k \in Key /\ c.undo[k] = IF k \in DOMAIN undo THEN undo[k] ELSE rows[k]
    BY <1>3, <1>5, <1>9
  <2>2. rows'[k] = IF k \in D THEN new[k] ELSE rows[k]
    BY <1>1, <2>1
  <2>3. k \in DOMAIN undo => Allowed(soft, call[r], undo[k], rows[k])
    BY DEF TableInv, Reach
  <2>4. k \in D => Allowed(soft, call[r], rows[k], new[k])
    OBVIOUS
  <2>5. k \in DOMAIN undo \cup D
    BY <1>9
  <2> HIDE DEF c, undo, logged
  <2> QED
    BY <2>1, <2>2, <2>3, <2>4, <2>5, <1>5 DEF Allowed
<1>12. Reach'
  <2>1. ASSUME NEW o \in Writer \ {r}, NEW k \in DOMAIN call[o].undo
        PROVE  k \in Key /\ rows'[k] = rows[k]
    <3>1. k \in Key
      BY UndosAre DEF TableInv, Calls
    <3> QED
      BY <1>1, <3>1
  <2> HIDE DEF c
  <2> QED
    BY <2>1, <1>1, <1>6, <1>11 DEF TableInv, Reach
<1> QED
  BY <1>1, <1>7, <1>8, <1>10, <1>12 DEF TableInv

-----------------------------------------------------------------------------
(* What the writes make of a row, and which rows they mean.                *)
LEMMA MeantAre ==
    ASSUME TableInv, NEW r \in Writer, NEW where \in SUBSET Key, NEW k \in Meant(r, where)
    PROVE  /\ k \in where /\ rows[k] \in Rows(soft) /\ rows[k] # Absent
           /\ Scoped(r) => rows[k].tenant = call[r].scope
           /\ (soft /\ ~call[r].withTrashed) => ~rows[k].trashed
BY DEF TableInv, Meant, Present, Guarded

LEMMA UpdatedIs ==
    ASSUME NEW s \in BOOLEAN, NEW row \in Rows(s), row # Absent,
           NEW tenant \in Tenant \cup {"none"}
    PROVE  /\ Updated(row, tenant) \in Rows(s) /\ Updated(row, tenant) # Absent
           /\ Updated(row, tenant).trashed = row.trashed
           /\ Updated(row, tenant).created = row.created
           /\ Updated(row, tenant).tenant = IF tenant = "none" THEN row.tenant ELSE tenant
<1>1. row \in [tenant : Tenant, trashed : {FALSE, s}, created : Writer \cup {Earlier}]
  BY DEF Rows
<1>2. CASE tenant = "none"
  BY <1>2 DEF Updated
<1>3. CASE tenant \in Tenant
  <2>1. tenant # "none"
    BY <1>3, TableAssumption
  <2>2. Updated(row, tenant) = [row EXCEPT !.tenant = tenant]
    BY <2>1 DEF Updated
  <2>3. [row EXCEPT !.tenant = tenant] \in Rows(s)
    BY <1>1, <1>3 DEF Rows
  <2>4. [row EXCEPT !.tenant = tenant].tenant \in Tenant
    BY <1>1, <1>3
  <2> QED
    BY <1>1, <2>1, <2>2, <2>3, <2>4, AbsentIsNoRow
<1> QED
  BY <1>2, <1>3

LEMMA DeletedIs ==
    ASSUME soft \in BOOLEAN, NEW row \in Rows(soft), row # Absent
    PROVE  /\ Deleted(row) \in Rows(soft)
           /\ ~soft => Deleted(row) = Absent
           /\ soft => /\ Deleted(row) # Absent /\ Deleted(row).trashed
                      /\ Deleted(row).created = row.created
                      /\ Deleted(row).tenant = row.tenant
<1>1. row \in [tenant : Tenant, trashed : {FALSE, soft}, created : Writer \cup {Earlier}]
  BY DEF Rows
<1>2. CASE soft
  <2>1. Deleted(row) = [row EXCEPT !.trashed = TRUE]
    BY <1>2 DEF Deleted
  <2>2. [row EXCEPT !.trashed = TRUE] \in Rows(soft)
    BY <1>1, <1>2 DEF Rows
  <2>3. [row EXCEPT !.trashed = TRUE].tenant \in Tenant
    BY <1>1
  <2> QED
    BY <1>1, <1>2, <2>1, <2>2, <2>3, AbsentIsNoRow
<1>3. CASE ~soft
  BY <1>3 DEF Deleted, Rows
<1> QED
  BY <1>2, <1>3

LEMMA InsertedIs ==
    ASSUME TableInv, NEW r \in Writer, NEW tenant, Injected(r, tenant) \in Tenant
    PROVE  /\ Inserted(r, tenant) \in Rows(soft)
           /\ Inserted(r, tenant).tenant = Injected(r, tenant)
BY DEF Inserted, Row, Rows

LEMMA AbsentIs ==
    /\ Absent.tenant = "none" /\ Absent.trashed = FALSE
    /\ \A s : Absent \in Rows(s)
BY DEF Absent, Row, Rows

(* A protected statement leaves the books of its call in order.            *)
LEMMA WroteIsSound ==
    ASSUME TableInv, NEW r \in Writer, Ready(r)
    PROVE  /\ Balanced(soft, Wrote(r)) /\ Wrote(r).undo = call[r].undo
           /\ call[r].pc # "dropped" /\ Wrote(r).pc # "dropped"
           /\ Wrote(r).scope = call[r].scope /\ Wrote(r).withTrashed = call[r].withTrashed
<1>1. call[r] \in Calls(soft) /\ Balanced(soft, call[r])
  BY DEF TableInv
<1>2. call[r].pc = "open" /\ call[r].kind # "batch" /\ call[r].rest = << >>
  BY DEF Ready
<1>3. /\ Wrote(r) \in Calls(soft) /\ Wrote(r).rest = << >> /\ Wrote(r).kind = call[r].kind
      /\ Wrote(r).asked = call[r].asked + 1 /\ Wrote(r).done = call[r].done + 1
      /\ Wrote(r).kept = call[r].kept /\ Wrote(r).torn = call[r].torn
      /\ Wrote(r).undo = call[r].undo /\ Wrote(r).pc \in {"open", "committing"}
      /\ Wrote(r).scope = call[r].scope /\ Wrote(r).withTrashed = call[r].withTrashed
  <2> DEFINE next(pc) == [call[r] EXCEPT !.pc = pc, !.asked = @ + 1, !.done = @ + 1]
  <2>1. PICK pc \in {"open", "committing"} : Wrote(r) = next(pc)
    <3>1. CASE call[r].kind = "auto"
      BY <3>1 DEF Wrote
    <3>2. CASE call[r].kind # "auto"
      BY <3>2, <1>2 DEF Wrote
    <3> QED
      BY <3>1, <3>2
  <2>2. next(pc) \in Calls(soft)
    <3>1. call[r].asked + 1 \in Nat /\ call[r].done + 1 \in Nat
      BY <1>1 DEF Calls
    <3>2. ASSUME NEW a \in Nat, NEW d \in Nat
          PROVE  [call[r] EXCEPT !.pc = pc, !.asked = a, !.done = d] \in Calls(soft)
      <4>1. pc \in {"idle", "open", "committing", "dropped", "ok", "failed"}
        BY <2>1
      <4> QED
        BY <1>1, <4>1 DEF Calls
    <3> QED
      BY <3>1, <3>2
  <2>3. /\ next(pc).rest = call[r].rest /\ next(pc).kind = call[r].kind
        /\ next(pc).asked = call[r].asked + 1 /\ next(pc).done = call[r].done + 1
        /\ next(pc).kept = call[r].kept /\ next(pc).undo = call[r].undo
        /\ next(pc).pc = pc /\ next(pc).scope = call[r].scope
    BY <1>1 DEF Calls
  <2>4. next(pc).torn = call[r].torn /\ next(pc).withTrashed = call[r].withTrashed
    BY <1>1 DEF Calls
  <2> HIDE DEF next
  <2> QED
    BY <1>2, <2>1, <2>2, <2>3, <2>4
<1>4. Balanced(soft, Wrote(r))
  <2>1. call[r].done + Len(call[r].rest) = call[r].asked /\ Len(call[r].rest) = 0
    BY <1>1, <1>2 DEF Balanced
  <2>2. Wrote(r).done + Len(Wrote(r).rest) = Wrote(r).asked
    BY <1>1, <1>3, <2>1 DEF Calls
  <2> QED
    BY <1>1, <1>2, <1>3, <2>2 DEF Balanced
<1> QED
  BY <1>2, <1>3, <1>4

LEMMA InsertInv == ASSUME TableInv, NEW r \in Writer, Insert(r) PROVE TableInv'
<1>1. PICK k \in Key \ Present, tenant \in Tenant \cup {"none"} :
         /\ MayName(r, tenant) /\ Injected(r, tenant) # "none"
         /\ Executes(r, {k}, [key \in {k} |-> Inserted(r, tenant)], Wrote(r))
  BY DEF Insert
<1> DEFINE new == [key \in {k} |-> Inserted(r, tenant)]
<1>2. Injected(r, tenant) \in Tenant /\ (Scoped(r) => Injected(r, tenant) = call[r].scope)
  BY <1>1 DEF Injected, Scoped, TableInv, Calls
<1>3. new \in [{k} -> Rows(soft)]
  BY <1>2, InsertedIs
<1>4. rows[k] = Absent
  BY DEF Present
<1>5. \A key \in {k} : Allowed(soft, call[r], rows[key], new[key])
  BY <1>2, <1>4, InsertedIs, AbsentIs DEF Allowed, Scoped
<1>6. Ready(r)
  BY DEF Insert
<1> HIDE DEF new
<1>7. Executes(r, {k}, new, Wrote(r))
  BY <1>1 DEF new
<1> QED
  BY <1>3, <1>5, <1>6, <1>7, WroteIsSound, StatementInv

LEMMA UpdateInv == ASSUME TableInv, NEW r \in Writer, Update(r) PROVE TableInv'
<1>1. PICK where \in {{k} : k \in Key} \cup {Key}, tenant \in Tenant \cup {"none"} :
         /\ Restricted(r, where) /\ MayName(r, tenant)
         /\ Executes(r, where, [k \in Meant(r, where) |-> Updated(rows[k], tenant)], Wrote(r))
  BY DEF Update
<1> DEFINE new == [k \in Meant(r, where) |-> Updated(rows[k], tenant)]
<1>2. where \in SUBSET Key /\ Meant(r, where) \in SUBSET where
  BY DEF Meant
<1>3. \A k \in Meant(r, where) : rows[k] \in Rows(soft) /\ Updated(rows[k], tenant) \in Rows(soft)
  BY <1>2, MeantAre, UpdatedIs DEF TableInv
<1>4. new \in [Meant(r, where) -> Rows(soft)]
  BY <1>3
<1>5. ASSUME NEW k \in Meant(r, where)
      PROVE  Allowed(soft, call[r], rows[k], new[k])
  <2>1. /\ rows[k] \in Rows(soft) /\ rows[k] # Absent
        /\ Scoped(r) => rows[k].tenant = call[r].scope /\ tenant = "none"
        /\ (soft /\ ~call[r].withTrashed) => ~rows[k].trashed
    BY <1>1, <1>2, MeantAre DEF MayName
  <2>2. new[k] = Updated(rows[k], tenant)
    OBVIOUS
  <2> HIDE DEF new
  <2> QED
    BY <2>1, <2>2, UpdatedIs DEF Allowed, Scoped, TableInv
<1>6. Ready(r)
  BY DEF Update
<1> HIDE DEF new
<1>7. Executes(r, where, new, Wrote(r))
  BY <1>1 DEF new
<1> QED
  BY <1>2, <1>4, <1>5, <1>6, <1>7, WroteIsSound, StatementInv

LEMMA DeleteInv == ASSUME TableInv, NEW r \in Writer, Delete(r) PROVE TableInv'
<1>1. PICK where \in {{k} : k \in Key} \cup {Key} :
         /\ Restricted(r, where)
         /\ Executes(r, where, [k \in Meant(r, where) |-> Deleted(rows[k])], Wrote(r))
  BY DEF Delete
<1> DEFINE new == [k \in Meant(r, where) |-> Deleted(rows[k])]
<1>2. where \in SUBSET Key /\ Meant(r, where) \in SUBSET where
  BY DEF Meant
<1>3. \A k \in Meant(r, where) : rows[k] \in Rows(soft) /\ Deleted(rows[k]) \in Rows(soft)
  BY <1>2, MeantAre, DeletedIs DEF TableInv
<1>4. new \in [Meant(r, where) -> Rows(soft)]
  BY <1>3
<1>5. ASSUME NEW k \in Meant(r, where)
      PROVE  Allowed(soft, call[r], rows[k], new[k])
  <2>1. /\ rows[k] \in Rows(soft) /\ rows[k] # Absent
        /\ Scoped(r) => rows[k].tenant = call[r].scope
        /\ (soft /\ ~call[r].withTrashed) => ~rows[k].trashed
    BY <1>2, MeantAre
  <2>2. new[k] = Deleted(rows[k])
    OBVIOUS
  <2>3. ~soft => ~rows[k].trashed
    BY <2>1, AbsentIsNoRow DEF TableInv
  <2> HIDE DEF new
  <2> QED
    BY <2>1, <2>2, <2>3, DeletedIs, AbsentIs DEF Allowed, Scoped, TableInv
<1>6. Ready(r)
  BY DEF Delete
<1> HIDE DEF new
<1>7. Executes(r, where, new, Wrote(r))
  BY <1>1 DEF new
<1> QED
  BY <1>2, <1>4, <1>5, <1>6, <1>7, WroteIsSound, StatementInv

-----------------------------------------------------------------------------
(* Beginning, committing and failing.                                      *)
LEMMA ListsAre ==
    ASSUME NEW list \in Lists
    PROVE  list \in Seq(Key) /\ Len(list) \in Nat
<1>1. Cardinality(Key) \in Nat
  BY TableAssumption, FS_CardinalityType
<1>2. PICK n \in 1 .. Cardinality(Key) : list \in [1 .. n -> Key]
  BY DEF Lists
<1> QED
  BY <1>1, <1>2

LEMMA BeginInv == ASSUME TableInv, NEW r \in Writer, Begin(r) PROVE TableInv'
<1>1. PICK kind \in {"auto", "tx"}, scope \in Tenant \cup {System}, withTrashed \in {TRUE, ~soft} :
         call' = [call EXCEPT ![r] = [New EXCEPT !.pc = "open", !.kind = kind,
                                      !.scope = scope, !.withTrashed = withTrashed]]
  BY DEF Begin
<1> DEFINE c == [New EXCEPT !.pc = "open", !.kind = kind, !.scope = scope,
                            !.withTrashed = withTrashed]
<1>2. withTrashed \in BOOLEAN
  BY <1>1 DEF TableInv
<1>3. c \in Calls(soft)
  BY <1>2, NewIsSound DEF Balanced, Calls, TableInv
<1>4. /\ c.undo = New.undo /\ c.rest = << >> /\ c.done = 0 /\ c.asked = 0 /\ c.kept = 0
      /\ c.torn = FALSE /\ c.kind # "batch" /\ c.pc = "open"
  BY <1>1 DEF New
<1>5. Balanced(soft, c) /\ DOMAIN c.undo = {}
  BY <1>3, <1>4, NewIsSound DEF Balanced, TableInv
<1>6. call' = [call EXCEPT ![r] = c] /\ UNCHANGED <<soft, rows>>
  BY <1>1 DEF Begin
<1> HIDE DEF c
<1> QED
  BY <1>5, <1>6, LocalInv

LEMMA BeginBatchInv == ASSUME TableInv, NEW r \in Writer, BeginBatch(r) PROVE TableInv'
<1>1. PICK op \in {"insert", "update", "upsert"}, list \in Lists :
         call' = [call EXCEPT ![r] = [New EXCEPT !.pc = "open", !.kind = "batch", !.op = op,
                                      !.rest = list, !.asked = Len(list)]]
  BY DEF BeginBatch
<1> DEFINE c == [New EXCEPT !.pc = "open", !.kind = "batch", !.op = op,
                            !.rest = list, !.asked = Len(list)]
<1>2. list \in Seq(Key) /\ Len(list) \in Nat
  BY ListsAre
<1>3. c \in Calls(soft)
  BY <1>2, NewIsSound DEF Balanced, Calls, TableInv
<1>4. /\ c.undo = New.undo /\ c.rest = list /\ c.done = 0 /\ c.asked = Len(list)
      /\ c.kept = 0 /\ c.torn = FALSE /\ c.pc = "open" /\ c.op # "none"
      /\ c.scope = System /\ c.withTrashed = TRUE
  BY <1>1 DEF New
<1>5. Balanced(soft, c) /\ DOMAIN c.undo = {}
  BY <1>2, <1>3, <1>4, NewIsSound DEF Balanced, TableInv
<1>6. call' = [call EXCEPT ![r] = c] /\ UNCHANGED <<soft, rows>>
  BY <1>1 DEF BeginBatch
<1> HIDE DEF c
<1> QED
  BY <1>5, <1>6, LocalInv

LEMMA UpsertInTxInv == ASSUME TableInv, NEW r \in Writer, UpsertInTx(r) PROVE TableInv'
<1>1. PICK list \in Lists :
         call' = [call EXCEPT ![r] = [call[r] EXCEPT !.op = "upsert", !.rest = list,
                                                     !.asked = @ + Len(list)]]
  BY DEF UpsertInTx
<1> DEFINE asked == call[r].asked + Len(list)
           c == [call[r] EXCEPT !.op = "upsert", !.rest = list, !.asked = asked]
<1>2. call[r] \in Calls(soft) /\ Balanced(soft, call[r]) /\ list \in Seq(Key) /\ Len(list) \in Nat
  BY ListsAre DEF TableInv
<1>3. asked \in Nat
  BY <1>2 DEF Calls
<1>4. call' = [call EXCEPT ![r] = c] /\ UNCHANGED <<soft, rows>>
  BY <1>1 DEF UpsertInTx
<1>5. call[r].done + Len(list) = asked
  <2>1. call[r].rest = << >>
    BY DEF UpsertInTx, Ready
  <2> QED
    BY <1>2, <2>1 DEF Balanced, Calls
<1> HIDE DEF asked
<1>6. c \in Calls(soft)
  BY <1>2, <1>3 DEF Calls
<1>7. /\ c.undo = call[r].undo /\ c.rest = list /\ c.done = call[r].done /\ c.asked = asked
      /\ c.kept = call[r].kept /\ c.op = "upsert" /\ c.pc = call[r].pc
      /\ c.scope = call[r].scope
  BY <1>2 DEF Calls
<1>8. c.torn = call[r].torn /\ c.withTrashed = call[r].withTrashed
  BY <1>2 DEF Calls
<1>9. call[r].pc = "open" /\ call[r].scope = System /\ (soft => call[r].withTrashed)
  BY DEF UpsertInTx, Ready, PlansUpsert, Scoped, Guarded
<1> HIDE DEF c
<1>10. Balanced(soft, c)
  BY <1>2, <1>5, <1>6, <1>7, <1>8, <1>9 DEF Balanced
<1>11. \A k \in DOMAIN c.undo : Allowed(soft, c, c.undo[k], rows[k])
  BY <1>7, <1>8, <1>9 DEF TableInv, Reach, Allowed
<1> QED
  BY <1>4, <1>7, <1>10, <1>11, LocalInv

LEMMA CommitsInv == ASSUME TableInv, NEW r \in Writer, Commits(r) PROVE TableInv'
<1> DEFINE c == [call[r] EXCEPT !.pc = "committing"]
<1>1. call' = [call EXCEPT ![r] = c] /\ UNCHANGED <<soft, rows>>
  BY DEF Commits
<1>2. call[r] \in Calls(soft) /\ Balanced(soft, call[r]) /\ call[r].pc = "open" /\ call[r].rest = << >>
  BY DEF TableInv, Commits
<1>3. c \in Calls(soft)
  BY <1>2 DEF Calls
<1>4. /\ c.undo = call[r].undo /\ c.rest = call[r].rest /\ c.done = call[r].done
      /\ c.asked = call[r].asked /\ c.kept = call[r].kept /\ c.op = call[r].op
      /\ c.pc = "committing" /\ c.scope = call[r].scope /\ c.kind = call[r].kind
  BY <1>2 DEF Calls
<1>5. c.torn = call[r].torn /\ c.withTrashed = call[r].withTrashed
  BY <1>2 DEF Calls
<1> HIDE DEF c
<1>6. Balanced(soft, c)
  BY <1>2, <1>3, <1>4, <1>5 DEF Balanced
<1>7. \A k \in DOMAIN c.undo : Allowed(soft, c, c.undo[k], rows[k])
  BY <1>2, <1>4, <1>5 DEF TableInv, Reach, Allowed
<1> QED
  BY <1>1, <1>4, <1>6, <1>7, LocalInv

(* A call that has ended is new but for its result and what is to be undone. *)
LEMMA EndedIsSound ==
    ASSUME soft \in BOOLEAN, NEW pc \in {"dropped", "ok", "failed"}, NEW undo \in Undos(soft),
           NEW torn, torn = FALSE
    PROVE  /\ Balanced(soft, [New EXCEPT !.pc = pc, !.undo = undo, !.torn = torn])
           /\ Balanced(soft, [New EXCEPT !.pc = pc, !.torn = torn])
           /\ [New EXCEPT !.pc = pc, !.undo = undo, !.torn = torn].undo = undo
           /\ DOMAIN [New EXCEPT !.pc = pc, !.torn = torn].undo = {}
<1>1. New \in Calls(soft) /\ DOMAIN New.undo = {}
  BY NewIsSound DEF Balanced
<1>2. ASSUME NEW c, c = [New EXCEPT !.pc = pc, !.undo = undo, !.torn = torn]
      PROVE  Balanced(soft, c) /\ c.undo = undo
  <2>1. c \in Calls(soft)
    BY <1>1, <1>2 DEF Calls
  <2>2. /\ c.undo = undo /\ c.rest = << >> /\ c.done = 0 /\ c.asked = 0 /\ c.kept = 0
        /\ c.torn = FALSE /\ c.kind # "batch" /\ c.pc = pc
    BY <1>2 DEF New
  <2> QED
    BY <2>1, <2>2 DEF Balanced
<1>3. ASSUME NEW c, c = [New EXCEPT !.pc = pc, !.torn = torn]
      PROVE  Balanced(soft, c) /\ DOMAIN c.undo = {}
  <2>1. c \in Calls(soft)
    BY <1>1, <1>3 DEF Calls
  <2>2. /\ c.undo = New.undo /\ c.rest = << >> /\ c.done = 0 /\ c.asked = 0 /\ c.kept = 0
        /\ c.torn = FALSE /\ c.kind # "batch" /\ c.pc = pc
    BY <1>3 DEF New
  <2> QED
    BY <1>1, <2>1, <2>2 DEF Balanced
<1> QED
  BY <1>2, <1>3

LEMMA AbortInv == ASSUME TableInv, NEW r \in Writer, Abort(r) PROVE TableInv'
<1>1. call[r].kept = 0 /\ call[r].undo \in Undos(soft) /\ soft \in BOOLEAN
  BY DEF TableInv, Balanced, Calls
<1>2. Torn(r, "failed", call[r].kept) = FALSE
  BY <1>1 DEF Torn
<1> DEFINE c == [New EXCEPT !.pc = "dropped", !.undo = call[r].undo,
                            !.torn = Torn(r, "failed", call[r].kept)]
<1>3. Balanced(soft, c) /\ c.undo = call[r].undo
  BY <1>1, <1>2, EndedIsSound
<1>4. c.pc = "dropped"
  BY DEF New
<1>5. call' = [call EXCEPT ![r] = c] /\ UNCHANGED <<soft, rows>>
  BY DEF Abort
<1> HIDE DEF c
<1> QED
  BY <1>3, <1>4, <1>5, LocalInv

LEMMA CommittedInv == ASSUME TableInv, NEW r \in Writer, Committed(r) PROVE TableInv'
<1>1. PICK pc \in {"ok", "failed"} :
         call' = [call EXCEPT ![r] = [New EXCEPT !.pc = pc, !.torn = Torn(r, pc, call[r].done)]]
  BY DEF Committed
<1>2. Balanced(soft, call[r]) /\ call[r].pc = "committing" /\ soft \in BOOLEAN
  BY DEF TableInv, Committed
<1>3. call[r].done = call[r].asked
  BY <1>2 DEF Balanced, Calls
<1>4. Torn(r, pc, call[r].done) = FALSE
  BY <1>3 DEF Torn
<1> DEFINE c == [New EXCEPT !.pc = pc, !.torn = Torn(r, pc, call[r].done)]
<1>5. New.undo \in Undos(soft)
  BY <1>2, NewIsSound DEF Balanced, Calls
<1>6. Balanced(soft, c) /\ DOMAIN c.undo = {}
  BY <1>2, <1>4, <1>5, EndedIsSound
<1>7. call' = [call EXCEPT ![r] = c] /\ UNCHANGED <<soft, rows>>
  BY <1>1 DEF Committed
<1> HIDE DEF c
<1> QED
  BY <1>6, <1>7, LocalInv

(* Of the rows one transaction gives back no other has written any.        *)
LEMMA RolledBackInv == ASSUME TableInv, NEW r \in Writer, RolledBack(r) PROVE TableInv'
<1> DEFINE undo == call[r].undo
           torn == call[r].torn \/ Torn(r, "failed", call[r].kept)
           c == [New EXCEPT !.pc = "failed", !.torn = torn]
<1>1. /\ call[r].kept = 0 /\ call[r].torn = FALSE
      /\ undo \in Undos(soft) /\ soft \in BOOLEAN
  <2>1. Balanced(soft, call[r])
    BY DEF TableInv
  <2>2. call[r].torn \in BOOLEAN /\ ~call[r].torn
    BY <2>1 DEF Balanced, Calls
  <2> QED
    BY <2>1, <2>2 DEF TableInv, Balanced, Calls
<1>2. torn = FALSE
  BY <1>1 DEF Torn
<1>3. New.undo \in Undos(soft)
  BY <1>1, NewIsSound DEF Balanced, Calls
<1> HIDE DEF torn
<1>4. Balanced(soft, c) /\ DOMAIN c.undo = {}
  BY <1>1, <1>2, <1>3, EndedIsSound
<1>5. /\ rows' = [k \in Key |-> IF k \in DOMAIN undo THEN undo[k] ELSE rows[k]]
      /\ call' = [call EXCEPT ![r] = c] /\ soft' = soft
  BY DEF RolledBack, torn
<1> HIDE DEF c
<1>6. \A k \in DOMAIN undo : undo[k] \in Rows(soft)
  BY <1>1, UndosAre
<1> HIDE DEF undo
<1>7. rows' \in [Key -> Rows(soft)]
  BY <1>5, <1>6 DEF TableInv
<1>8. call'[r] = c /\ \A o \in Writer \ {r} : call'[o] = call[o]
  BY <1>5 DEF TableInv
<1>9. call' \in [Writer -> Calls(soft)] /\ \A o \in Writer : Balanced(soft, call'[o])
  BY <1>4, <1>5, <1>8 DEF TableInv, Balanced
<1>10. Disjoint'
  BY <1>4, <1>8 DEF TableInv, Disjoint
<1>11. ASSUME NEW o \in Writer \ {r}, NEW k \in DOMAIN call[o].undo
       PROVE  rows'[k] = rows[k]
  <2>1. k \in Key
    BY <1>1, UndosAre DEF TableInv, Calls
  <2>2. k \notin DOMAIN undo
    BY DEF TableInv, Disjoint, undo
  <2> QED
    BY <1>5, <2>1, <2>2
<1>12. Reach'
  BY <1>4, <1>5, <1>8, <1>11 DEF TableInv, Reach
<1> QED
  BY <1>5, <1>7, <1>9, <1>10, <1>12 DEF TableInv

-----------------------------------------------------------------------------
(* One chunk of a batch: nobody writes a batch through a scope or a guard. *)
LEMMA ChunkLenIs ==
    ASSUME TableInv, NEW r \in Writer, call[r].rest # << >>
    PROVE  /\ ChunkLen(r) \in 1 .. Len(call[r].rest)
           /\ SubSeq(call[r].rest, ChunkLen(r) + 1, Len(call[r].rest)) \in Seq(Key)
           /\ Len(SubSeq(call[r].rest, ChunkLen(r) + 1, Len(call[r].rest)))
                 = Len(call[r].rest) - ChunkLen(r)
<1>1. call[r].rest \in Seq(Key)
  BY DEF TableInv, Calls
<1>2. Len(call[r].rest) \in Nat \ {0}
  BY <1>1
<1>3. ChunkLen(r) \in 1 .. Len(call[r].rest)
  BY <1>2, TableAssumption DEF ChunkLen
<1> QED
  BY <1>1, <1>2, <1>3

LEMMA AfterChunkIsSound ==
    ASSUME TableInv, NEW r \in Writer, call[r].pc = "open", call[r].rest # << >>
    PROVE  /\ Balanced(soft, AfterChunk(r)) /\ AfterChunk(r).undo = call[r].undo
           /\ AfterChunk(r).pc # "dropped"
           /\ AfterChunk(r).scope = call[r].scope
           /\ AfterChunk(r).withTrashed = call[r].withTrashed
<1> DEFINE n == ChunkLen(r)
           rest == SubSeq(call[r].rest, n + 1, Len(call[r].rest))
           done == call[r].done + n
           next(pc, d, s) == [call[r] EXCEPT !.done = d, !.rest = s, !.pc = pc]
<1>1. call[r] \in Calls(soft) /\ Balanced(soft, call[r])
  BY DEF TableInv
<1>2. n \in 1 .. Len(call[r].rest) /\ rest \in Seq(Key) /\ Len(rest) = Len(call[r].rest) - n
  BY ChunkLenIs
<1>3. done \in Nat /\ done + Len(rest) = call[r].asked
  <2>1. call[r].done \in Nat /\ call[r].asked \in Nat /\ Len(call[r].rest) \in Nat
    BY <1>1 DEF Calls
  <2>2. call[r].done + Len(call[r].rest) = call[r].asked
    BY <1>1 DEF Balanced
  <2> HIDE DEF n, rest
  <2> QED
    BY <1>2, <2>1, <2>2
<1>4. Len(call[r].rest) = n => rest = << >>
  <2>1. ASSUME NEW s \in Seq(Key), Len(s) = 0 PROVE s = << >>
    BY <2>1
  <2>2. Len(call[r].rest) = n => Len(rest) = 0
    BY <1>2
  <2> HIDE DEF rest, n
  <2> QED
    BY <1>2, <2>1, <2>2
<1>5. PICK pc \in {"open", "committing"} :
         AfterChunk(r) = next(pc, done, rest) /\ (pc = "committing" => rest = << >>)
  <2>1. CASE call[r].kind = "batch" /\ Len(call[r].rest) = n
    BY <1>4, <2>1 DEF AfterChunk
  <2>2. CASE ~(call[r].kind = "batch" /\ Len(call[r].rest) = n)
    BY <2>2 DEF AfterChunk
  <2> QED
    BY <2>1, <2>2
<1> HIDE DEF done, rest
<1>6. ASSUME NEW d \in Nat, NEW s \in Seq(Key)
      PROVE  next(pc, d, s) \in Calls(soft)
  BY <1>1, <1>5 DEF Calls
<1>7. ASSUME NEW d \in Nat, NEW s \in Seq(Key)
      PROVE  /\ next(pc, d, s).undo = call[r].undo /\ next(pc, d, s).rest = s
             /\ next(pc, d, s).done = d /\ next(pc, d, s).asked = call[r].asked
             /\ next(pc, d, s).kept = call[r].kept /\ next(pc, d, s).op = call[r].op
             /\ next(pc, d, s).pc = pc /\ next(pc, d, s).scope = call[r].scope
  BY <1>1 DEF Calls
<1>8. ASSUME NEW d \in Nat, NEW s \in Seq(Key)
      PROVE  /\ next(pc, d, s).torn = call[r].torn
             /\ next(pc, d, s).withTrashed = call[r].withTrashed
  BY <1>1 DEF Calls
<1> HIDE DEF next
<1>9. Balanced(soft, next(pc, done, rest))
  BY <1>1, <1>2, <1>3, <1>5, <1>6, <1>7, <1>8 DEF Balanced
<1> QED
  BY <1>2, <1>3, <1>5, <1>7, <1>8, <1>9

LEMMA ChunkInv == ASSUME TableInv, NEW r \in Writer, Chunk(r) PROVE TableInv'
<1> DEFINE keys == {call[r].rest[i] : i \in 1 .. ChunkLen(r)}
<1>1. /\ call[r].pc = "open" /\ call[r].rest # << >>
      /\ call[r].op = "insert" => keys \cap Present = {}
  BY DEF Chunk
<1>2. PICK tenant \in Tenant, moved \in Tenant \cup {"none"} :
         Executes(r, keys, ChunkRows(r, keys, tenant, moved), AfterChunk(r))
  BY DEF Chunk
<1>3. call[r] \in Calls(soft) /\ Balanced(soft, call[r]) /\ soft \in BOOLEAN /\ rows \in [Key -> Rows(soft)]
  BY DEF TableInv
<1>4. keys \in SUBSET Key
  BY <1>1, <1>3, ChunkLenIs DEF Calls
<1>5. /\ call[r].scope = System /\ (soft => call[r].withTrashed)
      /\ call[r].op \in {"insert", "update", "upsert"}
  BY <1>1, <1>3 DEF Balanced, Calls
<1> HIDE DEF keys
<1>6. Injected(r, tenant) = tenant
  BY <1>5 DEF Injected, Scoped
<1>7. ASSUME NEW D \in SUBSET keys, NEW new \in [D -> Rows(soft)],
             \A k \in D : /\ rows[k].trashed => new[k].trashed
                          /\ rows[k] # Absent => new[k] # Absent /\ new[k].created = rows[k].created,
             Executes(r, keys, new, AfterChunk(r))
      PROVE  TableInv'
  <2>1. \A k \in D : Allowed(soft, call[r], rows[k], new[k])
    BY <1>5, <1>7 DEF Allowed
  <2> QED
    BY <1>1, <1>4, <1>7, <2>1, AfterChunkIsSound, StatementInv
<1>8. CASE call[r].op = "insert"
  <2> DEFINE new == [k \in keys |-> Inserted(r, tenant)]
  <2>1. ChunkRows(r, keys, tenant, moved) = new
    BY <1>8 DEF ChunkRows
  <2>2. new \in [keys -> Rows(soft)]
    BY <1>6, InsertedIs
  <2>3. \A k \in keys : rows[k] = Absent
    BY <1>1, <1>4, <1>8 DEF Present
  <2> HIDE DEF new
  <2> QED
    BY <1>2, <1>7, <2>1, <2>2, <2>3, AbsentIs
<1>9. CASE call[r].op = "update"
  <2> DEFINE new == [k \in keys \cap Present |-> Updated(rows[k], "none")]
  <2>1. ChunkRows(r, keys, tenant, moved) = new
    BY <1>9 DEF ChunkRows
  <2>2. \A k \in keys \cap Present : new[k] = rows[k] /\ rows[k] \in Rows(soft)
    BY <1>3, <1>4 DEF Updated, Present
  <2>3. new \in [keys \cap Present -> Rows(soft)]
    BY <2>2
  <2> HIDE DEF new
  <2> QED
    BY <1>2, <1>7, <2>1, <2>2, <2>3
<1>10. CASE call[r].op = "upsert"
  <2> DEFINE new == [k \in keys |-> IF k \in Present THEN Updated(rows[k], moved)
                                                     ELSE Inserted(r, tenant)]
  <2>1. ChunkRows(r, keys, tenant, moved) = new
    BY <1>10 DEF ChunkRows
  <2>2. moved \in Tenant \cup {"none"}
    BY <1>2
  <2>3. ASSUME NEW k \in keys
        PROVE  /\ new[k] \in Rows(soft)
               /\ rows[k].trashed => new[k].trashed
               /\ rows[k] # Absent => new[k] # Absent /\ new[k].created = rows[k].created
    <3>1. CASE k \in Present
      <4>1. rows[k] \in Rows(soft) /\ rows[k] # Absent /\ new[k] = Updated(rows[k], moved)
        BY <1>3, <1>4, <3>1 DEF Present
      <4> HIDE DEF new
      <4> QED
        BY <1>3, <2>2, <4>1, UpdatedIs
    <3>2. CASE k \notin Present
      <4>1. rows[k] = Absent /\ new[k] = Inserted(r, tenant)
        BY <1>4, <3>2 DEF Present
      <4> HIDE DEF new
      <4> QED
        BY <1>6, <4>1, InsertedIs, AbsentIs
    <3> QED
      BY <3>1, <3>2
  <2>4. new \in [keys -> Rows(soft)]
    BY <2>3
  <2> HIDE DEF new
  <2> QED
    BY <1>2, <1>7, <2>1, <2>3, <2>4
<1> QED
  BY <1>5, <1>8, <1>9, <1>10

-----------------------------------------------------------------------------
LEMMA TableNextInv == TableInv /\ [TableNext]_tableVars => TableInv'
<1> SUFFICES ASSUME TableInv, [TableNext]_tableVars PROVE TableInv'
  OBVIOUS
<1>1. CASE UNCHANGED tableVars
  BY <1>1 DEF tableVars, TableInv, Disjoint, Reach
<1>2. CASE TableNext
  <2>1. PICK r \in Writer :
           \/ Begin(r) \/ BeginBatch(r)
           \/ Insert(r) \/ Update(r) \/ Delete(r) \/ UpsertInTx(r) \/ Chunk(r)
           \/ Commits(r) \/ Abort(r) \/ Committed(r) \/ RolledBack(r)
    BY <1>2 DEF TableNext
  <2> QED
    BY <2>1, BeginInv, BeginBatchInv, InsertInv, UpdateInv, DeleteInv, UpsertInTxInv,
       ChunkInv, CommitsInv, AbortInv, CommittedInv, RolledBackInv
<1> QED
  BY <1>1, <1>2

(* Rows, logs and books of every call are well formed, whatever the        *)
(* requests do (TableQuery, QueryBuilder, Transaction).                    *)
THEOREM TableInvariant == TableSpec => []TableInv
BY TableInitInv, TableNextInv, PTL DEF TableSpec

(* The table, its undo logs and the calls keep their types. *)
THEOREM TableTypeCorrect == TableSpec => []TableTypeOK
<1>1. TableInv => TableTypeOK
  <2> SUFFICES ASSUME TableInv PROVE TableTypeOK
    OBVIOUS
  <2> DEFINE Typed == {Absent} \cup [tenant : Tenant, trashed : BOOLEAN,
                                     created : Writer \cup {Earlier}]
  <2>1. Rows(soft) \subseteq Typed
    BY DEF TableInv, Rows
  <2>2. rows \in [Key -> Typed]
    BY <2>1 DEF TableInv
  <2>3. ASSUME NEW r \in Writer
        PROVE  DOMAIN call[r].undo \subseteq Key /\ \A k \in DOMAIN call[r].undo : call[r].undo[k] \in Typed
    BY <2>1, UndosAre DEF TableInv, Calls
  <2>4. ASSUME NEW r \in Writer
        PROVE  /\ call[r].pc \in {"idle", "open", "committing", "dropped", "ok", "failed"}
               /\ call[r].kind \in {"auto", "tx", "batch"}
               /\ call[r].scope \in Tenant \cup {System}
               /\ call[r].rest \in Seq(Key)
    BY DEF TableInv, Calls
  <2> QED
    BY <2>2, <2>3, <2>4 DEF TableInv, TableTypeOK
<1> QED
  BY <1>1, TableInvariant, PTL

(* A write of a request reaches what its query may touch and no more: of   *)
(* any number of tenants, in any interleaving with others that write the   *)
(* same table, commit, fail or are dropped.                                *)
THEOREM ReachIsKept == TableSpec => []WritesStayInReach
<1>1. TableInv => WritesStayInReach
  <2> SUFFICES ASSUME TableInv, NEW r \in Writer, call[r].pc # "dropped",
                      NEW k \in DOMAIN call[r].undo
               PROVE  LET old == call[r].undo[k]
                          new == rows[k]
                      IN  /\ Scoped(r) => {old.tenant, new.tenant} \subseteq {call[r].scope, "none"}
                          /\ Guarded(r) => ~old.trashed
                          /\ old.trashed => new.trashed
                          /\ soft /\ old # Absent => new.created = old.created
    BY DEF WritesStayInReach
  <2> QED
    BY DEF TableInv, Reach, Allowed, Scoped, Guarded
<1> QED
  BY <1>1, TableInvariant, PTL

(* A batch is there as a whole or not at all, for any length and any chunk *)
(* size, whichever of its statements fails.                                *)
THEOREM BatchesAreWhole == TableSpec => []AllOrNothing
<1>1. TableInv => AllOrNothing
  BY DEF TableInv, Balanced, AllOrNothing
<1> QED
  BY <1>1, TableInvariant, PTL
=============================================================================
