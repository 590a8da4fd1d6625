----------------------------- MODULE AuthProofs -----------------------------
(***************************************************************************)
(* Proofs about authentication, for any calls, users and captchas and any  *)
(* number of crashes: a captcha is spent once, a session belongs to the    *)
(* owner of the name and has the record made with it, and the sweeping     *)
(* thread ends no session that had not expired when it began.              *)
(***************************************************************************)
EXTENDS Auth, FiniteSetTheorems, TLAPS

(* What a flush keeps has the types of the trees.                          *)
FlushedOK ==
  flushed \in [Users -> Calls \cup {None}] \X [Users -> Calls \cup {None}]
              \X [Users -> Calls \cup {None}] \X [Captchas -> CaptchaStates]

(* Who is where: only registrations create addresses and records, only     *)
(* logins verify.                                                          *)
Kinds ==
  \A c \in Calls :
    /\ call[c] \in {"address", "record"} => Is(c, "register")
    /\ call[c] = "verify" => Is(c, "login")

(* A captcha that let a call through is gone, and is not made again.       *)
Spent ==
  \A k \in Captchas :
    /\ captchaDB[k] # None \/ flushed[4][k] # None => k \in created
    /\ passed[k] # {} => captchaDB[k] = None /\ k \in created
    /\ \A c, d \in passed[k] : c = d

(* Whose name an entry has: users are registered by calls past the insert, *)
(* cookies belong to calls that were answered.                             *)
Registered(c, u) ==
  call[c] \in {"record", "cookie", "ok", "denied"} /\ request[c] # None /\ Username(c) = u
Answered(c, u) == call[c] = "ok" /\ request[c] # None /\ Username(c) = u
Owned ==
  \A u \in Users :
    /\ authDB[u] # None => Registered(authDB[u], u)
    /\ flushed[1][u] # None => Registered(flushed[1][u], u)
    /\ cookieDB[u] # None => Answered(cookieDB[u], u)
    /\ flushed[3][u] # None => Answered(flushed[3][u], u)

(* A session is its owner's, given the user, the record and the cookie in  *)
(* the trees or on disk.                                                   *)
Rightful(user, record, cookie) ==
  cookie # None =>
    /\ user # None
    /\ request[cookie].password = request[user].password
    /\ Is(cookie, "register") => user = cookie /\ record = cookie

(* What a call for the name u knows.                                       *)
Knows(c, u) ==
  /\ call[c] \in {"captcha", "remove", "verify"} /\ Is(c, "login") =>
       userInfo[c] = authDB[u]
  /\ call[c] = "record" => authDB[u] = c
  /\ call[c] = "cookie" =>
       /\ authDB[u] # None
       /\ request[c].password = request[authDB[u]].password
       /\ Is(c, "register") => authDB[u] = c /\ moneyDB[u] = c

(* As long as no registration replaced another's User.                     *)
Peace(u) ==
  /\ flushed[1][u] \in {None, authDB[u]}
  /\ Rightful(authDB[u], moneyDB[u], cookieDB[u])
  /\ Rightful(flushed[1][u], flushed[2][u], flushed[3][u])
  /\ \A c \in Calls : call[c] # "start" /\ request[c] # None /\ Username(c) = u => Knows(c, u)
Peaceful == \A u \in Users : ~ raced[u] => Peace(u)

(* The cookies a pass found alive are not due, and were answered.          *)
Sweeping ==
  /\ cookieSweep.pc = "remove" => cookieSweep.key \in Users
  /\ cookieSweep.due \cap cookieSweep.live = {}
  /\ \A c \in cookieSweep.live : call[c] = "ok"
  /\ LiveSpared

AuthInv == TypeOK /\ FlushedOK /\ Kinds /\ Spent /\ Owned /\ Peaceful /\ Sweeping

-----------------------------------------------------------------------------
(* Types.                                                                  *)

(* What a call that has come in asks.                                      *)
LEMMA Asked ==
  ASSUME TypeOK, NEW c \in Calls, request[c] # None
  PROVE  /\ request[c] \in Requests /\ Is(c, "register") \in BOOLEAN
         /\ request[c].kind \in {"register", "login"}
         /\ Username(c) \in Users /\ CaptchaOf(c) \in Captchas
BY AuthAssumption DEF TypeOK, Username, CaptchaOf, Is

LEMMA HandleTypes ==
  ASSUME TypeOK, FlushedOK, NEW c \in Calls, Handle(c), ~ CallPanics(c)
  PROVE  TypeOK' /\ FlushedOK'
<1> USE AuthAssumption DEF TypeOK, FlushedOK, CaptchaStates, trees, locals, threads, history, Goes
<1>0. call[c] \notin {"start", "denied"} =>
        /\ request[c] # None /\ request[c] \in Requests
        /\ Username(c) \in Users /\ CaptchaOf(c) \in Captchas
  BY Asked
<1>1. ASSUME NEW r \in Requests, Start(c, r) PROVE TypeOK' /\ FlushedOK'
  <2>1. /\ call' = [call EXCEPT ![c] = "captcha"] /\ request' = [request EXCEPT ![c] = r]
        /\ r # None
    BY <1>1 DEF Start, Comes
  <2> QED BY <1>1, <2>1 DEF Start, Comes
<1>2. ASSUME NEW r \in Requests, Refuse(c, r) PROVE TypeOK' /\ FlushedOK'
  BY <1>2 DEF Refuse
<1>3. CASE Deny(c)
  BY <1>3 DEF Deny
<1>4. CASE CheckCaptcha(c)
  BY <1>4 DEF CheckCaptcha
<1>5. CASE RemoveCaptcha(c)
  BY <1>0, <1>5 DEF RemoveCaptcha
<1>6. CASE InsertUser(c)
  BY <1>0, <1>6 DEF InsertUser
<1>7. CASE InsertRecord(c)
  BY <1>0, <1>7 DEF InsertRecord
<1>8. CASE Verify(c)
  BY <1>8 DEF Verify
<1>9. CASE GenerateCookie(c)
  BY <1>0, <1>9 DEF GenerateCookie
<1> QED BY <1>1, <1>2, <1>3, <1>4, <1>5, <1>6, <1>7, <1>8, <1>9 DEF Handle

(* What a step of a call leaves alone.                                     *)
LEMMA HandleFrame ==
  ASSUME TypeOK, NEW c \in Calls, Handle(c), ~ CallPanics(c)
  PROVE  /\ \A d \in Calls \ {c} :
              call'[d] = call[d] /\ request'[d] = request[d] /\ userInfo'[d] = userInfo[d]
         /\ call[c] \notin {"ok", "denied"}
         /\ call[c] \in {"record", "cookie"} =>
              request'[c] = request[c] /\ call'[c] \in {"cookie", "ok", "denied"}
         /\ UNCHANGED flushed
         /\ InsertUser(c) \/ UNCHANGED <<authDB, raced>>
         /\ InsertRecord(c) \/ UNCHANGED moneyDB
         /\ GenerateCookie(c) \/ UNCHANGED cookieDB
<1> DEFINE Frame == /\ \A d \in Calls \ {c} :
                        call'[d] = call[d] /\ request'[d] = request[d] /\ userInfo'[d] = userInfo[d]
                    /\ call[c] \notin {"ok", "denied"}
                    /\ call[c] \in {"record", "cookie"} =>
                         request'[c] = request[c] /\ call'[c] \in {"cookie", "ok", "denied"}
                    /\ UNCHANGED flushed
                    /\ InsertUser(c) \/ UNCHANGED <<authDB, raced>>
                    /\ InsertRecord(c) \/ UNCHANGED moneyDB
                    /\ GenerateCookie(c) \/ UNCHANGED cookieDB
<1> SUFFICES Frame
  OBVIOUS
<1> USE DEF trees, locals, threads, history, Goes
<1>0. /\ call \in [Calls -> {"start", "captcha", "remove", "address", "verify",
                         "record", "cookie", "ok", "denied"}]
      /\ request \in [Calls -> Requests \cup {None}]
      /\ userInfo \in [Calls -> Calls \cup {None}]
  BY DEF TypeOK
<1>1. ASSUME NEW r \in Requests, Start(c, r) \/ Refuse(c, r) PROVE Frame
  BY <1>0, <1>1 DEF Start, Comes, Refuse
<1>2. CASE Deny(c)
  BY <1>0, <1>2 DEF Deny
<1>3. CASE CheckCaptcha(c) \/ RemoveCaptcha(c)
  BY <1>0, <1>3 DEF CheckCaptcha, RemoveCaptcha
<1>4. CASE InsertUser(c)
  <2>1. call' = [call EXCEPT ![c] = "record"] /\ call[c] = "address"
        /\ UNCHANGED <<request, userInfo, flushed, moneyDB, cookieDB>>
    BY <1>4 DEF InsertUser
  <2> QED BY <1>0, <1>4, <2>1
<1>5. CASE InsertRecord(c)
  <2>1. call' = [call EXCEPT ![c] = "cookie"] /\ call[c] = "record"
        /\ UNCHANGED <<request, userInfo, flushed, authDB, raced, cookieDB>>
    BY <1>5 DEF InsertRecord
  <2> QED BY <1>0, <1>5, <2>1
<1>6. CASE Verify(c)
  BY <1>0, <1>6 DEF Verify
<1>7. CASE GenerateCookie(c)
  <2>1. /\ \/ call' = [call EXCEPT ![c] = "ok"]
           \/ call' = [call EXCEPT ![c] = "denied"]
        /\ call[c] = "cookie"
        /\ UNCHANGED <<request, userInfo, flushed, authDB, raced, moneyDB>>
    BY <1>7 DEF GenerateCookie
  <2> QED BY <1>0, <1>7, <2>1
<1> HIDE DEF Frame
<1> QED BY <1>1, <1>2, <1>3, <1>4, <1>5, <1>6, <1>7 DEF Handle

(* What everyone but the calls does, restarts left aside.                  *)
Background ==
  \/ \E u \in Users : CookieExpires(u)
  \/ \E k \in Captchas : CreateCaptcha(k) \/ CaptchaExpires(k)
  \/ CookieSweep
  \/ CaptchaSweep /\ ~ CaptchaSweepPanics
  \/ Flush

LEMMA RestartTypes ==
  ASSUME TypeOK, FlushedOK, Restart, crashes < MaxCrashes
  PROVE  TypeOK' /\ FlushedOK'
<1> USE AuthAssumption DEF TypeOK, FlushedOK, Restart
<1>1. /\ call' \in [Calls -> {"start", "captcha", "remove", "address", "verify",
                         "record", "cookie", "ok", "denied"}]
      /\ \A c \in Calls : call'[c] \notin {"start", "denied"} => request'[c] # None
      /\ \A c \in Calls : call'[c] \notin {"captcha", "remove", "verify"}
  OBVIOUS
<1>2. /\ authDB' \in [Users -> Calls \cup {None}] /\ moneyDB' \in [Users -> Calls \cup {None}]
      /\ cookieDB' \in [Users -> Calls \cup {None}] /\ captchaDB' \in [Captchas -> CaptchaStates]
  OBVIOUS
<1>3. /\ cookieSweep' \in [ pc: {"sleep", "iter", "remove"}, due: SUBSET Calls,
           live: SUBSET Calls, left: SUBSET Users, key: Users \cup {None} ]
      /\ captchaSweep' \in [ pc: {"sleep", "iter", "remove"}, due: {{}}, live: {{}},
           left: SUBSET Captchas, key: Captchas \cup {None} ]
  BY DEF Asleep
<1> QED BY <1>1, <1>2, <1>3

LEMMA BackgroundTypes ==
  ASSUME TypeOK, FlushedOK, Background
  PROVE  TypeOK' /\ FlushedOK'
<1> USE AuthAssumption DEF TypeOK, FlushedOK, CaptchaStates, trees, locals, threads, history
<1>1. ASSUME NEW u \in Users, CookieExpires(u) PROVE TypeOK' /\ FlushedOK'
  BY <1>1 DEF CookieExpires
<1>2. ASSUME NEW k \in Captchas, CreateCaptcha(k) \/ CaptchaExpires(k) PROVE TypeOK' /\ FlushedOK'
  BY <1>2 DEF CreateCaptcha, CaptchaExpires
<1>3. CASE CookieSweepBegin
  <2>1. cookieSweep' = [pc |-> "iter", due |-> expired, left |-> Users, key |-> None,
          live |-> {cookieDB[u] : u \in Users} \ (expired \cup {None})]
    BY <1>3 DEF CookieSweepBegin, Asleep
  <2>2. cookieSweep' \in [ pc: {"sleep", "iter", "remove"}, due: SUBSET Calls,
          live: SUBSET Calls, left: SUBSET Users, key: Users \cup {None} ]
    <3>1. {cookieDB[u] : u \in Users} \ (expired \cup {None}) \in SUBSET Calls
      OBVIOUS
    <3> QED BY <2>1, <3>1
  <2> QED BY <1>3, <2>2 DEF CookieSweepBegin
<1>4. ASSUME NEW u \in Users, CookieSweepNext(u) PROVE TypeOK' /\ FlushedOK'
  BY <1>4 DEF CookieSweepNext
<1>5. CASE CookieSweepRemove
  BY <1>5 DEF CookieSweepRemove
<1>6. CASE CookieSweepEnd
  BY <1>6 DEF CookieSweepEnd, Asleep
<1>7. CASE CaptchaSweepBegin
  <2>1. captchaSweep' = [pc |-> "iter", due |-> {}, left |-> ExpiredCaptchas, key |-> None,
                         live |-> {}]
    BY <1>7 DEF CaptchaSweepBegin, Asleep
  <2>2. ExpiredCaptchas \in SUBSET Captchas
    BY DEF ExpiredCaptchas
  <2> QED BY <1>7, <2>1, <2>2 DEF CaptchaSweepBegin
<1>8. ASSUME NEW k \in Captchas, CaptchaSweepNext(k) PROVE TypeOK' /\ FlushedOK'
  BY <1>8 DEF CaptchaSweepNext
<1>9. CASE CaptchaSweepRemove
  BY <1>9 DEF CaptchaSweepRemove
<1>10. CASE CaptchaSweepEnd
  BY <1>10 DEF CaptchaSweepEnd, Asleep
<1>11. CASE Flush
  BY <1>11 DEF Flush
<1> QED
  BY <1>1, <1>2, <1>3, <1>4, <1>5, <1>6, <1>7, <1>8, <1>9, <1>10, <1>11
     DEF Background, CookieSweep, CaptchaSweep

(* What Background leaves alone, and whose the rest is.                    *)
LEMMA BackgroundFrame ==
  ASSUME Background
  PROVE  /\ UNCHANGED <<call, request, userInfo, authDB, moneyDB, passed, raced>>
         /\ CookieSweep \/ UNCHANGED <<cookieDB, cookieSweep>>
         /\ CookieSweepRemove \/ UNCHANGED cookieDB
         /\ \/ \E k \in Captchas : CreateCaptcha(k) \/ CaptchaExpires(k)
            \/ CaptchaSweepRemove
            \/ UNCHANGED <<captchaDB, created>>
         /\ Flush \/ UNCHANGED flushed
<1> DEFINE Frame == /\ UNCHANGED <<call, request, userInfo, authDB, moneyDB, passed, raced>>
                    /\ CookieSweep \/ UNCHANGED <<cookieDB, cookieSweep>>
                    /\ CookieSweepRemove \/ UNCHANGED cookieDB
                    /\ \/ \E k \in Captchas : CreateCaptcha(k) \/ CaptchaExpires(k)
                       \/ CaptchaSweepRemove
                       \/ UNCHANGED <<captchaDB, created>>
                    /\ Flush \/ UNCHANGED flushed
<1> SUFFICES Frame
  OBVIOUS
<1> USE DEF trees, locals, threads, history
<1>1. ASSUME NEW u \in Users, CookieExpires(u) PROVE Frame
  BY <1>1 DEF CookieExpires
<1>2. ASSUME NEW k \in Captchas, CreateCaptcha(k) \/ CaptchaExpires(k) PROVE Frame
  <2>1. /\ UNCHANGED <<call, request, userInfo, authDB, moneyDB, passed, raced>>
        /\ UNCHANGED <<cookieDB, cookieSweep, flushed>>
    BY <1>2 DEF CreateCaptcha, CaptchaExpires
  <2> QED BY <1>2, <2>1
<1>3. ASSUME CookieSweep PROVE Frame
  <2>1. CASE CookieSweepBegin
    BY <1>3, <2>1 DEF CookieSweepBegin
  <2>2. ASSUME NEW u \in Users, CookieSweepNext(u) PROVE Frame
    BY <1>3, <2>2 DEF CookieSweepNext
  <2>3. CASE CookieSweepRemove
    <3>1. UNCHANGED <<call, request, userInfo, authDB, moneyDB, passed, raced, captchaDB,
                      created, flushed>>
      BY <2>3 DEF CookieSweepRemove
    <3> QED BY <1>3, <2>3, <3>1
  <2>4. CASE CookieSweepEnd
    BY <1>3, <2>4 DEF CookieSweepEnd
  <2> QED BY <1>3, <2>1, <2>2, <2>3, <2>4 DEF CookieSweep
<1>4. CASE CaptchaSweepBegin
  BY <1>4 DEF CaptchaSweepBegin
<1>5. ASSUME NEW k \in Captchas, CaptchaSweepNext(k) PROVE Frame
  BY <1>5 DEF CaptchaSweepNext
<1>6. CASE CaptchaSweepRemove
  <2>1. UNCHANGED <<call, request, userInfo, authDB, moneyDB, passed, raced, cookieDB,
                    cookieSweep, flushed>>
    BY <1>6 DEF CaptchaSweepRemove
  <2> QED BY <1>6, <2>1
<1>7. CASE CaptchaSweepEnd
  BY <1>7 DEF CaptchaSweepEnd
<1>8. CASE Flush
  <2>1. UNCHANGED <<call, request, userInfo, authDB, moneyDB, passed, raced, cookieDB,
                    cookieSweep, captchaDB, created>>
    BY <1>8 DEF Flush
  <2> QED BY <1>8, <2>1
<1> HIDE DEF Frame
<1> QED BY <1>1, <1>2, <1>3, <1>4, <1>5, <1>6, <1>7, <1>8 DEF Background, CaptchaSweep

(* Every step is one of these four.                                        *)
LEMMA Steps ==
  ASSUME [Next]_vars
  PROVE  \/ \E c \in Calls : Handle(c) /\ ~ CallPanics(c)
         \/ Background
         \/ Restart /\ crashes < MaxCrashes
         \/ UNCHANGED vars
BY DEF Next, Background, CallPanics, CaptchaSweepPanics, Crash, CaptchaSweep, Handle

-----------------------------------------------------------------------------
(* Each part of the invariant is kept.                                     *)

LEMMA TypesKept ==
  ASSUME TypeOK, FlushedOK, [Next]_vars
  PROVE  TypeOK' /\ FlushedOK'
<1>1. ASSUME UNCHANGED vars PROVE TypeOK' /\ FlushedOK'
  BY <1>1 DEF TypeOK, FlushedOK, vars, trees, locals, threads, history
<1> QED BY <1>1, Steps, HandleTypes, BackgroundTypes, RestartTypes

LEMMA KindsKept ==
  ASSUME TypeOK, Kinds, [Next]_vars
  PROVE  Kinds'
<1> USE DEF Kinds, Is, Goes
<1>1. ASSUME NEW c \in Calls, Handle(c), ~ CallPanics(c) PROVE Kinds'
  <2>0. TypeOK /\ request[c] # None => request[c].kind \in {"register", "login"}
    BY Asked
  <2>1. call \in [Calls -> {"start", "captcha", "remove", "address", "verify",
                         "record", "cookie", "ok", "denied"}]
        /\ request \in [Calls -> Requests \cup {None}]
        /\ (call[c] \notin {"start", "denied"} => request[c] # None)
    BY DEF TypeOK
  <2>2. ASSUME NEW r \in Requests, Start(c, r) \/ Refuse(c, r) PROVE Kinds'
    BY <2>1, <2>2 DEF Start, Refuse, Comes, locals
  <2>3. CASE Deny(c)
    BY <2>1, <2>3 DEF Deny
  <2>4. CASE RemoveCaptcha(c)
    BY <2>0, <2>1, <2>4 DEF RemoveCaptcha, locals
  <2>5. CASE CheckCaptcha(c) \/ InsertUser(c) \/ InsertRecord(c) \/ Verify(c) \/ GenerateCookie(c)
    BY <2>1, <2>5 DEF CheckCaptcha, InsertUser, InsertRecord, Verify, GenerateCookie, locals
  <2> QED BY <1>1, <2>2, <2>3, <2>4, <2>5 DEF Handle
<1>2. ASSUME UNCHANGED <<call, request>> PROVE Kinds'
  BY <1>2
<1>3. ASSUME Background PROVE Kinds'
  BY <1>2, <1>3, BackgroundFrame
<1>4. ASSUME Restart PROVE Kinds'
  BY <1>4 DEF Restart, TypeOK
<1> QED BY <1>1, <1>2, <1>3, <1>4, Steps DEF vars, locals

LEMMA SpentKept ==
  ASSUME TypeOK, FlushedOK, Spent, [Next]_vars
  PROVE  Spent'
<1> USE DEF Spent
<1>0. /\ captchaDB \in [Captchas -> CaptchaStates] /\ passed \in [Captchas -> SUBSET Calls]
      /\ flushed[4] \in [Captchas -> CaptchaStates]
  BY DEF TypeOK, FlushedOK
<1>2. ASSUME UNCHANGED <<captchaDB, created, flushed, passed>> PROVE Spent'
  BY <1>2
<1>1. ASSUME NEW c \in Calls, Handle(c), ~ CallPanics(c) PROVE Spent'
  <2>1. CASE RemoveCaptcha(c)
    BY <1>0, <2>1 DEF RemoveCaptcha
  <2>2. CASE ~ RemoveCaptcha(c)
    <3>1. UNCHANGED <<captchaDB, created, flushed, passed>>
      BY <1>1, <2>2 DEF Handle, Start, Comes, Refuse, Deny, CheckCaptcha, InsertUser,
         InsertRecord, Verify, GenerateCookie, trees, history
    <3> QED BY <1>2, <3>1
  <2> QED BY <2>1, <2>2
<1>3. ASSUME NEW k \in Captchas, CreateCaptcha(k) PROVE Spent'
  BY <1>0, <1>3 DEF CreateCaptcha, history
<1>4. ASSUME NEW k \in Captchas, CaptchaExpires(k) PROVE Spent'
  BY <1>0, <1>4, AuthAssumption DEF CaptchaExpires, history
<1>5. CASE CaptchaSweepRemove
  BY <1>0, <1>5 DEF CaptchaSweepRemove, history
<1>6. CASE Flush
  BY <1>0, <1>6 DEF Flush, trees, history
<1>7. ASSUME Background PROVE Spent'
  <2>1. UNCHANGED flushed \/ Flush
    BY <1>7, BackgroundFrame
  <2>2. UNCHANGED passed
    BY <1>7, BackgroundFrame
  <2> QED BY <1>2, <1>3, <1>4, <1>5, <1>6, <1>7, <2>1, <2>2, BackgroundFrame
<1>8. ASSUME Restart PROVE Spent'
  BY <1>0, <1>8 DEF Restart
<1> QED BY <1>1, <1>2, <1>7, <1>8, Steps DEF vars, trees, history

LEMMA SweepingKept ==
  ASSUME TypeOK, Owned, Sweeping, [Next]_vars
  PROVE  Sweeping'
<1> USE DEF Sweeping, LiveSpared
<1>0. /\ cookieDB \in [Users -> Calls \cup {None}] /\ cookieSweep.live \in SUBSET Calls
      /\ call \in [Calls -> {"start", "captcha", "remove", "address", "verify",
                         "record", "cookie", "ok", "denied"}]
      /\ cookieSweep \in [ pc: {"sleep", "iter", "remove"}, due: SUBSET Calls,
           live: SUBSET Calls, left: SUBSET Users, key: Users \cup {None} ]
  BY DEF TypeOK
<1>2. ASSUME UNCHANGED <<cookieDB, call, cookieSweep>> PROVE Sweeping'
  BY <1>2
<1>1. ASSUME NEW c \in Calls, Handle(c), ~ CallPanics(c) PROVE Sweeping'
  <2>1. /\ call[c] # "ok"
        /\ cookieSweep' = cookieSweep
        /\ \A d \in Calls : d # c => call'[d] = call[d]
    BY <1>0, <1>1 DEF Handle, Start, Comes, Refuse, Deny, CheckCaptcha, RemoveCaptcha, InsertUser,
       InsertRecord, Verify, GenerateCookie, threads, Goes
  <2>2. CASE GenerateCookie(c)
    <3>1. \A u \in Users : cookieDB'[u] \in {cookieDB[u], c}
      BY <1>0, <2>2 DEF GenerateCookie
    <3> QED BY <1>0, <2>1, <3>1
  <2>3. CASE ~ GenerateCookie(c)
    <3>1. cookieDB' = cookieDB
      BY <1>1, <2>3 DEF Handle, Start, Comes, Refuse, Deny, CheckCaptcha, RemoveCaptcha,
         InsertUser, InsertRecord, Verify, trees
    <3> QED BY <1>0, <2>1, <3>1
  <2> QED BY <2>2, <2>3
<1>3. CASE CookieSweepBegin
  <2>1. /\ cookieSweep' = [pc |-> "iter", due |-> expired, left |-> Users, key |-> None,
          live |-> {cookieDB[u] : u \in Users} \ (expired \cup {None})]
        /\ UNCHANGED <<cookieDB, call>>
    BY <1>3 DEF CookieSweepBegin, Asleep, trees
  <2>2. \A u \in Users : cookieDB[u] # None => call[cookieDB[u]] = "ok"
    BY DEF Owned, Answered
  <2> QED BY <2>1, <2>2
<1>4. ASSUME NEW u \in Users, CookieSweepNext(u) PROVE Sweeping'
  BY <1>0, <1>4 DEF CookieSweepNext, trees
<1>5. CASE CookieSweepRemove
  BY <1>0, <1>5 DEF CookieSweepRemove
<1>6. CASE CookieSweepEnd
  BY <1>6 DEF CookieSweepEnd, Asleep, trees
<1>7. ASSUME Background PROVE Sweeping'
  <2>1. CookieSweep \/ UNCHANGED <<cookieDB, call, cookieSweep>>
    BY <1>7, BackgroundFrame
  <2> QED BY <1>2, <1>3, <1>4, <1>5, <1>6, <2>1 DEF CookieSweep
<1>8. ASSUME Restart PROVE Sweeping'
  BY <1>8 DEF Restart, Asleep
<1> QED BY <1>1, <1>2, <1>7, <1>8, Steps DEF vars, trees, threads

LEMMA OwnedKept ==
  ASSUME TypeOK, FlushedOK, Owned, [Next]_vars
  PROVE  Owned'
<1>0. /\ authDB \in [Users -> Calls \cup {None}] /\ cookieDB \in [Users -> Calls \cup {None}]
      /\ flushed[1] \in [Users -> Calls \cup {None}] /\ flushed[3] \in [Users -> Calls \cup {None}]
      /\ call \in [Calls -> {"start", "captcha", "remove", "address", "verify",
                         "record", "cookie", "ok", "denied"}]
  BY DEF TypeOK, FlushedOK
<1>1. ASSUME UNCHANGED <<call, request>>,
             /\ flushed'[1] \in {flushed[1], authDB} /\ flushed'[3] \in {flushed[3], cookieDB}
             /\ authDB' = authDB
             /\ \A u \in Users : cookieDB'[u] \in {cookieDB[u], None}
      PROVE  Owned'
  <2> SUFFICES ASSUME NEW u \in Users
               PROVE  /\ authDB'[u] # None => Registered(authDB[u], u)
                      /\ flushed'[1][u] # None => Registered(flushed'[1][u], u)
                      /\ cookieDB'[u] # None => Answered(cookieDB'[u], u)
                      /\ flushed'[3][u] # None => Answered(flushed'[3][u], u)
    BY <1>1 DEF Owned, Registered, Answered, Username
  <2> QED BY <1>1 DEF Owned
<1>2. ASSUME NEW c \in Calls, Handle(c), ~ CallPanics(c) PROVE Owned'
  <2>1. \A d \in Calls, u \in Users :
          /\ Registered(d, u) => Registered(d, u)'
          /\ Answered(d, u) => Answered(d, u)'
    BY <1>2, HandleFrame DEF Registered, Answered, Username
  <2>2. \A u \in Users : authDB'[u] # authDB[u] => authDB'[u] = c /\ Registered(c, u)'
    <3>1. CASE InsertUser(c)
      <4>1. request[c] # None
        BY <3>1 DEF TypeOK, InsertUser, Goes
      <4> QED BY <1>0, <3>1, <4>1 DEF InsertUser, Goes, Registered, Username, locals
    <3> QED BY <1>2, <3>1, HandleFrame
  <2>3. \A u \in Users : cookieDB'[u] # cookieDB[u] => cookieDB'[u] = c /\ Answered(c, u)'
    <3>1. CASE GenerateCookie(c)
      <4>1. request[c] # None
        BY <3>1 DEF TypeOK, GenerateCookie, Goes
      <4> QED BY <1>0, <3>1, <4>1 DEF GenerateCookie, Goes, Answered, Username, locals
    <3> QED BY <1>2, <3>1, HandleFrame
  <2>4. flushed' = flushed
    BY <1>2, HandleFrame
  <2> SUFFICES ASSUME NEW u \in Users
               PROVE  /\ authDB'[u] # None => Registered(authDB[u], u)'
                      /\ flushed'[1][u] # None => Registered(flushed[1][u], u)'
                      /\ cookieDB'[u] # None => Answered(cookieDB[u], u)'
                      /\ flushed'[3][u] # None => Answered(flushed[3][u], u)'
    BY DEF Owned
  <2>5. authDB'[u] # None => Registered(authDB[u], u)'
    BY <1>0, <2>1, <2>2 DEF Owned, Registered, Username
  <2>6. flushed'[1][u] # None => Registered(flushed[1][u], u)'
    BY <1>0, <2>1, <2>4 DEF Owned, Registered, Username
  <2>7. cookieDB'[u] # None => Answered(cookieDB[u], u)'
    BY <1>0, <2>1, <2>3 DEF Owned, Answered, Username
  <2>8. flushed'[3][u] # None => Answered(flushed[3][u], u)'
    BY <1>0, <2>1, <2>4 DEF Owned, Answered, Username
  <2> QED BY <2>5, <2>6, <2>7, <2>8
<1>3. ASSUME Background PROVE Owned'
  <2>1. \A u \in Users : cookieDB'[u] \in {cookieDB[u], None}
    BY <1>0, <1>3, BackgroundFrame DEF CookieSweepRemove
  <2>2. flushed'[1] \in {flushed[1], authDB} /\ flushed'[3] \in {flushed[3], cookieDB}
    BY <1>3, BackgroundFrame DEF Flush, trees
  <2> QED BY <1>1, <1>3, <2>1, <2>2, BackgroundFrame
<1>4. ASSUME Restart PROVE Owned'
  <2>1. /\ authDB' = flushed[1] /\ cookieDB' = flushed[3] /\ UNCHANGED <<flushed, request>>
        /\ call' = [c \in Calls |->
                     IF call[c] \in {"start", "ok", "denied"} THEN call[c] ELSE "denied"]
    BY <1>4 DEF Restart
  <2>2. \A d \in Calls, u \in Users :
          /\ Registered(d, u) => Registered(d, u)'
          /\ Answered(d, u) => Answered(d, u)'
    BY <1>0, <2>1 DEF Registered, Answered, Username
  <2> SUFFICES ASSUME NEW u \in Users
               PROVE  /\ authDB'[u] # None => Registered(authDB[u], u)'
                      /\ flushed'[1][u] # None => Registered(flushed[1][u], u)'
                      /\ cookieDB'[u] # None => Answered(cookieDB[u], u)'
                      /\ flushed'[3][u] # None => Answered(flushed[3][u], u)'
    BY DEF Owned
  <2>3. authDB'[u] # None => Registered(authDB[u], u)'
    BY <1>0, <2>1, <2>2 DEF Owned, Registered, Username
  <2>4. cookieDB'[u] # None => Answered(cookieDB[u], u)'
    BY <1>0, <2>1, <2>2 DEF Owned, Answered, Username
  <2> QED BY <1>0, <2>1, <2>3, <2>4 DEF Registered, Answered, Username
<1>5. ASSUME UNCHANGED vars PROVE Owned'
  <2>1. UNCHANGED <<call, request, flushed, authDB, cookieDB>>
    BY <1>5 DEF vars, trees, locals
  <2> QED BY <1>1, <2>1
<1> QED BY <1>2, <1>3, <1>4, <1>5, Steps

(* A step of a call keeps the peace: it knows what the trees hold for its  *)
(* name, and replaces a User only by racing.                               *)
LEMMA HandlePeaceful ==
  ASSUME TypeOK, FlushedOK, Kinds, Owned, Peaceful, NEW c \in Calls, Handle(c), ~ CallPanics(c),
         NEW u \in Users, ~ raced'[u]
  PROVE  Peace(u)'
<1>0. /\ authDB \in [Users -> Calls \cup {None}] /\ moneyDB \in [Users -> Calls \cup {None}]
      /\ cookieDB \in [Users -> Calls \cup {None}]
      /\ flushed[1] \in [Users -> Calls \cup {None}] /\ flushed[3] \in [Users -> Calls \cup {None}]
      /\ raced \in [Users -> BOOLEAN]
      /\ call \in [Calls -> {"start", "captcha", "remove", "address", "verify",
                         "record", "cookie", "ok", "denied"}]
      /\ request \in [Calls -> Requests \cup {None}] /\ userInfo \in [Calls -> Calls \cup {None}]
      /\ None \notin Calls
  BY AuthAssumption DEF TypeOK, FlushedOK
<1>1. ~ raced[u]
  BY <1>0, HandleFrame DEF InsertUser
<1>2. Peace(u)
  BY <1>1 DEF Peaceful
<1>3. \A d \in Calls : call[d] \in {"record", "cookie", "ok", "denied"} => request'[d] = request[d]
  BY HandleFrame
<1>4. /\ authDB[u] # None => request'[authDB[u]] = request[authDB[u]]
      /\ flushed[1][u] # None => request'[flushed[1][u]] = request[flushed[1][u]]
      /\ cookieDB[u] # None => request'[cookieDB[u]] = request[cookieDB[u]]
      /\ flushed[3][u] # None => request'[flushed[3][u]] = request[flushed[3][u]]
  BY <1>0, <1>3 DEF Owned, Registered, Answered
<1>5. flushed' = flushed
  BY HandleFrame
<1>6. Rightful(flushed[1][u], flushed[2][u], flushed[3][u])'
  BY <1>2, <1>4, <1>5 DEF Peace, Rightful, Is
<1>7. ASSUME authDB'[u] = authDB[u], moneyDB'[u] = moneyDB[u], cookieDB'[u] = cookieDB[u],
             call'[c] # "start" /\ request'[c] # None /\ Username(c)' = u => Knows(c, u)'
      PROVE  Peace(u)'
  <2>1. flushed'[1][u] \in {None, authDB'[u]}
    BY <1>2, <1>5, <1>7 DEF Peace
  <2>2. Rightful(authDB[u], moneyDB[u], cookieDB[u])'
    BY <1>2, <1>4, <1>7 DEF Peace, Rightful, Is
  <2>3. ASSUME NEW d \in Calls, d # c, call'[d] # "start", request'[d] # None, Username(d)' = u
        PROVE  Knows(d, u)'
    <3>1. call'[d] = call[d] /\ request'[d] = request[d] /\ userInfo'[d] = userInfo[d]
      BY <2>3, HandleFrame
    <3>2. Knows(d, u)
      BY <1>2, <2>3, <3>1 DEF Peace, Username
    <3> QED BY <1>4, <1>7, <3>1, <3>2 DEF Knows, Is
  <2> QED BY <1>6, <1>7, <2>1, <2>2, <2>3 DEF Peace
<1> USE DEF Goes
<1>8. ASSUME NEW r \in Requests, Start(c, r) PROVE Peace(u)'
  <2>1. /\ call' = [call EXCEPT ![c] = "captcha"] /\ request' = [request EXCEPT ![c] = r]
        /\ UNCHANGED <<authDB, moneyDB, cookieDB>>
        /\ r.kind = "login" => userInfo'[c] = authDB[r.username]
    BY <1>0, <1>8 DEF Start, Comes, trees
  <2> QED BY <1>0, <1>7, <2>1 DEF Knows, Is, Username
<1>9. ASSUME NEW r \in Requests, Refuse(c, r) PROVE Peace(u)'
  BY <1>0, <1>7, <1>9 DEF Refuse, Knows, trees
<1>10. CASE Deny(c)
  BY <1>0, <1>7, <1>10 DEF Deny, Knows, trees
<1>11. ASSUME call[c] # "start" /\ request[c] # None /\ Username(c) = u => Knows(c, u),
              CheckCaptcha(c) \/ RemoveCaptcha(c)
       PROVE  Peace(u)'
  <2>1. /\ call[c] \in {"captcha", "remove"} /\ call'[c] \in {"remove", "address", "verify"}
        /\ UNCHANGED <<request, userInfo, authDB, moneyDB, cookieDB>>
    BY <1>0, <1>11 DEF CheckCaptcha, RemoveCaptcha, trees, locals
  <2> QED BY <1>7, <1>11, <2>1 DEF Knows, Is, Username
<1>12. CASE Verify(c)
  <2>1. /\ call[c] = "verify" /\ call'[c] = "cookie" /\ userInfo[c] # None /\ request[c] # None
        /\ Is(c, "login") /\ request[userInfo[c]].password = request[c].password
        /\ UNCHANGED <<request, authDB, moneyDB, cookieDB>>
    BY <1>0, <1>12 DEF Verify, TypeOK, Kinds, trees, Is
  <2>2. Username(c) = u => userInfo[c] = authDB[u]
    BY <1>2, <2>1 DEF Peace, Knows
  <2> QED BY <1>7, <2>1, <2>2 DEF Knows, Is, Username
<1>13. CASE InsertUser(c)
  <2>1. /\ call[c] = "address" /\ call'[c] = "record" /\ request[c] # None
        /\ authDB' = [authDB EXCEPT ![Username(c)] = c]
        /\ raced' = [raced EXCEPT ![Username(c)] = @ \/ authDB[Username(c)] # None]
        /\ UNCHANGED <<request, userInfo, moneyDB, cookieDB>>
    BY <1>0, <1>13 DEF InsertUser, TypeOK, locals
  <2>2. CASE Username(c) # u
    BY <1>0, <1>7, <2>1, <2>2 DEF Username
  <2>3. CASE Username(c) = u
    <3>1. authDB[u] = None /\ authDB'[u] = c
      BY <1>0, <2>1, <2>3
    <3>2. cookieDB'[u] = None /\ flushed'[1][u] = None
      BY <1>2, <1>5, <2>1, <3>1 DEF Peace, Rightful
    <3>3. ASSUME NEW d \in Calls, call'[d] # "start", request'[d] # None, Username(d)' = u
          PROVE  Knows(d, u)'
      <4>1. CASE d = c
        BY <2>1, <3>1, <4>1 DEF Knows
      <4>2. CASE d # c
        <5>1. call'[d] = call[d] /\ request'[d] = request[d] /\ userInfo'[d] = userInfo[d]
          BY <4>2, HandleFrame
        <5>2. Knows(d, u)
          BY <1>2, <3>3, <5>1 DEF Peace, Username
        <5>3. call[d] \notin {"record", "cookie"}
          BY <1>0, <3>1, <5>2 DEF Knows
        <5>4. ~ (call[d] \in {"captcha", "remove", "verify"} /\ Is(d, "login"))
          BY <3>1, <5>2 DEF Knows, TypeOK, Is
        <5> QED BY <5>1, <5>3, <5>4 DEF Knows, Is
      <4> QED BY <4>1, <4>2
    <3> QED BY <1>6, <3>2, <3>3 DEF Peace, Rightful
  <2> QED BY <2>2, <2>3
<1>14. CASE InsertRecord(c)
  <2>1. /\ call[c] = "record" /\ call'[c] = "cookie" /\ request[c] # None
        /\ moneyDB' = [moneyDB EXCEPT ![Username(c)] = c]
        /\ UNCHANGED <<request, userInfo, authDB, cookieDB>>
    BY <1>0, <1>14 DEF InsertRecord, TypeOK, locals
  <2>2. CASE Username(c) # u
    BY <1>0, <1>7, <2>1, <2>2 DEF Username
  <2>3. CASE Username(c) = u
    <3>1. authDB[u] = c /\ authDB'[u] = c /\ moneyDB'[u] = c
      BY <1>0, <1>2, <2>1, <2>3 DEF Peace, Knows
    <3>2. flushed'[1][u] \in {None, authDB'[u]}
      BY <1>2, <1>5, <3>1 DEF Peace
    <3>3. Rightful(authDB[u], moneyDB[u], cookieDB[u])'
      BY <1>2, <2>1, <3>1 DEF Peace, Rightful, Is
    <3>4. ASSUME NEW d \in Calls, call'[d] # "start", request'[d] # None, Username(d)' = u
          PROVE  Knows(d, u)'
      <4>1. CASE d = c
        BY <1>0, <2>1, <3>1, <4>1 DEF Knows
      <4>2. CASE d # c
        <5>1. call'[d] = call[d] /\ request'[d] = request[d] /\ userInfo'[d] = userInfo[d]
          BY <4>2, HandleFrame
        <5>2. Knows(d, u)
          BY <1>2, <3>4, <5>1 DEF Peace, Username
        <5> QED BY <2>1, <3>1, <4>2, <5>1, <5>2 DEF Knows, Is
      <4> QED BY <4>1, <4>2
    <3> QED BY <1>6, <3>2, <3>3, <3>4 DEF Peace
  <2> QED BY <2>2, <2>3
<1>15. CASE GenerateCookie(c)
  <2>1. /\ call[c] = "cookie" /\ call'[c] \in {"ok", "denied"} /\ request[c] # None
        /\ \/ UNCHANGED cookieDB
           \/ cookieDB' = [cookieDB EXCEPT ![Username(c)] = c]
        /\ UNCHANGED <<request, userInfo, authDB, moneyDB>>
    BY <1>0, <1>15 DEF GenerateCookie, TypeOK, locals
  <2>2. CASE cookieDB'[u] = cookieDB[u]
    BY <1>7, <2>1, <2>2 DEF Knows
  <2>3. CASE cookieDB'[u] # cookieDB[u]
    <3>1. Username(c) = u /\ cookieDB'[u] = c
      BY <1>0, <2>1, <2>3
    <3>2. Knows(c, u)
      BY <1>2, <2>1, <3>1 DEF Peace
    <3>3. Rightful(authDB[u], moneyDB[u], cookieDB[u])'
      BY <2>1, <3>1, <3>2 DEF Knows, Rightful, Is
    <3>4. flushed'[1][u] \in {None, authDB'[u]}
      BY <1>2, <1>5, <2>1 DEF Peace
    <3>5. ASSUME NEW d \in Calls, call'[d] # "start", request'[d] # None, Username(d)' = u
          PROVE  Knows(d, u)'
      <4>1. CASE d = c
        BY <2>1, <4>1 DEF Knows
      <4>2. CASE d # c
        <5>1. call'[d] = call[d] /\ request'[d] = request[d] /\ userInfo'[d] = userInfo[d]
          BY <4>2, HandleFrame
        <5>2. Knows(d, u)
          BY <1>2, <3>5, <5>1 DEF Peace, Username
        <5> QED BY <2>1, <5>1, <5>2 DEF Knows, Is
      <4> QED BY <4>1, <4>2
    <3> QED BY <1>6, <3>3, <3>4, <3>5 DEF Peace
  <2> QED BY <2>2, <2>3
<1>16. call[c] # "start" /\ request[c] # None /\ Username(c) = u => Knows(c, u)
  BY <1>2 DEF Peace
<1> QED
  BY <1>8, <1>9, <1>10, <1>11, <1>12, <1>13, <1>14, <1>15, <1>16 DEF Handle

LEMMA PeacefulKept ==
  ASSUME TypeOK, FlushedOK, Kinds, Owned, Peaceful, [Next]_vars
  PROVE  Peaceful'
<1>0. /\ cookieDB \in [Users -> Calls \cup {None}]
      /\ call \in [Calls -> {"start", "captcha", "remove", "address", "verify",
                         "record", "cookie", "ok", "denied"}]
  BY DEF TypeOK
<1>1. ASSUME NEW c \in Calls, Handle(c), ~ CallPanics(c) PROVE Peaceful'
  BY <1>1, HandlePeaceful DEF Peaceful
<1>2. ASSUME UNCHANGED <<call, request, userInfo, authDB, moneyDB, raced>>,
             flushed' \in {flushed, trees},
             \A u \in Users : cookieDB'[u] \in {cookieDB[u], None}
      PROVE  Peaceful'
  <2> SUFFICES ASSUME NEW u \in Users, ~ raced[u] PROVE Peace(u)'
    BY <1>2 DEF Peaceful
  <2>1. Peace(u)
    BY DEF Peaceful
  <2>2. Rightful(authDB[u], moneyDB[u], cookieDB[u])'
    BY <1>2, <2>1 DEF Peace, Rightful, Is
  <2>3. flushed'[1][u] \in {None, authDB'[u]}
    BY <1>2, <2>1 DEF Peace, trees
  <2>4. Rightful(flushed[1][u], flushed[2][u], flushed[3][u])'
    BY <1>2, <2>1 DEF Peace, Rightful, Is, trees
  <2>5. ASSUME NEW d \in Calls, call'[d] # "start", request'[d] # None, Username(d)' = u
        PROVE  Knows(d, u)'
    BY <1>2, <2>1, <2>5 DEF Peace, Knows, Username, Is
  <2> QED BY <2>2, <2>3, <2>4, <2>5 DEF Peace
<1>3. ASSUME Background PROVE Peaceful'
  <2>1. \A u \in Users : cookieDB'[u] \in {cookieDB[u], None}
    BY <1>0, <1>3, BackgroundFrame DEF CookieSweepRemove
  <2>2. flushed' \in {flushed, trees}
    BY <1>3, BackgroundFrame DEF Flush
  <2> QED BY <1>2, <1>3, <2>1, <2>2, BackgroundFrame
<1>4. ASSUME Restart PROVE Peaceful'
  <2>1. /\ authDB' = flushed[1] /\ moneyDB' = flushed[2] /\ cookieDB' = flushed[3]
        /\ UNCHANGED <<flushed, request, raced>>
        /\ call' = [c \in Calls |->
                     IF call[c] \in {"start", "ok", "denied"} THEN call[c] ELSE "denied"]
    BY <1>4 DEF Restart
  <2> SUFFICES ASSUME NEW u \in Users, ~ raced[u] PROVE Peace(u)'
    BY <2>1 DEF Peaceful
  <2>2. Peace(u)
    BY DEF Peaceful
  <2>3. Rightful(authDB[u], moneyDB[u], cookieDB[u])'
        /\ Rightful(flushed[1][u], flushed[2][u], flushed[3][u])'
    BY <2>1, <2>2 DEF Peace, Rightful, Is
  <2>4. \A d \in Calls : call'[d] \in {"start", "ok", "denied"}
    BY <1>0, <2>1
  <2> QED BY <2>1, <2>3, <2>4 DEF Peace, Knows
<1>5. ASSUME UNCHANGED vars PROVE Peaceful'
  <2>1. UNCHANGED <<call, request, userInfo, authDB, moneyDB, raced, flushed, cookieDB>>
    BY <1>5 DEF vars, trees, locals, history
  <2> QED BY <1>2, <2>1
<1> QED BY <1>1, <1>3, <1>4, <1>5, Steps

-----------------------------------------------------------------------------
(* The theorems.                                                           *)

LEMMA InitAuthInv == Init => AuthInv
<1> SUFFICES ASSUME Init PROVE AuthInv
  OBVIOUS
<1> USE AuthAssumption DEF Init
<1>1. TypeOK /\ FlushedOK
  BY DEF TypeOK, FlushedOK, CaptchaStates, Asleep, trees
<1>2. Kinds
  BY DEF Kinds
<1>3. Spent
  BY DEF Spent, trees
<1>4. Owned
  BY DEF Owned, trees
<1>5. Peaceful
  BY DEF Peaceful, Peace, Rightful, trees
<1>6. Sweeping
  BY DEF Sweeping, LiveSpared, Asleep
<1> QED BY <1>1, <1>2, <1>3, <1>4, <1>5, <1>6 DEF AuthInv

(* The invariant is inductive: types, who wrote what is in the trees and on *)
(* disk, and what each call under way still knows of the name it is for.   *)
THEOREM AuthInductive == Spec => []AuthInv
<1>1. AuthInv /\ [Next]_vars => AuthInv'
  BY TypesKept, KindsKept, SpentKept, OwnedKept, PeacefulKept, SweepingKept DEF AuthInv
<1> QED BY InitAuthInv, <1>1, PTL DEF Spec

(* The variables keep their types.                                         *)
THEOREM TypeCorrect == Spec => []TypeOK
<1>1. AuthInv => TypeOK
  BY DEF AuthInv
<1> QED BY AuthInductive, <1>1, PTL

(* The captcha of register and login lets one call through between two     *)
(* restarts: the second one to call remove finds nothing and panics.       *)
THEOREM CaptchaOnce == Spec => []CaptchaSpentOnce
<1>1. AuthInv => CaptchaSpentOnce
  <2> SUFFICES ASSUME AuthInv, NEW k \in Captchas PROVE Cardinality(passed[k]) <= 1
    BY DEF CaptchaSpentOnce
  <2>1. \A c, d \in passed[k] : c = d
    BY DEF AuthInv, Spent
  <2>2. CASE passed[k] = {}
    BY <2>2, FS_EmptySet
  <2>3. CASE passed[k] # {}
    <3>1. PICK c \in passed[k] : TRUE
      BY <2>3
    <3>2. passed[k] = {c}
      BY <2>1, <3>1
    <3>3. Cardinality({c}) = 1
      BY FS_Singleton
    <3> QED BY <3>2, <3>3
  <2> QED BY <2>2, <2>3
<1> QED BY AuthInductive, <1>1, PTL

(* The cookie of a user was issued to a call that gave the password on     *)
(* record, through crashes, as long as no registration replaced another's  *)
(* User between its contains_key and its insert.                           *)
THEOREM SessionsRightful == Spec => []SessionIsOwners
<1>1. AuthInv => SessionIsOwners
  BY DEF AuthInv, Peaceful, Peace, Rightful, SessionIsOwners
<1> QED BY AuthInductive, <1>1, PTL

(* A session that register opened has its User and its FinancialInfo.      *)
THEOREM RecordsKept == Spec => []RegisteredHasRecord
<1>1. AuthInv => RegisteredHasRecord
  BY DEF AuthInv, Peaceful, Peace, Rightful, RegisteredHasRecord
<1> QED BY AuthInductive, <1>1, PTL

(* destroy_expired_auth_cookies ends no session that had not expired when  *)
(* the pass began.                                                         *)
THEOREM LiveOnesSpared == Spec => []LiveSpared
<1>1. AuthInv => LiveSpared
  BY DEF AuthInv, Sweeping
<1> QED BY AuthInductive, <1>1, PTL

=============================================================================
