-------------------------------- MODULE Auth --------------------------------
(***************************************************************************)
(* Registration, login, captchas and session cookies: register and login,  *)
(* one instance per call, on the trees auth_db, money_db, cookie_db and    *)
(* captcha_db, which share one sled log, with the two threads that destroy *)
(* what has expired.  A User, a FinancialInfo and a cookie are named after *)
(* the call that wrote them.                                               *)
(*                                                                         *)
(* sled flushes every 500 ms: a crash takes the trees back to what was     *)
(* flushed.  The release profile aborts the process on a panic, which is a *)
(* crash of the same kind.                                                 *)
(***************************************************************************)
EXTENDS Integers, FiniteSets

CONSTANTS
  Calls,            \* calls to register and login
  Requests,         \* what they may ask: [kind, username, password, captcha]
  Users, Passwords,
  Captchas,         \* hashes of captchas
  None,             \* no entry under a key
  MaxCrashes        \* bound: crashes in a behaviour

ASSUME AuthAssumption ==
  /\ Requests \subseteq [ kind: {"register", "login"}, username: Users,
                           password: Passwords, captcha: Captchas ]
  /\ None \notin Calls /\ None \notin Requests /\ None \notin {"live", "expired"}
  /\ MaxCrashes \in Nat

VARIABLES
  authDB,           \* the call that registered the User
  moneyDB,          \* the call that registered the FinancialInfo
  cookieDB,         \* the call the cookie was issued to
  captchaDB,        \* "live" until it expires, None once removed
  created,          \* captchas that have been generated
  flushed,          \* the four trees as a restart would find them
  expired,          \* cookies older than ninety days
  call,             \* the progress of each call
  request,          \* what it asks, once it has come in
  userInfo,         \* login: the User it read, until it is verified
  cookieSweep,      \* destroy_expired_auth_cookies
  captchaSweep,     \* destroy_expired_captchas
  crashes,
  passed,           \* history: calls a captcha let through since the restart
  raced             \* history: a registration replaced a User

trees   == <<authDB, moneyDB, cookieDB, captchaDB>>
threads == <<cookieSweep, captchaSweep>>
locals  == <<request, userInfo>>
history == <<passed, raced>>
vars == <<trees, flushed, created, expired, call, locals, threads, crashes, history>>

CaptchaStates == {"live", "expired", None}

TypeOK ==
  /\ authDB \in [Users -> Calls \cup {None}]
  /\ moneyDB \in [Users -> Calls \cup {None}]
  /\ cookieDB \in [Users -> Calls \cup {None}]
  /\ captchaDB \in [Captchas -> CaptchaStates]
  /\ created \in SUBSET Captchas
  /\ expired \in SUBSET Calls
  /\ call \in [Calls -> {"start", "captcha", "remove", "address", "verify",
                         "record", "cookie", "ok", "denied"}]
  /\ request \in [Calls -> Requests \cup {None}]
  /\ userInfo \in [Calls -> Calls \cup {None}]
  /\ \A c \in Calls : call[c] \notin {"start", "denied"} => request[c] # None
  /\ \A c \in Calls :
       call[c] \in {"captcha", "remove", "verify"} /\ request[c].kind = "login" =>
         userInfo[c] # None
  /\ cookieSweep \in [ pc: {"sleep", "iter", "remove"}, due: SUBSET Calls,
       live: SUBSET Calls, left: SUBSET Users, key: Users \cup {None} ]
  /\ captchaSweep \in [ pc: {"sleep", "iter", "remove"}, due: {{}}, live: {{}},
       left: SUBSET Captchas, key: Captchas \cup {None} ]
  /\ crashes \in 0..MaxCrashes
  /\ passed \in [Captchas -> SUBSET Calls]
  /\ raced \in [Users -> BOOLEAN]

(* The progress of a pass: the cookies that had expired when it began and  *)
(* those that had not, the keys it has not reached and the one to remove.  *)
Asleep == [pc |-> "sleep", due |-> {}, live |-> {}, left |-> {}, key |-> None]

Init ==
  /\ authDB = [u \in Users |-> None]
  /\ moneyDB = [u \in Users |-> None]
  /\ cookieDB = [u \in Users |-> None]
  /\ captchaDB = [k \in Captchas |-> None]
  /\ created = {}
  /\ flushed = trees
  /\ expired = {}
  /\ call = [c \in Calls |-> "start"]
  /\ request = [c \in Calls |-> None]
  /\ userInfo = [c \in Calls |-> None]
  /\ cookieSweep = Asleep
  /\ captchaSweep = Asleep
  /\ crashes = 0
  /\ passed = [k \in Captchas |-> {}]
  /\ raced = [u \in Users |-> FALSE]

-----------------------------------------------------------------------------
(* A restart: calls under way are gone with the threads and their state    *)
(* (what they asked is kept: their password may be on record).             *)
Restart ==
  /\ crashes' = crashes + 1
  /\ authDB' = flushed[1] /\ moneyDB' = flushed[2]
  /\ cookieDB' = flushed[3] /\ captchaDB' = flushed[4]
  /\ call' = [c \in Calls |->
                IF call[c] \in {"start", "ok", "denied"} THEN call[c] ELSE "denied"]
  /\ userInfo' = [c \in Calls |-> None]
  /\ cookieSweep' = Asleep /\ captchaSweep' = Asleep
  /\ passed' = [k \in Captchas |-> {}]
  /\ UNCHANGED <<flushed, created, expired, request, raced>>

Crash == crashes < MaxCrashes /\ Restart

Flush ==
  /\ flushed # trees
  /\ flushed' = trees
  /\ UNCHANGED <<trees, created, expired, call, locals, threads, crashes,
                 history>>

Goes(c, from, to) == call[c] = from /\ call' = [call EXCEPT ![c] = to]

Is(c, kind) == request[c].kind = kind
Username(c) == request[c].username
CaptchaOf(c) == request[c].captcha

(* create_captcha: the hash of a new image is a new key.                   *)
CreateCaptcha(k) ==
  /\ k \notin created
  /\ created' = created \cup {k}
  /\ captchaDB' = [captchaDB EXCEPT ![k] = "live"]
  /\ UNCHANGED <<authDB, moneyDB, cookieDB, flushed, expired, call, locals,
                 threads, crashes, history>>

-----------------------------------------------------------------------------
(* register and login.                                                     *)

Comes(c, r) ==
  /\ Goes(c, "start", "captcha")
  /\ request' = [request EXCEPT ![c] = r]
  /\ UNCHANGED <<trees, flushed, created, expired, threads, crashes, history>>

(* Mutant: login looks whether the name exists and keeps nothing.          *)
StartUnread(c, r) ==
  /\ r.kind = "login" <=> authDB[r.username] # None
  /\ Comes(c, r)
  /\ UNCHANGED userInfo

(* contains_key in register, get in login.                                 *)
Start(c, r) ==
  /\ \/ r.kind = "register" /\ authDB[r.username] = None /\ UNCHANGED userInfo
     \/ /\ r.kind = "login" /\ authDB[r.username] # None
        /\ userInfo' = [userInfo EXCEPT ![c] = authDB[r.username]]
  /\ Comes(c, r)

(* The name is in the wrong state for it or, in register, is not valid.    *)
Refuse(c, r) ==
  /\ Goes(c, "start", "denied")
  /\ r.kind = "login" => authDB[r.username] = None
  /\ UNCHANGED <<trees, flushed, created, expired, locals, threads, crashes,
                 history>>

Deny(c) ==
  /\ \/ call[c] = "captcha"                \* None, or not the answer
     \/ call[c] = "address"                \* create_address failed
     \/ call[c] = "verify" /\ request[userInfo[c]].password # request[c].password
  /\ call' = [call EXCEPT ![c] = "denied"]
  /\ request' = [request EXCEPT ![c] = None]
  /\ userInfo' = [userInfo EXCEPT ![c] = None]
  /\ UNCHANGED <<trees, flushed, created, expired, threads, crashes, history>>

(* captcha_db.get, and the answer is right: expiration_time is not read.   *)
CheckCaptcha(c) ==
  /\ Goes(c, "captcha", "remove")
  /\ captchaDB[CaptchaOf(c)] # None
  /\ UNCHANGED <<trees, flushed, created, expired, locals, threads,
                 crashes, history>>

(* Mutant: what remove returns is ignored.                                 *)
RemoveCaptchaAnyway(c) ==
  /\ Goes(c, "remove", IF Is(c, "register") THEN "address" ELSE "verify")
  /\ captchaDB' = [captchaDB EXCEPT ![CaptchaOf(c)] = None]
  /\ passed' = [passed EXCEPT ![CaptchaOf(c)] = @ \cup {c}]
  /\ UNCHANGED <<authDB, moneyDB, cookieDB, flushed, created, expired,
                 locals, threads, crashes, raced>>

(* remove(..).unwrap().unwrap()                                            *)
RemoveCaptcha(c) ==
  /\ Goes(c, "remove", IF Is(c, "register") THEN "address" ELSE "verify")
  /\ captchaDB[CaptchaOf(c)] # None
  /\ captchaDB' = [captchaDB EXCEPT ![CaptchaOf(c)] = None]
  /\ passed' = [passed EXCEPT ![CaptchaOf(c)] = @ \cup {c}]
  /\ UNCHANGED <<authDB, moneyDB, cookieDB, flushed, created, expired,
                 locals, threads, crashes, raced>>

NothingToRemove(c) == call[c] = "remove" /\ captchaDB[CaptchaOf(c)] = None

CallPanics(c) == NothingToRemove(c) /\ crashes < MaxCrashes /\ Restart

(* Mutant: the record is left to a later request.                          *)
InsertUserOnly(c) ==
  /\ Goes(c, "address", "cookie")
  /\ authDB' = [authDB EXCEPT ![Username(c)] = c]
  /\ raced' = [raced EXCEPT ![Username(c)] = @ \/ authDB[Username(c)] # None]
  /\ UNCHANGED <<moneyDB, cookieDB, captchaDB, flushed, created, expired,
                 locals, threads, crashes, passed>>

(* The answers of create_address and hash_password are here.               *)
InsertUser(c) ==
  /\ Goes(c, "address", "record")
  /\ authDB' = [authDB EXCEPT ![Username(c)] = c]
  /\ raced' = [raced EXCEPT ![Username(c)] = @ \/ authDB[Username(c)] # None]
  /\ UNCHANGED <<moneyDB, cookieDB, captchaDB, flushed, created, expired,
                 locals, threads, crashes, passed>>

InsertRecord(c) ==
  /\ Goes(c, "record", "cookie")
  /\ moneyDB' = [moneyDB EXCEPT ![Username(c)] = c]
  /\ UNCHANGED <<authDB, cookieDB, captchaDB, flushed, created, expired,
                 locals, threads, crashes, history>>

(* Mutant: any password will do.                                           *)
VerifyNothing(c) ==
  /\ Goes(c, "verify", "cookie")
  /\ userInfo' = [userInfo EXCEPT ![c] = None]
  /\ UNCHANGED <<trees, flushed, created, expired, request, threads, crashes,
                 history>>

Verify(c) ==
  /\ Goes(c, "verify", "cookie")
  /\ request[userInfo[c]].password = request[c].password
  /\ userInfo' = [userInfo EXCEPT ![c] = None]
  /\ UNCHANGED <<trees, flushed, created, expired, request, threads, crashes,
                 history>>

(* generate_auth_cookie: one cookie per user, the last one issued.         *)
GenerateCookie(c) ==
  /\ \/ /\ Goes(c, "cookie", "denied") /\ authDB[Username(c)] = None
        /\ UNCHANGED cookieDB
     \/ /\ Goes(c, "cookie", "ok") /\ authDB[Username(c)] # None
        /\ cookieDB' = [cookieDB EXCEPT ![Username(c)] = c]
  /\ UNCHANGED <<authDB, moneyDB, captchaDB, flushed, created, expired,
                 locals, threads, crashes, history>>

Handle(c) ==
  \/ \E r \in Requests : Start(c, r) \/ Refuse(c, r)
  \/ Deny(c) \/ CheckCaptcha(c) \/ RemoveCaptcha(c) \/ CallPanics(c)
  \/ InsertUser(c) \/ InsertRecord(c) \/ Verify(c)
  \/ GenerateCookie(c)

-----------------------------------------------------------------------------
(* Time, and the two threads.  Each pass compares with the time at which   *)
(* it began: due is what had expired then; left are the keys the iterator  *)
(* has not reached, in any order.  A captcha, unlike a user's cookie, is   *)
(* never replaced: left then has only what had expired.                    *)

CookieExpires(u) ==
  /\ cookieDB[u] # None /\ cookieDB[u] \notin expired
  /\ expired' = expired \cup {cookieDB[u]}
  /\ UNCHANGED <<trees, flushed, created, call, locals, threads, crashes,
                 history>>

CaptchaExpires(k) ==
  /\ captchaDB[k] = "live"
  /\ captchaDB' = [captchaDB EXCEPT ![k] = "expired"]
  /\ UNCHANGED <<authDB, moneyDB, cookieDB, flushed, created, expired, call,
                 locals, threads, crashes, history>>

CookieSweepBegin ==
  /\ cookieSweep.pc = "sleep" /\ expired # {}
  /\ cookieSweep' = [Asleep EXCEPT !.pc = "iter", !.due = expired, !.left = Users,
                             !.live = {cookieDB[u] : u \in Users} \ (expired \cup {None})]
  /\ UNCHANGED <<trees, flushed, created, expired, call, locals,
                 captchaSweep, crashes, history>>

(* Mutant: expiration_time is not read.                                    *)
CookieSweepNextAny(u) ==
  /\ cookieSweep.pc = "iter" /\ u \in cookieSweep.left
  /\ cookieSweep' = IF cookieDB[u] # None
                    THEN [cookieSweep EXCEPT !.pc = "remove", !.key = u]
                    ELSE [cookieSweep EXCEPT !.left = @ \ {u}]
  /\ UNCHANGED <<trees, flushed, created, expired, call, locals,
                 captchaSweep, crashes, history>>

(* The iterator yields the entry of a user, if there is one.               *)
CookieSweepNext(u) ==
  /\ cookieSweep.pc = "iter" /\ u \in cookieSweep.left
  /\ cookieSweep' = IF cookieDB[u] \in cookieSweep.due
                    THEN [cookieSweep EXCEPT !.pc = "remove", !.key = u]
                    ELSE [cookieSweep EXCEPT !.left = @ \ {u}]
  /\ UNCHANGED <<trees, flushed, created, expired, call, locals,
                 captchaSweep, crashes, history>>

(* Mutant: the thread goes on whatever becomes of the remove.              *)
CookieSweepRemoveFails ==
  /\ cookieSweep.pc = "remove"
  /\ cookieSweep' = [cookieSweep EXCEPT !.pc = "iter", !.left = @ \ {cookieSweep.key},
                                        !.key = None]
  /\ UNCHANGED <<trees, flushed, created, expired, call, locals,
                 captchaSweep, crashes, history>>

(* remove by user name, whatever cookie is there by now.                   *)
CookieSweepRemove ==
  /\ cookieSweep.pc = "remove"
  /\ cookieDB' = [cookieDB EXCEPT ![cookieSweep.key] = None]
  /\ cookieSweep' = [cookieSweep EXCEPT !.pc = "iter", !.left = @ \ {cookieSweep.key},
                                        !.key = None]
  /\ UNCHANGED <<authDB, moneyDB, captchaDB, flushed, created, expired,
                 call, locals, captchaSweep, crashes, history>>

CookieSweepEnd ==
  /\ cookieSweep.pc = "iter" /\ cookieSweep.left = {}
  /\ cookieSweep' = Asleep
  /\ UNCHANGED <<trees, flushed, created, expired, call, locals,
                 captchaSweep, crashes, history>>

CookieSweep ==
  \/ CookieSweepBegin \/ CookieSweepRemove \/ CookieSweepEnd
  \/ \E u \in Users : CookieSweepNext(u)

ExpiredCaptchas == {k \in Captchas : captchaDB[k] = "expired"}

CaptchaSweepBegin ==
  /\ captchaSweep.pc = "sleep" /\ ExpiredCaptchas # {}
  /\ captchaSweep' = [Asleep EXCEPT !.pc = "iter", !.left = ExpiredCaptchas]
  /\ UNCHANGED <<trees, flushed, created, expired, call, locals,
                 cookieSweep, crashes, history>>

CaptchaSweepNext(k) ==
  /\ captchaSweep.pc = "iter" /\ k \in captchaSweep.left
  /\ captchaSweep' = IF captchaDB[k] # None
                     THEN [captchaSweep EXCEPT !.pc = "remove", !.key = k]
                     ELSE [captchaSweep EXCEPT !.left = @ \ {k}]
  /\ UNCHANGED <<trees, flushed, created, expired, call, locals,
                 cookieSweep, crashes, history>>

CaptchaSweepRemove ==
  /\ captchaSweep.pc = "remove" /\ captchaDB[captchaSweep.key] # None
  /\ captchaDB' = [captchaDB EXCEPT ![captchaSweep.key] = None]
  /\ captchaSweep' = [captchaSweep EXCEPT !.pc = "iter", !.key = None,
                                          !.left = @ \ {captchaSweep.key}]
  /\ UNCHANGED <<authDB, moneyDB, cookieDB, flushed, created, expired, call,
                 locals, cookieSweep, crashes, history>>

NothingToSweep ==
  captchaSweep.pc = "remove" /\ captchaDB[captchaSweep.key] = None

CaptchaSweepPanics == NothingToSweep /\ crashes < MaxCrashes /\ Restart

CaptchaSweepEnd ==
  /\ captchaSweep.pc = "iter" /\ captchaSweep.left = {}
  /\ captchaSweep' = Asleep
  /\ UNCHANGED <<trees, flushed, created, expired, call, locals,
                 cookieSweep, crashes, history>>

CaptchaSweep ==
  \/ CaptchaSweepBegin \/ CaptchaSweepRemove \/ CaptchaSweepPanics \/ CaptchaSweepEnd
  \/ \E k \in Captchas : CaptchaSweepNext(k)

Next ==
  \/ \E c \in Calls : Handle(c)
  \/ \E u \in Users : CookieExpires(u)
  \/ \E k \in Captchas : CreateCaptcha(k) \/ CaptchaExpires(k)
  \/ CookieSweep \/ CaptchaSweep
  \/ Flush \/ Crash

Spec == Init /\ [][Next]_vars

(* The sweeping thread is scheduled, and its sleep ends.                   *)
FairSpec == Spec /\ WF_vars(CookieSweep)

-----------------------------------------------------------------------------
(* Properties.                                                             *)

(* Between two restarts a captcha lets one call through: a call that finds *)
(* it removed between its get and its remove takes the process down with   *)
(* it, and does not go on.                                                 *)
CaptchaSpentOnce == \A k \in Captchas : Cardinality(passed[k]) <= 1

(* The session of a user belongs to a call that gave the password on       *)
(* record, through crashes and logins, as long as no registration replaced *)
(* the User of another that was under way.                                 *)
SessionIsOwners ==
  \A u \in Users : cookieDB[u] # None /\ ~ raced[u] =>
    /\ authDB[u] # None
    /\ request[cookieDB[u]].password = request[authDB[u]].password

(* A session that register opened has the record that register made, even  *)
(* after a crash: user, record and cookie are written in this order.       *)
RegisteredHasRecord ==
  \A u \in Users : cookieDB[u] # None /\ ~ raced[u] /\ Is(cookieDB[u], "register") =>
    authDB[u] = cookieDB[u] /\ moneyDB[u] = cookieDB[u]

(* An expired cookie is removed or replaced in the end.                    *)
ExpiredCookieGoes ==
  \A u \in Users, c \in Calls :
    (cookieDB[u] = c /\ c \in expired) ~> cookieDB[u] # c

(* A session that was open and had not expired when a pass began is not    *)
(* ended by it, though the thread removes by user name what it saw before  *)
(* and cookies are replaced and expire meanwhile.                          *)
LiveSpared ==
  cookieSweep.pc = "remove" => cookieDB[cookieSweep.key] \notin cookieSweep.live

=============================================================================
