------------------------------ MODULE Accounts ------------------------------
(***************************************************************************)
(* Users, their roles and e-mail addresses (users.go, register.go,         *)
(* profile.go, captcha.go), and the settings of the site that registration *)
(* goes by (site.go).                                                      *)
(*                                                                         *)
(* Administrators create, edit and delete users, people register, and      *)
(* users set and verify their address, each in several statements without  *)
(* a transaction.  E-mail codes and captchas live in memory under mutexes. *)
(* Passwords, tokens, webhooks and names are left out: no property tells   *)
(* them apart.  A deletion is its last statement here (the others are in   *)
(* PointsClaims and ProbeTasks).  Ids are never used twice.                *)
(***************************************************************************)
EXTENDS Integers, FiniteSets

CONSTANTS Users,       \* ids of accounts, given out in order
          Seed,        \* the account created on the first start
          Emails,      \* addresses
          Captchas,    \* ids of captchas
          Req,         \* request handlers in flight at most
          None,
          MaxTry,      \* verifyMaxTry
          Bodies,      \* what PATCH /users/:id may ask for
          First,       \* site settings at first: the stored row, or else setting.json
          Inputs,      \* what PUT /site-settings may ask for
          MaxCode,     \* bound: codes granted
          MaxStarted,  \* bound: requests started
          MaxRestarts  \* bound: restarts of the server

Roles == {"admin", "user"}
Asked(values) == {<<>>} \cup {<<v>> : v \in values}   \* an optional field of a body
Or(asked, old) == IF asked = <<>> THEN old ELSE asked[1]
Body == [email : Asked(Emails \cup {None}), role : Asked(Roles), enabled : Asked(BOOLEAN)]

\* siteSettings; "host": an SMTP host but no user, with which nothing is sent.
\* (Turnstile is a service of its own, and CaptchaOnRegister is on.)
Smtp == {"none", "host", "ready"}
Settings == [open : BOOLEAN, required : BOOLEAN, smtp : Smtp, captcha : {"off", "image"}]
Input == [open : Asked(BOOLEAN), required : Asked(BOOLEAN), smtp : Asked(Smtp),
          captcha : Asked({"off", "image"})]

ASSUME AccountsAssumption ==
    /\ Users \subseteq Nat /\ Seed \in Users /\ None \notin Users \cup Emails \cup Captchas
    /\ Captchas \cap Nat = {}
    /\ MaxTry \in Nat \ {0} /\ Bodies \subseteq Body
    /\ First \in Settings /\ Inputs \subseteq Input
    /\ {MaxCode, MaxStarted, MaxRestarts} \subseteq Nat

VARIABLES users,     \* [Users -> users row, as far as the model tells]
          site,      \* siteConf: the settings in memory
          siteRow,   \* and in the database
          codes,     \* vcodeStore: [Emails -> code under way, or none]
          captchas,  \* captchaStore: captchas waiting for an answer
          granted,   \* codes that were ever granted (names the next one)
          h,         \* what each handler is doing
          started, boots,
          origin,    \* history: who last had a say in the flag EmailVerified
          proved,    \* history: addresses that a user has typed a code of
          crossed,   \* history: users two requests were about at once
          rivals,    \* history: requests of administrators have overlapped
          contended, \* history: since the start, PUTs of the settings have overlapped
          used       \* history: guesses compared with, and requests passed by, a code or captcha

vars == <<users, site, siteRow, contended, codes, captchas, granted, h, started, boots,
          origin, proved, crossed, rivals, used>>
settings == <<site, siteRow, contended>>
memory == <<codes, captchas, granted, used>>
past == <<origin, proved, crossed, rivals>>
bounds == <<started, boots>>

Row == [is : {"new", "live", "gone"}, role : Roles, enabled : BOOLEAN,
        email : Emails \cup {None}, verified : BOOLEAN]
NoRow(is) == [is |-> is, role |-> "user", enabled |-> FALSE, email |-> None, verified |-> FALSE]
NewUser(role, email, verified) ==
    [is |-> "live", role |-> role, enabled |-> TRUE, email |-> email, verified |-> verified]

Live(u) == users[u].is = "live"
Unused == {u \in Users : users[u].is = "new"}
NextId == {u \in Unused : \A v \in Unused : u <= v}
Admins == {u \in Users : Live(u) /\ users[u].role = "admin" /\ users[u].enabled}
HasAnotherEnabledAdmin(u) == Admins \ {u} # {}
Taken(e) == \E u \in Users : Live(u) /\ users[u].email = e

Codes == 1 .. MaxCode
Untouched == [guesses |-> 0, passes |-> 0]
NoCode == [id |-> 0, age |-> "old", tries |-> 0]
Code == [id : 0 .. MaxCode, age : {"hot", "cool", "old"}, tries : 0 .. MaxTry]

NoBody == [email |-> <<>>, role |-> <<>>, enabled |-> <<>>]
Idle == [at |-> "idle", op |-> "none", u |-> None, email |-> None, role |-> "user",
         body |-> NoBody, code |-> 0, flag |-> FALSE, site |-> First]
Handler == [at : {"idle", "role", "enabled", "count", "write", "grant", "mail", "prove", "drop",
                  "save", "apply"},
            op : {"none", "patch", "delete", "register", "send", "profile", "verify",
                  "site"},
            u : Users \cup {None}, email : Emails \cup {None}, role : Roles,
            body : Bodies \cup {NoBody}, code : 0 .. MaxCode, flag : BOOLEAN,
            site : Settings]

Manages(op) == op \in {"patch", "delete"}

\* A request starts; g is what its handler holds after the first read.
Start(r, g) ==
    LET others == {h[q] : q \in Req \ {r}}
    IN  /\ h[r] = Idle /\ started < MaxStarted
        /\ h' = [h EXCEPT ![r] = g]
        /\ started' = started + 1
        /\ crossed' = crossed \cup {u \in Users : g.u = u /\ \E o \in others : o.u = u}
        /\ rivals' = (rivals \/ (Manages(g.op) /\ \E o \in others : Manages(o.op)))
        /\ UNCHANGED <<users, settings, boots, origin, proved>>

Goto(r, at) == h' = [h EXCEPT ![r].at = at]
Done(r) == h' = [h EXCEPT ![r] = Idle]

-----------------------------------------------------------------------------
(* Captchas and e-mail codes. *)

\* GET /admin/captcha.
NewCaptcha ==
    \E x \in Captchas :
        /\ used[x] = Untouched /\ x \notin captchas
        /\ started < MaxStarted /\ started' = started + 1
        /\ captchas' = captchas \cup {x}
        /\ UNCHANGED <<users, settings, codes, granted, h, boots, past, used>>

\* verifyImageCaptcha: the captcha is dropped under the lock, then the answer
\* is looked at.
Solve(x, right) ==
    /\ captchas' = captchas \ {x}
    /\ used' = IF x \in captchas
               THEN [used EXCEPT ![x].guesses = @ + 1,
                                 ![x].passes = IF right THEN @ + 1 ELSE @]
               ELSE used
    /\ UNCHANGED <<codes, granted>>
Solved(x, right) == right /\ x \in captchas

\* grantCode: not within a minute of the last one, which a new one replaces.
CanGrant(e) == ~(codes[e].id # 0 /\ codes[e].age = "hot")
GrantCode(r) ==
    LET e == h[r].email
    IN  /\ h[r].at = "grant"
        /\ IF ~CanGrant(e)
           THEN Done(r) /\ UNCHANGED memory
           ELSE /\ granted < MaxCode
                /\ granted' = granted + 1
                /\ codes' = [codes EXCEPT ![e] = [id |-> granted', age |-> "hot", tries |-> 0]]
                /\ h' = [h EXCEPT ![r].at = "mail", ![r].code = granted']
                /\ UNCHANGED <<captchas, used>>
        /\ UNCHANGED <<users, settings, bounds, past>>

\* sendMail: when it fails the code is deleted, if it is still this one.
MailSent(r) ==
    /\ h[r].at = "mail" /\ Done(r)
    /\ site.smtp # "none"
    /\ UNCHANGED <<users, settings, memory, bounds, past>>
MailFailed(r) ==
    LET e == h[r].email
    IN  /\ h[r].at = "mail" /\ Done(r)
        /\ codes' = [codes EXCEPT ![e] = IF @.id = h[r].code THEN NoCode ELSE @]
        /\ UNCHANGED <<users, settings, captchas, granted, used, bounds, past>>

\* verifyEmailCode: an attempt is counted before it is compared; a code that
\* is right, too old, or tried too often is deleted.
Mut_CodeKept(e, right) ==
    LET c == codes[e]
        counted == [c EXCEPT !.tries = @ + 1]
        open == c.id # 0 /\ c.age # "old" /\ c.tries < MaxTry
    IN  /\ codes' = [codes EXCEPT ![e] = IF open THEN counted ELSE NoCode]
        /\ used' = IF open THEN [used EXCEPT ![c.id].guesses = @ + 1,
                                             ![c.id].passes = IF right THEN @ + 1 ELSE @]
                   ELSE used
        /\ UNCHANGED <<captchas, granted>>
Verify(e, right) ==
    LET c == codes[e]
        counted == [c EXCEPT !.tries = @ + 1]
        open == c.id # 0 /\ c.age # "old" /\ c.tries < MaxTry
    IN  /\ codes' = [codes EXCEPT ![e] = IF open /\ ~right THEN counted ELSE NoCode]
        /\ used' = IF open THEN [used EXCEPT ![c.id].guesses = @ + 1,
                                             ![c.id].passes = IF right THEN @ + 1 ELSE @]
                   ELSE used
        /\ UNCHANGED <<captchas, granted>>
Verified(e, right) ==
    right /\ codes[e].id # 0 /\ codes[e].age # "old" /\ codes[e].tries < MaxTry

\* A minute passes, and then the rest of the five of the code's life.
Age(e) ==
    /\ codes[e].id # 0 /\ codes[e].age # "old"
    /\ codes' = [codes EXCEPT ![e].age = IF @ = "hot" THEN "cool" ELSE "old"]
    /\ UNCHANGED <<users, settings, captchas, granted, used, h, bounds, past>>

-----------------------------------------------------------------------------
(* Registration. *)

\* checkCaptcha, as the settings say now.
CheckCaptcha(x, right) == IF site.captcha = "image" THEN Solve(x, right) ELSE UNCHANGED memory
Human(x, right) == site.captcha = "off" \/ Solved(x, right)

\* POST /admin/register/send-code: captcha, then name and address, then a code.
SendCode(r, e, x, right) ==
    /\ site.open /\ site.required /\ site.smtp = "ready"
    /\ CheckCaptcha(x, right)
    /\ Start(r, IF Human(x, right) /\ ~Taken(e)
                THEN [Idle EXCEPT !.at = "grant", !.op = "send", !.email = e]
                ELSE Idle)

\* POST /admin/register: the address is looked up, ...
StartRegister(r, e) ==
    /\ site.open /\ ~Taken(e)
    /\ Start(r, [Idle EXCEPT !.at = "prove", !.op = "register", !.email = e])
    /\ UNCHANGED memory

\* ... a code or a captcha is asked for, as the settings say now, ...
ProveRegister(r, x, right) ==
    LET e == h[r].email
        ok == IF site.required THEN Verified(e, right) ELSE Human(x, right)
    IN  /\ h[r].at = "prove" /\ h[r].op = "register"
        /\ IF site.required THEN Verify(e, right) ELSE CheckCaptcha(x, right)
        /\ IF ok THEN h' = [h EXCEPT ![r].at = "write", ![r].flag = site.required]
           ELSE Done(r)
        /\ UNCHANGED <<users, settings, bounds, past>>

\* ... and the row is created.
CreateRegistered(r) ==
    LET e == h[r].email
    IN  /\ h[r].at = "write" /\ h[r].op = "register"
        /\ \E u \in NextId :
              /\ users' = [users EXCEPT ![u] = NewUser("user", e, h[r].flag)]
              /\ origin' = [origin EXCEPT ![u] = IF h[r].flag THEN "code" ELSE "none"]
              /\ proved' = [proved EXCEPT ![u] = IF h[r].flag THEN {e} ELSE {}]
        /\ Done(r)
        /\ UNCHANGED <<settings, memory, bounds, crossed, rivals>>

-----------------------------------------------------------------------------
(* The settings of the site. *)

\* merge: what is asked for goes into the settings of now, and the whole of it
\* is looked at.
Merge(in) == [open |-> Or(in.open, site.open), required |-> Or(in.required, site.required),
              smtp |-> Or(in.smtp, site.smtp), captcha |-> Or(in.captcha, site.captcha)]
Allowed(s) == s.open /\ s.required => s.smtp # "none"

\* PUT /site-settings: merged and looked at, ...
StartSite(r, in) ==
    /\ Allowed(Merge(in))
    /\ Start(r, [Idle EXCEPT !.at = "save", !.op = "site", !.site = Merge(in)])
    /\ UNCHANGED memory

\* ... saved, ...
SaveSite(r) ==
    /\ h[r].at = "save"
    /\ siteRow' = h[r].site
    /\ Goto(r, "apply")
    /\ UNCHANGED <<users, site, contended, memory, bounds, past>>

\* ... and taken over.
ApplySite(r) ==
    /\ h[r].at = "apply"
    /\ site' = h[r].site
    /\ contended' = (contended \/ \E q \in Req \ {r} : h[q].op = "site")
    /\ Done(r)
    /\ UNCHANGED <<users, siteRow, memory, bounds, past>>

-----------------------------------------------------------------------------
(* Administrators. *)

\* POST /users.
CreateUser(role, e) ==
    /\ started < MaxStarted /\ started' = started + 1
    /\ \E u \in NextId : users' = [users EXCEPT ![u] = NewUser(role, e, FALSE)]
    /\ UNCHANGED <<settings, memory, h, boots, past>>

\* PATCH /users/:id, by me (None: the static token): nobody demotes or
\* disables their own account.
StartPatch(r, u, me, body) ==
    /\ Live(u)
    /\ me = u => body.role # <<"user">> /\ body.enabled # <<FALSE>>
    /\ body # NoBody
    /\ Start(r, [Idle EXCEPT !.at = "role", !.op = "patch", !.u = u,
                             !.role = users[u].role, !.body = body])
    /\ UNCHANGED memory

\* The role as it was read decides whether another administrator is looked for.
CheckRole(r) ==
    /\ h[r].at = "role"
    /\ IF h[r].body.role = <<"user">> /\ h[r].role = "admin"
          /\ ~HasAnotherEnabledAdmin(h[r].u)
       THEN Done(r) ELSE Goto(r, "enabled")
    /\ UNCHANGED <<users, settings, memory, bounds, past>>

Mut_DisableUnchecked(r) ==
    /\ h[r].at = "enabled"
    /\ Goto(r, "write")
    /\ UNCHANGED <<users, settings, memory, bounds, past>>
CheckEnabled(r) ==
    /\ h[r].at = "enabled"
    /\ IF h[r].body.enabled = <<FALSE>> /\ h[r].role = "admin"
          /\ ~HasAnotherEnabledAdmin(h[r].u)
       THEN Done(r) ELSE Goto(r, "write")
    /\ UNCHANGED <<users, settings, memory, bounds, past>>

\* UPDATE of the columns that were asked for, by id; the flag stays.
Patched(row, body) ==
    [row EXCEPT !.email = Or(body.email, @), !.role = Or(body.role, @),
                !.enabled = Or(body.enabled, @)]

UpdatePatched(r) ==
    LET u == h[r].u
        body == h[r].body
    IN  /\ h[r].at = "write" /\ h[r].op = "patch"
        /\ users' = [users EXCEPT ![u] = IF Live(u) THEN Patched(@, body) ELSE @]
        /\ origin' = [origin EXCEPT ![u] = IF body.email # <<>> THEN "admin" ELSE @]
        /\ Done(r)
        /\ UNCHANGED <<settings, memory, bounds, proved, crossed, rivals>>

\* DELETE /users/:id: the row, whether another administrator is left, the rest.
StartDelete(r, u, me) ==
    /\ Live(u) /\ me # u
    /\ Start(r, [Idle EXCEPT !.at = "count", !.op = "delete", !.u = u, !.role = users[u].role])
    /\ UNCHANGED memory

CountAdmins(r) ==
    /\ h[r].at = "count"
    /\ IF h[r].role = "admin" /\ ~HasAnotherEnabledAdmin(h[r].u)
       THEN Done(r) ELSE Goto(r, "drop")
    /\ UNCHANGED <<users, settings, memory, bounds, past>>

DropUser(r) ==
    /\ h[r].at = "drop"
    /\ users' = [users EXCEPT ![h[r].u] = NoRow("gone")]
    /\ Done(r)
    /\ UNCHANGED <<settings, memory, bounds, past>>

-----------------------------------------------------------------------------
(* The user's own profile. *)

\* PATCH /me: another address than the one that was read loses the flag.
Mut_FlagKept(r, u, e) ==
    /\ Live(u)
    /\ Start(r, [Idle EXCEPT !.at = "write", !.op = "profile", !.u = u, !.email = e,
                             !.flag = (e = None)])
    /\ UNCHANGED memory
StartProfile(r, u, e) ==
    /\ Live(u)
    /\ Start(r, [Idle EXCEPT !.at = "write", !.op = "profile", !.u = u, !.email = e,
                             !.flag = (e # None /\ e # users[u].email)])
    /\ UNCHANGED memory

Profiled(row, email, reset) == [row EXCEPT !.email = email, !.verified = @ /\ ~reset]

UpdateProfile(r) ==
    LET u == h[r].u
        reset == h[r].flag
    IN  /\ h[r].at = "write" /\ h[r].op = "profile"
        /\ users' = [users EXCEPT ![u] = IF Live(u) THEN Profiled(@, h[r].email, reset) ELSE @]
        /\ origin' = [origin EXCEPT ![u] = IF reset THEN "none" ELSE @]
        /\ Done(r)
        /\ UNCHANGED <<settings, memory, bounds, proved, crossed, rivals>>

\* POST /me/verify/send.
StartSend(r, u) ==
    /\ Live(u) /\ users[u].email # None /\ site.smtp = "ready"
    /\ Start(r, [Idle EXCEPT !.at = "grant", !.op = "send", !.u = u, !.email = users[u].email])
    /\ UNCHANGED memory

\* POST /me/verify: the address is read, the code compared, the flag set by id.
StartVerify(r, u) ==
    /\ Live(u) /\ users[u].email # None
    /\ Start(r, [Idle EXCEPT !.at = "prove", !.op = "verify", !.u = u,
                             !.email = users[u].email])
    /\ UNCHANGED memory

ProveVerify(r, right) ==
    LET e == h[r].email
    IN  /\ h[r].at = "prove" /\ h[r].op = "verify"
        /\ Verify(e, right)
        /\ IF Verified(e, right)
           THEN Goto(r, "write") /\ proved' = [proved EXCEPT ![h[r].u] = @ \cup {e}]
           ELSE Done(r) /\ UNCHANGED proved
        /\ UNCHANGED <<users, settings, bounds, origin, crossed, rivals>>

SetVerified(r) ==
    LET u == h[r].u
    IN  /\ h[r].at = "write" /\ h[r].op = "verify"
        /\ users' = [users EXCEPT ![u].verified = @ \/ Live(u)]
        /\ origin' = [origin EXCEPT ![u] = "code"]
        /\ Done(r)
        /\ UNCHANGED <<settings, memory, bounds, proved, crossed, rivals>>

-----------------------------------------------------------------------------
\* backfillEmailVerified, on every start: an account with an address is verified.
Backfilled(row) ==
    [row EXCEPT !.verified = @ \/ (row.is = "live" /\ row.email # None)]

\* A restart forgets handlers, codes and captchas; seedUsers creates an
\* administrator only when the table is empty.
Restart ==
    /\ boots < MaxRestarts /\ boots' = boots + 1
    /\ h' = [r \in Req |-> Idle]
    /\ codes' = [e \in Emails |-> NoCode] /\ captchas' = {}
    /\ site' = siteRow /\ contended' = FALSE
    /\ \/ /\ \E u \in Users : Live(u)
          /\ users' = [u \in Users |-> Backfilled(users[u])]
       \/ /\ \A u \in Users : ~Live(u)
          /\ \E u \in NextId : users' = [users EXCEPT ![u] = NewUser("admin", None, FALSE)]
    /\ origin' = [u \in Users |-> IF users'[u].verified # users[u].verified THEN "boot"
                                  ELSE origin[u]]
    /\ UNCHANGED <<siteRow, granted, started, proved, crossed, rivals, used>>

Init ==
    /\ users = [u \in Users |-> IF u = Seed THEN NewUser("admin", None, FALSE)
                                ELSE NoRow("new")]
    /\ site = First /\ siteRow = First /\ contended = FALSE
    /\ codes = [e \in Emails |-> NoCode] /\ captchas = {} /\ granted = 0
    /\ h = [r \in Req |-> Idle]
    /\ started = 0 /\ boots = 0
    /\ origin = [u \in Users |-> "none"] /\ proved = [u \in Users |-> {}]
    /\ crossed = {} /\ rivals = FALSE
    /\ used = [x \in Codes \cup Captchas |-> Untouched]

Registration(r) ==
    \/ \E e \in Emails : StartRegister(r, e)
    \/ \E e \in Emails, x \in Captchas, right \in BOOLEAN : SendCode(r, e, x, right)
    \/ \E x \in Captchas, right \in BOOLEAN : ProveRegister(r, x, right)
    \/ CreateRegistered(r)

Management(r) ==
    \/ /\ h[r] = Idle
       /\ \E u \in Users, me \in Admins \cup {None} :
             StartDelete(r, u, me) \/ \E body \in Bodies : StartPatch(r, u, me, body)
    \/ CheckRole(r) \/ CheckEnabled(r) \/ UpdatePatched(r)
    \/ CountAdmins(r) \/ DropUser(r)

Profile(r) ==
    \/ \E u \in Users, e \in Emails \cup {None} : StartProfile(r, u, e)
    \/ \E u \in Users : StartSend(r, u) \/ StartVerify(r, u)
    \/ GrantCode(r) \/ MailSent(r) \/ MailFailed(r)
    \/ \E right \in BOOLEAN : ProveVerify(r, right)
    \/ UpdateProfile(r) \/ SetVerified(r)

Next ==
    \/ \E r \in Req : Registration(r) \/ Management(r) \/ Profile(r)
    \/ \E role \in Roles, e \in Emails \cup {None} : CreateUser(role, e)
    \/ \E r \in Req : (\E in \in Inputs : StartSite(r, in)) \/ SaveSite(r) \/ ApplySite(r)
    \/ NewCaptcha \/ Restart
    \/ \E e \in Emails : Age(e)

Spec == Init /\ [][Next]_vars

-----------------------------------------------------------------------------
\* The types of the variables; a code under way is one that was granted.
TypeOK ==
    /\ users \in [Users -> Row] /\ {site, siteRow} \subseteq Settings /\ contended \in BOOLEAN
    /\ codes \in [Emails -> Code] /\ captchas \subseteq Captchas /\ granted \in 0 .. MaxCode
    /\ h \in [Req -> Handler]
    /\ started \in 0 .. MaxStarted /\ boots \in 0 .. MaxRestarts
    /\ origin \in [Users -> {"none", "code", "admin", "boot"}]
    /\ proved \in [Users -> SUBSET Emails] /\ crossed \subseteq Users /\ rivals \in BOOLEAN
    /\ used \in [Codes \cup Captchas -> [guesses : Nat, passes : Nat]]
    /\ \A e \in Emails : codes[e].id <= granted

\* "must keep at least one enabled admin" (users.go:289): unless requests of
\* administrators overlap, somebody can still manage users, whatever roles,
\* switches and deletions came before; hasAnotherEnabledAdmin counts first and
\* the change is made later.
AdminRemains == rivals \/ Admins # {}

\* emailVerifiedBlocked (users.go:161): nobody with an address gets past it.
EmailVerifiedBlocked(u) ==
    users[u].role = "user" /\ users[u].email # None /\ ~users[u].verified

\* The gate lets a user with an address through only when that user has typed
\* a code sent to this very address, unless an administrator set the address,
\* a restart verified it, or requests about the user overlapped.
VerifiedByOwner ==
    \A u \in Users :
        Live(u) /\ users[u].role = "user" /\ users[u].email # None /\ ~EmailVerifiedBlocked(u)
        => \/ users[u].email \in proved[u]
           \/ origin[u] \in {"admin", "boot"}
           \/ u \in crossed

\* A code or captcha lets one request pass, of all that race with it, and none
\* is compared with more than verifyMaxTry guesses (register.go:92, captcha.go:102).
SpentOnce ==
    \A x \in Codes \cup Captchas :
        /\ used[x].passes <= 1
        /\ used[x].guesses <= IF x \in Codes THEN MaxTry ELSE 1

\* A code that is under way in the store is not one that has let somebody pass.
OpenCodesUnspent == \A e \in Emails : codes[e].id # 0 => used[codes[e].id].passes = 0

\* "开放注册且要求邮箱验证时必须先配置 SMTP" (site.go:218), whatever is saved after the first
\* settings, by how many at once; and what is in force is what is stored, in
\* between two PUTs and after a restart, unless PUTs have overlapped.
SettingsInOrder ==
    /\ {site, siteRow} \subseteq {s \in Settings : s = First \/ Allowed(s)}
    /\ ~contended /\ (\A r \in Req : h[r].at # "apply") => site = siteRow

\* Rows have their types, codes and captchas serve once (register.go:80-106,
\* captcha.go:103-118), and the settings are in order (site.go:66-90, 160-220).
AccountsInv == TypeOK /\ OpenCodesUnspent /\ SpentOnce /\ SettingsInOrder
=============================================================================
