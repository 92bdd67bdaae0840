--------------------------- MODULE AccountsProofs ---------------------------
(***************************************************************************)
(* Users, codes and settings of Accounts for any number of users,          *)
(* addresses, captchas and handlers: rows keep their types, a code or      *)
(* captcha serves once, the settings stay in order, an administrator       *)
(* remains, and an address that counts as verified was proved.             *)
(***************************************************************************)
EXTENDS Accounts, TLAPS

\* The types, by what changes together.
UsersOK == /\ users \in [Users -> Row]
           /\ origin \in [Users -> {"none", "code", "admin", "boot"}]
           /\ proved \in [Users -> SUBSET Emails]
SiteOK == site \in Settings /\ siteRow \in Settings /\ contended \in BOOLEAN
Use == [guesses : Nat, passes : Nat]
MemoryOK == /\ codes \in [Emails -> Code] /\ captchas \subseteq Captchas
            /\ granted \in 0 .. MaxCode
            /\ used \in [Codes \cup Captchas -> Use]
HandlersOK == h \in [Req -> Handler]
BoundsOK == /\ started \in 0 .. MaxStarted /\ boots \in 0 .. MaxRestarts
            /\ crossed \subseteq Users /\ rivals \in BOOLEAN

RowsOK == UsersOK /\ SiteOK /\ MemoryOK /\ HandlersOK /\ BoundsOK

-----------------------------------------------------------------------------
\* A handler moves on to s, and the others stay where they are.
Moves(r, s) == h'[r] = s /\ \A q \in Req : q # r => h'[q] = h[q]

LEMMA MovesType ==
    ASSUME HandlersOK, NEW r \in Req, NEW s \in Handler, h' = [h EXCEPT ![r] = s]
    PROVE  HandlersOK' /\ Moves(r, s)
BY DEF HandlersOK, Moves

LEMMA GotoType ==
    ASSUME HandlersOK, NEW r \in Req,
           NEW at \in {"enabled", "write", "drop", "apply"}, Goto(r, at)
    PROVE  /\ HandlersOK'
           /\ Moves(r, [h[r] EXCEPT !.at = at])
           /\ h'[r].at = at /\ h'[r].op = h[r].op /\ h'[r].u = h[r].u
           /\ h'[r].email = h[r].email /\ h'[r].role = h[r].role
           /\ h'[r].body = h[r].body /\ h'[r].code = h[r].code
           /\ h'[r].flag = h[r].flag /\ h'[r].site = h[r].site
<1> DEFINE s == [h[r] EXCEPT !.at = at]
<1>1. h[r] \in Handler
  BY DEF HandlersOK
<1>2. /\ s \in Handler
      /\ s.at = at /\ s.op = h[r].op /\ s.u = h[r].u
      /\ s.email = h[r].email /\ s.role = h[r].role
      /\ s.body = h[r].body /\ s.code = h[r].code
      /\ s.flag = h[r].flag /\ s.site = h[r].site
  BY <1>1 DEF Handler
<1>3. h' = [h EXCEPT ![r] = s]
  BY DEF Goto
<1> HIDE DEF s
<1>4. HandlersOK' /\ Moves(r, s)
  BY <1>2, <1>3, MovesType
<1> QED
  BY <1>2, <1>4 DEF Moves, s

\* The handler that does nothing, and those that a request starts with.
LEMMA IdleIsHandler ==
    /\ Idle \in Handler /\ Idle.at = "idle" /\ Idle.op = "none" /\ Idle.u = None
    /\ Idle.email = None /\ Idle.role = "user" /\ Idle.body = NoBody /\ Idle.code = 0
    /\ Idle.flag = FALSE /\ Idle.site = First
<1>1. First \in Settings
  BY AccountsAssumption
<1>2. NoBody \in Bodies \cup {NoBody} /\ 0 \in 0 .. MaxCode /\ "user" \in Roles
  BY AccountsAssumption DEF Roles
<1> HIDE DEF NoBody, Settings, Roles
<1> QED
  BY <1>1, <1>2 DEF Idle, Handler

\* What a request starts with.
ForSend(e) == [Idle EXCEPT !.at = "grant", !.op = "send", !.email = e]
ForRegister(e) == [Idle EXCEPT !.at = "prove", !.op = "register", !.email = e]
ForSite(s) == [Idle EXCEPT !.at = "save", !.op = "site", !.site = s]
ForPatch(u, role, body) ==
    [Idle EXCEPT !.at = "role", !.op = "patch", !.u = u, !.role = role, !.body = body]
ForDelete(u, role) == [Idle EXCEPT !.at = "count", !.op = "delete", !.u = u, !.role = role]
ForProfile(u, e, flag) ==
    [Idle EXCEPT !.at = "write", !.op = "profile", !.u = u, !.email = e, !.flag = flag]
ForMySend(u, e) == [Idle EXCEPT !.at = "grant", !.op = "send", !.u = u, !.email = e]
ForVerify(u, e) == [Idle EXCEPT !.at = "prove", !.op = "verify", !.u = u, !.email = e]

LEMMA ForSite1 ==
    ASSUME NEW s \in Settings
    PROVE  /\ ForSite(s) \in Handler /\ ForSite(s).at = "save" /\ ForSite(s).op = "site"
           /\ ForSite(s).u = None /\ ForSite(s).site = s
BY IdleIsHandler DEF ForSite, Handler

LEMMA ForNobody ==
    ASSUME NEW e \in Emails
    PROVE  /\ ForSend(e) \in Handler /\ ForSend(e).at = "grant" /\ ForSend(e).op = "send"
           /\ ForSend(e).u = None /\ ForSend(e).email = e
           /\ ForRegister(e) \in Handler /\ ForRegister(e).at = "prove"
           /\ ForRegister(e).op = "register" /\ ForRegister(e).u = None
           /\ ForRegister(e).email = e
<1>1. /\ ForSend(e) \in Handler /\ ForSend(e).at = "grant" /\ ForSend(e).op = "send"
      /\ ForSend(e).u = None /\ ForSend(e).email = e
  BY IdleIsHandler DEF ForSend, Handler
<1>2. /\ ForRegister(e) \in Handler /\ ForRegister(e).at = "prove"
      /\ ForRegister(e).op = "register" /\ ForRegister(e).u = None
      /\ ForRegister(e).email = e
  BY IdleIsHandler DEF ForRegister, Handler
<1> QED
  BY <1>1, <1>2

LEMMA ForPatchIs ==
    ASSUME NEW u \in Users, NEW role \in Roles, NEW body \in Bodies
    PROVE  /\ ForPatch(u, role, body) \in Handler /\ ForPatch(u, role, body).at = "role"
           /\ ForPatch(u, role, body).op = "patch" /\ ForPatch(u, role, body).u = u
           /\ ForPatch(u, role, body).role = role /\ ForPatch(u, role, body).body = body
BY IdleIsHandler DEF ForPatch, Handler

LEMMA ForDeleteIs ==
    ASSUME NEW u \in Users, NEW role \in Roles
    PROVE  /\ ForDelete(u, role) \in Handler /\ ForDelete(u, role).at = "count"
           /\ ForDelete(u, role).op = "delete" /\ ForDelete(u, role).u = u
           /\ ForDelete(u, role).role = role
BY IdleIsHandler DEF ForDelete, Handler

LEMMA ForProfileIs ==
    ASSUME NEW u \in Users, NEW e \in Emails \cup {None}, NEW flag \in BOOLEAN
    PROVE  /\ ForProfile(u, e, flag) \in Handler /\ ForProfile(u, e, flag).at = "write"
           /\ ForProfile(u, e, flag).op = "profile" /\ ForProfile(u, e, flag).u = u
           /\ ForProfile(u, e, flag).email = e /\ ForProfile(u, e, flag).flag = flag
BY IdleIsHandler DEF ForProfile, Handler

LEMMA ForMySendIs ==
    ASSUME NEW u \in Users, NEW e \in Emails
    PROVE  /\ ForMySend(u, e) \in Handler /\ ForMySend(u, e).at = "grant"
           /\ ForMySend(u, e).op = "send" /\ ForMySend(u, e).u = u
           /\ ForMySend(u, e).email = e
BY IdleIsHandler DEF ForMySend, Handler

LEMMA ForVerifyIs ==
    ASSUME NEW u \in Users, NEW e \in Emails
    PROVE  /\ ForVerify(u, e) \in Handler /\ ForVerify(u, e).at = "prove"
           /\ ForVerify(u, e).op = "verify" /\ ForVerify(u, e).u = u
           /\ ForVerify(u, e).email = e
BY IdleIsHandler DEF ForVerify, Handler

LEMMA DoneType ==
    ASSUME HandlersOK, NEW r \in Req, Done(r)
    PROVE  HandlersOK' /\ Moves(r, Idle)
BY IdleIsHandler, MovesType DEF Done

LEMMA StartType ==
    ASSUME HandlersOK, BoundsOK, NEW r \in Req, NEW g \in Handler, Start(r, g)
    PROVE  /\ HandlersOK' /\ Moves(r, g) /\ BoundsOK'
           /\ h[r] = Idle
           /\ UNCHANGED <<users, settings, boots, origin, proved>>
<1>1. h' = [h EXCEPT ![r] = g] /\ h[r] = Idle
  BY DEF Start
<1>2. started' \in 0 .. MaxStarted
  BY AccountsAssumption DEF Start, BoundsOK
<1>3. crossed' \subseteq Users /\ rivals' \in BOOLEAN
  BY DEF Start, BoundsOK, Manages
<1>4. UNCHANGED <<users, settings, boots, origin, proved>>
  BY DEF Start
<1> QED
  BY <1>1, <1>2, <1>3, <1>4, MovesType DEF BoundsOK, settings


LEMMA AtWriteType ==
    ASSUME HandlersOK, NEW r \in Req, NEW b \in BOOLEAN,
           h' = [h EXCEPT ![r].at = "write", ![r].flag = b]
    PROVE  /\ HandlersOK'
           /\ Moves(r, [h[r] EXCEPT !.at = "write", !.flag = b])
           /\ h'[r].at = "write" /\ h'[r].op = h[r].op /\ h'[r].u = h[r].u
           /\ h'[r].email = h[r].email /\ h'[r].flag = b /\ h'[r].site = h[r].site
<1> DEFINE s == [h[r] EXCEPT !.at = "write", !.flag = b]
<1>1. h[r] \in Handler
  BY DEF HandlersOK
<1>2. /\ s \in Handler
      /\ s.at = "write" /\ s.op = h[r].op /\ s.u = h[r].u
      /\ s.email = h[r].email /\ s.flag = b /\ s.site = h[r].site
  BY <1>1 DEF Handler
<1>3. h' = [h EXCEPT ![r] = s]
  BY DEF HandlersOK
<1> HIDE DEF s
<1>4. HandlersOK' /\ Moves(r, s)
  BY <1>2, <1>3, MovesType
<1> QED
  BY <1>2, <1>4 DEF Moves, s

LEMMA AtMailType ==
    ASSUME HandlersOK, NEW r \in Req, NEW c \in 0 .. MaxCode,
           h' = [h EXCEPT ![r].at = "mail", ![r].code = c]
    PROVE  /\ HandlersOK'
           /\ Moves(r, [h[r] EXCEPT !.at = "mail", !.code = c])
           /\ h'[r].at = "mail" /\ h'[r].op = h[r].op /\ h'[r].u = h[r].u
           /\ h'[r].email = h[r].email /\ h'[r].flag = h[r].flag /\ h'[r].site = h[r].site
<1> DEFINE s == [h[r] EXCEPT !.at = "mail", !.code = c]
<1>1. h[r] \in Handler
  BY DEF HandlersOK
<1>2. /\ s \in Handler
      /\ s.at = "mail" /\ s.op = h[r].op /\ s.u = h[r].u
      /\ s.email = h[r].email /\ s.flag = h[r].flag /\ s.site = h[r].site
  BY <1>1 DEF Handler
<1>3. h' = [h EXCEPT ![r] = s]
  BY DEF HandlersOK
<1> HIDE DEF s
<1>4. HandlersOK' /\ Moves(r, s)
  BY <1>2, <1>3, MovesType
<1> QED
  BY <1>2, <1>4 DEF Moves, s

-----------------------------------------------------------------------------
(* Codes and captchas. *)

\* A code under way counts in tries the guesses it was compared with, and has
\* let nobody pass; each has its own id; what is not yet granted, or waits for
\* its answer, is untouched.
CodesCounted ==
    \A e \in Emails : codes[e].id # 0 =>
        /\ used[codes[e].id].passes = 0 /\ used[codes[e].id].guesses = codes[e].tries
        /\ codes[e].id <= granted
CodesDistinct ==
    \A e, f \in Emails : codes[e].id = codes[f].id /\ codes[e].id # 0 => e = f
UngrantedUntouched == \A x \in Codes : x > granted => used[x] = Untouched
CaptchasUntouched == \A x \in captchas : used[x] = Untouched
MemoryInv == /\ MemoryOK /\ CodesCounted /\ CodesDistinct /\ UngrantedUntouched
             /\ CaptchasUntouched /\ SpentOnce

LEMMA MemoryConstants ==
    /\ NoCode \in Code /\ NoCode.id = 0
    /\ Untouched \in Use /\ Untouched.guesses = 0 /\ Untouched.passes = 0
    /\ \A x \in Captchas : x \notin Codes
    /\ \A x \in Codes : x \notin Captchas /\ x # 0 /\ x \in Nat
    /\ MaxTry \in Nat /\ MaxTry > 0 /\ MaxCode \in Nat
<1>1. MaxTry \in Nat /\ MaxTry > 0 /\ MaxCode \in Nat /\ Captchas \cap Nat = {}
  BY AccountsAssumption
<1>2. NoCode \in Code /\ NoCode.id = 0
  BY <1>1 DEF NoCode, Code
<1>3. Untouched \in Use /\ Untouched.guesses = 0 /\ Untouched.passes = 0
  BY DEF Untouched, Use
<1>4. \A x \in Codes : x # 0 /\ x \in Nat
  BY <1>1 DEF Codes
<1> QED
  BY <1>1, <1>2, <1>3, <1>4

\* The count of one code or captcha goes up by a guess, and by a pass if right.
Guessed(x, right) ==
    [used[x] EXCEPT !.guesses = @ + 1, !.passes = IF right THEN @ + 1 ELSE @]

LEMMA GuessedIs ==
    ASSUME used \in [Codes \cup Captchas -> Use], NEW x \in Codes \cup Captchas,
           NEW right \in BOOLEAN,
           used' = [used EXCEPT ![x].guesses = @ + 1,
                                ![x].passes = IF right THEN @ + 1 ELSE @]
    PROVE  /\ used' \in [Codes \cup Captchas -> Use]
           /\ \A y \in Codes \cup Captchas : y # x => used'[y] = used[y]
           /\ used'[x].guesses = used[x].guesses + 1
           /\ used'[x].passes = used[x].passes + (IF right THEN 1 ELSE 0)
<1> DEFINE g == Guessed(x, right)
<1>1. used[x] \in Use
  OBVIOUS
<1>2. /\ g \in Use /\ g.guesses = used[x].guesses + 1
      /\ g.passes = used[x].passes + (IF right THEN 1 ELSE 0)
  <2> DEFINE p == IF right THEN used[x].passes + 1 ELSE used[x].passes
  <2>1. p \in Nat /\ p = used[x].passes + (IF right THEN 1 ELSE 0)
    BY <1>1 DEF Use
  <2>2. g = [used[x] EXCEPT !.guesses = used[x].guesses + 1, !.passes = p]
    BY DEF Guessed
  <2> DEFINE n == used[x].guesses + 1
              o == used[x]
  <2>3. n \in Nat /\ o \in Use /\ g = [o EXCEPT !.guesses = n, !.passes = p]
    BY <1>1, <2>2 DEF Use
  <2> HIDE DEF p, g, n, o
  <2>4. g \in Use /\ g.guesses = n /\ g.passes = p
    BY <2>1, <2>3 DEF Use
  <2> QED
    BY <2>1, <2>4 DEF n
<1>3. used' = [used EXCEPT ![x] = g]
  BY DEF Guessed
<1> HIDE DEF g
<1> QED
  BY <1>2, <1>3


\* A code that ages, or is dropped, is no other code.
LEMMA CodeKept ==
    ASSUME MemoryInv, NEW e \in Emails, NEW c \in Code,
           codes' = [codes EXCEPT ![e] = c],
           c.id = 0 \/ (c.id = codes[e].id /\ c.tries = codes[e].tries),
           UNCHANGED <<captchas, granted, used>>
    PROVE  MemoryInv'
<1>1. codes \in [Emails -> Code] /\ codes' \in [Emails -> Code]
      /\ codes'[e] = c /\ \A f \in Emails : f # e => codes'[f] = codes[f]
  BY DEF MemoryInv, MemoryOK
<1>2. MemoryOK'
  BY <1>1 DEF MemoryInv, MemoryOK
<1>3. CodesCounted'
  BY <1>1 DEF MemoryInv, CodesCounted
<1>4. CodesDistinct'
  BY <1>1 DEF MemoryInv, CodesDistinct
<1>5. UngrantedUntouched' /\ CaptchasUntouched' /\ SpentOnce'
  BY DEF MemoryInv, UngrantedUntouched, CaptchasUntouched, SpentOnce
<1> QED
  BY <1>2, <1>3, <1>4, <1>5 DEF MemoryInv

LEMMA VerifyKeeps ==
    ASSUME MemoryInv, NEW e \in Emails, NEW right \in BOOLEAN, Verify(e, right)
    PROVE  MemoryInv'
<1> DEFINE c == codes[e]
           counted == [c EXCEPT !.tries = @ + 1]
           isOpen == c.id # 0 /\ c.age # "old" /\ c.tries < MaxTry
           new == IF isOpen /\ ~right THEN counted ELSE NoCode
<1>1. /\ codes \in [Emails -> Code] /\ c \in Code
      /\ used \in [Codes \cup Captchas -> Use] /\ granted \in 0 .. MaxCode
      /\ captchas \subseteq Captchas
  BY DEF MemoryInv, MemoryOK
<1>2. codes' = [codes EXCEPT ![e] = new] /\ captchas' = captchas /\ granted' = granted
  BY DEF Verify
<1>3. isOpen => /\ counted \in Code /\ counted.id = c.id /\ counted.tries = c.tries + 1
                /\ c.id \in Codes /\ c.tries \in Nat /\ c.tries + 1 <= MaxTry
  BY <1>1, MemoryConstants DEF Code, Codes
<1>4. CASE ~isOpen
  <2>1. used' = used /\ codes' = [codes EXCEPT ![e] = NoCode]
    BY <1>2, <1>4 DEF Verify
  <2> QED
    BY <1>2, <2>1, CodeKept, MemoryConstants
<1>5. CASE isOpen
  <2> DEFINE x == c.id
  <2>1. x \in Codes \cup Captchas /\ x \notin Captchas
    BY <1>3, <1>5, MemoryConstants
  <2>2. used' = [used EXCEPT ![x].guesses = @ + 1, ![x].passes = IF right THEN @ + 1 ELSE @]
    BY <1>5 DEF Verify
  <2> HIDE DEF x
  <2>3. /\ used' \in [Codes \cup Captchas -> Use]
        /\ \A y \in Codes \cup Captchas : y # x => used'[y] = used[y]
        /\ used'[x].guesses = used[x].guesses + 1
        /\ used'[x].passes = used[x].passes + (IF right THEN 1 ELSE 0)
    BY <1>1, <2>1, <2>2, GuessedIs
  <2>4. /\ used[x].passes = 0 /\ used[x].guesses = c.tries /\ x <= granted
        /\ \A f \in Emails : codes[f].id = x => f = e
    BY <1>1, <1>5, <2>1 DEF MemoryInv, CodesCounted, CodesDistinct, x
  <2>5. /\ new \in Code
        /\ \/ new.id = 0
           \/ ~right /\ new.id = x /\ new.tries = c.tries + 1
    BY <1>3, <1>5, MemoryConstants DEF x
  <2> HIDE DEF new
  <2>6. /\ codes' \in [Emails -> Code] /\ codes'[e] = new
        /\ \A f \in Emails : f # e => codes'[f] = codes[f]
    BY <1>1, <1>2, <2>5
  <2>7. MemoryOK'
    BY <1>1, <1>2, <2>3, <2>6 DEF MemoryOK
  <2>8. CodesCounted'
    <3> SUFFICES ASSUME NEW f \in Emails, codes'[f].id # 0
                 PROVE  /\ used'[codes'[f].id].passes = 0
                        /\ used'[codes'[f].id].guesses = codes'[f].tries
                        /\ codes'[f].id <= granted'
      BY DEF CodesCounted
    <3>1. CASE f = e
      <4>1. ~right /\ new.id = x /\ new.tries = c.tries + 1
        BY <2>5, <2>6, <3>1
      <4>2. used'[x].passes = 0 /\ used'[x].guesses = c.tries + 1
        BY <2>3, <2>4, <4>1
      <4> QED
        BY <1>2, <2>4, <2>6, <3>1, <4>1, <4>2
    <3>2. CASE f # e
      <4>1. codes'[f] = codes[f] /\ codes[f].id # x /\ codes[f].id \in Codes
        BY <1>1, <2>4, <2>6, <3>2 DEF Code, Codes
      <4>2. used'[codes[f].id] = used[codes[f].id]
        BY <2>3, <4>1
      <4> QED
        BY <1>2, <4>1, <4>2 DEF MemoryInv, CodesCounted
    <3> QED
      BY <3>1, <3>2
  <2>9. CodesDistinct'
    BY <2>4, <2>5, <2>6 DEF MemoryInv, CodesDistinct
  <2>10. UngrantedUntouched' /\ CaptchasUntouched'
    <3>1. ASSUME NEW y \in Codes, y > granted
          PROVE  used'[y] = used[y]
      BY <2>1, <2>3, <2>4, <3>1, <1>1, MemoryConstants
    <3>2. \A y \in captchas : used'[y] = used[y]
      BY <1>1, <2>1, <2>3
    <3> QED
      BY <1>2, <3>1, <3>2 DEF MemoryInv, UngrantedUntouched, CaptchasUntouched
  <2>11. SpentOnce'
    <3> SUFFICES ASSUME NEW y \in Codes \cup Captchas
                 PROVE  /\ used'[y].passes <= 1
                        /\ used'[y].guesses <= IF y \in Codes THEN MaxTry ELSE 1
      BY DEF SpentOnce
    <3>1. CASE y = x
      <4>1. used'[x].guesses = c.tries + 1 /\ used'[x].passes = (IF right THEN 1 ELSE 0)
        BY <2>3, <2>4
      <4> QED
        BY <1>3, <1>5, <3>1, <4>1 DEF x
    <3>2. CASE y # x
      BY <2>3, <3>2 DEF MemoryInv, SpentOnce
    <3> QED
      BY <3>1, <3>2
  <2> QED
    BY <2>7, <2>8, <2>9, <2>10, <2>11 DEF MemoryInv
<1> QED
  BY <1>4, <1>5


LEMMA SolveKeeps ==
    ASSUME MemoryInv, NEW x \in Captchas, NEW right \in BOOLEAN, Solve(x, right)
    PROVE  MemoryInv'
<1>1. /\ codes \in [Emails -> Code] /\ codes' = codes /\ granted' = granted
      /\ used \in [Codes \cup Captchas -> Use] /\ granted \in 0 .. MaxCode
      /\ captchas \subseteq Captchas /\ captchas' = captchas \ {x}
  BY DEF MemoryInv, MemoryOK, Solve
<1>2. CASE x \notin captchas
  <2>1. captchas' = captchas /\ used' = used
    BY <1>1, <1>2 DEF Solve
  <2> QED
    BY <1>1, <2>1 DEF MemoryInv, MemoryOK, CodesCounted, CodesDistinct,
                      UngrantedUntouched, CaptchasUntouched, SpentOnce
<1>3. CASE x \in captchas
  <2>1. used' = [used EXCEPT ![x].guesses = @ + 1, ![x].passes = IF right THEN @ + 1 ELSE @]
    BY <1>3 DEF Solve
  <2>2. x \in Codes \cup Captchas /\ x \notin Codes
    BY MemoryConstants
  <2>3. /\ used' \in [Codes \cup Captchas -> Use]
        /\ \A y \in Codes \cup Captchas : y # x => used'[y] = used[y]
        /\ used'[x].guesses = used[x].guesses + 1
        /\ used'[x].passes = used[x].passes + (IF right THEN 1 ELSE 0)
    BY <1>1, <2>1, <2>2, GuessedIs
  <2>4. used[x].guesses = 0 /\ used[x].passes = 0
    BY <1>3, MemoryConstants DEF MemoryInv, CaptchasUntouched
  <2>5. MemoryOK'
    BY <1>1, <2>3 DEF MemoryOK
  <2>6. \A y \in Codes : used'[y] = used[y]
    BY <2>2, <2>3
  <2>7. CodesCounted' /\ CodesDistinct' /\ UngrantedUntouched'
    <3>1. \A f \in Emails : codes[f].id # 0 => codes[f].id \in Codes
      BY <1>1 DEF Code, Codes
    <3> QED
      BY <1>1, <2>6, <3>1 DEF MemoryInv, CodesCounted, CodesDistinct, UngrantedUntouched
  <2>8. CaptchasUntouched'
    BY <1>1, <2>3 DEF MemoryInv, CaptchasUntouched
  <2>9. SpentOnce'
    <3> SUFFICES ASSUME NEW y \in Codes \cup Captchas
                 PROVE  /\ used'[y].passes <= 1
                        /\ used'[y].guesses <= IF y \in Codes THEN MaxTry ELSE 1
      BY DEF SpentOnce
    <3>1. CASE y = x
      BY <2>2, <2>3, <2>4, <3>1
    <3>2. CASE y # x
      BY <2>3, <3>2 DEF MemoryInv, SpentOnce
    <3> QED
      BY <3>1, <3>2
  <2> QED
    BY <2>5, <2>7, <2>8, <2>9 DEF MemoryInv
<1> QED
  BY <1>2, <1>3

LEMMA CheckCaptchaKeeps ==
    ASSUME MemoryInv, NEW x \in Captchas, NEW right \in BOOLEAN, CheckCaptcha(x, right)
    PROVE  MemoryInv'
<1>1. CASE UNCHANGED memory
  BY <1>1 DEF MemoryInv, MemoryOK, CodesCounted, CodesDistinct, UngrantedUntouched,
              CaptchasUntouched, SpentOnce, memory
<1> QED
  BY <1>1, SolveKeeps DEF CheckCaptcha

\* A code that is granted is new.
LEMMA GrantKeeps ==
    ASSUME MemoryInv, NEW e \in Emails, granted < MaxCode, granted' = granted + 1,
           codes' = [codes EXCEPT ![e] = [id |-> granted', age |-> "hot", tries |-> 0]],
           UNCHANGED <<captchas, used>>
    PROVE  MemoryInv' /\ granted' \in 0 .. MaxCode
<1> DEFINE new == [id |-> granted', age |-> "hot", tries |-> 0]
<1>1. /\ codes \in [Emails -> Code] /\ granted \in 0 .. MaxCode
      /\ used \in [Codes \cup Captchas -> Use] /\ captchas \subseteq Captchas
  BY DEF MemoryInv, MemoryOK
<1>2. granted' \in Codes /\ granted' \in 0 .. MaxCode /\ granted < granted' /\ granted' # 0
  BY <1>1, MemoryConstants DEF Codes
<1>3. new \in Code /\ new.id = granted' /\ new.tries = 0
  BY <1>2, MemoryConstants DEF Code
<1> HIDE DEF new
<1>4. /\ codes' \in [Emails -> Code] /\ codes'[e] = new
      /\ \A f \in Emails : f # e => codes'[f] = codes[f]
  <2>1. codes' = [codes EXCEPT ![e] = new]
    BY DEF new
  <2> QED
    BY <1>1, <1>3, <2>1
<1>5. MemoryOK'
  BY <1>1, <1>2, <1>4 DEF MemoryOK
<1>6. used[granted'].passes = 0 /\ used[granted'].guesses = 0
  BY <1>2, MemoryConstants DEF MemoryInv, UngrantedUntouched
<1>7. \A f \in Emails : codes[f].id # 0 =>
         codes[f].id \in Nat /\ codes[f].id <= granted /\ codes[f].id < granted'
  BY <1>1, <1>2 DEF MemoryInv, CodesCounted, Code
<1>8. CodesCounted'
  <2> SUFFICES ASSUME NEW f \in Emails, codes'[f].id # 0
               PROVE  /\ used'[codes'[f].id].passes = 0
                      /\ used'[codes'[f].id].guesses = codes'[f].tries
                      /\ codes'[f].id <= granted'
    BY DEF CodesCounted
  <2>1. CASE f = e
    BY <1>2, <1>3, <1>4, <1>6, <2>1
  <2>2. CASE f # e
    BY <1>2, <1>4, <1>7, <2>2 DEF MemoryInv, CodesCounted
  <2> QED
    BY <2>1, <2>2
<1>9. CodesDistinct'
  <2> SUFFICES ASSUME NEW f \in Emails, NEW g \in Emails, codes'[f].id = codes'[g].id,
                      codes'[f].id # 0
               PROVE  f = g
    BY DEF CodesDistinct
  <2>1. CASE f # e /\ g # e
    BY <1>4, <2>1 DEF MemoryInv, CodesDistinct
  <2>2. CASE f # e /\ g = e
    BY <1>2, <1>3, <1>4, <1>7, <2>2
  <2>3. CASE f = e /\ g # e
    BY <1>2, <1>3, <1>4, <1>7, <2>3
  <2> QED
    BY <2>1, <2>2, <2>3
<1>10. UngrantedUntouched'
  BY <1>1, <1>2, MemoryConstants DEF MemoryInv, UngrantedUntouched
<1>11. CaptchasUntouched' /\ SpentOnce'
  BY DEF MemoryInv, CaptchasUntouched, SpentOnce
<1> QED
  BY <1>2, <1>5, <1>8, <1>9, <1>10, <1>11 DEF MemoryInv


-----------------------------------------------------------------------------
(* Handlers. *)

\* What a handler is about, by where it is.
Fits(g) ==
    /\ g.at = "idle" => g = Idle
    /\ g.at \in {"role", "enabled"} => g.op = "patch"
    /\ g.at \in {"count", "drop"} => g.op = "delete"
    /\ g.at \in {"save", "apply"} <=> g.op = "site"
    /\ g.at \in {"grant", "mail"} => g.op = "send"
    /\ g.at = "prove" => g.op \in {"register", "verify"}
    /\ g.op \in {"register", "send", "verify"} => g.email \in Emails
    /\ g.op \in {"patch", "delete", "profile", "verify"} => g.u \in Users
    /\ g.op \in {"none", "register", "site"} => g.u = None
    /\ g.op = "site" => Allowed(g.site)
FitsInv == \A r \in Req : Fits(h[r])

\* A request starts with what it has just read.
Begins(r, g) ==
    /\ Start(r, g) /\ g \in Handler /\ Fits(g) /\ g.at # "apply"
    /\ g.u \in Users => Live(g.u)
    /\ Manages(g.op) => g.at \in {"role", "count"} /\ g.role = users[g.u].role
    /\ g.op = "profile" /\ ~g.flag => g.email = None \/ g.email = users[g.u].email
    /\ g.op = "verify" => g.at = "prove" /\ g.email = users[g.u].email

LEMMA IdleFits == Fits(Idle)
BY IdleIsHandler DEF Fits

LEMMA NoneIsNobody == None \notin Users /\ None \notin Emails
BY AccountsAssumption

LEMMA BeginsType ==
    ASSUME HandlersOK, BoundsOK, FitsInv, NEW r \in Req, NEW g, Begins(r, g)
    PROVE  /\ HandlersOK' /\ FitsInv' /\ BoundsOK' /\ Moves(r, g) /\ h[r] = Idle
           /\ UNCHANGED <<users, settings, boots, origin, proved>>
<1>1. /\ HandlersOK' /\ Moves(r, g) /\ BoundsOK' /\ h[r] = Idle
      /\ UNCHANGED <<users, settings, boots, origin, proved>>
  BY StartType DEF Begins
<1>2. FitsInv'
  <2> SUFFICES ASSUME NEW q \in Req PROVE Fits(h'[q])
    BY DEF FitsInv, Fits, Allowed
  <2>1. CASE q = r
    BY <1>1, <2>1 DEF Moves, Begins
  <2>2. CASE q # r
    BY <1>1, <2>2 DEF Moves, FitsInv
  <2> QED
    BY <2>1, <2>2
<1> QED
  BY <1>1, <1>2

LEMMA BeginsNobody ==
    ASSUME UsersOK, SiteOK, NEW r \in Req
    PROVE  /\ \A e \in Emails, x \in Captchas, right \in BOOLEAN :
                 SendCode(r, e, x, right) => \E g : Begins(r, g)
           /\ \A e \in Emails : StartRegister(r, e) => \E g : Begins(r, g)
           /\ \A in \in Inputs : StartSite(r, in) => \E g : Begins(r, g)
<1>1. ASSUME NEW e \in Emails, NEW x \in Captchas, NEW right \in BOOLEAN,
             SendCode(r, e, x, right)
      PROVE  \E g : Begins(r, g)
  <2>1. Begins(r, Idle) \/ Start(r, ForSend(e))
    BY <1>1, IdleIsHandler, IdleFits, NoneIsNobody DEF SendCode, ForSend, Begins, Manages
  <2>2. Start(r, ForSend(e)) => Begins(r, ForSend(e))
    BY ForNobody, NoneIsNobody DEF Begins, Fits, Manages
  <2> QED
    BY <2>1, <2>2
<1>2. ASSUME NEW e \in Emails, StartRegister(r, e)
      PROVE  \E g : Begins(r, g)
  <2>1. Start(r, ForRegister(e))
    BY <1>2 DEF StartRegister, ForRegister
  <2>2. Begins(r, ForRegister(e))
    BY <2>1, ForNobody, NoneIsNobody DEF Begins, Fits, Manages
  <2> QED
    BY <2>2
<1>3. ASSUME NEW in \in Inputs, StartSite(r, in)
      PROVE  \E g : Begins(r, g)
  <2> DEFINE s == Merge(in)
  <2>1. s \in Settings
    <3>1. in \in Input /\ site \in Settings
      BY AccountsAssumption DEF SiteOK
    <3> QED
      BY <3>1 DEF Merge, Input, Settings, Or, Asked, Smtp
  <2>2. Start(r, ForSite(s)) /\ Allowed(s)
    BY <1>3 DEF StartSite, ForSite
  <2> HIDE DEF s
  <2>3. Begins(r, ForSite(s))
    BY <2>1, <2>2, ForSite1, NoneIsNobody DEF Begins, Fits, Manages
  <2> QED
    BY <2>3
<1> QED
  BY <1>1, <1>2, <1>3

LEMMA BeginsManager ==
    ASSUME UsersOK, NEW r \in Req, NEW u \in Users
    PROVE  /\ \A me : \A body \in Bodies : StartPatch(r, u, me, body) => \E g : Begins(r, g)
           /\ \A me : StartDelete(r, u, me) => \E g : Begins(r, g)
<1> DEFINE role == users[u].role
<1>1. role \in Roles
  BY DEF UsersOK, Row
<1>2. ASSUME NEW me, NEW body \in Bodies, StartPatch(r, u, me, body)
      PROVE  \E g : Begins(r, g)
  <2>1. Start(r, ForPatch(u, role, body)) /\ Live(u)
    BY <1>2 DEF StartPatch, ForPatch
  <2>2. Begins(r, ForPatch(u, role, body))
    BY <1>1, <2>1, ForPatchIs DEF Begins, Fits, Manages
  <2> QED
    BY <2>2
<1>3. ASSUME NEW me, StartDelete(r, u, me)
      PROVE  \E g : Begins(r, g)
  <2>1. Start(r, ForDelete(u, role)) /\ Live(u)
    BY <1>3 DEF StartDelete, ForDelete
  <2>3. /\ ForDelete(u, role) \in Handler /\ ForDelete(u, role).at = "count"
        /\ ForDelete(u, role).op = "delete" /\ ForDelete(u, role).u = u
        /\ ForDelete(u, role).role = role
    BY <1>1, ForDeleteIs
  <2>4. Begins(r, ForDelete(u, role))
    BY <1>1, <2>1, <2>3 DEF Begins, Fits, Manages
  <2> QED
    BY <2>4
<1> QED
  BY <1>2, <1>3

LEMMA BeginsOwner ==
    ASSUME UsersOK, NEW r \in Req, NEW u \in Users
    PROVE  /\ \A e \in Emails \cup {None} : StartProfile(r, u, e) => \E g : Begins(r, g)
           /\ StartSend(r, u) => \E g : Begins(r, g)
           /\ StartVerify(r, u) => \E g : Begins(r, g)
<1>1. users[u].email \in Emails \cup {None}
  BY DEF UsersOK, Row
<1>2. ASSUME NEW e \in Emails \cup {None}, StartProfile(r, u, e)
      PROVE  \E g : Begins(r, g)
  <2> DEFINE flag == (e # None /\ e # users[u].email)
  <2>1. Start(r, ForProfile(u, e, flag)) /\ Live(u) /\ flag \in BOOLEAN
    BY <1>2 DEF StartProfile, ForProfile
  <2>2. ~flag => e = None \/ e = users[u].email
    OBVIOUS
  <2> HIDE DEF flag
  <2>3. Begins(r, ForProfile(u, e, flag))
    BY <2>1, <2>2, ForProfileIs DEF Begins, Fits, Manages
  <2> QED
    BY <2>3
<1> DEFINE e == users[u].email
<1>3. ASSUME StartSend(r, u) \/ StartVerify(r, u)
      PROVE  \E g : Begins(r, g)
  <2>1. /\ e \in Emails /\ Live(u)
        /\ Start(r, ForMySend(u, e)) \/ Start(r, ForVerify(u, e))
    BY <1>1, <1>3 DEF StartSend, StartVerify, ForMySend, ForVerify
  <2> HIDE DEF e
  <2>2. Start(r, ForMySend(u, e)) => Begins(r, ForMySend(u, e))
    BY <2>1, ForMySendIs DEF Begins, Fits, Manages
  <2>3. Start(r, ForVerify(u, e)) => Begins(r, ForVerify(u, e))
    BY <2>1, ForVerifyIs DEF Begins, Fits, Manages, e
  <2> QED
    BY <2>1, <2>2, <2>3
<1> QED
  BY <1>2, <1>3


LEMMA MovesFits ==
    ASSUME FitsInv, NEW r \in Req, NEW s, Moves(r, s), Fits(s)
    PROVE  FitsInv'
<1> SUFFICES ASSUME NEW q \in Req PROVE Fits(h'[q])
  BY DEF FitsInv, Fits, Allowed
<1> QED
  BY DEF Moves, FitsInv

LEMMA DoneKeeps ==
    ASSUME HandlersOK, FitsInv, NEW r \in Req, Done(r)
    PROVE  HandlersOK' /\ FitsInv' /\ Moves(r, Idle)
BY DoneType, MovesFits, IdleFits

LEMMA BoundsKept ==
    ASSUME BoundsOK, UNCHANGED <<bounds, crossed, rivals>>
    PROVE  BoundsOK'
BY DEF BoundsOK, bounds

\* A step about codes or captchas: requests that send or register go on, or end.
Aside ==
    /\ UNCHANGED <<users, settings, past>>
    /\ \A q \in Req :
          \/ h'[q] = h[q]
          \/ /\ h[q].op \in {"send", "register"}
             /\ \/ h'[q] = Idle
                \/ h'[q].op = h[q].op /\ h'[q].u = h[q].u /\ h'[q].at # "idle"

LEMMA AsideHandlers ==
    ASSUME HandlersOK, FitsInv, BoundsOK, SiteOK, MemoryOK,
           \/ NewCaptcha
           \/ \E e \in Emails : Age(e)
           \/ \E r \in Req : GrantCode(r) \/ MailSent(r) \/ MailFailed(r)
           \/ \E r \in Req, x \in Captchas, right \in BOOLEAN : ProveRegister(r, x, right)
    PROVE  HandlersOK' /\ FitsInv' /\ BoundsOK' /\ Aside
<1>1. CASE NewCaptcha \/ \E e \in Emails : Age(e)
  <2>1. h' = h /\ UNCHANGED <<users, settings, past>>
    BY <1>1 DEF NewCaptcha, Age
  <2>2. BoundsOK'
    BY <1>1, AccountsAssumption DEF NewCaptcha, Age, BoundsOK, bounds, past
  <2> QED
    BY <2>1, <2>2 DEF HandlersOK, FitsInv, Fits, Allowed, Aside
<1>2. ASSUME NEW r \in Req, GrantCode(r) \/ MailSent(r) \/ MailFailed(r)
      PROVE  HandlersOK' /\ FitsInv' /\ BoundsOK' /\ Aside
  <2>1. h[r].op = "send" /\ h[r].at \in {"grant", "mail"} /\ h[r] \in Handler /\ Fits(h[r])
    BY <1>2 DEF GrantCode, MailSent, MailFailed, FitsInv, Fits, HandlersOK
  <2>2. UNCHANGED <<users, settings, bounds, past>>
    BY <1>2 DEF GrantCode, MailSent, MailFailed
  <2>3. BoundsOK'
    BY <2>2, BoundsKept DEF past
  <2>4. CASE Done(r)
    <3>1. HandlersOK' /\ FitsInv' /\ Moves(r, Idle)
      BY <2>4, DoneKeeps
    <3> QED
      BY <2>1, <2>2, <2>3, <3>1 DEF Moves, Aside
  <2>5. CASE ~Done(r)
    <3>1. granted < MaxCode /\ granted' = granted + 1
          /\ h' = [h EXCEPT ![r].at = "mail", ![r].code = granted']
      BY <1>2, <2>5 DEF GrantCode, MailSent, MailFailed
    <3>2. granted' \in 0 .. MaxCode
      BY <3>1, AccountsAssumption DEF MemoryOK
    <3>3. /\ HandlersOK'
          /\ Moves(r, [h[r] EXCEPT !.at = "mail", !.code = granted'])
          /\ h'[r].at = "mail" /\ h'[r].op = h[r].op /\ h'[r].u = h[r].u
          /\ h'[r].email = h[r].email /\ h'[r].flag = h[r].flag /\ h'[r].site = h[r].site
      BY <3>1, <3>2, AtMailType
    <3>4. Fits(h'[r])
      BY <2>1, <3>3 DEF Fits
    <3>5. Moves(r, h'[r])
      BY <3>3 DEF Moves
    <3>6. FitsInv'
      BY <3>4, <3>5, MovesFits
    <3>7. Aside
      BY <2>1, <2>2, <3>3, <3>5 DEF Aside, Moves
    <3> QED
      BY <2>3, <3>3, <3>6, <3>7
  <2> QED
    BY <2>4, <2>5
<1>3. ASSUME NEW r \in Req, NEW x \in Captchas, NEW right \in BOOLEAN,
             ProveRegister(r, x, right)
      PROVE  HandlersOK' /\ FitsInv' /\ BoundsOK' /\ Aside
  <2>1. /\ h[r].op = "register" /\ h[r].at = "prove" /\ h[r] \in Handler /\ Fits(h[r])
        /\ site.required \in BOOLEAN
    BY <1>3 DEF ProveRegister, FitsInv, HandlersOK, SiteOK, Settings
  <2>2. UNCHANGED <<users, settings, bounds, past>>
    BY <1>3 DEF ProveRegister
  <2>3. BoundsOK'
    BY <2>2, BoundsKept DEF past
  <2>4. CASE Done(r)
    <3>1. HandlersOK' /\ FitsInv' /\ Moves(r, Idle)
      BY <2>4, DoneKeeps
    <3> QED
      BY <2>1, <2>2, <2>3, <3>1 DEF Moves, Aside
  <2>5. CASE ~Done(r)
    <3>1. h' = [h EXCEPT ![r].at = "write", ![r].flag = site.required]
      BY <1>3, <2>5 DEF ProveRegister
    <3>3. /\ HandlersOK'
          /\ Moves(r, [h[r] EXCEPT !.at = "write", !.flag = site.required])
          /\ h'[r].at = "write" /\ h'[r].op = h[r].op /\ h'[r].u = h[r].u
          /\ h'[r].email = h[r].email /\ h'[r].flag = site.required /\ h'[r].site = h[r].site
      BY <2>1, <3>1, AtWriteType
    <3>4. Fits(h'[r])
      BY <2>1, <3>3 DEF Fits
    <3>5. Moves(r, h'[r])
      BY <3>3 DEF Moves
    <3>6. FitsInv'
      BY <3>4, <3>5, MovesFits
    <3>7. Aside
      BY <2>1, <2>2, <3>3, <3>5 DEF Aside, Moves
    <3> QED
      BY <2>3, <3>3, <3>6, <3>7
  <2> QED
    BY <2>4, <2>5
<1> QED
  BY <1>1, <1>2, <1>3


LEMMA GotoKeeps ==
    ASSUME HandlersOK, FitsInv, NEW r \in Req,
           NEW at \in {"enabled", "write", "drop", "apply"}, Goto(r, at),
           \/ at \in {"enabled", "write"} /\ h[r].op = "patch"
           \/ at = "write" /\ h[r].op = "verify"
           \/ at = "drop" /\ h[r].op = "delete"
           \/ at = "apply" /\ h[r].op = "site"
    PROVE  /\ HandlersOK' /\ FitsInv' /\ Moves(r, h'[r])
           /\ h'[r].at = at /\ h'[r].op = h[r].op /\ h'[r].u = h[r].u
           /\ h'[r].email = h[r].email /\ h'[r].role = h[r].role
           /\ h'[r].body = h[r].body /\ h'[r].flag = h[r].flag /\ h'[r].site = h[r].site
<1>1. /\ HandlersOK' /\ Moves(r, [h[r] EXCEPT !.at = at])
      /\ h'[r].at = at /\ h'[r].op = h[r].op /\ h'[r].u = h[r].u
      /\ h'[r].email = h[r].email /\ h'[r].role = h[r].role
      /\ h'[r].body = h[r].body /\ h'[r].flag = h[r].flag /\ h'[r].site = h[r].site
  BY GotoType
<1>2. Fits(h[r])
  BY DEF FitsInv
<1>3. Fits(h'[r])
  BY <1>1, <1>2 DEF Fits
<1>4. Moves(r, h'[r])
  BY <1>1 DEF Moves
<1> QED
  BY <1>1, <1>3, <1>4, MovesFits

-----------------------------------------------------------------------------
(* Rows of users. *)

\* The row of u becomes row, and the others stay.
Puts(u, row) == /\ users' \in [Users -> Row] /\ users'[u] = row
                /\ \A v \in Users : v # u => users'[v] = users[v]

LEMMA PutsType ==
    ASSUME UsersOK, NEW u \in Users, NEW row \in Row, users' = [users EXCEPT ![u] = row]
    PROVE  Puts(u, row)
BY DEF UsersOK, Puts

LEMMA NewRows ==
    ASSUME NEW role \in Roles, NEW e \in Emails \cup {None}, NEW b \in BOOLEAN
    PROVE  /\ NewUser(role, e, b) \in Row /\ NewUser(role, e, b).is = "live"
           /\ NewUser(role, e, b).role = role /\ NewUser(role, e, b).email = e
           /\ NewUser(role, e, b).verified = b /\ NewUser(role, e, b).enabled = TRUE
BY DEF NewUser, Row

LEMMA GoneRow ==
    ASSUME NEW is \in {"new", "live", "gone"}
    PROVE  NoRow(is) \in Row /\ NoRow(is).is = is /\ NoRow(is).verified = FALSE
<1>1. "user" \in Roles /\ None \in Emails \cup {None}
  BY DEF Roles
<1> HIDE DEF Roles
<1> QED
  BY <1>1 DEF NoRow, Row

LEMMA PatchedRow ==
    ASSUME NEW row \in Row, NEW body \in Body
    PROVE  /\ Patched(row, body) \in Row /\ Patched(row, body).is = row.is
           /\ Patched(row, body).verified = row.verified
           /\ Patched(row, body).role = Or(body.role, row.role)
           /\ Patched(row, body).enabled = Or(body.enabled, row.enabled)
           /\ Patched(row, body).email = Or(body.email, row.email)
<1> DEFINE e == Or(body.email, row.email)
           role == Or(body.role, row.role)
           enabled == Or(body.enabled, row.enabled)
<1>1. e \in Emails \cup {None}
  BY DEF Body, Row, Or, Asked
<1>2. role \in Roles
  BY DEF Body, Row, Or, Asked
<1>3. enabled \in BOOLEAN
  BY DEF Body, Row, Or, Asked
<1>4. Patched(row, body) = [row EXCEPT !.email = e, !.role = role, !.enabled = enabled]
  BY DEF Patched
<1> HIDE DEF e, role, enabled
<1>5. /\ Patched(row, body) \in Row /\ Patched(row, body).is = row.is
      /\ Patched(row, body).verified = row.verified
      /\ Patched(row, body).role = role /\ Patched(row, body).enabled = enabled
      /\ Patched(row, body).email = e
  BY <1>1, <1>2, <1>3, <1>4 DEF Row
<1> QED
  BY <1>5 DEF e, role, enabled

LEMMA ProfileRow ==
    ASSUME NEW row \in Row, NEW e \in Emails \cup {None}, NEW reset \in BOOLEAN
    PROVE  /\ Profiled(row, e, reset) \in Row /\ Profiled(row, e, reset).is = row.is
           /\ Profiled(row, e, reset).role = row.role
           /\ Profiled(row, e, reset).enabled = row.enabled
           /\ Profiled(row, e, reset).email = e
           /\ Profiled(row, e, reset).verified = (row.verified /\ ~reset)
<1> DEFINE b == row.verified /\ ~reset
<1>1. b \in BOOLEAN
  BY DEF Row
<1>2. Profiled(row, e, reset) = [row EXCEPT !.email = e, !.verified = b]
  BY Zenon DEF Profiled
<1> HIDE DEF b
<1>3. /\ Profiled(row, e, reset) \in Row /\ Profiled(row, e, reset).is = row.is
      /\ Profiled(row, e, reset).role = row.role
      /\ Profiled(row, e, reset).enabled = row.enabled
      /\ Profiled(row, e, reset).email = e /\ Profiled(row, e, reset).verified = b
  BY <1>1, <1>2 DEF Row
<1> QED
  BY <1>3 DEF b

\* The row with the flag EmailVerified set to b.
Flagged(row, b) == [row EXCEPT !.verified = b]

LEMMA FlaggedRow ==
    ASSUME NEW row \in Row, NEW b \in BOOLEAN
    PROVE  /\ Flagged(row, b) \in Row /\ Flagged(row, b).is = row.is
           /\ Flagged(row, b).role = row.role /\ Flagged(row, b).enabled = row.enabled
           /\ Flagged(row, b).email = row.email /\ Flagged(row, b).verified = b
BY DEF Flagged, Row


-----------------------------------------------------------------------------
(* What each step on rows does. *)

CoreOK == UsersOK /\ HandlersOK /\ FitsInv /\ BoundsOK

\* The histories of the other users stay.
OthersKept(u) == \A v \in Users : v # u => origin'[v] = origin[v] /\ proved'[v] = proved[v]

LEMMA HandlerIs ==
    ASSUME CoreOK, NEW r \in Req
    PROVE  /\ h[r] \in Handler /\ Fits(h[r])
           /\ h[r].at # "idle" /\ h[r].op \in {"patch", "delete", "profile", "verify"}
                 => h[r].u \in Users
           /\ h[r].email \in Emails \cup {None} /\ h[r].role \in Roles /\ h[r].flag \in BOOLEAN
           /\ h[r].body \in Bodies \cup {NoBody} /\ h[r].body \in Body
<1>1. h[r] \in Handler /\ Fits(h[r])
  BY DEF CoreOK, HandlersOK, FitsInv
<1>2. NoBody \in Body
  BY DEF NoBody, Body, Asked
<1>3. Bodies \subseteq Body
  BY AccountsAssumption
<1> QED
  BY <1>1, <1>2, <1>3 DEF Fits, Handler

LEMMA CreateRegisteredIs ==
    ASSUME CoreOK, NEW r \in Req, CreateRegistered(r)
    PROVE  /\ CoreOK' /\ Moves(r, Idle) /\ h[r].op = "register"
           /\ UNCHANGED <<settings, memory, crossed, rivals>>
           /\ \E u \in Users :
                 /\ users[u].is = "new" /\ OthersKept(u)
                 /\ Puts(u, NewUser("user", h[r].email, h[r].flag))
                 /\ h[r].flag => proved'[u] = {h[r].email}
<1>1. /\ h[r].op = "register" /\ h[r].email \in Emails /\ h[r].flag \in BOOLEAN
      /\ "user" \in Roles
  BY HandlerIs DEF CreateRegistered, Fits, Roles
<1>2. HandlersOK' /\ FitsInv' /\ Moves(r, Idle) /\ BoundsOK'
  BY DoneKeeps, BoundsKept DEF CoreOK, CreateRegistered
<1>3. PICK u \in NextId :
         /\ users' = [users EXCEPT ![u] = NewUser("user", h[r].email, h[r].flag)]
         /\ origin' = [origin EXCEPT ![u] = IF h[r].flag THEN "code" ELSE "none"]
         /\ proved' = [proved EXCEPT ![u] = IF h[r].flag THEN {h[r].email} ELSE {}]
  BY DEF CreateRegistered
<1>4. u \in Users /\ users[u].is = "new"
  BY DEF NextId, Unused
<1>5. Puts(u, NewUser("user", h[r].email, h[r].flag))
  BY <1>1, <1>3, <1>4, NewRows, PutsType DEF CoreOK
<1>6. /\ origin' \in [Users -> {"none", "code", "admin", "boot"}]
      /\ proved' \in [Users -> SUBSET Emails] /\ OthersKept(u)
      /\ h[r].flag => proved'[u] = {h[r].email}
  BY <1>1, <1>3, <1>4 DEF CoreOK, UsersOK, OthersKept
<1>7. CoreOK'
  BY <1>2, <1>5, <1>6 DEF CoreOK, UsersOK, Puts
<1> QED
  BY <1>1, <1>2, <1>4, <1>5, <1>6, <1>7 DEF CreateRegistered

LEMMA CreateUserIs ==
    ASSUME CoreOK, NEW role \in Roles, NEW e \in Emails \cup {None}, CreateUser(role, e)
    PROVE  /\ CoreOK' /\ h' = h
           /\ UNCHANGED <<settings, memory, past>>
           /\ \E u \in Users :
                 users[u].is = "new" /\ OthersKept(u) /\ Puts(u, NewUser(role, e, FALSE))
<1>1. BoundsOK'
  BY AccountsAssumption DEF CreateUser, CoreOK, BoundsOK, past
<1>2. HandlersOK' /\ FitsInv' /\ h' = h
  BY DEF CreateUser, CoreOK, HandlersOK, FitsInv, Fits, Allowed
<1>3. PICK u \in NextId : users' = [users EXCEPT ![u] = NewUser(role, e, FALSE)]
  BY DEF CreateUser
<1>4. u \in Users /\ users[u].is = "new"
  BY DEF NextId, Unused
<1>5. Puts(u, NewUser(role, e, FALSE))
  BY <1>3, <1>4, NewRows, PutsType DEF CoreOK
<1>6. UNCHANGED <<settings, memory, past>>
  BY DEF CreateUser
<1>7. OthersKept(u) /\ origin' = origin /\ proved' = proved
  BY <1>6 DEF past, OthersKept
<1>8. CoreOK'
  BY <1>1, <1>2, <1>5, <1>7 DEF CoreOK, UsersOK, Puts
<1> QED
  BY <1>2, <1>4, <1>5, <1>6, <1>7, <1>8

LEMMA UpdatePatchedIs ==
    ASSUME CoreOK, NEW r \in Req, UpdatePatched(r)
    PROVE  /\ CoreOK' /\ Moves(r, Idle)
           /\ h[r].op = "patch" /\ h[r].at = "write" /\ h[r].u \in Users
           /\ UNCHANGED <<settings, memory, crossed, rivals, proved>>
           /\ OthersKept(h[r].u)
           /\ Puts(h[r].u, IF Live(h[r].u) THEN Patched(users[h[r].u], h[r].body)
                                           ELSE users[h[r].u])
           /\ origin'[h[r].u] = IF h[r].body.email # <<>> THEN "admin" ELSE origin[h[r].u]
<1> DEFINE u == h[r].u
           row == IF Live(u) THEN Patched(users[u], h[r].body) ELSE users[u]
<1>1. h[r].op = "patch" /\ h[r].at = "write" /\ u \in Users /\ h[r].body \in Body
  BY HandlerIs DEF UpdatePatched
<1>2. HandlersOK' /\ FitsInv' /\ Moves(r, Idle) /\ BoundsOK'
  BY DoneKeeps, BoundsKept DEF CoreOK, UpdatePatched
<1>3. users' = [users EXCEPT ![u] = row]
  BY DEF UpdatePatched
<1>4. users[u] \in Row
  BY <1>1 DEF CoreOK, UsersOK
<1>5. row \in Row
  BY <1>1, <1>4, PatchedRow
<1>6. /\ origin' = [origin EXCEPT ![u] = IF h[r].body.email # <<>> THEN "admin" ELSE @]
      /\ proved' = proved /\ UNCHANGED <<settings, memory, crossed, rivals>>
  BY DEF UpdatePatched
<1> HIDE DEF row
<1>7. Puts(u, row)
  BY <1>1, <1>3, <1>5, PutsType DEF CoreOK
<1>8. /\ origin' \in [Users -> {"none", "code", "admin", "boot"}] /\ OthersKept(u)
      /\ origin'[u] = IF h[r].body.email # <<>> THEN "admin" ELSE origin[u]
  BY <1>1, <1>6 DEF CoreOK, UsersOK, OthersKept
<1>9. CoreOK'
  BY <1>2, <1>6, <1>7, <1>8 DEF CoreOK, UsersOK, Puts
<1> QED
  BY <1>1, <1>2, <1>6, <1>7, <1>8, <1>9 DEF row

LEMMA DropUserIs ==
    ASSUME CoreOK, NEW r \in Req, DropUser(r)
    PROVE  /\ CoreOK' /\ Moves(r, Idle)
           /\ h[r].op = "delete" /\ h[r].at = "drop" /\ h[r].u \in Users
           /\ UNCHANGED <<settings, memory, past>> /\ OthersKept(h[r].u)
           /\ Puts(h[r].u, NoRow("gone"))
<1>1. h[r].op = "delete" /\ h[r].at = "drop" /\ h[r].u \in Users
  BY HandlerIs DEF DropUser, Fits
<1>2. UNCHANGED <<settings, memory, past, bounds>>
  BY DEF DropUser
<1>3. HandlersOK' /\ FitsInv' /\ Moves(r, Idle) /\ BoundsOK'
  BY <1>2, DoneKeeps, BoundsKept DEF CoreOK, DropUser, past
<1>4. Puts(h[r].u, NoRow("gone"))
  BY <1>1, GoneRow, PutsType DEF DropUser, CoreOK
<1>5. origin' = origin /\ proved' = proved /\ OthersKept(h[r].u)
  BY <1>2 DEF past, OthersKept
<1>6. CoreOK'
  BY <1>3, <1>4, <1>5 DEF CoreOK, UsersOK, Puts
<1> QED
  BY <1>1, <1>2, <1>3, <1>4, <1>5, <1>6

LEMMA UpdateProfileIs ==
    ASSUME CoreOK, NEW r \in Req, UpdateProfile(r)
    PROVE  /\ CoreOK' /\ Moves(r, Idle)
           /\ h[r].op = "profile" /\ h[r].at = "write" /\ h[r].u \in Users
           /\ UNCHANGED <<settings, memory, crossed, rivals, proved>>
           /\ OthersKept(h[r].u)
           /\ origin'[h[r].u] = IF h[r].flag THEN "none" ELSE origin[h[r].u]
           /\ \E row \in Row :
                 /\ Puts(h[r].u, row) /\ row.is = users[h[r].u].is
                 /\ row.role = users[h[r].u].role /\ row.enabled = users[h[r].u].enabled
                 /\ Live(h[r].u) => /\ row.email = h[r].email
                                    /\ row.verified = (users[h[r].u].verified /\ ~h[r].flag)
<1> DEFINE u == h[r].u
           row == IF Live(u) THEN Profiled(users[u], h[r].email, h[r].flag) ELSE users[u]
<1>1. /\ h[r].op = "profile" /\ h[r].at = "write" /\ u \in Users
      /\ h[r].email \in Emails \cup {None} /\ h[r].flag \in BOOLEAN
  BY HandlerIs DEF UpdateProfile
<1>2. HandlersOK' /\ FitsInv' /\ Moves(r, Idle) /\ BoundsOK'
  BY DoneKeeps, BoundsKept DEF CoreOK, UpdateProfile
<1>3. users' = [users EXCEPT ![u] = row]
  BY DEF UpdateProfile
<1>4. users[u] \in Row
  BY <1>1 DEF CoreOK, UsersOK
<1>5. /\ row \in Row /\ row.is = users[u].is
      /\ row.role = users[u].role /\ row.enabled = users[u].enabled
      /\ Live(u) => row.email = h[r].email /\ row.verified = (users[u].verified /\ ~h[r].flag)
  BY <1>1, <1>4, ProfileRow
<1>6. /\ origin' = [origin EXCEPT ![u] = IF h[r].flag THEN "none" ELSE @]
      /\ proved' = proved /\ UNCHANGED <<settings, memory, crossed, rivals>>
  BY DEF UpdateProfile
<1> HIDE DEF row
<1>7. Puts(u, row)
  BY <1>1, <1>3, <1>5, PutsType DEF CoreOK
<1>8. /\ origin' \in [Users -> {"none", "code", "admin", "boot"}] /\ OthersKept(u)
      /\ origin'[u] = IF h[r].flag THEN "none" ELSE origin[u]
  BY <1>1, <1>6 DEF CoreOK, UsersOK, OthersKept
<1>9. CoreOK'
  BY <1>2, <1>6, <1>7, <1>8 DEF CoreOK, UsersOK, Puts
<1> QED
  BY <1>1, <1>2, <1>5, <1>6, <1>7, <1>8, <1>9


LEMMA SetVerifiedIs ==
    ASSUME CoreOK, NEW r \in Req, SetVerified(r)
    PROVE  /\ CoreOK' /\ Moves(r, Idle)
           /\ h[r].op = "verify" /\ h[r].at = "write" /\ h[r].u \in Users
           /\ UNCHANGED <<settings, memory, crossed, rivals, proved>>
           /\ OthersKept(h[r].u)
           /\ \E b \in BOOLEAN : Puts(h[r].u, Flagged(users[h[r].u], b))
<1> DEFINE u == h[r].u
           b == users[u].verified \/ Live(u)
<1>1. h[r].op = "verify" /\ h[r].at = "write" /\ u \in Users
  BY HandlerIs DEF SetVerified
<1>2. HandlersOK' /\ FitsInv' /\ Moves(r, Idle) /\ BoundsOK'
  BY DoneKeeps, BoundsKept DEF CoreOK, SetVerified
<1>3. users' = [users EXCEPT ![u].verified = @ \/ Live(u)]
  BY DEF SetVerified
<1>4. users[u] \in Row /\ b \in BOOLEAN
  BY <1>1 DEF CoreOK, UsersOK, Row
<1>5. users' = [users EXCEPT ![u] = Flagged(users[u], b)]
  BY <1>3, Zenon DEF Flagged
<1>6. /\ origin' = [origin EXCEPT ![u] = "code"]
      /\ proved' = proved /\ UNCHANGED <<settings, memory, crossed, rivals>>
  BY DEF SetVerified
<1> HIDE DEF b
<1>7. Puts(u, Flagged(users[u], b))
  BY <1>1, <1>4, <1>5, FlaggedRow, PutsType DEF CoreOK
<1>8. origin' \in [Users -> {"none", "code", "admin", "boot"}] /\ OthersKept(u)
  BY <1>1, <1>6 DEF CoreOK, UsersOK, OthersKept
<1>9. CoreOK'
  BY <1>2, <1>6, <1>7, <1>8 DEF CoreOK, UsersOK, Puts
<1> QED
  BY <1>1, <1>2, <1>4, <1>6, <1>7, <1>8, <1>9

LEMMA ProveVerifyIs ==
    ASSUME CoreOK, NEW r \in Req, NEW right \in BOOLEAN, ProveVerify(r, right)
    PROVE  /\ CoreOK' /\ h[r].op = "verify" /\ h[r].u \in Users
           /\ UNCHANGED <<users, settings, origin, crossed, rivals>>
           /\ \A v \in Users : proved[v] \subseteq proved'[v]
           /\ Moves(r, h'[r])
           /\ \/ h'[r] = Idle
              \/ /\ h'[r].at = "write" /\ h'[r].op = "verify" /\ h'[r].u = h[r].u
                 /\ h'[r].email = h[r].email /\ h'[r].flag = h[r].flag
                 /\ h[r].email \in proved'[h[r].u]
<1>1. h[r].op = "verify" /\ h[r].u \in Users /\ h[r].email \in Emails
  BY HandlerIs DEF ProveVerify, Fits
<1>2. UNCHANGED <<users, settings, bounds, origin, crossed, rivals>>
  BY DEF ProveVerify
<1>3. BoundsOK'
  BY <1>2, BoundsKept DEF CoreOK
<1>4. CASE Done(r) /\ UNCHANGED proved
  <2>1. HandlersOK' /\ FitsInv' /\ Moves(r, Idle)
    BY <1>4, DoneKeeps DEF CoreOK
  <2>2. CoreOK'
    BY <1>2, <1>3, <1>4, <2>1 DEF CoreOK, UsersOK
  <2> QED
    BY <1>1, <1>2, <1>4, <2>1, <2>2 DEF Moves
<1>5. CASE /\ Goto(r, "write")
           /\ proved' = [proved EXCEPT ![h[r].u] = @ \cup {h[r].email}]
  <2>1. /\ HandlersOK' /\ FitsInv' /\ Moves(r, h'[r])
        /\ h'[r].at = "write" /\ h'[r].op = h[r].op /\ h'[r].u = h[r].u
        /\ h'[r].email = h[r].email /\ h'[r].flag = h[r].flag
    BY <1>1, <1>5, GotoKeeps DEF CoreOK
  <2>2. /\ proved' \in [Users -> SUBSET Emails] /\ h[r].email \in proved'[h[r].u]
        /\ \A v \in Users : proved[v] \subseteq proved'[v]
    BY <1>1, <1>5 DEF CoreOK, UsersOK
  <2>3. CoreOK'
    BY <1>2, <1>3, <2>1, <2>2 DEF CoreOK, UsersOK
  <2> QED
    BY <1>1, <1>2, <2>1, <2>2, <2>3
<1> QED
  BY <1>4, <1>5 DEF ProveVerify

\* A check of another administrator goes on, or ends the request.
Checks(r, from, next) ==
    /\ h[r].at = from /\ Manages(h[r].op) /\ h[r].u \in Users
    /\ UNCHANGED <<users, settings, memory, bounds, past>>
    /\ Moves(r, h'[r])
    /\ \/ h'[r] = Idle
       \/ /\ h'[r].at = next /\ h'[r].op = h[r].op /\ h'[r].u = h[r].u
          /\ h'[r].role = h[r].role /\ h'[r].body = h[r].body

LEMMA ChecksAre ==
    ASSUME CoreOK, NEW r \in Req, CheckRole(r) \/ CheckEnabled(r) \/ CountAdmins(r)
    PROVE  /\ CoreOK'
           /\ CheckRole(r) => Checks(r, "role", "enabled")
           /\ CheckEnabled(r) => Checks(r, "enabled", "write")
           /\ CountAdmins(r) => Checks(r, "count", "drop")
           /\ ~Manages(h'[r].op) \/ Manages(h[r].op)
<1>1. Manages(h[r].op) /\ h[r].u \in Users
  BY HandlerIs DEF CheckRole, CheckEnabled, CountAdmins, Fits, Manages
<1>2. UNCHANGED <<users, settings, memory, bounds, past>>
  BY DEF CheckRole, CheckEnabled, CountAdmins
<1>3. BoundsOK' /\ UsersOK'
  BY <1>2, BoundsKept DEF CoreOK, past, UsersOK
<1>4. CASE Done(r)
  <2>1. HandlersOK' /\ FitsInv' /\ Moves(r, Idle)
    BY <1>4, DoneKeeps DEF CoreOK
  <2>2. Moves(r, h'[r]) /\ h'[r] = Idle
    BY <2>1 DEF Moves
  <2> QED
    BY <1>1, <1>2, <1>3, <2>1, <2>2 DEF CoreOK, Checks, CheckRole, CheckEnabled, CountAdmins
<1>5. CASE CheckRole(r) /\ Goto(r, "enabled")
  <2>1. h[r].at = "role" /\ h[r].op = "patch"
    BY <1>5, HandlerIs DEF CheckRole, Fits
  <2>2. /\ HandlersOK' /\ FitsInv' /\ Moves(r, h'[r])
        /\ h'[r].at = "enabled" /\ h'[r].op = h[r].op /\ h'[r].u = h[r].u
        /\ h'[r].role = h[r].role /\ h'[r].body = h[r].body
    BY <1>5, <2>1, GotoKeeps DEF CoreOK
  <2> QED
    BY <1>1, <1>2, <1>3, <2>1, <2>2 DEF CoreOK, Checks, CheckEnabled, CountAdmins
<1>6. CASE CheckEnabled(r) /\ Goto(r, "write")
  <2>1. h[r].at = "enabled" /\ h[r].op = "patch"
    BY <1>6, HandlerIs DEF CheckEnabled, Fits
  <2>2. /\ HandlersOK' /\ FitsInv' /\ Moves(r, h'[r])
        /\ h'[r].at = "write" /\ h'[r].op = h[r].op /\ h'[r].u = h[r].u
        /\ h'[r].role = h[r].role /\ h'[r].body = h[r].body
    BY <1>6, <2>1, GotoKeeps DEF CoreOK
  <2> QED
    BY <1>1, <1>2, <1>3, <2>1, <2>2 DEF CoreOK, Checks, CheckRole, CountAdmins
<1>7. CASE CountAdmins(r) /\ Goto(r, "drop")
  <2>1. h[r].at = "count" /\ h[r].op = "delete"
    BY <1>7, HandlerIs DEF CountAdmins, Fits
  <2>2. /\ HandlersOK' /\ FitsInv' /\ Moves(r, h'[r])
        /\ h'[r].at = "drop" /\ h'[r].op = h[r].op /\ h'[r].u = h[r].u
        /\ h'[r].role = h[r].role /\ h'[r].body = h[r].body
    BY <1>7, <2>1, GotoKeeps DEF CoreOK
  <2> QED
    BY <1>1, <1>2, <1>3, <2>1, <2>2 DEF CoreOK, Checks, CheckEnabled, CheckRole
<1> QED
  BY <1>4, <1>5, <1>6, <1>7 DEF CheckRole, CheckEnabled, CountAdmins


LEMMA SiteStepsAre ==
    ASSUME CoreOK, NEW r \in Req, SaveSite(r) \/ ApplySite(r)
    PROVE  /\ CoreOK' /\ h[r].op = "site" /\ h[r].u = None /\ Allowed(h[r].site)
           /\ UNCHANGED <<users, memory, bounds, past>>
           /\ Moves(r, h'[r])
           /\ SaveSite(r) => /\ h'[r].at = "apply" /\ h'[r].op = "site" /\ h'[r].u = None
                             /\ h'[r].site = h[r].site
           /\ ApplySite(r) => h'[r] = Idle
<1>1. /\ h[r].op = "site" /\ h[r].u = None /\ Allowed(h[r].site)
      /\ h[r].at \in {"save", "apply"}
  BY HandlerIs DEF SaveSite, ApplySite, Fits
<1>2. UNCHANGED <<users, memory, bounds, past>>
  BY DEF SaveSite, ApplySite
<1>3. BoundsOK' /\ UsersOK'
  BY <1>2, BoundsKept DEF CoreOK, past, UsersOK
<1>4. CASE SaveSite(r)
  <2>1. /\ HandlersOK' /\ FitsInv' /\ Moves(r, h'[r])
        /\ h'[r].at = "apply" /\ h'[r].op = h[r].op /\ h'[r].u = h[r].u
        /\ h'[r].site = h[r].site
    BY <1>1, <1>4, GotoKeeps DEF CoreOK, SaveSite
  <2> QED
    BY <1>1, <1>2, <1>3, <1>4, <2>1 DEF CoreOK, SaveSite, ApplySite
<1>5. CASE ApplySite(r)
  <2>1. HandlersOK' /\ FitsInv' /\ Moves(r, Idle)
    BY <1>5, DoneKeeps DEF CoreOK, ApplySite
  <2>2. Moves(r, h'[r]) /\ h'[r] = Idle
    BY <2>1 DEF Moves
  <2> QED
    BY <1>1, <1>2, <1>3, <1>5, <2>1, <2>2 DEF CoreOK, SaveSite, ApplySite
<1> QED
  BY <1>4, <1>5

LEMMA BackfilledRow ==
    ASSUME NEW row \in Row
    PROVE  /\ Backfilled(row) \in Row /\ Backfilled(row).is = row.is
           /\ Backfilled(row).role = row.role /\ Backfilled(row).enabled = row.enabled
           /\ Backfilled(row).email = row.email
<1> DEFINE b == row.verified \/ (row.is = "live" /\ row.email # None)
<1>1. b \in BOOLEAN
  BY DEF Row
<1>2. Backfilled(row) = Flagged(row, b)
  BY Zenon DEF Backfilled, Flagged
<1> HIDE DEF b
<1> QED
  BY <1>1, <1>2, FlaggedRow

LEMMA RestartIs ==
    ASSUME CoreOK, Restart
    PROVE  /\ CoreOK' /\ \A q \in Req : h'[q] = Idle
           /\ UNCHANGED <<siteRow, granted, started, proved, crossed, rivals, used>>
           /\ \A u \in Users : Live(u) => /\ users'[u].is = "live"
                                          /\ users'[u].role = users[u].role
                                          /\ users'[u].enabled = users[u].enabled
                                          /\ users'[u].email = users[u].email
           /\ \A u \in Users : users'[u].is = "live" /\ users'[u].verified =>
                 \/ origin'[u] = "boot"
                 \/ Live(u) /\ users[u].verified /\ origin'[u] = origin[u]
           /\ \A u \in Users : origin'[u] \in {origin[u], "boot"}
<1>1. h' = [r \in Req |-> Idle] /\ (\A q \in Req : h'[q] = Idle)
  BY DEF Restart
<1>2. HandlersOK' /\ FitsInv'
  BY <1>1, IdleIsHandler, IdleFits DEF HandlersOK, FitsInv, Fits, Allowed
<1>3. UNCHANGED <<siteRow, granted, started, proved, crossed, rivals, used>>
  BY DEF Restart
<1>4. BoundsOK'
  BY <1>3, AccountsAssumption DEF Restart, CoreOK, BoundsOK
<1>5. users \in [Users -> Row]
  BY DEF CoreOK, UsersOK
<1>6. origin' = [u \in Users |-> IF users'[u].verified # users[u].verified THEN "boot"
                                 ELSE origin[u]]
  BY DEF Restart
<1>7. /\ origin' \in [Users -> {"none", "code", "admin", "boot"}]
      /\ \A u \in Users : origin'[u] \in {origin[u], "boot"}
      /\ \A u \in Users : users'[u].verified = users[u].verified \/ origin'[u] = "boot"
  BY <1>6 DEF CoreOK, UsersOK
<1>8. CASE users' = [u \in Users |-> Backfilled(users[u])]
  <2>1. \A u \in Users : /\ users'[u] \in Row /\ users'[u].is = users[u].is
                         /\ users'[u].role = users[u].role
                         /\ users'[u].enabled = users[u].enabled
                         /\ users'[u].email = users[u].email
    BY <1>5, <1>8, BackfilledRow
  <2>2. users' \in [Users -> Row]
    BY <1>8, <2>1
  <2>3. CoreOK'
    BY <1>2, <1>3, <1>4, <1>7, <2>2 DEF CoreOK, UsersOK
  <2>4. \A u \in Users : users'[u].verified = users[u].verified /\ origin'[u] # "boot"
           => origin'[u] = origin[u]
    BY <1>7
  <2> QED
    BY <1>1, <1>3, <1>7, <2>1, <2>3, <2>4 DEF Live
<1>9. CASE /\ \A u \in Users : ~Live(u)
           /\ \E u \in NextId : users' = [users EXCEPT ![u] = NewUser("admin", None, FALSE)]
  <2>1. PICK u \in NextId : users' = [users EXCEPT ![u] = NewUser("admin", None, FALSE)]
    BY <1>9
  <2>2. u \in Users
    BY DEF NextId, Unused
  <2>3. /\ NewUser("admin", None, FALSE) \in Row
        /\ NewUser("admin", None, FALSE).verified = FALSE
    BY NewRows DEF Roles
  <2>4. Puts(u, NewUser("admin", None, FALSE))
    BY <2>1, <2>2, <2>3, PutsType DEF CoreOK
  <2>5. CoreOK'
    BY <1>2, <1>3, <1>4, <1>7, <2>4 DEF CoreOK, UsersOK, Puts
  <2>6. \A v \in Users : users'[v].is = "live" => v = u
    BY <1>9, <2>4 DEF Puts, Live
  <2>7. users'[u].verified = FALSE
    BY <2>3, <2>4 DEF Puts
  <2> QED
    BY <1>1, <1>3, <1>7, <1>9, <2>5, <2>6, <2>7
<1> QED
  BY <1>8, <1>9 DEF Restart

\* The rest of the steps: which they are, and what they leave alone.
LEMMA StepKinds ==
    ASSUME CoreOK, SiteOK, MemoryOK, Next
    PROVE  \/ \E r \in Req : \E g : Begins(r, g)
           \/ \/ NewCaptcha
              \/ \E e \in Emails : Age(e)
              \/ \E r \in Req : GrantCode(r) \/ MailSent(r) \/ MailFailed(r)
              \/ \E r \in Req, x \in Captchas, right \in BOOLEAN : ProveRegister(r, x, right)
           \/ \E r \in Req : CreateRegistered(r)
           \/ \E role \in Roles, e \in Emails \cup {None} : CreateUser(role, e)
           \/ \E r \in Req : UpdatePatched(r) \/ DropUser(r) \/ UpdateProfile(r) \/ SetVerified(r)
           \/ \E r \in Req, right \in BOOLEAN : ProveVerify(r, right)
           \/ \E r \in Req : CheckRole(r) \/ CheckEnabled(r) \/ CountAdmins(r)
           \/ \E r \in Req : SaveSite(r) \/ ApplySite(r)
           \/ Restart
<1> USE DEF CoreOK
<1>1. ASSUME NEW r \in Req, Registration(r)
      PROVE  \/ \E g : Begins(r, g)
             \/ \E x \in Captchas, right \in BOOLEAN : ProveRegister(r, x, right)
             \/ CreateRegistered(r)
  BY <1>1, BeginsNobody DEF Registration
<1>2. ASSUME NEW r \in Req, Management(r)
      PROVE  \/ \E g : Begins(r, g)
             \/ CheckRole(r) \/ CheckEnabled(r) \/ UpdatePatched(r)
             \/ CountAdmins(r) \/ DropUser(r)
  BY <1>2, BeginsManager DEF Management
<1>3. ASSUME NEW r \in Req, Profile(r)
      PROVE  \/ \E g : Begins(r, g)
             \/ GrantCode(r) \/ MailSent(r) \/ MailFailed(r)
             \/ \E right \in BOOLEAN : ProveVerify(r, right)
             \/ UpdateProfile(r) \/ SetVerified(r)
  BY <1>3, BeginsOwner DEF Profile
<1>4. ASSUME NEW r \in Req, NEW in \in Inputs, StartSite(r, in)
      PROVE  \E g : Begins(r, g)
  BY <1>4, BeginsNobody
<1> QED
  BY <1>1, <1>2, <1>3, <1>4 DEF Next


-----------------------------------------------------------------------------
(* Types, codes and captchas. *)

LEMMA StepCore ==
    ASSUME CoreOK, SiteOK, MemoryOK, [Next]_vars
    PROVE  CoreOK'
<1>1. CASE UNCHANGED vars
  BY <1>1 DEF vars, settings, memory, past, bounds, CoreOK, UsersOK, HandlersOK, FitsInv, Fits,
              Allowed, BoundsOK
<1>2. ASSUME NEW r \in Req, NEW g, Begins(r, g)
      PROVE  CoreOK'
  BY <1>2, BeginsType DEF CoreOK, UsersOK
<1>3. ASSUME \/ NewCaptcha
             \/ \E e \in Emails : Age(e)
             \/ \E r \in Req : GrantCode(r) \/ MailSent(r) \/ MailFailed(r)
             \/ \E r \in Req, x \in Captchas, right \in BOOLEAN : ProveRegister(r, x, right)
      PROVE  CoreOK'
  <2>1. HandlersOK' /\ FitsInv' /\ BoundsOK' /\ Aside
    BY <1>3, AsideHandlers DEF CoreOK
  <2> QED
    BY <2>1 DEF Aside, past, CoreOK, UsersOK
<1>4. CASE Next
  BY <1>2, <1>3, <1>4, StepKinds, CreateRegisteredIs, CreateUserIs, UpdatePatchedIs, DropUserIs,
     UpdateProfileIs, SetVerifiedIs, ProveVerifyIs, ChecksAre, SiteStepsAre, RestartIs
<1> QED
  BY <1>1, <1>4

\* What an action does to codes and captchas.
LEMMA StepMemory ==
    ASSUME CoreOK, SiteOK, MemoryInv, [Next]_vars
    PROVE  MemoryInv'
<1>1. ASSUME UNCHANGED memory
      PROVE  MemoryInv'
  BY <1>1 DEF memory, MemoryInv, MemoryOK, CodesCounted, CodesDistinct, UngrantedUntouched,
              CaptchasUntouched, SpentOnce
<1>2. ASSUME NEW r \in Req,
             \/ \E e \in Emails, x \in Captchas, right \in BOOLEAN : SendCode(r, e, x, right)
             \/ \E e \in Emails : StartRegister(r, e)
             \/ \E in \in Inputs : StartSite(r, in)
             \/ \E u, me, body : StartPatch(r, u, me, body)
             \/ \E u, me : StartDelete(r, u, me)
             \/ \E u, e : StartProfile(r, u, e)
             \/ \E u : StartSend(r, u) \/ StartVerify(r, u)
             \/ SaveSite(r) \/ ApplySite(r) \/ CheckRole(r) \/ CheckEnabled(r)
             \/ UpdatePatched(r) \/ CountAdmins(r) \/ DropUser(r)
             \/ UpdateProfile(r) \/ SetVerified(r) \/ CreateRegistered(r)
      PROVE  MemoryInv'
  BY <1>1, <1>2, CheckCaptchaKeeps
     DEF SendCode, StartRegister, StartSite, StartPatch, StartDelete, StartProfile, StartSend,
         StartVerify, SaveSite, ApplySite, CheckRole, CheckEnabled, UpdatePatched, CountAdmins,
         DropUser, UpdateProfile, SetVerified, CreateRegistered
<1>3. ASSUME NEW r \in Req, NEW x \in Captchas, NEW right \in BOOLEAN,
             ProveRegister(r, x, right)
      PROVE  MemoryInv'
  <2>1. h[r].email \in Emails
    BY <1>3, HandlerIs DEF ProveRegister, Fits
  <2>2. Verify(h[r].email, right) \/ CheckCaptcha(x, right)
    BY <1>3 DEF ProveRegister
  <2> QED
    BY <2>1, <2>2, VerifyKeeps, CheckCaptchaKeeps
<1>4. ASSUME NEW r \in Req, NEW right \in BOOLEAN, ProveVerify(r, right)
      PROVE  MemoryInv'
  <2>1. h[r].email \in Emails
    BY <1>4, HandlerIs DEF ProveVerify, Fits
  <2> QED
    BY <1>4, <2>1, VerifyKeeps DEF ProveVerify
<1>5. ASSUME NEW r \in Req, GrantCode(r)
      PROVE  MemoryInv'
  <2>1. h[r].email \in Emails
    BY <1>5, HandlerIs DEF GrantCode, Fits
  <2> QED
    BY <1>1, <1>5, <2>1, GrantKeeps DEF GrantCode
<1>6. ASSUME NEW r \in Req, MailSent(r) \/ MailFailed(r)
      PROVE  MemoryInv'
  <2> DEFINE e == h[r].email
             c == IF codes[e].id = h[r].code THEN NoCode ELSE codes[e]
  <2>1. CASE MailSent(r)
    BY <1>1, <2>1 DEF MailSent
  <2>2. CASE MailFailed(r)
    <3>1. e \in Emails
      BY <2>2, HandlerIs DEF MailFailed, Fits
    <3>2. codes' = [codes EXCEPT ![e] = c] /\ UNCHANGED <<captchas, granted, used>>
      BY <2>2 DEF MailFailed
    <3>3. c \in Code /\ (c.id = 0 \/ (c.id = codes[e].id /\ c.tries = codes[e].tries))
      BY <3>1, MemoryConstants DEF MemoryInv, MemoryOK
    <3> HIDE DEF c, e
    <3> QED
      BY <3>1, <3>2, <3>3, CodeKept
  <2> QED
    BY <1>6, <2>1, <2>2
<1>7. ASSUME NEW e \in Emails, Age(e)
      PROVE  MemoryInv'
  <2> DEFINE age == IF codes[e].age = "hot" THEN "cool" ELSE "old"
             c == [codes[e] EXCEPT !.age = age]
  <2>1. codes[e] \in Code /\ age \in {"hot", "cool", "old"}
    BY DEF MemoryInv, MemoryOK
  <2>2. codes' = [codes EXCEPT ![e] = c] /\ UNCHANGED <<captchas, granted, used>>
    BY <1>7 DEF Age
  <2> HIDE DEF age
  <2>3. c \in Code /\ c.id = codes[e].id /\ c.tries = codes[e].tries
    BY <2>1 DEF Code
  <2> HIDE DEF c
  <2> QED
    BY <2>2, <2>3, CodeKept
<1>8. ASSUME NewCaptcha
      PROVE  MemoryInv'
  <2>1. PICK x \in Captchas : used[x] = Untouched /\ captchas' = captchas \cup {x}
    BY <1>8 DEF NewCaptcha
  <2>2. UNCHANGED <<codes, granted, used>>
    BY <1>8 DEF NewCaptcha
  <2> QED
    BY <2>1, <2>2 DEF MemoryInv, MemoryOK, CodesCounted, CodesDistinct, UngrantedUntouched,
                      CaptchasUntouched, SpentOnce
<1>9. ASSUME Restart
      PROVE  MemoryInv'
  <2>1. /\ codes' = [e \in Emails |-> NoCode] /\ captchas' = {}
        /\ UNCHANGED <<granted, used>>
    BY <1>9 DEF Restart
  <2>2. \A e \in Emails : codes'[e].id = 0
    BY <2>1, MemoryConstants
  <2>3. MemoryOK'
    BY <2>1, MemoryConstants DEF MemoryInv, MemoryOK
  <2> QED
    BY <2>1, <2>2, <2>3 DEF MemoryInv, CodesCounted, CodesDistinct, UngrantedUntouched,
                            CaptchasUntouched, SpentOnce
<1>10. ASSUME NEW role, NEW e, CreateUser(role, e)
       PROVE  MemoryInv'
  BY <1>1, <1>10 DEF CreateUser
<1>11. CASE UNCHANGED vars
  BY <1>1, <1>11 DEF vars, memory
<1>12. CASE \E r \in Req : Registration(r)
  BY <1>2, <1>3, <1>12 DEF Registration
<1>13. CASE \E r \in Req : Management(r)
  BY <1>2, <1>13 DEF Management
<1>14. CASE \E r \in Req : Profile(r)
  BY <1>2, <1>4, <1>5, <1>6, <1>14 DEF Profile
<1> QED
  BY <1>2, <1>7, <1>8, <1>9, <1>10, <1>11, <1>12, <1>13, <1>14 DEF Next


-----------------------------------------------------------------------------
(* The settings of the site. *)

\* What is stored, and in force, is allowed; what one PUT alone has stored is
\* what it will apply, and between two of them the two are the same.
InOrder(s) == s = First \/ Allowed(s)
StoredFirst ==
    ~contended =>
        /\ \A r \in Req : h[r].at = "apply" /\ (\A q \in Req \ {r} : h[q].op # "site")
              => siteRow = h[r].site
        /\ (\A r \in Req : h[r].at # "apply") => site = siteRow
SiteInv == SiteOK /\ InOrder(site) /\ InOrder(siteRow) /\ StoredFirst

LEMMA SiteUntouched ==
    ASSUME SiteInv, UNCHANGED settings, FitsInv,
           \A q \in Req : h'[q] = h[q] \/ (h'[q].at # "apply" /\ h[q].op # "site")
    PROVE  SiteInv'
<1>1. \A q \in Req : h[q].at = "apply" => h[q].op = "site"
  BY DEF FitsInv, Fits
<1>2. StoredFirst'
  <2> SUFFICES ASSUME ~contended'
               PROVE  /\ \A r \in Req :
                            h'[r].at = "apply" /\ (\A q \in Req \ {r} : h'[q].op # "site")
                            => siteRow' = h'[r].site
                      /\ (\A r \in Req : h'[r].at # "apply") => site' = siteRow'
    BY DEF StoredFirst
  <2>1. ASSUME NEW r \in Req, h'[r].at = "apply", \A q \in Req \ {r} : h'[q].op # "site"
        PROVE  siteRow' = h'[r].site
    <3>1. h[r] = h'[r] /\ \A q \in Req \ {r} : h[q].op # "site"
      BY <2>1
    <3> QED
      BY <2>1, <3>1 DEF SiteInv, StoredFirst, settings
  <2>2. ASSUME \A r \in Req : h'[r].at # "apply"
        PROVE  site' = siteRow'
    <3>1. \A r \in Req : h[r].at # "apply"
      BY <1>1, <2>2
    <3> QED
      BY <3>1 DEF SiteInv, StoredFirst, settings
  <2> QED
    BY <2>1, <2>2
<1> QED
  BY <1>2 DEF SiteInv, SiteOK, InOrder, Allowed, settings

LEMMA StepSite ==
    ASSUME CoreOK, SiteInv, MemoryOK, [Next]_vars
    PROVE  SiteInv'
<1>0. SiteOK /\ FitsInv
  BY DEF SiteInv, CoreOK
<1>1. CASE UNCHANGED vars
  BY <1>0, <1>1, SiteUntouched DEF vars, settings
<1>2. ASSUME NEW r \in Req, NEW g, Begins(r, g)
      PROVE  SiteInv'
  <2>1. Moves(r, g) /\ h[r] = Idle /\ UNCHANGED settings /\ g.at # "apply"
    BY <1>2, BeginsType DEF CoreOK, Begins
  <2>2. \A q \in Req : h'[q] = h[q] \/ (h'[q].at # "apply" /\ h[q].op # "site")
    BY <2>1, IdleIsHandler DEF Moves
  <2> QED
    BY <1>0, <2>1, <2>2, SiteUntouched
<1>3. ASSUME \/ NewCaptcha
             \/ \E e \in Emails : Age(e)
             \/ \E r \in Req : GrantCode(r) \/ MailSent(r) \/ MailFailed(r)
             \/ \E r \in Req, x \in Captchas, right \in BOOLEAN : ProveRegister(r, x, right)
      PROVE  SiteInv'
  <2>1. FitsInv' /\ Aside
    BY <1>0, <1>3, AsideHandlers DEF CoreOK
  <2>2. \A q \in Req : h'[q].op \in {"send", "register"} => h'[q].at # "apply"
    BY <2>1 DEF FitsInv, Fits
  <2>3. \A q \in Req : h'[q] = h[q] \/ (h'[q].at # "apply" /\ h[q].op # "site")
    BY <2>1, <2>2, IdleIsHandler DEF Aside
  <2> QED
    BY <1>0, <2>1, <2>3, SiteUntouched DEF Aside
<1>4. ASSUME NEW r \in Req, Moves(r, h'[r]), h[r].op # "site", h'[r].at # "apply",
             UNCHANGED settings
      PROVE  SiteInv'
  <2>1. \A q \in Req : h'[q] = h[q] \/ (h'[q].at # "apply" /\ h[q].op # "site")
    BY <1>4 DEF Moves
  <2> QED
    BY <1>0, <1>4, <2>1, SiteUntouched
<1>5. ASSUME NEW r \in Req,
             \/ CreateRegistered(r) \/ UpdatePatched(r) \/ DropUser(r)
             \/ UpdateProfile(r) \/ SetVerified(r)
      PROVE  SiteInv'
  <2>1. Moves(r, Idle) /\ h[r].op # "site" /\ UNCHANGED settings
    BY <1>5, CreateRegisteredIs, UpdatePatchedIs, DropUserIs, UpdateProfileIs, SetVerifiedIs
  <2> QED
    BY <1>4, <2>1, IdleIsHandler DEF Moves
<1>6. ASSUME NEW r \in Req, NEW right \in BOOLEAN, ProveVerify(r, right)
      PROVE  SiteInv'
  <2>1. Moves(r, h'[r]) /\ h[r].op # "site" /\ UNCHANGED settings /\ h'[r].at # "apply"
    BY <1>6, ProveVerifyIs, IdleIsHandler
  <2> QED
    BY <1>4, <2>1
<1>7. ASSUME NEW r \in Req, CheckRole(r) \/ CheckEnabled(r) \/ CountAdmins(r)
      PROVE  SiteInv'
  <2>1. Moves(r, h'[r]) /\ h[r].op # "site" /\ UNCHANGED settings /\ h'[r].at # "apply"
    BY <1>7, ChecksAre, IdleIsHandler DEF Checks, Manages
  <2> QED
    BY <1>4, <2>1
<1>8. ASSUME NEW role \in Roles, NEW e \in Emails \cup {None}, CreateUser(role, e)
      PROVE  SiteInv'
  BY <1>0, <1>8, CreateUserIs, SiteUntouched
<1>9. ASSUME NEW r \in Req, SaveSite(r)
      PROVE  SiteInv'
  <2>1. /\ h[r].op = "site" /\ Allowed(h[r].site) /\ Moves(r, h'[r]) /\ h'[r].at = "apply"
        /\ h'[r].site = h[r].site
    BY <1>9, SiteStepsAre
  <2>2. siteRow' = h[r].site /\ site' = site /\ contended' = contended
    BY <1>9 DEF SaveSite
  <2>3. h[r].site \in Settings
    BY HandlerIs DEF Handler
  <2>4. \A q \in Req : h[q].at = "apply" => h[q].op = "site"
    BY <1>0 DEF FitsInv, Fits
  <2>5. StoredFirst'
    <3>1. ASSUME NEW q \in Req, h'[q].at = "apply", \A p \in Req \ {q} : h'[p].op # "site"
          PROVE  siteRow' = h'[q].site
      <4>1. h'[r].op = "site"
        BY <1>9, SiteStepsAre
      <4>2. q = r
        BY <3>1, <4>1
      <4> QED
        BY <2>1, <2>2, <4>2
    <3> QED
      BY <2>1, <3>1 DEF StoredFirst
  <2> QED
    BY <2>1, <2>2, <2>3, <2>5 DEF SiteInv, SiteOK, InOrder, Allowed
<1>10. ASSUME NEW r \in Req, ApplySite(r)
       PROVE  SiteInv'
  <2>1. /\ h[r].op = "site" /\ Allowed(h[r].site) /\ Moves(r, Idle) /\ h[r].at = "apply"
    BY <1>10, SiteStepsAre DEF Moves, ApplySite
  <2>2. /\ site' = h[r].site /\ siteRow' = siteRow
        /\ contended' = (contended \/ \E q \in Req \ {r} : h[q].op = "site")
    BY <1>10 DEF ApplySite
  <2>3. h[r].site \in Settings
    BY HandlerIs DEF Handler
  <2>4. StoredFirst'
    <3> SUFFICES ASSUME ~contended'
                 PROVE  /\ \A q \in Req : h'[q].at # "apply"
                        /\ site' = siteRow'
      BY DEF StoredFirst
    <3>1. ~contended /\ \A q \in Req \ {r} : h[q].op # "site"
      BY <2>2
    <3>2. \A q \in Req \ {r} : h[q].at # "apply"
      BY <1>0, <3>1 DEF FitsInv, Fits
    <3>3. siteRow = h[r].site
      BY <2>1, <3>1 DEF SiteInv, StoredFirst
    <3> QED
      BY <2>1, <2>2, <3>2, <3>3, IdleIsHandler DEF Moves
  <2>5. contended' \in BOOLEAN
    BY <1>0, <2>2 DEF SiteOK
  <2> QED
    BY <2>1, <2>2, <2>3, <2>4, <2>5 DEF SiteInv, SiteOK, InOrder, Allowed
<1>11. ASSUME Restart
       PROVE  SiteInv'
  <2>1. site' = siteRow /\ siteRow' = siteRow /\ contended' = FALSE
    BY <1>11 DEF Restart
  <2>2. \A q \in Req : h'[q].at # "apply"
    BY <1>11, RestartIs, IdleIsHandler
  <2> QED
    BY <2>1, <2>2 DEF SiteInv, SiteOK, InOrder, Allowed, StoredFirst
<1>12. CASE Next
  BY <1>0, <1>2, <1>3, <1>5, <1>6, <1>7, <1>8, <1>9, <1>10, <1>11, <1>12, StepKinds
<1> QED
  BY <1>1, <1>12


-----------------------------------------------------------------------------
(* Administrators. *)

\* What the request that manages users, which is alone, has made sure of.
Checked(g) ==
    /\ g.u \in Users /\ Live(g.u) /\ users[g.u].role = g.role
    /\ g.at \in {"enabled", "write"} /\ g.op = "patch" /\ g.body.role = <<"user">>
          => HasAnotherEnabledAdmin(g.u)
    /\ g.at = "write" /\ g.op = "patch" /\ g.body.enabled = <<FALSE>>
          => HasAnotherEnabledAdmin(g.u)
    /\ g.at = "drop" => HasAnotherEnabledAdmin(g.u)
AdminInv ==
    ~rivals =>
        /\ Admins # {}
        /\ \A r, q \in Req : Manages(h[r].op) /\ Manages(h[q].op) => r = q
        /\ \A r \in Req : Manages(h[r].op) => Checked(h[r])

\* Nobody's role, switch or row is touched by a step that manages nobody.
Gentle == \A u \in Users : Live(u) => /\ users'[u].is = "live"
                                      /\ users'[u].role = users[u].role
                                      /\ users'[u].enabled = users[u].enabled

LEMMA GentleKeeps ==
    ASSUME AdminInv, Gentle, rivals' = rivals,
           \A q \in Req : Manages(h'[q].op) => h'[q] = h[q]
    PROVE  AdminInv'
<1>1. Admins \subseteq Admins'
  BY DEF Gentle, Admins, Live
<1>2. \A u : HasAnotherEnabledAdmin(u) => HasAnotherEnabledAdmin(u)'
  BY <1>1 DEF HasAnotherEnabledAdmin
<1>3. \A g : Checked(g) => Checked(g)'
  BY <1>2 DEF Checked, Gentle, Live
<1> QED
  BY <1>1, <1>3 DEF AdminInv

LEMMA PutsGentle ==
    ASSUME NEW u \in Users, NEW row, Puts(u, row),
           Live(u) => row.is = "live" /\ row.role = users[u].role
                      /\ row.enabled = users[u].enabled
    PROVE  Gentle
BY DEF Puts, Gentle, Live

\* A user who is no administrator is missed by none.
LEMMA OthersRemain ==
    ASSUME NEW u \in Users, Admins # {}, ~(Live(u) /\ users[u].role = "admin")
    PROVE  HasAnotherEnabledAdmin(u)
BY DEF Admins, HasAnotherEnabledAdmin

LEMMA StepAdmin ==
    ASSUME CoreOK, SiteOK, MemoryOK, AdminInv, [Next]_vars
    PROVE  AdminInv'
<1>1. CASE UNCHANGED vars
  BY <1>1, GentleKeeps DEF vars, past, Gentle, Live
<1>2. ASSUME NEW r \in Req, NEW g, Begins(r, g)
      PROVE  AdminInv'
  <2>1. /\ Moves(r, g) /\ h[r] = Idle /\ UNCHANGED users
        /\ rivals' = (rivals \/ (Manages(g.op) /\ \E o \in {h[q] : q \in Req \ {r}} : Manages(o.op)))
    BY <1>2, BeginsType DEF CoreOK, Begins, Start
  <2>2. Gentle
    BY <2>1 DEF Gentle, Live
  <2>3. CASE ~Manages(g.op)
    <3>1. rivals' = rivals
      BY <2>1, <2>3 DEF CoreOK, BoundsOK
    <3> QED
      BY <2>1, <2>2, <2>3, <3>1, IdleIsHandler, GentleKeeps DEF Moves
  <2>4. CASE Manages(g.op)
    <3> SUFFICES ASSUME ~rivals' PROVE AdminInv'
      BY DEF AdminInv
    <3>1. ~rivals /\ \A q \in Req \ {r} : ~Manages(h[q].op)
      BY <2>1, <2>4
    <3>2. \A q \in Req : Manages(h'[q].op) => q = r
      BY <2>1, <3>1 DEF Moves
    <3>3. /\ g.u \in Users /\ Live(g.u) /\ users[g.u].role = g.role
          /\ g.at \in {"role", "count"}
      BY <1>2, <2>4 DEF Begins, Manages, Fits
    <3>4. Checked(g)'
      BY <2>1, <3>3 DEF Checked, Live
    <3>5. Admins' # {}
      BY <2>1, <3>1 DEF AdminInv, Admins, Live
    <3> QED
      BY <2>1, <3>2, <3>4, <3>5 DEF AdminInv, Moves
  <2> QED
    BY <2>3, <2>4
<1>3. ASSUME \/ NewCaptcha
             \/ \E e \in Emails : Age(e)
             \/ \E r \in Req : GrantCode(r) \/ MailSent(r) \/ MailFailed(r)
             \/ \E r \in Req, x \in Captchas, right \in BOOLEAN : ProveRegister(r, x, right)
      PROVE  AdminInv'
  <2>1. Aside
    BY <1>3, AsideHandlers DEF CoreOK
  <2>2. \A q \in Req : Manages(h'[q].op) => h'[q] = h[q]
    BY <2>1, IdleIsHandler DEF Aside, Manages
  <2>3. Gentle /\ rivals' = rivals
    BY <2>1 DEF Aside, past, Gentle, Live
  <2> QED
    BY <2>2, <2>3, GentleKeeps
<1>4. ASSUME NEW r \in Req, Moves(r, h'[r]), ~Manages(h'[r].op), Gentle, rivals' = rivals
      PROVE  AdminInv'
  BY <1>4, GentleKeeps DEF Moves
<1>5. ASSUME NEW r \in Req, UpdateProfile(r)
      PROVE  AdminInv'
  <2>1. PICK row \in Row :
           /\ h[r].u \in Users /\ Puts(h[r].u, row) /\ row.is = users[h[r].u].is
           /\ row.role = users[h[r].u].role /\ row.enabled = users[h[r].u].enabled
    BY <1>5, UpdateProfileIs
  <2>2. Moves(r, Idle) /\ rivals' = rivals
    BY <1>5, UpdateProfileIs
  <2>3. Gentle
    BY <2>1, PutsGentle DEF Live
  <2> QED
    BY <1>4, <2>2, <2>3, IdleIsHandler DEF Moves, Manages
<1>6. ASSUME NEW r \in Req, SetVerified(r)
      PROVE  AdminInv'
  <2>1. PICK b \in BOOLEAN :
           h[r].u \in Users /\ Puts(h[r].u, Flagged(users[h[r].u], b))
    BY <1>6, SetVerifiedIs
  <2>2. Moves(r, Idle) /\ rivals' = rivals
    BY <1>6, SetVerifiedIs
  <2>3. users[h[r].u] \in Row
    BY <2>1 DEF CoreOK, UsersOK
  <2>4. Gentle
    BY <2>1, <2>3, FlaggedRow, PutsGentle DEF Live
  <2> QED
    BY <1>4, <2>2, <2>4, IdleIsHandler DEF Moves, Manages
<1>7. ASSUME NEW r \in Req, CreateRegistered(r)
      PROVE  AdminInv'
  <2>1. PICK u \in Users : /\ users[u].is = "new"
                           /\ Puts(u, NewUser("user", h[r].email, h[r].flag))
    BY <1>7, CreateRegisteredIs
  <2>2. Moves(r, Idle) /\ rivals' = rivals
    BY <1>7, CreateRegisteredIs
  <2>3. Gentle
    BY <2>1, PutsGentle DEF Live
  <2> QED
    BY <1>4, <2>2, <2>3, IdleIsHandler DEF Moves, Manages
<1>8. ASSUME NEW role \in Roles, NEW e \in Emails \cup {None}, CreateUser(role, e)
      PROVE  AdminInv'
  <2>1. PICK u \in Users : users[u].is = "new" /\ Puts(u, NewUser(role, e, FALSE))
    BY <1>8, CreateUserIs
  <2>2. h' = h /\ rivals' = rivals
    BY <1>8, CreateUserIs DEF past
  <2>3. Gentle
    BY <2>1, PutsGentle DEF Live
  <2> QED
    BY <2>2, <2>3, GentleKeeps
<1>9. ASSUME NEW r \in Req, NEW right \in BOOLEAN, ProveVerify(r, right)
      PROVE  AdminInv'
  <2>1. /\ Moves(r, h'[r]) /\ UNCHANGED users /\ rivals' = rivals
        /\ h'[r] = Idle \/ h'[r].op = "verify"
    BY <1>9, ProveVerifyIs
  <2> QED
    BY <1>4, <2>1, IdleIsHandler DEF Manages, Gentle, Live
<1>10. ASSUME NEW r \in Req, SaveSite(r) \/ ApplySite(r)
       PROVE  AdminInv'
  <2>1. /\ Moves(r, h'[r]) /\ UNCHANGED users /\ rivals' = rivals
        /\ h'[r] = Idle \/ h'[r].op = "site"
    BY <1>10, SiteStepsAre DEF past
  <2> QED
    BY <1>4, <2>1, IdleIsHandler DEF Manages, Gentle, Live
<1>11. ASSUME NEW r \in Req, CheckRole(r) \/ CheckEnabled(r) \/ CountAdmins(r)
       PROVE  AdminInv'
  <2> SUFFICES ASSUME ~rivals' PROVE AdminInv'
    BY DEF AdminInv
  <2>1. /\ Manages(h[r].op) /\ Moves(r, h'[r]) /\ users' = users /\ rivals' = rivals
        /\ \/ h'[r] = Idle
           \/ /\ h'[r].op = h[r].op /\ h'[r].u = h[r].u
              /\ h'[r].role = h[r].role /\ h'[r].body = h[r].body
    BY <1>11, ChecksAre DEF Checks, past
  <2>2. Gentle
    BY <2>1 DEF Gentle, Live
  <2>3. CASE h'[r] = Idle
    BY <1>4, <2>1, <2>2, <2>3, IdleIsHandler DEF Manages
  <2>4. CASE h'[r] # Idle
    <3>1. ~rivals /\ Admins # {} /\ Checked(h[r])
      BY <2>1 DEF AdminInv
    <3>2. \A q \in Req \ {r} : ~Manages(h[q].op)
      BY <2>1, <3>1 DEF AdminInv
    <3>3. h[r].u \in Users /\ Live(h[r].u) /\ users[h[r].u].role = h[r].role
      BY <3>1 DEF Checked
    <3>4. h[r].role # "admin" => HasAnotherEnabledAdmin(h[r].u)
      BY <3>1, <3>3, OthersRemain
    <3>5. ASSUME CheckRole(r)
         PROVE  Checked(h[r])'
      <4>1. h'[r].at = "enabled"
        BY <2>4, <3>5, ChecksAre DEF Checks
      <4>2. h[r].body.role = <<"user">> => HasAnotherEnabledAdmin(h[r].u)
        BY <2>1, <2>4, <3>4, <3>5, DoneType DEF CheckRole, CoreOK, Moves
      <4> QED
        BY <2>1, <2>4, <3>3, <4>1, <4>2 DEF Checked, Live, HasAnotherEnabledAdmin, Admins
    <3>6. ASSUME CheckEnabled(r)
         PROVE  Checked(h[r])'
      <4>1. h'[r].at = "write" /\ h[r].at = "enabled" /\ h[r].op = "patch"
        BY <2>4, <3>6, ChecksAre, HandlerIs DEF Checks, Fits
      <4>2. h[r].body.enabled = <<FALSE>> => HasAnotherEnabledAdmin(h[r].u)
        BY <2>1, <2>4, <3>4, <3>6, DoneType DEF CheckEnabled, CoreOK, Moves
      <4>3. h[r].body.role = <<"user">> => HasAnotherEnabledAdmin(h[r].u)
        BY <3>1, <4>1 DEF Checked
      <4> QED
        BY <2>1, <2>4, <3>3, <4>1, <4>2, <4>3 DEF Checked, Live, HasAnotherEnabledAdmin, Admins
    <3>7. ASSUME CountAdmins(r)
         PROVE  Checked(h[r])'
      <4>1. h'[r].at = "drop"
        BY <2>4, <3>7, ChecksAre DEF Checks
      <4>2. HasAnotherEnabledAdmin(h[r].u)
        BY <2>1, <2>4, <3>4, <3>7, DoneType DEF CountAdmins, CoreOK, Moves
      <4> QED
        BY <2>1, <2>4, <3>3, <4>1, <4>2 DEF Checked, Live, HasAnotherEnabledAdmin, Admins
    <3>8. Checked(h[r])' /\ Admins' # {}
      BY <1>11, <2>1, <3>1, <3>5, <3>6, <3>7 DEF Admins, Live
    <3>9. \A q \in Req : Manages(h'[q].op) => q = r
      BY <2>1, <3>2 DEF Moves
    <3> QED
      BY <3>8, <3>9 DEF AdminInv
  <2> QED
    BY <2>3, <2>4
\* A row that is patched or dropped leaves another enabled administrator.
<1>12. ASSUME NEW r \in Req, NEW row, Manages(h[r].op), Moves(r, Idle), rivals' = rivals,
              h[r].u \in Users, Puts(h[r].u, row),
              ~rivals => \/ HasAnotherEnabledAdmin(h[r].u)
                         \/ h[r].u \in Admins => /\ row.is = "live" /\ row.role = "admin"
                                                 /\ row.enabled = TRUE
       PROVE  AdminInv'
  <2> SUFFICES ASSUME ~rivals' PROVE AdminInv'
    BY DEF AdminInv
  <2>1. ~rivals /\ Admins # {} /\ \A q \in Req \ {r} : ~Manages(h[q].op)
    BY <1>12 DEF AdminInv
  <2>2. \A q \in Req : ~Manages(h'[q].op)
    BY <1>12, <2>1, IdleIsHandler DEF Moves, Manages
  <2>3. Admins' # {}
    <3>1. Admins \ {h[r].u} \subseteq Admins'
      BY <1>12 DEF Admins, Puts, Live
    <3>2. CASE HasAnotherEnabledAdmin(h[r].u)
      BY <3>1, <3>2 DEF HasAnotherEnabledAdmin
    <3>3. CASE /\ h[r].u \in Admins
               /\ row.is = "live" /\ row.role = "admin" /\ row.enabled = TRUE
      BY <1>12, <3>3 DEF Admins, Puts, Live
    <3>4. CASE h[r].u \notin Admins
      BY <2>1, <3>1, <3>4
    <3> QED
      BY <1>12, <2>1, <3>2, <3>3, <3>4
  <2> QED
    BY <2>2, <2>3 DEF AdminInv
<1>13. ASSUME NEW r \in Req, UpdatePatched(r)
       PROVE  AdminInv'
  <2> DEFINE u == h[r].u
             row == IF Live(u) THEN Patched(users[u], h[r].body) ELSE users[u]
  <2>1. /\ h[r].op = "patch" /\ h[r].at = "write" /\ u \in Users /\ Puts(u, row)
        /\ Moves(r, Idle) /\ rivals' = rivals
    BY <1>13, UpdatePatchedIs
  <2>2. h[r].body \in Body /\ users[u] \in Row /\ Manages(h[r].op)
    BY <2>1, HandlerIs DEF CoreOK, UsersOK, Manages
  <2>3. ASSUME ~rivals, ~HasAnotherEnabledAdmin(u), u \in Admins
        PROVE  row.is = "live" /\ row.role = "admin" /\ row.enabled = TRUE
    <3>1. Live(u) /\ users[u].role = "admin" /\ users[u].enabled = TRUE
      BY <2>2, <2>3 DEF Admins, Row
    <3>2. h[r].body.role # <<"user">> /\ h[r].body.enabled # <<FALSE>>
      BY <2>1, <2>2, <2>3 DEF AdminInv, Checked
    <3>3. Or(h[r].body.role, users[u].role) = "admin"
      BY <2>2, <3>1, <3>2 DEF Or, Body, Asked, Roles
    <3>4. Or(h[r].body.enabled, users[u].enabled) = TRUE
      <4>1. h[r].body.enabled \in Asked(BOOLEAN)
        BY <2>2 DEF Body
      <4>2. CASE h[r].body.enabled = <<>>
        BY <3>1, <4>2 DEF Or
      <4>3. ASSUME NEW v \in BOOLEAN, h[r].body.enabled = <<v>>
            PROVE  Or(h[r].body.enabled, users[u].enabled) = TRUE
        <5>1. v = TRUE
          BY <3>2, <4>3
        <5>2. <<v>>[1] = v /\ <<v>> # <<>>
          OBVIOUS
        <5> QED
          BY <4>3, <5>1, <5>2 DEF Or
      <4> QED
        BY <4>1, <4>2, <4>3 DEF Asked
    <3> QED
      BY <2>2, <3>1, <3>3, <3>4, PatchedRow DEF Live
  <2> HIDE DEF row
  <2> QED
    BY <1>12, <2>1, <2>2, <2>3
<1>14. ASSUME NEW r \in Req, DropUser(r)
       PROVE  AdminInv'
  <2>1. /\ h[r].op = "delete" /\ h[r].at = "drop" /\ h[r].u \in Users
        /\ Puts(h[r].u, NoRow("gone")) /\ Moves(r, Idle) /\ rivals' = rivals
    BY <1>14, DropUserIs DEF past
  <2>2. ~rivals => HasAnotherEnabledAdmin(h[r].u)
    BY <2>1 DEF AdminInv, Checked, Manages
  <2>3. Manages(h[r].op)
    BY <2>1 DEF Manages
  <2> QED
    BY <1>12, <2>1, <2>2, <2>3
<1>15. ASSUME Restart
       PROVE  AdminInv'
  <2>1. \A q \in Req : ~Manages(h'[q].op)
    BY <1>15, RestartIs, IdleIsHandler DEF Manages
  <2>2. Gentle /\ rivals' = rivals
    BY <1>15, RestartIs DEF Gentle
  <2> QED
    BY <2>1, <2>2, GentleKeeps
<1>16. CASE Next
  BY <1>2, <1>3, <1>5, <1>6, <1>7, <1>8, <1>9, <1>10, <1>11, <1>13, <1>14, <1>15, <1>16,
     StepKinds DEF CoreOK
<1> QED
  BY <1>1, <1>16


-----------------------------------------------------------------------------
(* Addresses. *)

\* The address of u counts as verified for one of the reasons there are.
ForAReason(u) ==
    Live(u) /\ users[u].email # None /\ users[u].verified
    => users[u].email \in proved[u] \/ origin[u] \in {"admin", "boot"}

\* What a handler about u, the only one, knows of u's address.
Knows(g, u) ==
    /\ g.op = "profile" /\ ~g.flag => g.email = None \/ (Live(u) => g.email = users[u].email)
    /\ g.op = "verify" => /\ Live(u) => g.email = users[u].email
                          /\ g.at = "write" => g.email \in proved[u]
OwnerInv ==
    /\ \A r \in Req : h[r].u \in Users => users[h[r].u].is # "new"
    /\ \A u \in Users \ crossed :
          /\ ForAReason(u)
          /\ \A r, q \in Req : h[r].u = u /\ h[q].u = u => r = q
          /\ \A r \in Req : h[r].u = u => Knows(h[r], u)

\* What the users keep, of all that OwnerInv says of them.
Unmoved(u) == /\ users'[u] = users[u] /\ origin'[u] = origin[u]
              /\ proved[u] \subseteq proved'[u]
\* A handler that goes on about the same user, with the same request.
GoesOn(g, old) ==
    /\ g.u = old.u /\ g.op = old.op
    /\ g.op \in {"profile", "verify"} => g.email = old.email /\ g.flag = old.flag
    /\ g.op = "verify" /\ g.at = "write" /\ old.at # "write" /\ g.u \in Users
          => g.email \in proved'[g.u]

LEMMA UnmovedReason ==
    ASSUME NEW u \in Users, Unmoved(u)
    PROVE  /\ ForAReason(u) => ForAReason(u)'
           /\ \A g, old : GoesOn(g, old) /\ old.u = u /\ Knows(old, u) => Knows(g, u)'
           /\ \A g : Knows(g, u) => Knows(g, u)'
BY DEF Unmoved, ForAReason, Knows, GoesOn, Live

\* The handlers go on or end, and u is among the users who stay as they were,
\* or whom no handler is about any more and whose address is in order.
LEMMA OwnersKept ==
    ASSUME OwnerInv, crossed' = crossed,
           \A q \in Req : \/ h'[q] = h[q]
                          \/ h'[q].u \notin Users
                          \/ GoesOn(h'[q], h[q]),
           \A u \in Users : \/ Unmoved(u)
                            \/ /\ users'[u].is # "new"
                               /\ \A q \in Req : h'[q].u # u
                               /\ u \notin crossed => ForAReason(u)'
                            \/ /\ u \in crossed /\ users'[u].is # "new"
    PROVE  OwnerInv'
<1>1. ASSUME NEW q \in Req, h'[q].u \in Users
      PROVE  users'[h'[q].u].is # "new" /\ h[q].u = h'[q].u
  <2>1. h[q].u = h'[q].u
    BY <1>1 DEF GoesOn
  <2>2. users[h[q].u].is # "new"
    BY <1>1, <2>1 DEF OwnerInv
  <2> QED
    BY <1>1, <2>1, <2>2 DEF Unmoved
<1>2. ASSUME NEW u \in Users \ crossed
      PROVE  /\ ForAReason(u)'
             /\ \A r, q \in Req : h'[r].u = u /\ h'[q].u = u => r = q
             /\ \A r \in Req : h'[r].u = u => Knows(h[r], u)'
  <2>1. \A r, q \in Req : h'[r].u = u /\ h'[q].u = u => r = q
    BY <1>1 DEF OwnerInv
  <2>2. CASE ~Unmoved(u)
    BY <2>1, <2>2
  <2>3. CASE Unmoved(u)
    <3>1. ForAReason(u)'
      BY <2>3, UnmovedReason DEF OwnerInv
    <3>2. ASSUME NEW r \in Req, h'[r].u = u
          PROVE  Knows(h[r], u)'
      <4>1. h[r].u = u /\ Knows(h[r], u)
        BY <1>1, <3>2 DEF OwnerInv
      <4>2. h'[r] = h[r] \/ GoesOn(h'[r], h[r])
        BY <3>2
      <4> QED
        BY <2>3, <4>1, <4>2, UnmovedReason
    <3> QED
      BY <2>1, <3>1, <3>2
  <2> QED
    BY <2>2, <2>3
<1> QED
  BY <1>1, <1>2 DEF OwnerInv

\* A handler about u that ends leaves nobody about u, unless requests crossed.
LEMMA LastAbout ==
    ASSUME OwnerInv, NEW r \in Req, NEW u \in Users, h[r].u = u, Moves(r, Idle)
    PROVE  u \in crossed \/ \A q \in Req : h'[q].u # u
<1>1. Idle.u \notin Users
  BY IdleIsHandler, NoneIsNobody
<1> QED
  BY <1>1 DEF OwnerInv, Moves

\* A handler that ends with a change to the row it is about.
LEMMA EndsAbout ==
    ASSUME OwnerInv, crossed' = crossed, NEW r \in Req, NEW u \in Users, h[r].u = u,
           Moves(r, Idle),
           \A v \in Users : v # u => Unmoved(v),
           users'[u].is # "new",
           u \notin crossed => ForAReason(u)'
    PROVE  OwnerInv'
<1>1. \A q \in Req : h'[q] = h[q] \/ h'[q].u \notin Users
  BY IdleIsHandler, NoneIsNobody DEF Moves
<1>2. u \in crossed \/ \A q \in Req : h'[q].u # u
  BY LastAbout
<1>3. \A v \in Users : \/ Unmoved(v)
                       \/ /\ users'[v].is # "new"
                          /\ \A q \in Req : h'[q].u # v
                          /\ v \notin crossed => ForAReason(v)'
                       \/ /\ v \in crossed /\ users'[v].is # "new"
  <2> TAKE v \in Users
  <2>1. CASE v # u
    BY <2>1
  <2>2. CASE v = u
    BY <1>2, <2>2
  <2> QED
    BY <2>1, <2>2
<1> QED
  BY <1>1, <1>3, OwnersKept

\* A row that did not exist is created; no handler is about it.
LEMMA CreatesRow ==
    ASSUME OwnerInv, crossed' = crossed,
           \A q \in Req : h'[q] = h[q] \/ h'[q].u \notin Users,
           NEW u \in Users, users[u].is = "new", users'[u].is # "new",
           \A v \in Users : v # u => Unmoved(v), ForAReason(u)'
    PROVE  OwnerInv'
<1>1. \A q \in Req : h'[q].u # u
  BY DEF OwnerInv
<1> QED
  BY <1>1, OwnersKept

LEMMA PutsUnmoved ==
    ASSUME NEW u \in Users, NEW row, Puts(u, row), OthersKept(u)
    PROVE  \A v \in Users : v # u => Unmoved(v)
BY DEF Puts, OthersKept, Unmoved


LEMMA StepOwner ==
    ASSUME CoreOK, SiteOK, MemoryOK, OwnerInv, [Next]_vars
    PROVE  OwnerInv'
<1>0. Idle.u \notin Users
  BY IdleIsHandler, NoneIsNobody
<1>1. ASSUME UNCHANGED <<users, origin, proved, crossed>>,
             \A q \in Req : h'[q] = h[q] \/ h'[q].u \notin Users \/ GoesOn(h'[q], h[q])
      PROVE  OwnerInv'
  <2>1. \A u \in Users : Unmoved(u)
    BY <1>1 DEF Unmoved
  <2> QED
    BY <1>1, <2>1, OwnersKept
<1>2. CASE UNCHANGED vars
  BY <1>1, <1>2 DEF vars, past
<1>3. ASSUME NEW r \in Req, NEW g, Begins(r, g)
      PROVE  OwnerInv'
  <2>1. /\ Moves(r, g) /\ h[r] = Idle /\ UNCHANGED <<users, origin, proved>>
        /\ crossed' = crossed \cup {u \in Users : g.u = u /\ \E o \in {h[q] : q \in Req \ {r}} :
                                                                o.u = u}
    BY <1>3, BeginsType DEF CoreOK, Begins, Start
  <2>2. /\ g.u \in Users => Live(g.u)
        /\ g.op = "profile" /\ ~g.flag => g.email = None \/ g.email = users[g.u].email
        /\ g.op = "verify" => g.at = "prove" /\ g.email = users[g.u].email
    BY <1>3 DEF Begins
  <2>3. ASSUME NEW q \in Req, h'[q].u \in Users
        PROVE  users'[h'[q].u].is # "new"
    BY <2>1, <2>2, <2>3 DEF Moves, OwnerInv, Live
  <2>4. ASSUME NEW u \in Users \ crossed'
        PROVE  /\ ForAReason(u)'
               /\ \A p, q \in Req : h'[p].u = u /\ h'[q].u = u => p = q
               /\ \A q \in Req : h'[q].u = u => Knows(h[q], u)'
    <3>1. u \in Users \ crossed
      BY <2>1
    <3>2. g.u = u => \A q \in Req \ {r} : h[q].u # u
      BY <2>1
    <3>3. ForAReason(u)'
      BY <2>1, <3>1 DEF OwnerInv, ForAReason, Live
    <3>4. \A p, q \in Req : h'[p].u = u /\ h'[q].u = u => p = q
      BY <2>1, <3>1, <3>2 DEF OwnerInv, Moves
    <3>5. ASSUME NEW q \in Req, h'[q].u = u
          PROVE  Knows(h[q], u)'
      <4>1. CASE q = r
        BY <2>1, <2>2, <3>5, <4>1 DEF Knows, Moves, Live
      <4>2. CASE q # r
        BY <2>1, <3>1, <3>5, <4>2 DEF OwnerInv, Knows, Moves, Live
      <4> QED
        BY <4>1, <4>2
    <3> QED
      BY <3>3, <3>4, <3>5
  <2> QED
    BY <2>3, <2>4 DEF OwnerInv
<1>4. ASSUME \/ NewCaptcha
             \/ \E e \in Emails : Age(e)
             \/ \E r \in Req : GrantCode(r) \/ MailSent(r) \/ MailFailed(r)
             \/ \E r \in Req, x \in Captchas, right \in BOOLEAN : ProveRegister(r, x, right)
      PROVE  OwnerInv'
  <2>1. Aside
    BY <1>4, AsideHandlers DEF CoreOK
  <2>2. \A q \in Req : h'[q] = h[q] \/ h'[q].u \notin Users \/ GoesOn(h'[q], h[q])
    BY <1>0, <2>1 DEF Aside, GoesOn
  <2> QED
    BY <1>1, <2>1, <2>2 DEF Aside, past
<1>5. ASSUME NEW r \in Req, CreateRegistered(r)
      PROVE  OwnerInv'
  <2>1. PICK u \in Users : /\ users[u].is = "new" /\ OthersKept(u)
                           /\ Puts(u, NewUser("user", h[r].email, h[r].flag))
                           /\ h[r].flag => proved'[u] = {h[r].email}
    BY <1>5, CreateRegisteredIs
  <2>2. crossed' = crossed /\ Moves(r, Idle)
    BY <1>5, CreateRegisteredIs
  <2>3. /\ users'[u].is # "new" /\ users'[u].email = h[r].email
        /\ users'[u].verified = h[r].flag
    <3>1. h[r].email \in Emails \cup {None} /\ h[r].flag \in BOOLEAN /\ "user" \in Roles
      BY HandlerIs DEF Roles
    <3>2. \A e \in Emails \cup {None}, b \in BOOLEAN :
             /\ NewUser("user", e, b).is = "live" /\ NewUser("user", e, b).email = e
             /\ NewUser("user", e, b).verified = b
      BY DEF NewUser
    <3> QED
      BY <2>1, <3>1, <3>2 DEF Puts
  <2>4. ForAReason(u)'
    BY <2>1, <2>3 DEF ForAReason
  <2> QED
    BY <1>0, <2>1, <2>2, <2>3, <2>4, PutsUnmoved, CreatesRow DEF Moves
<1>6. ASSUME NEW role \in Roles, NEW e \in Emails \cup {None}, CreateUser(role, e)
      PROVE  OwnerInv'
  <2>1. PICK u \in Users :
           users[u].is = "new" /\ OthersKept(u) /\ Puts(u, NewUser(role, e, FALSE))
    BY <1>6, CreateUserIs
  <2>2. crossed' = crossed /\ h' = h
    BY <1>6, CreateUserIs DEF past
  <2>3. users'[u].is # "new" /\ ~users'[u].verified
    <3>1. NewUser(role, e, FALSE).is = "live" /\ ~NewUser(role, e, FALSE).verified
      BY NewRows
    <3> QED
      BY <2>1, <3>1 DEF Puts
  <2>4. ForAReason(u)'
    BY <2>3 DEF ForAReason
  <2> QED
    BY <2>1, <2>2, <2>3, <2>4, PutsUnmoved, CreatesRow
<1>7. ASSUME NEW r \in Req, UpdatePatched(r)
      PROVE  OwnerInv'
  <2>1. PICK u \in Users : h[r].u = u
    BY <1>7, UpdatePatchedIs
  <2> DEFINE row == IF Live(u) THEN Patched(users[u], h[r].body) ELSE users[u]
  <2>2. /\ Moves(r, Idle) /\ crossed' = crossed /\ proved' = proved /\ OthersKept(u)
        /\ Puts(u, row)
        /\ origin'[u] = IF h[r].body.email # <<>> THEN "admin" ELSE origin[u]
    BY <1>7, <2>1, UpdatePatchedIs
  <2>3. h[r].body \in Body /\ users[u] \in Row
    BY HandlerIs DEF CoreOK, UsersOK
  <2>4. users[u].is # "new"
    BY <2>1 DEF OwnerInv
  <2>5. /\ row.is = users[u].is /\ row.verified = users[u].verified
        /\ h[r].body.email = <<>> => row.email = users[u].email
    BY <2>3, PatchedRow DEF Or
  <2> HIDE DEF row
  <2>6. ASSUME u \notin crossed
        PROVE  ForAReason(u)'
    <3>1. ForAReason(u)
      BY <2>6 DEF OwnerInv
    <3>2. users'[u] = row
      BY <2>2 DEF Puts
    <3> QED
      BY <2>2, <2>5, <3>1, <3>2 DEF ForAReason, Live
  <2>7. users'[u].is # "new"
    BY <2>2, <2>4, <2>5 DEF Puts
  <2> QED
    BY <2>1, <2>2, <2>6, <2>7, PutsUnmoved, EndsAbout
<1>8. ASSUME NEW r \in Req, DropUser(r)
      PROVE  OwnerInv'
  <2>1. PICK u \in Users : h[r].u = u
    BY <1>8, DropUserIs
  <2>2. Moves(r, Idle) /\ crossed' = crossed /\ OthersKept(u) /\ Puts(u, NoRow("gone"))
    BY <1>8, <2>1, DropUserIs DEF past
  <2>3. users'[u].is = "gone"
    BY <2>2, GoneRow DEF Puts
  <2>4. ForAReason(u)'
    BY <2>3 DEF ForAReason, Live
  <2> QED
    BY <2>1, <2>2, <2>3, <2>4, PutsUnmoved, EndsAbout
<1>9. ASSUME NEW r \in Req, UpdateProfile(r)
      PROVE  OwnerInv'
  <2>1. PICK u \in Users : h[r].u = u
    BY <1>9, UpdateProfileIs
  <2>2. /\ Moves(r, Idle) /\ crossed' = crossed /\ proved' = proved /\ OthersKept(u)
        /\ origin'[u] = IF h[r].flag THEN "none" ELSE origin[u]
        /\ h[r].op = "profile"
    BY <1>9, <2>1, UpdateProfileIs
  <2>3. PICK row \in Row :
           /\ Puts(u, row) /\ row.is = users[u].is
           /\ Live(u) => /\ row.email = h[r].email
                         /\ row.verified = (users[u].verified /\ ~h[r].flag)
    BY <1>9, <2>1, UpdateProfileIs
  <2>4. users[u].is # "new" /\ users'[u] = row
    BY <2>1, <2>3 DEF OwnerInv, Puts
  <2>5. ASSUME u \notin crossed
        PROVE  ForAReason(u)'
    <3>1. ForAReason(u) /\ Knows(h[r], u)
      BY <2>1, <2>5 DEF OwnerInv
    <3> SUFFICES ASSUME users'[u].is = "live", users'[u].email # None, users'[u].verified
                 PROVE  users'[u].email \in proved'[u] \/ origin'[u] \in {"admin", "boot"}
      BY DEF ForAReason, Live
    <3>2. Live(u) /\ users[u].verified /\ ~h[r].flag /\ users'[u].email = h[r].email
      BY <2>3, <2>4 DEF Live
    <3>3. users[u].email = h[r].email /\ h[r].email # None
      BY <2>2, <3>1, <3>2 DEF Knows
    <3> QED
      BY <2>2, <3>1, <3>2, <3>3 DEF ForAReason
  <2> QED
    BY <2>1, <2>2, <2>3, <2>4, <2>5, PutsUnmoved, EndsAbout
<1>10. ASSUME NEW r \in Req, SetVerified(r)
       PROVE  OwnerInv'
  <2>1. PICK u \in Users : h[r].u = u
    BY <1>10, SetVerifiedIs
  <2>2. /\ Moves(r, Idle) /\ crossed' = crossed /\ proved' = proved /\ OthersKept(u)
        /\ h[r].op = "verify" /\ h[r].at = "write"
    BY <1>10, <2>1, SetVerifiedIs
  <2>3. PICK b \in BOOLEAN : Puts(u, Flagged(users[u], b))
    BY <1>10, <2>1, SetVerifiedIs
  <2>4. users[u] \in Row /\ users[u].is # "new"
    BY <2>1 DEF CoreOK, UsersOK, OwnerInv
  <2>5. users'[u].is = users[u].is /\ users'[u].email = users[u].email
    BY <2>3, <2>4, FlaggedRow DEF Puts
  <2>6. ASSUME u \notin crossed
        PROVE  ForAReason(u)'
    <3>1. Knows(h[r], u)
      BY <2>1, <2>6 DEF OwnerInv
    <3> QED
      BY <2>2, <2>5, <3>1 DEF Knows, ForAReason, Live
  <2> QED
    BY <2>1, <2>2, <2>3, <2>4, <2>5, <2>6, PutsUnmoved, EndsAbout
<1>11. ASSUME NEW r \in Req, NEW right \in BOOLEAN, ProveVerify(r, right)
       PROVE  OwnerInv'
  <2>1. /\ UNCHANGED <<users, origin, crossed>> /\ h[r].op = "verify"
        /\ \A v \in Users : proved[v] \subseteq proved'[v]
        /\ Moves(r, h'[r])
        /\ \/ h'[r] = Idle
           \/ /\ h'[r].op = "verify" /\ h'[r].u = h[r].u
              /\ h'[r].email = h[r].email /\ h'[r].flag = h[r].flag
              /\ h[r].email \in proved'[h[r].u]
    BY <1>11, ProveVerifyIs
  <2>2. \A u \in Users : Unmoved(u)
    BY <2>1 DEF Unmoved
  <2>3. \A q \in Req : h'[q] = h[q] \/ h'[q].u \notin Users \/ GoesOn(h'[q], h[q])
    BY <1>0, <2>1 DEF Moves, GoesOn
  <2> QED
    BY <2>1, <2>2, <2>3, OwnersKept
<1>12. ASSUME NEW r \in Req, CheckRole(r) \/ CheckEnabled(r) \/ CountAdmins(r)
       PROVE  OwnerInv'
  <2>1. /\ Manages(h[r].op) /\ UNCHANGED <<users, past>> /\ Moves(r, h'[r])
        /\ h'[r] = Idle \/ (h'[r].op = h[r].op /\ h'[r].u = h[r].u)
    BY <1>12, ChecksAre DEF Checks
  <2>2. \A q \in Req : h'[q] = h[q] \/ h'[q].u \notin Users \/ GoesOn(h'[q], h[q])
    BY <1>0, <2>1 DEF Moves, GoesOn, Manages
  <2> QED
    BY <1>1, <2>1, <2>2 DEF past
<1>13. ASSUME NEW r \in Req, SaveSite(r) \/ ApplySite(r)
       PROVE  OwnerInv'
  <2>1. /\ UNCHANGED <<users, past>> /\ Moves(r, h'[r])
        /\ h'[r] = Idle \/ h'[r].u = None
    BY <1>13, SiteStepsAre
  <2>2. \A q \in Req : h'[q] = h[q] \/ h'[q].u \notin Users
    BY <1>0, <2>1, NoneIsNobody DEF Moves
  <2> QED
    BY <1>1, <2>1, <2>2 DEF past
<1>14. ASSUME Restart
       PROVE  OwnerInv'
  <2>1. /\ \A q \in Req : h'[q].u \notin Users
        /\ proved' = proved /\ crossed' = crossed
    BY <1>0, <1>14, RestartIs
  <2>2. ASSUME NEW u \in Users \ crossed
        PROVE  ForAReason(u)'
    <3>1. ForAReason(u)
      BY <2>2 DEF OwnerInv
    <3>2. /\ Live(u) => users'[u].email = users[u].email
          /\ users'[u].is = "live" /\ users'[u].verified =>
                \/ origin'[u] = "boot"
                \/ Live(u) /\ users[u].verified /\ origin'[u] = origin[u]
      BY <1>14, RestartIs
    <3> QED
      BY <2>1, <3>1, <3>2 DEF ForAReason, Live
  <2> QED
    BY <2>1, <2>2 DEF OwnerInv
<1>15. CASE Next
  BY <1>3, <1>4, <1>5, <1>6, <1>7, <1>8, <1>9, <1>10, <1>11, <1>12, <1>13, <1>14, <1>15,
     StepKinds DEF CoreOK
<1> QED
  BY <1>2, <1>15


-----------------------------------------------------------------------------
(* The theorems. *)

\* All the invariants of Accounts at once.
AccountsIInv == CoreOK /\ SiteInv /\ MemoryInv /\ AdminInv /\ OwnerInv

LEMMA AccountsInit == Init => AccountsIInv
<1> SUFFICES ASSUME Init PROVE AccountsIInv
  OBVIOUS
<1>1. /\ NoRow("new") \in Row /\ NoRow("new").is = "new" /\ NoRow("new").verified = FALSE
  BY GoneRow
<1>2. /\ NewUser("admin", None, FALSE) \in Row
      /\ NewUser("admin", None, FALSE).is = "live"
      /\ NewUser("admin", None, FALSE).role = "admin"
      /\ NewUser("admin", None, FALSE).enabled = TRUE
      /\ NewUser("admin", None, FALSE).verified = FALSE
  BY NewRows DEF Roles
<1> DEFINE seed == NewUser("admin", None, FALSE)
           none == NoRow("new")
<1>3. users = [u \in Users |-> IF u = Seed THEN seed ELSE none]
  BY DEF Init
<1> HIDE DEF seed, none
<1>4. /\ users \in [Users -> Row] /\ \A u \in Users : users[u] \in {seed, none}
      /\ Seed \in Users /\ users[Seed] = seed
  BY <1>1, <1>2, <1>3, AccountsAssumption DEF seed, none
<1>5. h = [r \in Req |-> Idle] /\ \A r \in Req : h[r] = Idle /\ h[r].u \notin Users
  BY IdleIsHandler, NoneIsNobody DEF Init
<1>6. CoreOK
  <2>1. UsersOK
    BY <1>4 DEF Init, UsersOK
  <2>2. HandlersOK /\ FitsInv
    BY <1>5, IdleIsHandler, IdleFits DEF HandlersOK, FitsInv
  <2>3. BoundsOK
    <3>1. MaxStarted \in Nat /\ MaxRestarts \in Nat
      BY AccountsAssumption
    <3>2. 0 \in 0 .. MaxStarted /\ 0 \in 0 .. MaxRestarts
      BY <3>1
    <3> QED
      BY <3>2 DEF Init, BoundsOK
  <2> QED
    BY <2>1, <2>2, <2>3 DEF CoreOK
<1>7. SiteInv
  BY AccountsAssumption, <1>5, IdleIsHandler DEF Init, SiteInv, SiteOK, InOrder, StoredFirst
<1>8. MemoryInv
  <2>1. /\ codes = [e \in Emails |-> NoCode] /\ captchas = {} /\ granted = 0
        /\ used = [x \in Codes \cup Captchas |-> Untouched]
    BY DEF Init
  <2>2. MemoryOK
    BY <2>1, MemoryConstants DEF MemoryOK
  <2>3. \A e \in Emails : codes[e].id = 0
    BY <2>1, MemoryConstants
  <2>4. SpentOnce
    BY <2>1, MemoryConstants DEF SpentOnce
  <2> QED
    BY <2>1, <2>2, <2>3, <2>4 DEF MemoryInv, CodesCounted, CodesDistinct, UngrantedUntouched,
                                  CaptchasUntouched
<1>9. AdminInv
  <2>1. Seed \in Admins
    BY <1>2, <1>4 DEF Admins, Live, seed
  <2>2. \A r \in Req : ~Manages(h[r].op)
    BY <1>5, IdleIsHandler DEF Manages
  <2> QED
    BY <2>1, <2>2 DEF AdminInv
<1>10. OwnerInv
  <2>1. \A u \in Users : ~users[u].verified
    BY <1>1, <1>2, <1>4 DEF seed, none
  <2> QED
    BY <1>5, <2>1 DEF OwnerInv, ForAReason
<1> QED
  BY <1>6, <1>7, <1>8, <1>9, <1>10 DEF AccountsIInv

LEMMA AccountsStep == AccountsIInv /\ [Next]_vars => AccountsIInv'
<1> SUFFICES ASSUME AccountsIInv, [Next]_vars PROVE AccountsIInv'
  OBVIOUS
<1>1. CoreOK /\ SiteInv /\ MemoryInv /\ AdminInv /\ OwnerInv /\ SiteOK /\ MemoryOK
  BY DEF AccountsIInv, SiteInv, MemoryInv
<1> QED
  BY <1>1, StepCore, StepSite, StepMemory, StepAdmin, StepOwner DEF AccountsIInv

\* The invariant of all the parts holds in every state.
THEOREM AccountsInductive == Spec => []AccountsIInv
BY AccountsInit, AccountsStep, PTL DEF Spec

\* "must keep at least one enabled admin" (users.go:289), whatever is asked for,
\* unless requests of administrators overlap.
THEOREM AdminRemainsAlways == Spec => []AdminRemains
<1>1. AccountsIInv => AdminRemains
  BY DEF AccountsIInv, AdminInv, AdminRemains
<1> QED
  BY <1>1, AccountsInductive, PTL

\* emailVerifiedBlocked (users.go:161) lets an address through only when its
\* owner typed a code sent to it, or for one of the exceptions that are named.
THEOREM VerifiedByOwnerAlways == Spec => []VerifiedByOwner
<1>1. AccountsIInv => VerifiedByOwner
  <2> SUFFICES ASSUME AccountsIInv, NEW u \in Users,
                      Live(u), users[u].role = "user", users[u].email # None,
                      ~EmailVerifiedBlocked(u)
               PROVE  \/ users[u].email \in proved[u]
                      \/ origin[u] \in {"admin", "boot"}
                      \/ u \in crossed
    BY DEF VerifiedByOwner
  <2>1. users[u].verified
    BY DEF EmailVerifiedBlocked
  <2> QED
    BY <2>1 DEF AccountsIInv, OwnerInv, ForAReason
<1> QED
  BY <1>1, AccountsInductive, PTL

\* Codes and captchas serve once (register.go:80-106, captcha.go:103-118), and
\* the settings are in order (site.go:66-90, 160-220), with any number of
\* requests at once.
THEOREM AccountsInvAlways == Spec => []AccountsInv
<1>1. AccountsIInv => AccountsInv
  <2> SUFFICES ASSUME AccountsIInv PROVE AccountsInv
    OBVIOUS
  <2>1. TypeOK
    <3>1. UsersOK /\ HandlersOK /\ BoundsOK /\ SiteOK /\ MemoryOK
      BY DEF AccountsIInv, CoreOK, SiteInv, MemoryInv
    <3>2. \A e \in Emails : codes[e].id <= granted
      <4>1. \A e \in Emails : codes[e] \in Code /\ granted \in 0 .. MaxCode
        BY <3>1 DEF MemoryOK
      <4> QED
        BY <4>1, AccountsAssumption DEF AccountsIInv, MemoryInv, CodesCounted, Code
    <3> QED
      BY <3>1, <3>2 DEF TypeOK, UsersOK, HandlersOK, BoundsOK, SiteOK, MemoryOK, Use
  <2>2. OpenCodesUnspent /\ SpentOnce
    BY DEF AccountsIInv, MemoryInv, CodesCounted, OpenCodesUnspent
  <2>3. SettingsInOrder
    BY DEF AccountsIInv, SiteInv, SiteOK, InOrder, StoredFirst, SettingsInOrder
  <2> QED
    BY <2>1, <2>2, <2>3 DEF AccountsInv
<1> QED
  BY <1>1, AccountsInductive, PTL
=============================================================================
