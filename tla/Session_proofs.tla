----------------------------- MODULE Session_proofs -----------------------------
(***************************************************************************)
(* Proofs about Session for every set of users, any number of retries and  *)
(* of requests in flight, on both platforms.  A lemma for each operator    *)
(* says that its result is a phone and its requests, and that it keeps     *)
(* what the theorems rest on; the step lemmas then go through the actions. *)
(***************************************************************************)
EXTENDS Session, TLAPS, SequenceTheorems

(* What holds of the phone as long as no answer of an earlier session was  *)
(* used: whatever it keeps or has registered is of one user, the home page *)
(* knows no other device than the preferences, native code stores none     *)
(* without them (for it registers what it stored when the process starts), *)
(* and the log-in form shows only once all of that is gone.                *)
OneUser(a) ==
  /\ a.prefs.device \in {NoUser, a.prefs.username}
  /\ a.native.default \in {NoUser, a.prefs.username}
  /\ a.native.stored \in {NoUser, a.prefs.username}

DeviceIsKept(a) == a.page.device \in {NoUser, a.prefs.device}

StoredIsKept(a) == a.prefs.device = NoUser => a.native.stored = NoUser

NobodyAtTheForm(a) ==
  ~a.page.loggedIn => /\ a.prefs.device = NoUser
                      /\ a.native.default = NoUser /\ a.native.stored = NoUser

Good(a) == OneUser(a) /\ DeviceIsKept(a) /\ StoredIsKept(a) /\ NobodyAtTheForm(a)

(* A handler that starts from phone a. *)
Keeps(a, b) == b \in App /\ (Good(a) => Good(b))

KeepsAll(a, result) ==
  Keeps(a, result.app) /\ result.requests \in Seq(Request)

-----------------------------------------------------------------------------
LEMMA KeepsItself ==
  ASSUME NEW a \in App
  PROVE  Keeps(a, a)
BY DEF Keeps

LEMMA KeepsTransitive ==
  ASSUME NEW a, NEW b, NEW c, Keeps(a, b), Keeps(b, c)
  PROVE  Keeps(a, c)
BY DEF Keeps

LEMMA KeepsAllTransitive ==
  ASSUME NEW a, NEW b, NEW result, Keeps(a, b), KeepsAll(b, result)
  PROVE  KeepsAll(a, result)
BY DEF Keeps, KeepsAll

(* What changes neither the users nor the page leaves a good phone good.   *)
SameUsers(a, b) == b.prefs = a.prefs /\ b.page = a.page /\ b.native = a.native

LEMMA SameUsersKeeps ==
  ASSUME NEW a, NEW b \in App, SameUsers(a, b)
  PROVE  Keeps(a, b)
BY DEF SameUsers, Keeps, Good, OneUser, DeviceIsKept, StoredIsKept, NobodyAtTheForm

(* Taking a request out of those in flight leaves requests. *)
LEMMA RemoveAtType ==
  ASSUME NEW rs \in Seq(Request), NEW k \in DOMAIN rs
  PROVE  RemoveAt(rs, k) \in Seq(Request)
BY DEF RemoveAt

LEMMA ResultKeepsAll ==
  ASSUME NEW a, NEW b, Keeps(a, b), NEW rs \in Seq(Request)
  PROVE  KeepsAll(a, Result(b, rs))
BY DEF KeepsAll, Result

LEMMA AsksKeepsAll ==
  ASSUME NEW a, NEW b, Keeps(a, b), NEW rs \in Seq(Request), NEW kind \in Kinds,
         NEW user \in SomeUser, NEW shown \in BOOLEAN
  PROVE  KeepsAll(a, Asks(b, rs, kind, user, shown))
<1> DEFINE r == [kind |-> kind, user |-> user, sent |-> b.prefs.username,
                 shown |-> shown, retry |-> 0, waiting |-> FALSE]
<1>1. b.prefs.username \in SomeUser
  BY DEF Keeps, App
<1>2. r \in Request
  BY <1>1, SessionAssumption DEF Request
<1> HIDE DEF r
<1>3. Append(rs, r) \in Seq(Request)
  BY <1>2
<1>4. Asks(b, rs, kind, user, shown) = Result(b, Append(rs, r))
  BY DEF Asks, r
<1> QED BY <1>3, <1>4, ResultKeepsAll

-----------------------------------------------------------------------------
(* Registering the device the phone has belongs to leaves it good. *)
LEMMA RegisterKeeps ==
  ASSUME NEW a \in App, android \in BOOLEAN, NEW u \in SomeUser,
         Good(a) => u = a.prefs.device, a.page.loggedIn
  PROVE  Keeps(a, Register(a, u))
<1> DEFINE n == [stored |-> IF android THEN u ELSE NoUser, default |-> u]
           b == [a EXCEPT !.native = n]
<1>1. Register(a, u) = IF android /\ a.native.stored # NoUser THEN a ELSE b
  BY DEF Register
<1>2. n \in [stored : SomeUser, default : SomeUser]
  BY DEF SomeUser
<1>3. n.default = u /\ n.stored \in {u, NoUser}
  OBVIOUS
<1> HIDE DEF n
<1>4. b \in App /\ b.prefs = a.prefs /\ b.page = a.page /\ b.native = n
  BY <1>2 DEF App
<1> HIDE DEF b
<1>5. Good(a) => Good(b)
  BY <1>3, <1>4 DEF Good, OneUser, DeviceIsKept, StoredIsKept, NobodyAtTheForm
<1> QED BY <1>1, <1>4, <1>5, KeepsItself DEF Keeps

LEMMA UnregisterKeeps ==
  ASSUME NEW a \in App
  PROVE  /\ Keeps(a, Unregister(a))
         /\ Unregister(a).prefs = a.prefs /\ Unregister(a).page = a.page
         /\ Unregister(a).native.default = NoUser /\ Unregister(a).native.stored = NoUser
<1> DEFINE b == Unregister(a)
<1>1. /\ b \in App /\ b.prefs = a.prefs /\ b.page = a.page
      /\ b.native.default = NoUser /\ b.native.stored = NoUser
  BY DEF Unregister, App, SomeUser
<1> HIDE DEF b
<1>2. Good(a) => Good(b)
  BY <1>1 DEF Good, OneUser, DeviceIsKept, StoredIsKept, NobodyAtTheForm
<1> QED BY <1>1, <1>2 DEF Keeps, b

LEMMA LogOutKeeps ==
  ASSUME NEW a \in App, NEW rs \in Seq(Request)
  PROVE  KeepsAll(a, LogOut(a, rs))
<1> DEFINE b == IF a.fc.softphone THEN Unregister(a) ELSE a
<1>1. Keeps(a, b)
  BY UnregisterKeeps, KeepsItself
<1>2. LogOut(a, rs) = Asks(b, rs, "token", NoUser, FALSE)
  BY DEF LogOut
<1> HIDE DEF b
<1> QED BY <1>1, <1>2, AsksKeepsAll DEF Kinds, SomeUser

(* After a log-out the phone is nobody's, whoever it was before. *)
LEMMA LoggedOutKeeps ==
  ASSUME NEW a \in App
  PROVE  Keeps(a, LoggedOut(a))
<1> DEFINE f == [a EXCEPT !.fc.user = NoUser, !.fc.softphone = FALSE,
                          !.fc.departments = FALSE]
           b == [f EXCEPT !.prefs = [username |-> NoUser, device |-> NoUser],
                          !.page  = FreshPage]
<1>1. f \in App
  BY DEF App, SomeUser
<1> HIDE DEF f
<1>2. /\ b \in App /\ b.page = FreshPage
      /\ b.prefs = [username |-> NoUser, device |-> NoUser]
  BY <1>1 DEF App, SomeUser, FreshPage
<1> HIDE DEF b
<1>3. LoggedOut(a) = Unregister(b)
  BY DEF LoggedOut, PageLogOut, f, b
<1> DEFINE c == Unregister(b)
<1>4. /\ c \in App /\ c.page = FreshPage
      /\ c.prefs = [username |-> NoUser, device |-> NoUser]
      /\ c.native.default = NoUser /\ c.native.stored = NoUser
  BY <1>2, UnregisterKeeps DEF Keeps
<1> HIDE DEF c
<1>5. Good(c)
  BY <1>4
  DEF Good, OneUser, DeviceIsKept, StoredIsKept, NobodyAtTheForm, FreshPage
<1> QED BY <1>3, <1>4, <1>5 DEF Keeps, c

-----------------------------------------------------------------------------
(* The callbacks of the log-in form. *)
LEMMA WithoutFormType ==
  ASSUME NEW rs \in Seq(Request)
  PROVE  WithoutForm(rs) \in Seq(Request)
<1>1. \A k \in DOMAIN rs : [rs[k] EXCEPT !.shown = FALSE] \in Request
  <2>1. \A r \in Request : [r EXCEPT !.shown = FALSE] \in Request
    BY DEF Request
  <2>2. \A k \in DOMAIN rs : rs[k] \in Request
    OBVIOUS
  <2> QED BY <2>1, <2>2
<1>2. DOMAIN rs = 1..Len(rs) /\ Len(rs) \in Nat
  OBVIOUS
<1>3. WithoutForm(rs) \in [1..Len(rs) -> Request]
  BY <1>1, <1>2 DEF WithoutForm
<1> QED BY <1>2, <1>3, SeqDef

LEMMA ShowHomeKeeps ==
  ASSUME NEW a \in App
  PROVE  /\ Keeps(a, ShowHome(a)) /\ ShowHome(a).page.loggedIn
         /\ ShowHome(a).prefs = a.prefs /\ ShowHome(a).native = a.native
         /\ ShowHome(a).fc = a.fc
         /\ ShowHome(a).page = [a.page EXCEPT !.loggedIn = TRUE]
<1> DEFINE b == ShowHome(a)
<1>1. /\ b \in App /\ b.page.loggedIn /\ b.prefs = a.prefs /\ b.native = a.native
      /\ b.fc = a.fc /\ b.page.device = a.page.device
      /\ b.page = [a.page EXCEPT !.loggedIn = TRUE]
  BY DEF ShowHome, App, FreshForm
<1> HIDE DEF b
<1>2. Good(a) => Good(b)
  BY <1>1 DEF Good, OneUser, DeviceIsKept, StoredIsKept, NobodyAtTheForm
<1> QED BY <1>1, <1>2 DEF Keeps, b

LEMMA RegisterDeviceKeeps ==
  ASSUME NEW a \in App, android \in BOOLEAN, NEW rs \in Seq(Request), a.page.loggedIn
  PROVE  KeepsAll(a, RegisterDevice(a, rs))
<1>1. a.page.device \in SomeUser /\ a.fc.ext \in SomeUser
  BY DEF App
<1>2. ASSUME a.page.device # NoUser PROVE Keeps(a, Register(a, a.page.device))
  BY <1>1, <1>2, RegisterKeeps DEF Good, DeviceIsKept
<1>3. ASSUME a.page.device # NoUser
      PROVE  KeepsAll(a, Result(Register(a, a.page.device), rs))
  BY <1>2, <1>3, ResultKeepsAll
<1>4. KeepsAll(a, Asks(a, rs, "device", a.fc.ext, FALSE))
  BY <1>1, KeepsItself, AsksKeepsAll DEF Kinds
<1>5. KeepsAll(a, Result(a, rs))
  BY KeepsItself, ResultKeepsAll
<1> QED BY <1>3, <1>4, <1>5 DEF RegisterDevice

LEMMA LoginSuccessKeeps ==
  ASSUME NEW a \in App, android \in BOOLEAN, NEW rs \in Seq(Request)
  PROVE  KeepsAll(a, LoginSuccess(a, rs))
<1>1. KeepsAll(ShowHome(a), RegisterDevice(ShowHome(a), WithoutForm(rs)))
  BY ShowHomeKeeps, WithoutFormType, RegisterDeviceKeeps DEF Keeps
<1> QED BY <1>1, ShowHomeKeeps, KeepsAllTransitive DEF LoginSuccess

LEMMA RefusedKeeps ==
  ASSUME NEW a \in App, NEW r
  PROVE  Keeps(a, Refused(a, r))
<1>1. Refused(a, r) \in App /\ SameUsers(a, Refused(a, r))
  BY DEF Refused, App, SameUsers
<1> QED BY <1>1, SameUsersKeeps

(* Every callback may come late: what an answer leads to is said of the    *)
(* phone as it is by then.                                                 *)
LEMMA SetupSocketKeeps ==
  ASSUME NEW a \in App, android \in BOOLEAN, NEW rs \in Seq(Request), NEW kind \in Kinds
  PROVE  KeepsAll(a, SetupSocket(a, rs, kind))
<1> DEFINE open == [a EXCEPT !.fc.socket = TRUE]
<1>1. open \in App /\ SameUsers(a, open)
  BY DEF App, SameUsers
<1>2. SetupSocket(a, rs, kind) = IF a.fc.socket THEN Result(a, rs)
        ELSE IF kind = "setup" THEN LoginSuccess(open, rs) ELSE Result(open, rs)
  BY DEF SetupSocket
<1> HIDE DEF open
<1>3. Keeps(a, open)
  BY <1>1, SameUsersKeeps
<1>4. KeepsAll(a, LoginSuccess(open, rs))
  BY <1>1, <1>3, LoginSuccessKeeps, KeepsAllTransitive
<1> QED BY <1>2, <1>3, <1>4, KeepsItself, ResultKeepsAll

LEMMA PostLoginSetupKeeps ==
  ASSUME NEW a \in App, android \in BOOLEAN, NEW rs \in Seq(Request), NEW kind \in Kinds,
         NEW r \in Request
  PROVE  KeepsAll(a, PostLoginSetup(a, rs, kind, r))
<1>1. r.user \in SomeUser /\ r.shown \in BOOLEAN
  BY DEF Request
<1>2. KeepsAll(a, Asks(a, rs, kind, r.user, r.shown))
  BY <1>1, KeepsItself, AsksKeepsAll
<1> QED BY <1>2, SetupSocketKeeps DEF PostLoginSetup

LEMMA KnownKeeps ==
  ASSUME NEW a \in App, NEW u \in SomeUser
  PROVE  Keeps(a, Known(a, u)) /\ Known(a, u).prefs = a.prefs
<1>1. Known(a, u) \in App /\ SameUsers(a, Known(a, u))
  BY DEF Known, App, SameUsers
<1> QED BY <1>1, SameUsersKeeps DEF SameUsers

(* A device that is found while its user is logged in. *)
LEMMA DeviceFoundKeeps ==
  ASSUME NEW a \in App, android \in BOOLEAN, NEW u \in SomeUser
  PROVE  /\ DeviceFound(a, u) \in App
         /\ Good(a) /\ u = a.prefs.username /\ a.page.loggedIn => Good(DeviceFound(a, u))
<1> DEFINE b == [a EXCEPT !.page.device = u, !.prefs.device = u]
           n == [stored |-> IF android THEN u ELSE NoUser, default |-> u]
           c == [b EXCEPT !.native = n]
<1>1. /\ b \in App /\ b.prefs.username = a.prefs.username /\ b.prefs.device = u
      /\ b.page.device = u /\ b.page.loggedIn = a.page.loggedIn /\ b.native = a.native
  BY DEF App
<1>2. DeviceFound(a, u) = Register(b, u)
  BY DEF DeviceFound
<1> HIDE DEF b
<1>3. Register(b, u) = IF android /\ b.native.stored # NoUser THEN b ELSE c
  BY DEF Register
<1>4. /\ n \in [stored : SomeUser, default : SomeUser]
      /\ n.default = u /\ n.stored \in {u, NoUser}
  BY DEF SomeUser
<1> HIDE DEF n
<1>5. c \in App /\ c.prefs = b.prefs /\ c.page = b.page /\ c.native = n
  BY <1>1, <1>4 DEF App
<1> HIDE DEF c
<1>6. ASSUME Good(a), u = a.prefs.username, a.page.loggedIn PROVE Good(b) /\ Good(c)
  BY <1>1, <1>4, <1>5, <1>6
  DEF Good, OneUser, DeviceIsKept, StoredIsKept, NobodyAtTheForm
<1> QED BY <1>1, <1>2, <1>3, <1>5, <1>6

-----------------------------------------------------------------------------
(* The answers. *)
LEMMA InvalidLoginKeeps ==
  ASSUME NEW a \in App, NEW rs \in Seq(Request), NEW r \in Request
  PROVE  KeepsAll(a, InvalidLogin(a, rs, r))
<1> DEFINE again == [r EXCEPT !.waiting = TRUE, !.retry = @ + 1]
<1> DEFINE n == r.retry + 1
<1>1. r.retry < MaxRetries => again \in Request
  <2>1. r.retry \in 0..MaxRetries /\ MaxRetries \in Nat
    BY SessionAssumption DEF Request
  <2>2. r.retry < MaxRetries => n \in 0..MaxRetries
    BY <2>1
  <2>3. again = [r EXCEPT !.waiting = TRUE, !.retry = n]
    BY DEF Request
  <2> HIDE DEF n, again
  <2> QED BY <2>2, <2>3 DEF Request
<1> HIDE DEF again
<1>2. r.retry < MaxRetries => Append(rs, again) \in Seq(Request)
  BY <1>1
<1>3. r.retry < MaxRetries => KeepsAll(a, Result(a, Append(rs, again)))
  BY <1>2, KeepsItself, ResultKeepsAll
<1>4. KeepsAll(a, Result(a, rs)) /\ KeepsAll(a, Result(Refused(a, r), rs))
  BY KeepsItself, RefusedKeeps, ResultKeepsAll
<1> QED BY <1>3, <1>4 DEF InvalidLogin, again

(* Whether the answer how to r was used for a session the phone had left.  *)
Crosses(a, r, how) ==
  how = "ok" /\ (\/ /\ r.kind \in {"login", "setup", "auto", "setupAuto", "device"}
                    /\ r.user # a.prefs.username
                 \/ r.kind = "device" /\ ~a.page.loggedIn)

(* An answer that crosses leaves a phone; any other keeps it good. *)
Answered(a, r, how, result) ==
  /\ result.app \in App /\ result.requests \in Seq(Request)
  /\ Good(a) /\ ~Crosses(a, r, how) => Good(result.app)

LEMMA KeepsAllAnswered ==
  ASSUME NEW a, NEW r, NEW how, NEW result, KeepsAll(a, result)
  PROVE  Answered(a, r, how, result)
BY DEF KeepsAll, Keeps, Answered

LEMMA LoginAnswerKeeps ==
  ASSUME NEW a \in App, android \in BOOLEAN, NEW rs \in Seq(Request), NEW r \in Request,
         NEW how, r.kind = "login"
  PROVE  Answered(a, r, how, LoginAnswer(a, rs, r, how))
<1>1. r.user \in SomeUser /\ Known(a, r.user) \in App
      /\ Keeps(a, Known(a, r.user)) /\ Known(a, r.user).prefs = a.prefs
  BY KnownKeeps DEF Request, Keeps
<1> DEFINE f == Known(a, r.user)
           b == [f EXCEPT !.prefs.username = r.user]
<1> HIDE DEF f
<1>2. /\ b \in App /\ b.page = f.page /\ b.native = f.native
      /\ b.prefs = [f.prefs EXCEPT !.username = r.user]
  BY <1>1 DEF App, f
<1>3. f.prefs.username = r.user => b.prefs = f.prefs
  BY <1>1, <1>2 DEF App, f
<1> HIDE DEF b
<1>4. f.prefs.username = r.user => Keeps(f, b)
  BY <1>2, <1>3, SameUsersKeeps DEF SameUsers
<1> DEFINE result == PostLoginSetup(b, rs, "setup", r)
<1>5. KeepsAll(b, result)
  BY <1>2, PostLoginSetupKeeps DEF Kinds
<1> HIDE DEF result
<1>6. Answered(a, r, "ok", result)
  BY <1>1, <1>4, <1>5 DEF KeepsAll, Keeps, Answered, Crosses, f
<1>7. /\ KeepsAll(a, Result(Refused(a, r), rs)) /\ KeepsAll(a, Result(a, rs))
      /\ KeepsAll(a, InvalidLogin(a, rs, r))
  BY KeepsItself, RefusedKeeps, ResultKeepsAll, InvalidLoginKeeps
<1>8. LoginAnswer(a, rs, r, how) =
        CASE how = "ok" -> result
          [] how = "other"   -> Result(Refused(a, r), rs)
          [] how = "invalid" -> InvalidLogin(a, rs, r)
          [] OTHER           -> Result(a, rs)
  BY DEF LoginAnswer, result, b, f
<1> QED BY <1>6, <1>7, <1>8, KeepsAllAnswered

LEMMA AutoAnswerKeeps ==
  ASSUME NEW a \in App, android \in BOOLEAN, NEW rs \in Seq(Request), NEW r \in Request,
         NEW how
  PROVE  KeepsAll(a, AutoAnswer(a, rs, r, how))
<1>1. Keeps(a, Known(a, r.user)) /\ Known(a, r.user) \in App
  BY KnownKeeps DEF Request, Keeps
<1>2. KeepsAll(a, PostLoginSetup(Known(a, r.user), rs, "setupAuto", r))
  BY <1>1, PostLoginSetupKeeps, KeepsAllTransitive DEF Kinds
<1>3. KeepsAll(a, Result(a, rs))
  BY KeepsItself, ResultKeepsAll
<1> QED BY <1>2, <1>3, LogOutKeeps, InvalidLoginKeeps DEF AutoAnswer

LEMMA DeviceAnswerKeeps ==
  ASSUME NEW a \in App, android \in BOOLEAN, NEW rs \in Seq(Request), NEW r \in Request,
         NEW how, r.kind = "device"
  PROVE  Answered(a, r, how, DeviceAnswer(a, rs, r, how))
<1> DEFINE b == DeviceFound(a, r.user)
<1>1. b \in App /\ (Good(a) /\ r.user = a.prefs.username /\ a.page.loggedIn => Good(b))
  BY DeviceFoundKeeps DEF Request
<1> HIDE DEF b
<1>2. Answered(a, r, "ok", Result(b, rs))
  BY <1>1 DEF Answered, Result, Crosses
<1>3. KeepsAll(a, Result(a, rs)) /\ KeepsAll(a, LogOut(a, rs))
  BY KeepsItself, ResultKeepsAll, LogOutKeeps
<1> QED BY <1>2, <1>3, KeepsAllAnswered DEF DeviceAnswer, b

LEMMA SetupAnswerKeeps ==
  ASSUME NEW a \in App, android \in BOOLEAN, NEW rs \in Seq(Request), NEW r \in Request,
         NEW how
  PROVE  KeepsAll(a, SetupAnswer(a, rs, r, how))
<1> DEFINE b == [a EXCEPT !.fc.departments = @ \/ how = "ok"]
<1>1. b \in App /\ SameUsers(a, b)
  BY DEF App, SameUsers
<1>2. SetupAnswer(a, rs, r, how) =
        IF how = "failed" THEN Result(a, rs) ELSE SetupSocket(b, rs, r.kind)
  BY DEF SetupAnswer
<1> HIDE DEF b
<1>3. KeepsAll(a, SetupSocket(b, rs, r.kind))
  BY <1>1, SameUsersKeeps, SetupSocketKeeps, KeepsAllTransitive DEF Request
<1> QED BY <1>2, <1>3, KeepsItself, ResultKeepsAll

LEMMA LogOutAnswerKeeps ==
  ASSUME NEW a \in App, NEW rs \in Seq(Request), NEW r, NEW how
  PROVE  KeepsAll(a, LogOutAnswer(a, rs, r, how))
<1>1. KeepsAll(a, Asks(a, rs, "logout", NoUser, FALSE))
  BY KeepsItself, AsksKeepsAll DEF Kinds, SomeUser
<1>2. KeepsAll(a, Result(a, rs)) /\ KeepsAll(a, Result(LoggedOut(a), rs))
  BY KeepsItself, LoggedOutKeeps, ResultKeepsAll
<1> QED BY <1>1, <1>2 DEF LogOutAnswer

LEMMA HandleKeeps ==
  ASSUME NEW a \in App, android \in BOOLEAN, NEW rs \in Seq(Request), NEW r \in Request,
         NEW how
  PROVE  Answered(a, r, how, Handle(a, rs, r, how))
<1>1. r.user \in SomeUser
  BY DEF Request
<1>2. KeepsAll(a, Asks(a, rs, "auto", r.user, FALSE))
  BY <1>1, KeepsItself, AsksKeepsAll DEF Kinds
<1>3. CASE r.kind = "login"
  BY <1>3, LoginAnswerKeeps DEF Handle
<1>4. CASE r.kind = "device"
  BY <1>4, DeviceAnswerKeeps DEF Handle
<1>5. CASE r.kind \notin {"login", "device"}
  <2>1. KeepsAll(a, Handle(a, rs, r, how))
    BY <1>2, <1>5, AutoAnswerKeeps, SetupAnswerKeeps, LogOutAnswerKeeps DEF Handle
  <2> QED BY <2>1, KeepsAllAnswered
<1> QED BY <1>3, <1>4, <1>5

(* The page takes up what the preferences hold.  When the process has just *)
(* started, native code has registered what it stored before that.         *)
Started(a) ==
  /\ OneUser(a) /\ DeviceIsKept(a) /\ StoredIsKept(a)
  /\ a.prefs.device = NoUser => NobodyAtTheForm(a)

LEMMA AutoLoginKeeps ==
  ASSUME NEW a \in App, android \in BOOLEAN, NEW rs \in Seq(Request)
  PROVE  LET result == AutoLogin(a, rs)
         IN  /\ result.app \in App /\ result.requests \in Seq(Request)
             /\ Started(a) => Good(result.app)
<1> DEFINE d == a.prefs.device
           u == a.prefs.username
           h == ShowHome(a)
           p == [h.page EXCEPT !.isRegistering = TRUE, !.device = d]
           b == [h EXCEPT !.page = p, !.fc.user = u]
<1>1. d \in SomeUser /\ u \in SomeUser
  BY DEF App
<1>2. /\ h \in App /\ h.prefs = a.prefs /\ h.native = a.native /\ h.page.loggedIn
  BY ShowHomeKeeps DEF Keeps
<1> HIDE DEF h
<1>3. /\ p.device = d /\ p.loggedIn
      /\ p \in [loggedIn : BOOLEAN, isRegistering : BOOLEAN, device : SomeUser]
  BY <1>1, <1>2 DEF App
<1>4. [h EXCEPT !.page.isRegistering = TRUE, !.page.device = d, !.fc.user = u] = b
  BY <1>2 DEF App
<1> HIDE DEF p
<1>5. /\ b \in App /\ b.prefs = a.prefs /\ b.native = a.native /\ b.page = p
  BY <1>1, <1>2, <1>3 DEF App
<1> HIDE DEF b
<1>6. Started(a) => Good(b)
  BY <1>3, <1>5
  DEF Started, Good, OneUser, DeviceIsKept, StoredIsKept, NobodyAtTheForm
<1>7. Keeps(b, Register(b, d))
  BY <1>1, <1>3, <1>5, RegisterKeeps
<1> DEFINE asked == Asks(Register(b, d), WithoutForm(rs), "auth", u, FALSE)
<1>8. KeepsAll(b, asked)
  BY <1>1, <1>7, WithoutFormType, AsksKeepsAll DEF Kinds
<1>9. AutoLogin(a, rs) =
        IF u = NoUser \/ d = NoUser THEN [app |-> a, requests |-> rs] ELSE asked
  BY <1>4 DEF AutoLogin, Result, h
<1> HIDE DEF asked
<1>10. (u = NoUser \/ d = NoUser) /\ Started(a) => Good(a)
  BY DEF Started, Good, OneUser
<1> HIDE DEF u, d
<1>11. CASE u = NoUser \/ d = NoUser
  BY <1>9, <1>10, <1>11
<1>12. CASE ~(u = NoUser \/ d = NoUser)
  <2>1. AutoLogin(a, rs) = asked
    BY <1>9, <1>12
  <2> QED BY <1>6, <1>8, <2>1 DEF KeepsAll, Keeps
<1> QED BY <1>11, <1>12

-----------------------------------------------------------------------------
(* The inductive invariant. *)
IInv == TypeOK /\ (~crossed => Good(app))

LEMMA InitIInv == Init => IInv
<1> SUFFICES ASSUME Init PROVE IInv
  OBVIOUS
<1>1. app \in App /\ <<>> \in Seq(Request)
  BY DEF Init, App, FreshFc, FreshPage, FreshForm, SomeUser
<1>2. Good(app)
  BY DEF Init, FreshPage, Good, OneUser, DeviceIsKept, StoredIsKept, NobodyAtTheForm
<1> QED BY <1>1, <1>2 DEF Init, IInv, TypeOK

(* A step that uses no late answer. *)
LEMMA KeepsStep ==
  ASSUME IInv, NEW result, KeepsAll(app, result), Becomes(result),
         UNCHANGED <<android, crossed>>
  PROVE  IInv'
BY DEF IInv, TypeOK, KeepsAll, Keeps, Becomes, Good,
       OneUser, DeviceIsKept, StoredIsKept, NobodyAtTheForm

LEMMA AnswerStep ==
  ASSUME IInv, NEW k \in DOMAIN requests, Answer(k)
  PROVE  IInv'
<1> DEFINE r == requests[k]
           rs == RemoveAt(requests, k)
<1>1. r \in Request /\ rs \in Seq(Request) /\ app \in App /\ android \in BOOLEAN
  BY RemoveAtType DEF IInv, TypeOK
<1>2. PICK how \in Answers(r) : /\ Becomes(Handle(app, rs, r, how))
                                /\ crossed' = (crossed \/ (Stale(r) /\ how = "ok"))
  BY DEF Answer
<1> HIDE DEF r, rs
<1> DEFINE result == Handle(app, rs, r, how)
<1>3. Answered(app, r, how, result)
  BY <1>1, HandleKeeps
<1> HIDE DEF result
<1>4. Crosses(app, r, how) <=> Stale(r) /\ how = "ok"
  BY DEF Crosses, Stale
<1>5. android' = android /\ crossed' \in BOOLEAN
  BY <1>2 DEF Answer, IInv, TypeOK
<1>6. app' = result.app /\ requests' = result.requests
  BY <1>2 DEF Becomes, result
<1>7. ~crossed' => Good(result.app)
  BY <1>2, <1>3, <1>4 DEF IInv, TypeOK, Answered
<1>8. ~crossed' => Good(app')
  BY <1>6, <1>7
<1> QED BY <1>3, <1>5, <1>6, <1>8 DEF IInv, TypeOK, Answered, Good, OneUser,
           DeviceIsKept, StoredIsKept, NobodyAtTheForm

LEMMA RetryStep ==
  ASSUME IInv, NEW k \in DOMAIN requests, Retry(k)
  PROVE  IInv'
<1> DEFINE r == [requests[k] EXCEPT !.waiting = FALSE, !.sent = app.prefs.username]
<1>1. requests[k] \in Request /\ app.prefs.username \in SomeUser
      /\ requests \in Seq(Request)
  <2>1. requests \in Seq(Request)
    BY DEF IInv, TypeOK
  <2>2. requests[k] \in Request
    BY <2>1
  <2> QED BY <2>1, <2>2 DEF IInv, TypeOK, App
<1>2. r \in Request
  BY <1>1 DEF Request
<1>3. requests' = [requests EXCEPT ![k] = r]
  BY <1>1 DEF Retry, Request
<1> HIDE DEF r
<1>4. requests' \in Seq(Request)
  BY <1>1, <1>2, <1>3
<1> QED BY <1>4 DEF Retry, IInv, TypeOK, Good,
           OneUser, DeviceIsKept, StoredIsKept, NobodyAtTheForm

LEMMA TapLoginStep ==
  ASSUME IInv, NEW u \in Users, TapLogin(u)
  PROVE  IInv'
<1> DEFINE a == [app EXCEPT !.prefs.username = u, !.form.pending = TRUE]
<1>1. u \in SomeUser /\ app \in App /\ ~app.page.loggedIn
  BY DEF SomeUser, IInv, TypeOK, TapLogin
<1>2. /\ a \in App /\ a.page = app.page /\ a.native = app.native
      /\ a.prefs = [app.prefs EXCEPT !.username = u] /\ a.prefs.device = app.prefs.device
  BY <1>1 DEF App
<1>3. Becomes(Asks(a, requests, "login", u, TRUE)) /\ UNCHANGED <<android, crossed>>
  BY DEF TapLogin
<1> HIDE DEF a
<1>4. Good(app) => Good(a)
  BY <1>1, <1>2 DEF Good, OneUser, DeviceIsKept, StoredIsKept, NobodyAtTheForm
<1>5. Keeps(app, a)
  BY <1>2, <1>4 DEF Keeps
<1>6. KeepsAll(app, Asks(a, requests, "login", u, TRUE))
  BY <1>1, <1>5, AsksKeepsAll DEF Kinds, IInv, TypeOK
<1> QED BY <1>3, <1>6, KeepsStep

LEMMA RestartStep ==
  ASSUME IInv, Restart
  PROVE  IInv'
<1> DEFINE s == app.native.stored
           n == [stored |-> s, default |-> s]
           b == [app EXCEPT !.fc = FreshFc, !.page = FreshPage, !.form = FreshForm,
                            !.native = n]
<1>1. app \in App /\ s \in SomeUser
  BY DEF IInv, TypeOK, App
<1>2. /\ n \in [stored : SomeUser, default : SomeUser]
      /\ n.stored = s /\ n.default = s
  BY <1>1
<1> HIDE DEF n
<1>3. /\ b \in App /\ b.prefs = app.prefs /\ b.page = FreshPage /\ b.native = n
  BY <1>1, <1>2 DEF App, FreshFc, FreshPage, FreshForm, SomeUser
<1>4. Becomes(AutoLogin(b, <<>>)) /\ UNCHANGED <<android, crossed>>
  BY DEF Restart, n
<1> HIDE DEF b
<1> DEFINE result == AutoLogin(b, <<>>)
<1>5. <<>> \in Seq(Request) /\ android \in BOOLEAN
  BY DEF IInv, TypeOK
<1>6. /\ result.app \in App /\ result.requests \in Seq(Request)
      /\ Started(b) => Good(result.app)
  BY <1>3, <1>5, AutoLoginKeeps
<1>7. Good(app) => Started(b)
  BY <1>2, <1>3
  DEF Started, Good, OneUser, DeviceIsKept, StoredIsKept, NobodyAtTheForm, FreshPage
<1>8. app' = result.app /\ requests' = result.requests
      /\ UNCHANGED <<android, crossed>>
  BY <1>4 DEF Becomes
<1> HIDE DEF result
<1>9. ~crossed' => Good(app')
  BY <1>6, <1>7, <1>8 DEF IInv
<1> QED BY <1>6, <1>8, <1>9 DEF IInv, TypeOK, Good, OneUser, DeviceIsKept,
           StoredIsKept, NobodyAtTheForm

LEMMA ConnectivityStep ==
  ASSUME IInv, Connectivity
  PROVE  IInv'
<1> DEFINE result == AutoLogin(app, requests)
<1>1. app \in App /\ requests \in Seq(Request) /\ android \in BOOLEAN
  BY DEF IInv, TypeOK
<1>2. Good(app) => Started(app)
  BY DEF Good, Started
<1>3. KeepsAll(app, result)
  BY <1>1, <1>2, AutoLoginKeeps DEF KeepsAll, Keeps
<1> QED BY <1>3, KeepsStep DEF Connectivity

LEMMA TapLogOutStep ==
  ASSUME IInv, TapLogOut
  PROVE  IInv'
<1>1. KeepsAll(app, LogOut(app, requests))
  BY LogOutKeeps DEF IInv, TypeOK
<1> QED BY <1>1, KeepsStep DEF TapLogOut

(* Timers and the socket touch neither users nor requests. *)
LEMMA TimerStep ==
  ASSUME IInv, LoginTimeout \/ SocketCloses
  PROVE  IInv'
<1>1. app' \in App /\ SameUsers(app, app') /\ UNCHANGED <<android, requests, crossed>>
  <2>1. app \in App
    BY DEF IInv, TypeOK
  <2>2. CASE LoginTimeout
    BY <2>1, <2>2 DEF LoginTimeout, App, SameUsers
  <2>3. CASE SocketCloses
    BY <2>1, <2>3 DEF SocketCloses, App, SameUsers
  <2> QED BY <2>2, <2>3
<1>2. Good(app) => Good(app')
  BY <1>1 DEF SameUsers, Good, OneUser, DeviceIsKept, StoredIsKept, NobodyAtTheForm
<1> QED BY <1>1, <1>2 DEF IInv, TypeOK, Good, OneUser, DeviceIsKept,
           StoredIsKept, NobodyAtTheForm

LEMMA NextIInv ==
  ASSUME IInv, [Next]_vars
  PROVE  IInv'
<1>1. CASE Next
  BY <1>1, AnswerStep, RetryStep, TapLoginStep, TimerStep, TapLogOutStep,
     ConnectivityStep, RestartStep DEF Next
<1>2. CASE UNCHANGED vars
  BY <1>2 DEF vars, IInv, TypeOK, Good, OneUser, DeviceIsKept, StoredIsKept,
              NobodyAtTheForm
<1> QED BY <1>1, <1>2

LEMMA IInvAlways == Spec => []IInv
BY InitIInv, NextIInv, PTL DEF Spec

(* The fields of the page, the form and the singleton, and what is kept by *)
(* the preferences and native code, hold what their users expect, and no   *)
(* request is sent again more often than apiV1Call allows.                 *)
THEOREM SessionTypes == Spec => []TypeOK
<1>1. IInv => TypeOK
  BY DEF IInv
<1> QED BY <1>1, IInvAlways, PTL

(* A log-out sticks for any number of users, retries and requests in       *)
(* flight: no restart, connectivity change or repeated answer of the       *)
(* session brings the device of the one who left back, unless an answer of *)
(* an earlier session is used (main.dart keeps no note of whose it was).   *)
THEOREM SessionLogOut == Spec => []LogOutSticks
<1>1. IInv => LogOutSticks
  BY DEF IInv, Good, NobodyAtTheForm, LogOutSticks
<1> QED BY <1>1, IInvAlways, PTL

(* The registered device is that of the user who is logged in, however     *)
(* log-ins, look-ups of the device, restarts and log-outs follow each      *)
(* other, unless an answer of an earlier session is used.                  *)
THEOREM SessionPhone == Spec => []PhoneIsTheUsers
<1>1. IInv => PhoneIsTheUsers
  BY DEF IInv, Good, OneUser, PhoneIsTheUsers
<1> QED BY <1>1, IInvAlways, PTL

-----------------------------------------------------------------------------
(* When the form comes to say that the password is wrong.  A handler that  *)
(* starts from phone a either leaves the form as little wrong as it was,   *)
(* or has nothing more to ask for.                                         *)
Calm(a, b) == b \in App /\ (b.form.wrong => a.form.wrong)

CalmOrLast(a, rs, result) == Calm(a, result.app) \/ result.requests = rs

LEMMA CalmTransitive ==
  ASSUME NEW a, NEW b, NEW c, Calm(a, b), Calm(b, c)
  PROVE  Calm(a, c)
BY DEF Calm

LEMMA ResultParts ==
  ASSUME NEW a, NEW rs
  PROVE  Result(a, rs).app = a /\ Result(a, rs).requests = rs
BY DEF Result

LEMMA AsksApp ==
  ASSUME NEW a, NEW rs, NEW kind, NEW user, NEW shown \in BOOLEAN
  PROVE  Asks(a, rs, kind, user, shown).app = a
BY ResultParts DEF Asks

(* The phone's accounts have no part in the form. *)
LEMMA AccountsCalm ==
  ASSUME NEW a \in App, android \in BOOLEAN, NEW u \in SomeUser
  PROVE  /\ Calm(a, Register(a, u)) /\ Calm(a, Unregister(a))
         /\ Calm(a, LoggedOut(a)) /\ Calm(a, DeviceFound(a, u))
         /\ Calm(a, Known(a, u)) /\ Calm(a, ShowHome(a))
<1>1. \A b \in App : Calm(b, Register(b, u)) /\ Calm(b, Unregister(b))
  <2> TAKE b \in App
  <2> DEFINE n == [stored |-> IF android THEN u ELSE NoUser, default |-> u]
  <2>1. n \in [stored : SomeUser, default : SomeUser]
    BY DEF SomeUser
  <2>2. Register(b, u) = IF android /\ b.native.stored # NoUser THEN b
                         ELSE [b EXCEPT !.native = n]
    BY DEF Register
  <2> HIDE DEF n
  <2>3. Calm(b, Register(b, u))
    BY <2>1, <2>2 DEF Calm, App
  <2>4. Unregister(b) \in App /\ Unregister(b).form = b.form
    BY DEF Unregister, App, SomeUser
  <2> QED BY <2>3, <2>4 DEF Calm
<1>2. Calm(a, LoggedOut(a))
  <2> DEFINE left == [a EXCEPT !.fc.user = NoUser, !.fc.softphone = FALSE,
                               !.fc.departments = FALSE]
             page == [left EXCEPT !.prefs = [username |-> NoUser, device |-> NoUser],
                                  !.page = FreshPage]
  <2>1. Calm(a, left)
    BY DEF Calm, App, SomeUser
  <2>2. LoggedOut(a) = Unregister(page)
    BY DEF LoggedOut, PageLogOut
  <2> HIDE DEF left
  <2>3. Calm(left, page)
    BY <2>1 DEF Calm, App, SomeUser, FreshPage
  <2> HIDE DEF page
  <2> QED BY <1>1, <2>1, <2>2, <2>3, CalmTransitive DEF Calm
<1>3. Calm(a, [a EXCEPT !.page.device = u, !.prefs.device = u])
  BY DEF Calm, App
<1>4. Calm(a, DeviceFound(a, u))
  BY <1>1, <1>3 DEF DeviceFound, Calm
<1>5. Calm(a, Known(a, u)) /\ Calm(a, ShowHome(a))
  BY DEF Calm, Known, ShowHome, App, FreshForm
<1> QED BY <1>1, <1>2, <1>4, <1>5

LEMMA LogOutCalm ==
  ASSUME NEW a \in App, android \in BOOLEAN, NEW rs
  PROVE  Calm(a, LogOut(a, rs).app)
<1>1. Calm(a, a) /\ Calm(a, Unregister(a))
  BY AccountsCalm DEF Calm, SomeUser
<1> DEFINE left == IF a.fc.softphone THEN Unregister(a) ELSE a
<1>2. LogOut(a, rs) = Asks(left, rs, "token", NoUser, FALSE)
  BY DEF LogOut
<1>3. Calm(a, left)
  BY <1>1
<1> HIDE DEF left
<1>4. Asks(left, rs, "token", NoUser, FALSE).app = left
  BY AsksApp
<1> QED BY <1>2, <1>3, <1>4

LEMMA RegisterDeviceCalm ==
  ASSUME NEW a \in App, android \in BOOLEAN, NEW rs
  PROVE  Calm(a, RegisterDevice(a, rs).app)
<1>1. Calm(a, a) /\ Calm(a, Register(a, a.page.device))
  BY AccountsCalm DEF Calm, App
<1>2. Asks(a, rs, "device", a.fc.ext, FALSE).app = a
  BY AsksApp
<1>3. /\ Result(a, rs).app = a
      /\ Result(Register(a, a.page.device), rs).app = Register(a, a.page.device)
  BY ResultParts
<1> QED BY <1>1, <1>2, <1>3 DEF RegisterDevice

LEMMA SetupSocketCalm ==
  ASSUME NEW a \in App, android \in BOOLEAN, NEW rs, NEW kind
  PROVE  Calm(a, SetupSocket(a, rs, kind).app)
<1> DEFINE open == [a EXCEPT !.fc.socket = TRUE]
<1>1. Calm(a, a) /\ Calm(a, open)
  BY DEF Calm, App
<1>2. SetupSocket(a, rs, kind) = IF a.fc.socket THEN Result(a, rs)
        ELSE IF kind = "setup" THEN LoginSuccess(open, rs) ELSE Result(open, rs)
  BY DEF SetupSocket
<1> HIDE DEF open
<1>3. Calm(open, ShowHome(open))
  BY <1>1, AccountsCalm DEF Calm, SomeUser
<1>4. Calm(ShowHome(open), LoginSuccess(open, rs).app)
  BY <1>3, RegisterDeviceCalm DEF LoginSuccess, Calm
<1>5. Calm(a, LoginSuccess(open, rs).app)
  BY <1>1, <1>3, <1>4, CalmTransitive
<1> QED BY <1>1, <1>2, <1>5, ResultParts

LEMMA PostLoginSetupCalm ==
  ASSUME NEW a \in App, android \in BOOLEAN, NEW rs, NEW kind, NEW r \in Request
  PROVE  Calm(a, PostLoginSetup(a, rs, kind, r).app)
<1>1. Calm(a, a) /\ r.shown \in BOOLEAN
  BY DEF Calm, Request
<1>2. Asks(a, rs, kind, r.user, r.shown).app = a
  BY <1>1, AsksApp
<1> QED BY <1>1, <1>2, SetupSocketCalm DEF PostLoginSetup

LEMMA AutoLoginCalm ==
  ASSUME NEW a \in App, android \in BOOLEAN, NEW rs
  PROVE  Calm(a, AutoLogin(a, rs).app)
<1> DEFINE d == a.prefs.device
           u == a.prefs.username
           home == [ShowHome(a) EXCEPT !.page.isRegistering = TRUE, !.page.device = d,
                                       !.fc.user = u]
<1>1. d \in SomeUser /\ u \in SomeUser
  BY DEF App
<1>2. AutoLogin(a, rs) = IF u = NoUser \/ d = NoUser THEN Result(a, rs)
        ELSE Asks(Register(home, d), WithoutForm(rs), "auth", u, FALSE)
  BY DEF AutoLogin
<1> HIDE DEF d, u
<1>3. Calm(a, ShowHome(a))
  BY AccountsCalm DEF SomeUser
<1>4. Calm(ShowHome(a), home)
  BY <1>1, <1>3 DEF Calm, App
<1> HIDE DEF home
<1>5. Calm(home, Register(home, d))
  BY <1>1, <1>4, AccountsCalm DEF Calm
<1>6. Calm(a, a) /\ Calm(a, Register(home, d))
  BY <1>3, <1>4, <1>5, CalmTransitive DEF Calm
<1>7. Asks(Register(home, d), WithoutForm(rs), "auth", u, FALSE).app = Register(home, d)
  BY AsksApp
<1>8. Result(a, rs).app = a
  BY ResultParts
<1> QED BY <1>2, <1>6, <1>7, <1>8

LEMMA InvalidLoginLast ==
  ASSUME NEW a \in App, NEW rs, NEW r
  PROVE  CalmOrLast(a, rs, InvalidLogin(a, rs, r))
<1>1. Calm(a, a)
  BY DEF Calm
<1> QED BY <1>1, ResultParts DEF InvalidLogin, CalmOrLast

(* Of all answers only the refusal of a log-in makes the form say so.      *)
LEMMA HandleLast ==
  ASSUME NEW a \in App, android \in BOOLEAN, NEW rs, NEW r \in Request, NEW how
  PROVE  CalmOrLast(a, rs, Handle(a, rs, r, how))
<1>1. r.user \in SomeUser /\ Calm(a, a)
  BY DEF Request, Calm
<1>2. Calm(a, Known(a, r.user)) /\ Calm(a, DeviceFound(a, r.user)) /\ Calm(a, LoggedOut(a))
  BY <1>1, AccountsCalm
<1>3. CASE r.kind = "login"
  <2> DEFINE known == [Known(a, r.user) EXCEPT !.prefs.username = r.user]
  <2>1. Calm(a, known)
    BY <1>1, <1>2 DEF Calm, App
  <2>2. LoginAnswer(a, rs, r, "ok") = PostLoginSetup(known, rs, "setup", r)
    BY DEF LoginAnswer
  <2> HIDE DEF known
  <2>3. Calm(a, LoginAnswer(a, rs, r, "ok").app)
    BY <2>1, <2>2, PostLoginSetupCalm, CalmTransitive DEF Calm
  <2>4. how # "ok" => CalmOrLast(a, rs, LoginAnswer(a, rs, r, how))
    BY <1>1, InvalidLoginLast, ResultParts DEF LoginAnswer, CalmOrLast
  <2> QED BY <1>3, <2>3, <2>4 DEF Handle, CalmOrLast
<1>4. CASE r.kind = "auth"
  <2>1. Asks(a, rs, "auto", r.user, FALSE).app = a
    BY AsksApp
  <2> QED BY <1>1, <1>4, <2>1 DEF Handle, CalmOrLast
<1>5. CASE r.kind = "auto"
  <2>1. Calm(a, PostLoginSetup(Known(a, r.user), rs, "setupAuto", r).app)
    BY <1>2, PostLoginSetupCalm, CalmTransitive DEF Calm
  <2>2. CalmOrLast(a, rs, AutoAnswer(a, rs, r, how))
    BY <1>1, <2>1, LogOutCalm, InvalidLoginLast, ResultParts DEF AutoAnswer, CalmOrLast
  <2> QED BY <1>5, <2>2 DEF Handle
<1>6. CASE r.kind = "device"
  BY <1>1, <1>2, <1>6, LogOutCalm, ResultParts DEF Handle, DeviceAnswer, CalmOrLast
<1>7. CASE r.kind \in {"setup", "setupAuto"}
  <2> DEFINE there == [a EXCEPT !.fc.departments = @ \/ how = "ok"]
  <2>1. Calm(a, there)
    BY DEF Calm, App
  <2>2. SetupAnswer(a, rs, r, how) = IF how = "failed" THEN Result(a, rs)
                                     ELSE SetupSocket(there, rs, r.kind)
    BY DEF SetupAnswer
  <2> HIDE DEF there
  <2>3. Calm(a, SetupSocket(there, rs, r.kind).app)
    BY <2>1, SetupSocketCalm, CalmTransitive DEF Calm
  <2> QED BY <1>1, <1>7, <2>2, <2>3, ResultParts DEF Handle, CalmOrLast
<1>8. CASE r.kind \in {"token", "logout"}
  <2>1. Asks(a, rs, "logout", NoUser, FALSE).app = a
    BY AsksApp
  <2>2. Result(a, rs).app = a /\ Result(LoggedOut(a), rs).app = LoggedOut(a)
    BY ResultParts
  <2>3. Calm(a, LogOutAnswer(a, rs, r, how).app)
    BY <1>1, <1>2, <2>1, <2>2 DEF LogOutAnswer
  <2> QED BY <1>8, <2>3 DEF Handle, CalmOrLast
<1> QED BY <1>3, <1>4, <1>5, <1>6, <1>7, <1>8 DEF Request, Kinds

LEMMA RemoveAtShorter ==
  ASSUME NEW rs \in Seq(Request), NEW k \in DOMAIN rs
  PROVE  Len(RemoveAt(rs, k)) < Len(rs)
BY DEF RemoveAt

(* What the form says stays true: when it comes to say that the password   *)
(* is wrong, the request that was refused is gone and none took its place, *)
(* so nothing of this attempt is left that could still log in.             *)
THEOREM SessionWrong == Spec => WrongIsFinal
<1> DEFINE Wrong == ~app.form.wrong /\ app'.form.wrong => Len(requests') < Len(requests)
<1>1. ASSUME TypeOK, [Next]_vars PROVE [Wrong]_vars
  <2> SUFFICES ASSUME ~app.form.wrong, app'.form.wrong, Next
               PROVE  Len(requests') < Len(requests)
    BY <1>1
  <2>1. app \in App /\ android \in BOOLEAN /\ requests \in Seq(Request)
    BY <1>1 DEF TypeOK
  <2>2. \A b : Calm(app, b) => app' # b
    BY DEF Calm
  <2>3. ASSUME NEW k \in DOMAIN requests, Answer(k)
        PROVE  Len(requests') < Len(requests)
    <3> DEFINE rs == RemoveAt(requests, k)
    <3>1. requests[k] \in Request
      BY <2>1
    <3>2. PICK how \in Answers(requests[k]) : Becomes(Handle(app, rs, requests[k], how))
      BY <2>3 DEF Answer
    <3>3. CalmOrLast(app, rs, Handle(app, rs, requests[k], how))
      BY <2>1, <3>1, HandleLast
    <3>4. requests' = rs
      BY <2>2, <3>2, <3>3 DEF CalmOrLast, Becomes
    <3> QED BY <2>1, <3>4, RemoveAtShorter
  <2>4. ASSUME NEW k \in DOMAIN requests, Retry(k) PROVE FALSE
    BY <2>4 DEF Retry
  <2>5. ASSUME NEW u \in Users, TapLogin(u) PROVE FALSE
    <3> DEFINE a == [app EXCEPT !.prefs.username = u, !.form.pending = TRUE]
    <3>1. Calm(app, a)
      BY <2>1 DEF Calm, App, SomeUser
    <3>2. app' = Asks(a, requests, "login", u, TRUE).app
      BY <2>5 DEF TapLogin, Becomes
    <3> HIDE DEF a
    <3>3. Asks(a, requests, "login", u, TRUE).app = a
      BY AsksApp
    <3>4. app' = a
      BY <3>2, <3>3
    <3> QED BY <2>2, <3>1, <3>4
  <2>6. ~LoginTimeout /\ ~SocketCloses
    BY <2>1 DEF LoginTimeout, SocketCloses, App
  <2>7. ~TapLogOut
    BY <2>1, <2>2, LogOutCalm DEF TapLogOut, Becomes
  <2>8. ~Connectivity
    BY <2>1, <2>2, AutoLoginCalm DEF Connectivity, Becomes
  <2>9. ~Restart
    <3> DEFINE s == app.native.stored
               fresh == [app EXCEPT !.fc = FreshFc, !.page = FreshPage, !.form = FreshForm,
                                    !.native = [stored |-> s, default |-> s]]
    <3>1. Calm(app, fresh)
      BY <2>1 DEF Calm, App, FreshFc, FreshPage, FreshForm, SomeUser
    <3>2. Restart => app' = AutoLogin(fresh, <<>>).app
      BY DEF Restart, Becomes
    <3> HIDE DEF fresh
    <3>3. Calm(app, AutoLogin(fresh, <<>>).app)
      BY <2>1, <3>1, AutoLoginCalm, CalmTransitive DEF Calm
    <3> QED BY <2>2, <3>2, <3>3
  <2> QED BY <2>3, <2>4, <2>5, <2>6, <2>7, <2>8, <2>9 DEF Next
<1> QED BY <1>1, SessionTypes, PTL DEF Spec, WrongIsFinal

=============================================================================
