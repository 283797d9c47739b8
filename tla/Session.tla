------------------------------- MODULE Session -------------------------------
(***************************************************************************)
(* Who is logged in: the log-in form, the home page of main.dart, the      *)
(* FusionConnection singleton, what SharedPreferences keep over restarts,  *)
(* and the SIP accounts of the native core.                                *)
(*                                                                         *)
(* Every REST call is a request in flight that the server answers at any   *)
(* later time, in any order, or that the network loses.  The callback of   *)
(* an answer acts on the phone as it is by then, which may belong to       *)
(* somebody else.                                                          *)
(***************************************************************************)
EXTENDS Naturals, Sequences, SequencesExt

CONSTANTS
  Users,             \* accounts of the server
  NoUser,            \* null or the empty string where a user may be
  MaxRetries,        \* times apiV1Call sends again what was answered invalid_login
  MaxRequests        \* bound: requests in flight

ASSUME SessionAssumption ==
  NoUser \notin Users /\ MaxRetries \in Nat /\ MaxRequests \in Nat \ {0}

VARIABLES
  android,           \* the platform, the same all along
  app,               \* the state of the phone, see App
  requests,          \* REST calls in flight
  crossed            \* history: an answer was used after its session was over

vars == <<android, app, requests, crossed>>

SomeUser == Users \cup {NoUser}

(* prefs.device stands for sub_login, auth_key and aor, fc.user for        *)
(* _username and _password, fc.ext for _extension and _domain.             *)
App ==
  [prefs  : [username : SomeUser, device : SomeUser],
   fc     : [user : SomeUser, ext : SomeUser,
             softphone : BOOLEAN, departments : BOOLEAN, socket : BOOLEAN],
   page   : [loggedIn : BOOLEAN, isRegistering : BOOLEAN, device : SomeUser],
   form   : [pending : BOOLEAN, wrong : BOOLEAN],
   native : [stored : SomeUser, default : SomeUser]]

Kinds == {"login", "auth", "auto", "setup", "setupAuto", "token", "logout", "device"}

(* user is what the callback closes over, sent the username in the body,   *)
(* shown whether the form that asked is still on the screen.               *)
Request == [kind : Kinds, user : SomeUser, sent : SomeUser, shown : BOOLEAN,
            retry : 0..MaxRetries, waiting : BOOLEAN]

FreshFc == [user |-> NoUser, ext |-> NoUser, softphone |-> TRUE,
            departments |-> FALSE, socket |-> FALSE]

FreshPage == [loggedIn |-> FALSE, isRegistering |-> FALSE, device |-> NoUser]

FreshForm == [pending |-> FALSE, wrong |-> FALSE]

Init ==
  /\ android \in BOOLEAN
  /\ app = [prefs  |-> [username |-> NoUser, device |-> NoUser],
            fc     |-> FreshFc, page |-> FreshPage, form |-> FreshForm,
            native |-> [stored |-> NoUser, default |-> NoUser]]
  /\ requests = <<>> /\ crossed = FALSE

-----------------------------------------------------------------------------
(* A handler returns the phone and the requests it leaves in flight.       *)
Result(a, rs) == [app |-> a, requests |-> rs]

Asks(a, rs, kind, user, shown) ==
  Result(a, Append(rs, [kind |-> kind, user |-> user, sent |-> a.prefs.username,
                        shown |-> shown, retry |-> 0, waiting |-> FALSE]))

(* lpRegister.  iOS adds an account each time and makes it the default     *)
(* (those before it stay in the core, and out of the model); Android       *)
(* registers only when it has nobody stored.                               *)
Register(a, u) ==
  IF android /\ a.native.stored # NoUser THEN a
  ELSE [a EXCEPT !.native = [stored |-> IF android THEN u ELSE NoUser, default |-> u]]

(* Slip: Android forgets to clear what it stored. *)
UnregisterKeepingStored(a) == [a EXCEPT !.native.default = NoUser]

(* lpUnregister disables the default account and no other. *)
Unregister(a) == [a EXCEPT !.native.default = NoUser, !.native.stored = NoUser]

(* FusionConnection.logOut: the phone is unregistered at once, the rest    *)
(* waits for the answers to two requests.                                  *)
LogOut(a, rs) ==
  Asks(IF a.fc.softphone THEN Unregister(a) ELSE a, rs, "token", NoUser, FALSE)

(* Slip: the page keeps the device of the user who leaves. *)
PageLogOutKeepingDevice(a) ==
  Unregister([a EXCEPT !.prefs = [username |-> NoUser, device |-> NoUser],
                       !.page  = [FreshPage EXCEPT !.device = a.page.device]])

(* _logOut of the page. *)
PageLogOut(a) ==
  Unregister([a EXCEPT !.prefs = [username |-> NoUser, device |-> NoUser],
                       !.page  = FreshPage])

(* The answer to /log_out.  _extension, _domain and the socket stay. *)
LoggedOut(a) ==
  PageLogOut([a EXCEPT !.fc.user = NoUser, !.fc.softphone = FALSE,
                       !.fc.departments = FALSE])

(* _register of the page: the device it knows, or a look-up of the device  *)
(* of whoever _extension names.  Without a username the request throws.    *)
RegisterDevice(a, rs) ==
  IF a.page.isRegistering THEN Result(a, rs)
  ELSE IF a.page.device # NoUser THEN Result(Register(a, a.page.device), rs)
  ELSE IF a.prefs.username = NoUser THEN Result(a, rs)
  ELSE Asks(a, rs, "device", a.fc.ext, FALSE)

(* The home page takes the place of the form; requests outlive it. *)
ShowHome(a) == [a EXCEPT !.page.loggedIn = TRUE, !.form = FreshForm]

WithoutForm(rs) == [k \in DOMAIN rs |-> [rs[k] EXCEPT !.shown = FALSE]]

(* The callbacks of the log-in form. *)
LoginSuccess(a, rs) == RegisterDevice(ShowHome(a), WithoutForm(rs))

Refused(a, r) ==
  IF r.shown THEN [a EXCEPT !.form = [pending |-> FALSE, wrong |-> TRUE]] ELSE a

(* The end of _postLoginSetup: addStream throws while the stream of an     *)
(* earlier socket is open, and then the form is never called back.         *)
SetupSocket(a, rs, kind) ==
  LET open == [a EXCEPT !.fc.socket = TRUE]
  IN IF a.fc.socket THEN Result(a, rs)
     ELSE IF kind = "setup" THEN LoginSuccess(open, rs) ELSE Result(open, rs)

(* _postLoginSetup waits for the departments unless they are there. *)
PostLoginSetup(a, rs, kind, r) ==
  IF a.fc.departments THEN SetupSocket(a, rs, kind)
  ELSE Asks(a, rs, kind, r.user, r.shown)

Known(a, u) == [a EXCEPT !.fc.user = u, !.fc.ext = u]

(* The device looked up is stored and registered, whoever is there now. *)
DeviceFound(a, u) ==
  Register([a EXCEPT !.page.device = u, !.prefs.device = u], u)

-----------------------------------------------------------------------------
(* What the server may answer: what was asked for, something else, that    *)
(* the session is not valid, or nothing because the network failed.  A     *)
(* log-in is not granted under another user's name.                        *)
Answers(r) ==
  {"ok", "other", "invalid", "failed"}
    \ IF r.kind = "login" /\ r.sent # r.user THEN {"ok"} ELSE {}

(* Slip: like apiV2Call, it calls back with the refusal it will retry. *)
InvalidLoginThrough(a, rs, r) ==
  IF r.kind \notin {"login", "auto"} THEN Result(a, rs)
  ELSE IF r.retry < MaxRetries
  THEN Result(IF r.kind = "login" THEN Refused(a, r) ELSE a,
              Append(rs, [r EXCEPT !.waiting = TRUE]))
  ELSE Result(IF r.kind = "login" THEN Refused(a, r) ELSE a, rs)

(* Slip: the count of retries is not passed on. *)
InvalidLoginForever(a, rs, r) ==
  IF r.kind \in {"login", "auto"} THEN Result(a, Append(rs, [r EXCEPT !.waiting = TRUE]))
  ELSE Result(a, rs)

(* Slip: one retry more than the limit. *)
InvalidLoginOneMore(a, rs, r) ==
  IF r.kind \notin {"login", "auto"} THEN Result(a, rs)
  ELSE IF r.retry <= MaxRetries
  THEN Result(a, Append(rs, [r EXCEPT !.waiting = TRUE, !.retry = @ + 1]))
  ELSE Result(IF r.kind = "login" THEN Refused(a, r) ELSE a, rs)

(* apiV1Call on invalid_login: only calls with an onError are sent again,  *)
(* a second later; the others are dropped without a word.                  *)
InvalidLogin(a, rs, r) ==
  IF r.kind \notin {"login", "auto"} THEN Result(a, rs)
  ELSE IF r.retry < MaxRetries
  THEN Result(a, Append(rs, [r EXCEPT !.waiting = TRUE, !.retry = @ + 1]))
  ELSE Result(IF r.kind = "login" THEN Refused(a, r) ELSE a, rs)

LoginAnswer(a, rs, r, how) ==
  CASE how = "ok" ->
         PostLoginSetup([Known(a, r.user) EXCEPT !.prefs.username = r.user], rs, "setup", r)
    [] how = "other"   -> Result(Refused(a, r), rs)
    [] how = "invalid" -> InvalidLogin(a, rs, r)
    [] OTHER           -> Result(a, rs)

AutoAnswer(a, rs, r, how) ==
  CASE how = "ok"      -> PostLoginSetup(Known(a, r.user), rs, "setupAuto", r)
    [] how = "other"   -> LogOut(a, rs)
    [] how = "invalid" -> InvalidLogin(a, rs, r)
    [] OTHER           -> Result(a, rs)

DeviceAnswer(a, rs, r, how) ==
  CASE how = "ok"     -> Result(DeviceFound(a, r.user), rs)
    [] how = "failed" -> Result(a, rs)
    [] OTHER          -> LogOut(a, rs)

(* Slip: the departments are asked for until they are there. *)
SetupAnswerUntilThere(a, rs, r, how) ==
  IF how = "failed" THEN Result(a, rs)
  ELSE IF how = "ok" THEN SetupSocket([a EXCEPT !.fc.departments = TRUE], rs, r.kind)
  ELSE Result(a, Append(rs, r))

(* The answer to the departments is waited for, whatever it says. *)
SetupAnswer(a, rs, r, how) ==
  IF how = "failed" THEN Result(a, rs)
  ELSE SetupSocket([a EXCEPT !.fc.departments = @ \/ how = "ok"], rs, r.kind)

(* The two requests of logOut, one in the callback of the other. *)
LogOutAnswer(a, rs, r, how) ==
  IF how \in {"failed", "invalid"} THEN Result(a, rs)
  ELSE IF r.kind = "token" THEN Asks(a, rs, "logout", NoUser, FALSE)
  ELSE Result(LoggedOut(a), rs)

(* auth swallows whatever happens, and autoLogin goes on. *)
Handle(a, rs, r, how) ==
  CASE r.kind = "login"  -> LoginAnswer(a, rs, r, how)
    [] r.kind = "auth"   -> Asks(a, rs, "auto", r.user, FALSE)
    [] r.kind = "auto"   -> AutoAnswer(a, rs, r, how)
    [] r.kind = "device" -> DeviceAnswer(a, rs, r, how)
    [] r.kind \in {"setup", "setupAuto"} -> SetupAnswer(a, rs, r, how)
    [] OTHER             -> LogOutAnswer(a, rs, r, how)

Becomes(result) == app' = result.app /\ requests' = result.requests

(* The callback of r is for a session the phone has left since. *)
Stale(r) ==
  \/ r.kind \in {"login", "setup", "auto", "setupAuto", "device"}
       /\ r.user # app.prefs.username
  \/ r.kind = "device" /\ ~app.page.loggedIn

Answer(k) ==
  /\ ~requests[k].waiting
  /\ \E how \in Answers(requests[k]) :
       /\ Becomes(Handle(app, RemoveAt(requests, k), requests[k], how))
       /\ crossed' = (crossed \/ (Stale(requests[k]) /\ how = "ok"))
  /\ UNCHANGED android

(* A second after it was refused the request is sent again, under the      *)
(* username the phone has by now.                                          *)
Retry(k) ==
  /\ requests[k].waiting
  /\ requests' = [requests EXCEPT ![k].waiting = FALSE, ![k].sent = app.prefs.username]
  /\ UNCHANGED <<android, app, crossed>>

CanAsk == Len(requests) < MaxRequests

(* _login of the form: it writes the username before the server is asked.  *)
TapLogin(u) ==
  /\ ~app.page.loggedIn /\ ~app.form.pending /\ CanAsk
  /\ Becomes(Asks([app EXCEPT !.prefs.username = u, !.form.pending = TRUE],
                  requests, "login", u, TRUE))
  /\ UNCHANGED <<android, crossed>>

(* Fifteen seconds later the form may be used again. *)
LoginTimeout ==
  /\ app.form.pending
  /\ app' = [app EXCEPT !.form.pending = FALSE]
  /\ UNCHANGED <<android, requests, crossed>>

TapLogOut ==
  /\ app.page.loggedIn /\ CanAsk
  /\ Becomes(LogOut(app, requests))
  /\ UNCHANGED <<android, crossed>>

(* _autoLogin: the page takes up what the preferences hold, registers, and *)
(* lets autoLogin ask the server.                                          *)
AutoLogin(a, rs) ==
  LET d    == a.prefs.device
      home == [ShowHome(a) EXCEPT !.page.isRegistering = TRUE, !.page.device = d,
                                  !.fc.user = a.prefs.username]
  IN IF a.prefs.username = NoUser \/ d = NoUser THEN Result(a, rs)
     ELSE Asks(Register(home, d), WithoutForm(rs), "auth", a.prefs.username, FALSE)

(* _updateConnectionStatus finds the internet reachable. *)
Connectivity ==
  /\ CanAsk
  /\ Becomes(AutoLogin(app, requests))
  /\ UNCHANGED <<android, crossed>>

(* The process ends and starts again.  Android registers what it stored,   *)
(* and initState logs in.                                                  *)
Restart ==
  LET s     == app.native.stored
      fresh == [app EXCEPT !.fc = FreshFc, !.page = FreshPage, !.form = FreshForm,
                           !.native = [stored |-> s, default |-> s]]
  IN Becomes(AutoLogin(fresh, <<>>)) /\ UNCHANGED <<android, crossed>>

(* The server or the network closes the socket. *)
SocketCloses ==
  /\ app.fc.socket
  /\ app' = [app EXCEPT !.fc.socket = FALSE]
  /\ UNCHANGED <<android, requests, crossed>>

Next ==
  \/ \E k \in DOMAIN requests : Answer(k) \/ Retry(k)
  \/ \E u \in Users : TapLogin(u)
  \/ LoginTimeout \/ TapLogOut \/ Connectivity \/ Restart \/ SocketCloses

(* Requests end: the HTTP client answers or fails, oldest first for what   *)
(* fairness needs, and the timers of Dart fire.                            *)
Fairness ==
  /\ WF_vars(requests # <<>> /\ (Answer(1) \/ Retry(1)))
  /\ WF_vars(LoginTimeout)

Spec == Init /\ [][Next]_vars /\ Fairness

-----------------------------------------------------------------------------
TypeOK ==
  /\ android \in BOOLEAN /\ crossed \in BOOLEAN
  /\ app \in App
  /\ requests \in Seq(Request)

(* A finished log-out sticks, over retries, connectivity changes and       *)
(* restarts: as long as no late answer was used, a phone that shows the    *)
(* log-in form keeps no device and its default account is not registered.  *)
LogOutSticks ==
  ~crossed /\ ~app.page.loggedIn =>
    /\ app.prefs.device = NoUser
    /\ app.native.default = NoUser /\ app.native.stored = NoUser

(* As long as no late answer was used, the device the home page has        *)
(* registered is that of the user who is logged in.                        *)
PhoneIsTheUsers ==
  ~crossed /\ app.page.loggedIn =>
    app.native.default \in {NoUser, app.prefs.username}

(* The form says that the password is wrong only once its attempt is over: *)
(* nothing that would still log in is left of it.                          *)
WrongIsFinal ==
  [][~app.form.wrong /\ app'.form.wrong =>
       Len(requests') < Len(requests)]_vars

(* An attempt to log in comes to an end: it is granted, refused, given up  *)
(* or lost after finitely many retries and however the departments are     *)
(* answered, and the form is free again although the callback of a granted *)
(* one may never come, whatever the phone goes on asking for meanwhile.    *)
(* Only a user who tries for ever keeps an attempt under way.              *)
LogInEnds ==
  \/ []<><<\E u \in Users : TapLogin(u)>>_vars
  \/ []<>(/\ ~app.form.pending
          /\ \A k \in DOMAIN requests : requests[k].kind \notin {"login", "setup"})

(* What is asked comes to an end: unless the user, the network or a        *)
(* restart makes the phone ask for ever, again and again nothing is in     *)
(* flight, neither a retry nor the next leg of a log-in or a log-out.      *)
RequestsEnd ==
  \/ []<><<(\E u \in Users : TapLogin(u)) \/ TapLogOut \/ Connectivity \/ Restart>>_vars
  \/ []<>(requests = <<>>)

=============================================================================
