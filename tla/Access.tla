------------------------------- MODULE Access -------------------------------
(***************************************************************************)
(* Accounts, sessions and the two cookies: server/internal/http (auth.go,  *)
(* session.go, middleware.go) over server/internal/store (sessions.go,     *)
(* users.go), seen with one browser whose tabs send requests of their own. *)
(*                                                                         *)
(* A request carries the cookies that have not lapsed when it is sent.     *)
(* The middleware and the handler then run statement by statement beside   *)
(* other requests, and the answer changes the cookies when it arrives, in  *)
(* whatever order answers arrive.  A session token stands for its hash and *)
(* for the CSRF token derived from it.  Time is an integer.                *)
(***************************************************************************)
EXTENDS Integers, FiniteSets

CONSTANTS
  Emails,     \* normalised addresses
  Passwords,
  NoEmail, NoPassword,
  MaxTokens,  \* bound: sessions that may be started, numbered as they are
  Slots,      \* requests one browser may have on the way at once
  Lifetime,   \* of a session
  MaxTime,    \* bound on the clock
  MaxFaults   \* bound on lost answers and failing statements

NoToken == 0
Tokens  == 1..MaxTokens

ASSUME AccessAssumption ==
  /\ NoEmail \notin Emails /\ NoPassword \notin Passwords
  /\ MaxTokens \in Nat /\ Lifetime \in Nat \ {0}
  /\ MaxTime \in Nat /\ MaxFaults \in Nat /\ IsFiniteSet(Slots)

VARIABLES
  now,
  users,      \* the password of each account, NoPassword where there is none
  sessions,   \* the sessions table, by token; expires 0 is no row
  issued,     \* tokens handed out so far
  jar,        \* the browser's session cookie and its readable CSRF cookie
  request,    \* what each slot is doing
  ended,      \* history: tokens a logout found and did not fail to delete
  faults

accessVars == <<now, users, sessions, issued, jar, request, ended, faults>>

\* me, pull and push are one kind: none changes a session or a cookie of its
\* own, and a push needs a readable cookie before it is sent at all.
Kinds  == {"read", "login", "register", "logout"}
Stages == {"free", "lookup", "touch", "handle", "session", "answer"}

Cookie  == [token : Tokens \cup {NoToken}, expires : Nat]
Session == [email : Emails \cup {NoEmail}, expires : Nat,
            shown : Passwords \cup {NoPassword}]  \* history: what opened it

NoCookie  == [token |-> NoToken, expires |-> 0]
NoSession == [email |-> NoEmail, expires |-> 0, shown |-> NoPassword]

\* What an answer does to a cookie: set it, clear it, or leave it.
Keep == [token |-> NoToken, expires |-> -1]

Request == [stage    : Stages,
            kind     : Kinds,
            email    : Emails \cup {NoEmail},
            password : Passwords \cup {NoPassword},
            cookie   : Tokens \cup {NoToken},   \* the session cookie sent
            csrf     : Tokens \cup {NoToken},   \* the CSRF cookie sent
            user     : Emails \cup {NoEmail},   \* in the request's context
            session  : Cookie \cup {Keep},      \* Set-Cookie of the answer
            readable : Cookie \cup {Keep}]

Free == [stage |-> "free", kind |-> "read", email |-> NoEmail,
         password |-> NoPassword, cookie |-> NoToken, csrf |-> NoToken,
         user |-> NoEmail, session |-> Keep, readable |-> Keep]

AccessTypeOK ==
  /\ now \in 0..MaxTime
  /\ users \in [Emails -> Passwords \cup {NoPassword}]
  /\ sessions \in [Tokens -> Session]
  /\ issued \in 0..MaxTokens
  /\ jar \in [session : Cookie, readable : Cookie]
  /\ request \in [Slots -> Request]
  /\ ended \subseteq Tokens
  /\ faults \in 0..MaxFaults

AccessInit ==
  /\ now = 0
  /\ users = [e \in Emails |-> NoPassword]
  /\ sessions = [t \in Tokens |-> NoSession]
  /\ issued = 0
  /\ jar = [session |-> NoCookie, readable |-> NoCookie]
  /\ request = [s \in Slots |-> Free]
  /\ ended = {}
  /\ faults = 0

\* expires_at > datetime('now'), and what a browser does with a lapsed cookie.
Valid(t) == t # NoToken /\ sessions[t].expires > now
Sent(c)  == IF c.expires > now THEN c.token ELSE NoToken

Expiry == now + Lifetime

Fault == faults < MaxFaults /\ faults' = faults + 1

\* One statement of the request in slot s has run.
Becomes(s, r) == request' = [request EXCEPT ![s] = r]

\* The answer that is on its way: of what it says, only the cookies matter here.
Answers(s, session, readable) ==
  Becomes(s, [Free EXCEPT !.stage = "answer", !.session = session,
                          !.readable = readable])

-----------------------------------------------------------------------------
(* The browser.                                                            *)

Send(s, kind, email, password) ==
  /\ request[s].stage = "free"
  /\ Becomes(s, [Free EXCEPT !.stage = "lookup", !.kind = kind,
                             !.email = email, !.password = password,
                             !.cookie = Sent(jar.session),
                             !.csrf = Sent(jar.readable)])
  /\ UNCHANGED <<now, users, sessions, issued, jar, ended, faults>>

\* send() refuses before the request goes out when no CSRF cookie is readable.
SendLogout(s) ==
  /\ Sent(jar.readable) # NoToken
  /\ Send(s, "logout", NoEmail, NoPassword)

SendRead(s) == Send(s, "read", NoEmail, NoPassword)

SigningIn == {s \in Slots : /\ request[s].kind \in {"login", "register"}
                           /\ request[s].stage # "answer"}

SignIn(s, kind) ==
  /\ issued + Cardinality(SigningIn) < MaxTokens
  /\ \E e \in Emails, p \in Passwords : Send(s, kind, e, p)

Stored(cookie, set) == IF set = Keep THEN cookie ELSE set

Deliver(s) ==
  /\ request[s].stage = "answer"
  /\ jar' = [session  |-> Stored(jar.session, request[s].session),
             readable |-> Stored(jar.readable, request[s].readable)]
  /\ Becomes(s, Free)
  /\ UNCHANGED <<now, users, sessions, issued, ended, faults>>

\* The answer is lost, or the tab that waited for it is closed.
Lost(s) ==
  /\ Fault
  /\ request[s].stage = "answer"
  /\ Becomes(s, Free)
  /\ UNCHANGED <<now, users, sessions, issued, jar, ended>>

-----------------------------------------------------------------------------
(* withUser.                                                               *)

PastHalf(t) == 2 * (sessions[t].expires - now) <= Lifetime

\* SessionUser and SessionExpiresAt.  No cookie, an unknown or a lapsed
\* session, and a database that fails: the request goes on without a user.
Lookup(s) ==
  LET t == request[s].cookie
  IN  /\ request[s].stage = "lookup"
      /\ \/ /\ Valid(t)
            /\ Becomes(s, [request[s] EXCEPT
                 !.stage = IF PastHalf(t) THEN "touch" ELSE "handle",
                 !.user  = sessions[t].email])
            /\ UNCHANGED faults
         \/ /\ ~Valid(t)
            /\ Becomes(s, [request[s] EXCEPT !.stage = "handle"])
            /\ UNCHANGED faults
         \/ /\ t # NoToken
            /\ Becomes(s, [request[s] EXCEPT !.stage = "handle"])
            /\ Fault
      /\ UNCHANGED <<now, users, sessions, issued, jar, ended>>

Extended(s) ==
  Becomes(s, [request[s] EXCEPT
    !.stage = "handle",
    !.session = [token |-> request[s].cookie, expires |-> Expiry]])

\* Mutant: the row is written whether or not it is still there.
TouchInserts(s) ==
  /\ request[s].stage = "touch"
  /\ sessions' = [sessions EXCEPT ![request[s].cookie] =
       [email |-> request[s].user, expires |-> Expiry, shown |-> @.shown]]
  /\ Extended(s)
  /\ UNCHANGED <<now, users, issued, jar, ended, faults>>

\* UPDATE ... WHERE token_hash: a row that a logout deleted meanwhile affects
\* nothing and sets no cookie; one that lapsed meanwhile is extended.
Touch(s) ==
  LET t == request[s].cookie
  IN  /\ request[s].stage = "touch"
      /\ \/ /\ sessions[t] # NoSession
            /\ sessions' = [sessions EXCEPT ![t].expires = Expiry]
            /\ Extended(s)
         \/ /\ sessions[t] = NoSession
            /\ Becomes(s, [request[s] EXCEPT !.stage = "handle"])
            /\ UNCHANGED sessions
      /\ UNCHANGED <<now, users, issued, jar, ended, faults>>

\* Mutant: only a missing CSRF cookie is minted again.
MissingOnly(s) == request[s].user # NoEmail /\ request[s].csrf = NoToken

NeedsHealing(s) ==
  request[s].user # NoEmail /\ request[s].csrf # request[s].cookie

\* Mutant: minted for a whole lifetime.
MintedForALifetime(t) == [token |-> t, expires |-> Expiry]

\* Mutant: minted without an expiry.
MintedForTheVisit(t) == [token |-> t]

Minted(t) == [token |-> t, expires |-> sessions[t].expires]

\* A CSRF cookie that is missing or is another session's is minted again, for
\* as long as the session lasts by now.  Read together with the statement of
\* the handler that follows it, which another request cannot tell apart.
Healed(s) ==
  IF NeedsHealing(s) /\ Valid(request[s].cookie)
  THEN Minted(request[s].cookie) ELSE Keep

-----------------------------------------------------------------------------
(* requireCSRF, requireUser and the handlers.                              *)

\* A state-changing request of a known user must echo the token of its own
\* session; the header is the cookie the client could read.
Refused(s) ==
  /\ request[s].kind = "logout"
  /\ request[s].user # NoEmail
  /\ request[s].csrf # request[s].cookie

Handling(s, kind) == request[s].stage = "handle" /\ request[s].kind = kind

\* me, the two sync handlers as far as sessions are concerned, and the 401 and
\* the 403 that end a request before its handler.
Serve(s) ==
  /\ \/ Handling(s, "read")
     \/ Handling(s, "logout") /\ Refused(s)
  /\ Answers(s, request[s].session, Healed(s))
  /\ UNCHANGED <<now, users, sessions, issued, jar, ended, faults>>

\* The password is right, or the account is new: a session follows, whose
\* cookies replace any the middleware has set.
LetIn(s) ==
  Becomes(s, [request[s] EXCEPT !.stage = "session", !.user = request[s].email,
                                !.readable = Healed(s)])

\* Mutant: the insert replaces the account of an address that is taken.
RegisterReplaces(s) ==
  /\ Handling(s, "register")
  /\ users' = [users EXCEPT ![request[s].email] = request[s].password]
  /\ LetIn(s)
  /\ UNCHANGED <<now, sessions, issued, jar, ended, faults>>

\* CreateUser: the unique index decides between two that come at once.
Register(s) ==
  LET e == request[s].email
  IN  /\ Handling(s, "register")
      /\ \/ /\ users[e] = NoPassword
            /\ users' = [users EXCEPT ![e] = request[s].password]
            /\ LetIn(s)
         \/ /\ users[e] # NoPassword
            /\ Answers(s, request[s].session, Healed(s))
            /\ UNCHANGED users
      /\ UNCHANGED <<now, sessions, issued, jar, ended, faults>>

Login(s) ==
  /\ Handling(s, "login")
  /\ IF users[request[s].email] = request[s].password
     THEN LetIn(s)
     ELSE Answers(s, request[s].session, Healed(s))
  /\ UNCHANGED <<now, users, sessions, issued, jar, ended, faults>>

\* startSession: a new token, and both cookies with one expiry.
StartSession(s) ==
  LET t      == issued + 1
      cookie == [token |-> t, expires |-> Expiry]
  IN  /\ request[s].stage = "session"
      /\ issued' = t
      /\ sessions' = [sessions EXCEPT ![t] =
           [email |-> request[s].user, expires |-> Expiry,
            shown |-> request[s].password]]
      /\ Answers(s, cookie, cookie)
      /\ UNCHANGED <<now, users, jar, ended, faults>>

\* The account, new or old, is there; its session is not.
StartSessionFails(s) ==
  /\ request[s].stage = "session"
  /\ Fault
  /\ Answers(s, request[s].session, request[s].readable)
  /\ UNCHANGED <<now, users, sessions, issued, jar, ended>>

\* DeleteSession, whose failure is only logged; both cookies are cleared
\* either way.
Logout(s) ==
  LET t == request[s].cookie
  IN  /\ Handling(s, "logout")
      /\ ~Refused(s)
      /\ \/ /\ t # NoToken
            /\ sessions' = [sessions EXCEPT ![t] = NoSession]
            /\ ended' = ended \cup {t}
            /\ UNCHANGED faults
         \/ /\ t = NoToken
            /\ UNCHANGED <<sessions, ended, faults>>
         \/ /\ t # NoToken
            /\ Fault
            /\ UNCHANGED <<sessions, ended>>
      /\ Answers(s, NoCookie, NoCookie)
      /\ UNCHANGED <<now, users, issued, jar>>

Tick ==
  /\ now < MaxTime
  /\ now' = now + 1
  /\ UNCHANGED <<users, sessions, issued, jar, request, ended, faults>>

Statement(s) ==
  \/ Lookup(s) \/ Touch(s) \/ Serve(s) \/ Register(s) \/ Login(s)
  \/ StartSession(s) \/ StartSessionFails(s) \/ Logout(s)

AccessNext ==
  \/ Tick
  \/ \E s \in Slots :
       \/ SendRead(s) \/ SendLogout(s)
       \/ \E kind \in {"login", "register"} : SignIn(s, kind)
       \/ Statement(s)
       \/ Deliver(s)
       \/ Lost(s)

AccessSpec == AccessInit /\ [][AccessNext]_accessVars

\* A request the server has is answered, an answer arrives, and a page that is
\* opened again asks who is signed in (App.tsx, AskMe).
AccessFairSpec ==
  /\ AccessSpec
  /\ \A s \in Slots : /\ WF_accessVars(Statement(s))
                      /\ WF_accessVars(Deliver(s))
                      /\ SF_accessVars(SendRead(s))

-----------------------------------------------------------------------------
(* Properties.                                                             *)

\* A session a logout ended never lets anybody in again, although a request
\* that was let in before may be just about to extend it (sessions.go,
\* TouchSession beside DeleteSession).
SignedOutStaysOut == \A t \in ended : sessions[t] = NoSession

\* Every session was opened with the password its account has, also when two
\* people register one address at once (auth.go, register; users.go,
\* CreateUser).
SessionsNeedThePassword ==
  \A t \in Tokens : sessions[t] # NoSession =>
    users[sessions[t].email] = sessions[t].shown

\* Neither cookie of a living session outlasts it, in whatever order the
\* answers that set them arrive (middleware.go, slide and withUser).
CookiesWithinSession ==
  \A c \in {jar.session, jar.readable} :
    c.token # NoToken /\ sessions[c.token] # NoSession =>
      c.expires <= sessions[c.token].expires

\* A signed-in browser whose readable cookie has lapsed or belongs to an
\* earlier session can write again once its page asks who it is, or is signed
\* out (middleware.go, withUser: "an existing session heals on its next
\* request").
SignedIn == Valid(Sent(jar.session))
CanWrite == Sent(jar.readable) = Sent(jar.session)
WritesComeBack == (SignedIn /\ ~CanWrite) ~> (CanWrite \/ ~SignedIn)

=============================================================================
