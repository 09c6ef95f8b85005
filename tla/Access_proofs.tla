---------------------------- MODULE Access_proofs ----------------------------
(* Accounts, sessions and cookies for any number of addresses, passwords,  *)
(* tokens and requests at once, and for any lifetime.                      *)
(*                                                                         *)
(* The three safety properties speak of the tables and of the jar; what    *)
(* makes them inductive is the same said of the requests under way: the    *)
(* tokens they carry have been handed out, the password a session is about *)
(* to be opened with is the account's, and a cookie on its way lasts no    *)
(* longer than its session.                                                *)
EXTENDS Access, FiniteSetTheorems, TLAPS

\* A session that is there lasts as long as a cookie that names it.
Lasts(c, table) ==
  c.token # NoToken /\ table[c.token] # NoSession =>
    c.expires <= table[c.token].expires
Within(c) == Lasts(c, sessions)

Opening == {"login", "register"}

\* Every sign-in under way has a token left for it.
Capacity == issued + Cardinality(SigningIn) <= MaxTokens

Fit(r) ==
  /\ r.kind \in Opening => r.email \in Emails /\ r.password \in Passwords
  /\ r.stage = "touch" => r.cookie # NoToken
  /\ r.stage = "session" =>
       r.kind \in Opening /\ r.user = r.email /\ users[r.user] = r.password
  /\ r.cookie <= issued /\ r.csrf <= issued
  /\ r.session.token <= issued /\ r.readable.token <= issued
  /\ Within(r.session) /\ Within(r.readable)

Sound(s) == Fit(request[s])

Requests == \A s \in Slots : Sound(s)

Jar ==
  /\ jar.session.token <= issued /\ jar.readable.token <= issued
  /\ Within(jar.session) /\ Within(jar.readable)

\* Nothing lasts longer than a session opened now, and what is not handed out
\* yet is not there.
Table ==
  \A t \in Tokens :
    /\ sessions[t].expires <= Expiry
    /\ sessions[t] # NoSession =>
         /\ t <= issued
         /\ sessions[t].email \in Emails /\ sessions[t].shown \in Passwords
         /\ users[sessions[t].email] = sessions[t].shown

Endings == ended \subseteq 1..issued /\ SignedOutStaysOut

AccessInv ==
  /\ AccessTypeOK /\ Capacity /\ Requests /\ Jar /\ Table /\ Endings

-----------------------------------------------------------------------------
(* Types.                                                                  *)

LEMMA Numbers == /\ MaxTokens \in Nat /\ Lifetime \in Nat /\ Lifetime > 0
                 /\ MaxTime \in Nat /\ IsFiniteSet(Slots)
                 /\ NoPassword \notin Passwords /\ NoEmail \notin Emails
  BY AccessAssumption

LEMMA RequestType ==
  ASSUME AccessTypeOK, NEW s \in Slots
  PROVE  /\ request[s] \in Request
         /\ request[s].stage \in Stages /\ request[s].kind \in Kinds
         /\ request[s].email \in Emails \cup {NoEmail}
         /\ request[s].password \in Passwords \cup {NoPassword}
         /\ request[s].cookie \in Tokens \cup {NoToken}
         /\ request[s].csrf \in Tokens \cup {NoToken}
         /\ request[s].user \in Emails \cup {NoEmail}
         /\ request[s].session \in Cookie \cup {Keep}
         /\ request[s].readable \in Cookie \cup {Keep}
  BY DEF AccessTypeOK, Request

LEMMA StateType ==
  ASSUME AccessTypeOK
  PROVE  /\ now \in Nat /\ now <= MaxTime /\ issued \in Nat /\ issued <= MaxTokens
         /\ Expiry \in Nat
         /\ \A t \in Tokens : /\ sessions[t] \in Session
                              /\ sessions[t].expires \in Nat
                              /\ t \in Nat /\ t # NoToken
         /\ jar.session \in Cookie /\ jar.readable \in Cookie
  BY Numbers DEF AccessTypeOK, Session, Tokens, NoToken, Expiry

LEMMA CookieType ==
  ASSUME NEW c \in Cookie \cup {Keep}
  PROVE  /\ c.token \in Tokens \cup {NoToken} /\ c.token \in Nat
         /\ c.expires \in Int
  BY Numbers DEF Cookie, Keep, Tokens, NoToken

LEMMA FreeType == Free \in Request /\ Keep \in Cookie \cup {Keep}
  BY DEF Free, Request, Stages, Kinds

LEMMA NoCookieType == NoCookie \in Cookie
  BY DEF NoCookie, Cookie

LEMMA HealedType ==
  ASSUME AccessTypeOK, NEW s \in Slots
  PROVE  Healed(s) \in Cookie \cup {Keep}
  <1>1. CASE NeedsHealing(s) /\ Valid(request[s].cookie)
    <2>1. request[s].cookie \in Tokens
      BY <1>1, RequestType DEF Valid
    <2> QED
      BY <1>1, <2>1, StateType DEF Healed, Minted, Cookie
  <1>2. CASE ~(NeedsHealing(s) /\ Valid(request[s].cookie))
    BY <1>2 DEF Healed
  <1> QED
    BY <1>1, <1>2

LEMMA BecomesType ==
  ASSUME AccessTypeOK, NEW s \in Slots, NEW r \in Request, Becomes(s, r)
  PROVE  /\ request' \in [Slots -> Request]
         /\ request'[s] = r
         /\ \A q \in Slots \ {s} : request'[q] = request[q]
  BY DEF Becomes, AccessTypeOK

\* What an answer leaves of its request: what it does to the two cookies.
Answer(a, b) ==
  [stage |-> "answer", kind |-> "read", email |-> NoEmail,
   password |-> NoPassword, cookie |-> NoToken, csrf |-> NoToken,
   user |-> NoEmail, session |-> a, readable |-> b]

LEMMA AnswerRecord ==
  ASSUME NEW a \in Cookie \cup {Keep}, NEW b \in Cookie \cup {Keep}
  PROVE  Answer(a, b) \in Request
  BY DEF Answer, Request, Stages, Kinds

LEMMA AnswerFields ==
  ASSUME NEW a, NEW b
  PROVE  /\ Answer(a, b).stage = "answer" /\ Answer(a, b).kind = "read"
         /\ Answer(a, b).cookie = NoToken /\ Answer(a, b).csrf = NoToken
         /\ Answer(a, b).session = a /\ Answer(a, b).readable = b
  BY DEF Answer

LEMMA AnswerIsFree ==
  ASSUME NEW a, NEW b
  PROVE  [Free EXCEPT !.stage = "answer", !.session = a, !.readable = b]
           = Answer(a, b)
  <1> DEFINE staged == [Free EXCEPT !.stage = "answer"]
             opened == [staged EXCEPT !.session = a]
  <1>1. staged = Answer(Keep, Keep)
    BY DEF Free, Answer
  <1> HIDE DEF staged
  <1>2. opened = Answer(a, Keep)
    BY <1>1 DEF Answer
  <1> HIDE DEF opened
  <1>3. [opened EXCEPT !.readable = b] = Answer(a, b)
    BY <1>2 DEF Answer
  <1> QED
    BY <1>3 DEF opened, staged

LEMMA AnswersType ==
  ASSUME AccessTypeOK, NEW s \in Slots,
         NEW a \in Cookie \cup {Keep}, NEW b \in Cookie \cup {Keep},
         Answers(s, a, b)
  PROVE  /\ request' \in [Slots -> Request]
         /\ request'[s] = Answer(a, b)
         /\ \A q \in Slots \ {s} : request'[q] = request[q]
  <1>1. Answer(a, b) \in Request
    BY AnswerRecord
  <1>2. Becomes(s, Answer(a, b))
    BY AnswerIsFree DEF Answers
  <1> QED
    BY <1>1, <1>2, BecomesType

-----------------------------------------------------------------------------
(* Requests that a step does not touch.                                    *)

\* What a step may do to the tables: tokens are handed out, accounts keep
\* their passwords, a session lasts longer or goes.
Grows ==
  /\ issued' \in Nat /\ issued <= issued'
  /\ \A e \in Emails : users[e] # NoPassword => users'[e] = users[e]
  /\ \A t \in Tokens : t <= issued =>
       \/ sessions'[t] = NoSession
       \/ /\ sessions[t] # NoSession
          /\ sessions'[t].expires \in Nat
          /\ sessions[t].expires <= sessions'[t].expires

LEMMA LastsOn ==
  ASSUME AccessInv, Grows, NEW c \in Cookie \cup {Keep},
         c.token <= issued, Lasts(c, sessions)
  PROVE  Lasts(c, sessions') /\ c.token <= issued'
  <1>1. c.token <= issued'
    BY CookieType, StateType DEF AccessInv, Grows
  <1>2. ASSUME c.token # NoToken, sessions'[c.token] # NoSession
        PROVE  c.expires <= sessions'[c.token].expires
    <2>1. c.token \in Tokens
      BY <1>2, CookieType
    <2>2. /\ sessions[c.token] # NoSession
          /\ sessions'[c.token].expires \in Nat
          /\ sessions[c.token].expires <= sessions'[c.token].expires
      BY <1>2, <2>1 DEF Grows
    <2>3. c.expires <= sessions[c.token].expires
      BY <1>2, <2>2 DEF Lasts
    <2> QED
      BY <2>1, <2>2, <2>3, CookieType, StateType DEF AccessInv
  <1> QED
    BY <1>1, <1>2 DEF Lasts

LEMMA StaysSound ==
  ASSUME AccessInv, Grows, NEW s \in Slots, request'[s] = request[s]
  PROVE  Sound(s)'
  <1> USE DEF AccessInv
  <1>1. Sound(s)
    BY DEF Requests
  <1>2. /\ Lasts(request[s].session, sessions') /\ request[s].session.token <= issued'
        /\ Lasts(request[s].readable, sessions') /\ request[s].readable.token <= issued'
    BY <1>1, LastsOn, RequestType DEF Sound, Fit, Within
  <1>3. request[s].cookie <= issued' /\ request[s].csrf <= issued'
    <2>1. request[s].cookie \in Nat /\ request[s].csrf \in Nat
      BY RequestType DEF Tokens, NoToken
    <2> QED
      BY <1>1, <2>1, StateType DEF Sound, Fit, Grows
  <1>4. ASSUME request[s].stage = "session"
        PROVE  users'[request[s].user] = request[s].password
    <2>1. /\ request[s].user \in Emails /\ request[s].password \in Passwords
          /\ users[request[s].user] = request[s].password
      BY <1>1, <1>4, RequestType DEF Sound, Fit
    <2> QED
      BY <2>1, Numbers DEF Grows
  <1> QED
    BY <1>1, <1>2, <1>3, <1>4 DEF Sound, Fit, Within

LEMMA JarStays ==
  ASSUME AccessInv, Grows, UNCHANGED jar
  PROVE  Jar'
  <1>1. /\ Lasts(jar.session, sessions') /\ jar.session.token <= issued'
        /\ Lasts(jar.readable, sessions') /\ jar.readable.token <= issued'
    BY LastsOn, StateType DEF AccessInv, Jar, Within
  <1> QED
    BY <1>1 DEF Jar, Within

LEMMA NothingGrows ==
  ASSUME AccessInv, UNCHANGED <<users, sessions, issued>>
  PROVE  Grows
  BY StateType DEF AccessInv, Grows

-----------------------------------------------------------------------------
(* The tokens left for sign-ins under way.                                 *)

Busy(s) == request[s].kind \in Opening /\ request[s].stage # "answer"

LEMMA Signing == SigningIn = {s \in Slots : Busy(s)}
  BY DEF SigningIn, Busy, Opening

LEMMA CapacityStays ==
  ASSUME AccessInv, UNCHANGED issued,
         \A s \in Slots : Busy(s)' => Busy(s)
  PROVE  Capacity'
  <1>1. SigningIn' \in SUBSET SigningIn
    BY DEF SigningIn, Busy, Opening
  <1>2. IsFiniteSet(SigningIn)
    BY FS_Subset, Numbers, Signing
  <1>3. /\ Cardinality(SigningIn') <= Cardinality(SigningIn)
        /\ Cardinality(SigningIn') \in Nat /\ Cardinality(SigningIn) \in Nat
    BY <1>1, <1>2, FS_Subset, FS_CardinalityType
  <1> QED
    BY <1>3, StateType, Numbers DEF AccessInv, Capacity

\* Steps that move one request on and nothing else.
LEMMA OneRequest ==
  ASSUME AccessInv, NEW s \in Slots,
         request' \in [Slots -> Request],
         \A q \in Slots \ {s} : request'[q] = request[q],
         Sound(s)', Capacity', faults' \in 0..MaxFaults,
         UNCHANGED <<now, users, sessions, issued, jar, ended>>
  PROVE  AccessInv'
  <1>1. AccessTypeOK'
    BY DEF AccessInv, AccessTypeOK
  <1>2. Requests'
    BY NothingGrows, StaysSound DEF Requests
  <1>3. Jar'
    BY NothingGrows, JarStays
  <1>4. Table' /\ Endings'
    BY DEF AccessInv, Table, Endings, SignedOutStaysOut, Expiry
  <1> QED
    BY <1>1, <1>2, <1>3, <1>4 DEF AccessInv

LEMMA FaultType ==
  ASSUME AccessInv, Fault \/ UNCHANGED faults
  PROVE  faults' \in 0..MaxFaults
  BY AccessAssumption DEF AccessInv, AccessTypeOK, Fault

\* An answer of a step that leaves the tables alone.
LEMMA AnswerSound ==
  ASSUME AccessInv, Grows, NEW s \in Slots,
         NEW a \in Cookie \cup {Keep}, NEW b \in Cookie \cup {Keep},
         a.token <= issued', Lasts(a, sessions'),
         b.token <= issued', Lasts(b, sessions'),
         Answers(s, a, b)
  PROVE  Sound(s)' /\ ~Busy(s)'
  <1>1. request'[s] = Answer(a, b)
    BY AnswersType DEF AccessInv
  <1>2. /\ request'[s].stage = "answer" /\ request'[s].kind = "read"
        /\ request'[s].cookie = NoToken /\ request'[s].csrf = NoToken
        /\ request'[s].session = a /\ request'[s].readable = b
    BY <1>1, AnswerFields
  <1>3. NoToken <= issued'
    BY StateType DEF AccessInv, Grows, NoToken
  <1> QED
    BY <1>2, <1>3 DEF Sound, Fit, Busy, Opening, Within

-----------------------------------------------------------------------------
(* Steps.                                                                  *)

LEMMA HealedSound ==
  ASSUME AccessInv, NEW s \in Slots
  PROVE  Healed(s).token <= issued /\ Within(Healed(s))
  <1>1. CASE NeedsHealing(s) /\ Valid(request[s].cookie)
    <2>1. /\ Healed(s).token = request[s].cookie
          /\ Healed(s).expires = sessions[request[s].cookie].expires
      BY <1>1 DEF Healed, Minted
    <2>2. request[s].cookie \in Tokens
      BY <1>1, RequestType DEF Valid, AccessInv
    <2>3. sessions[request[s].cookie].expires \in Nat
      BY <2>2, StateType DEF AccessInv
    <2>4. request[s].cookie <= issued
      BY DEF AccessInv, Requests, Sound, Fit
    <2> QED
      BY <2>1, <2>3, <2>4 DEF Within, Lasts
  <1>2. CASE ~(NeedsHealing(s) /\ Valid(request[s].cookie))
    <2>1. Healed(s) = Keep
      BY <1>2 DEF Healed
    <2> QED
      BY <2>1, StateType DEF AccessInv, Keep, NoToken, Within, Lasts
  <1> QED
    BY <1>1, <1>2

\* A step that moves the request of one slot to r and leaves the tables alone.
LEMMA Step ==
  ASSUME AccessInv, NEW s \in Slots, NEW r \in Request, Becomes(s, r), Fit(r),
         r.kind \in Opening /\ r.stage # "answer" => Busy(s),
         Fault \/ UNCHANGED faults,
         UNCHANGED <<now, users, sessions, issued, jar, ended>>
  PROVE  AccessInv'
  <1>1. /\ request' \in [Slots -> Request]
        /\ request'[s] = r
        /\ \A q \in Slots \ {s} : request'[q] = request[q]
    BY BecomesType DEF AccessInv
  <1>2. Sound(s)'
    BY <1>1 DEF Sound, Fit, Within, Lasts
  <1>3. ASSUME NEW q \in Slots, Busy(q)'
        PROVE  Busy(q)
    BY <1>1, <1>3 DEF Busy
  <1>4. Capacity'
    BY <1>3, CapacityStays
  <1> QED
    BY <1>1, <1>2, <1>4, FaultType, OneRequest

LEMMA AnswerStep ==
  ASSUME AccessInv, NEW s \in Slots,
         NEW a \in Cookie \cup {Keep}, NEW b \in Cookie \cup {Keep},
         a.token <= issued, Within(a), b.token <= issued, Within(b),
         Answers(s, a, b), Fault \/ UNCHANGED faults,
         UNCHANGED <<now, users, sessions, issued, jar, ended>>
  PROVE  AccessInv'
  <1>1. Becomes(s, Answer(a, b)) /\ Answer(a, b) \in Request
    BY AnswerIsFree, AnswerRecord DEF Answers
  <1>2. Fit(Answer(a, b))
    BY AnswerFields, StateType DEF AccessInv, Fit, Opening, NoToken
  <1>3. Answer(a, b).stage = "answer"
    BY AnswerFields
  <1> QED
    BY <1>1, <1>2, <1>3, Step

\* A step that changes the tables too.
LEMMA TableStep ==
  ASSUME AccessInv, Grows, NEW s \in Slots,
         request' \in [Slots -> Request],
         \A q \in Slots \ {s} : request'[q] = request[q],
         Sound(s)', Capacity', Table', Endings',
         users' \in [Emails -> Passwords \cup {NoPassword}],
         sessions' \in [Tokens -> Session], issued' \in 0..MaxTokens,
         ended' \subseteq Tokens, Fault \/ UNCHANGED faults,
         UNCHANGED <<now, jar>>
  PROVE  AccessInv'
  <1>1. AccessTypeOK'
    BY FaultType DEF AccessInv, AccessTypeOK
  <1>2. Requests'
    BY StaysSound DEF Requests
  <1>3. Jar'
    BY JarStays
  <1> QED
    BY <1>1, <1>2, <1>3 DEF AccessInv

-----------------------------------------------------------------------------
(* One lemma for each action.                                              *)

Asked(kind, email, password) ==
  [stage |-> "lookup", kind |-> kind, email |-> email, password |-> password,
   cookie |-> Sent(jar.session), csrf |-> Sent(jar.readable), user |-> NoEmail,
   session |-> Keep, readable |-> Keep]

LEMMA AskedIsFree ==
  ASSUME NEW kind, NEW email, NEW password
  PROVE  [Free EXCEPT !.stage = "lookup", !.kind = kind, !.email = email,
                      !.password = password, !.cookie = Sent(jar.session),
                      !.csrf = Sent(jar.readable)]
           = Asked(kind, email, password)
  <1> DEFINE a == Sent(jar.session)
             b == Sent(jar.readable)
             R(v1, v2, v3, v4, v5, v6) ==
               [stage |-> v1, kind |-> v2, email |-> v3, password |-> v4,
                cookie |-> v5, csrf |-> v6, user |-> NoEmail,
                session |-> Keep, readable |-> Keep]
             r1 == [Free EXCEPT !.stage = "lookup"]
             r2 == [r1 EXCEPT !.kind = kind]
             r3 == [r2 EXCEPT !.email = email]
             r4 == [r3 EXCEPT !.password = password]
             r5 == [r4 EXCEPT !.cookie = a]
             r6 == [r5 EXCEPT !.csrf = b]
  <1> HIDE DEF a, b
  <1>1. r1 = R("lookup", "read", NoEmail, NoPassword, NoToken, NoToken)
    BY DEF Free
  <1> HIDE DEF r1
  <1>2. r2 = R("lookup", kind, NoEmail, NoPassword, NoToken, NoToken)
    BY <1>1
  <1> HIDE DEF r2
  <1>3. r3 = R("lookup", kind, email, NoPassword, NoToken, NoToken)
    BY <1>2
  <1> HIDE DEF r3
  <1>4. r4 = R("lookup", kind, email, password, NoToken, NoToken)
    BY <1>3
  <1> HIDE DEF r4
  <1>5. r5 = R("lookup", kind, email, password, a, NoToken)
    BY <1>4
  <1> HIDE DEF r5
  <1>6. r6 = R("lookup", kind, email, password, a, b)
    BY <1>5
  <1> HIDE DEF r6
  <1> QED
    BY <1>6 DEF r1, r2, r3, r4, r5, r6, a, b, Asked

LEMMA SentType ==
  ASSUME AccessInv
  PROVE  /\ Sent(jar.session) \in Tokens \cup {NoToken}
         /\ Sent(jar.readable) \in Tokens \cup {NoToken}
         /\ Sent(jar.session) <= issued /\ Sent(jar.readable) <= issued
  BY StateType, CookieType DEF AccessInv, Jar, Sent, NoToken

LEMMA SendSound ==
  ASSUME AccessInv, NEW s \in Slots, NEW kind \in Kinds,
         NEW email \in Emails \cup {NoEmail},
         NEW password \in Passwords \cup {NoPassword},
         kind \in Opening => email \in Emails /\ password \in Passwords,
         Send(s, kind, email, password)
  PROVE  /\ Asked(kind, email, password) \in Request
         /\ Becomes(s, Asked(kind, email, password))
         /\ Fit(Asked(kind, email, password))
         /\ Asked(kind, email, password).kind = kind
  <1> DEFINE r == Asked(kind, email, password)
  <1>1. Becomes(s, r)
    BY AskedIsFree DEF Send
  <1>2. r \in Request
    BY SentType DEF Asked, Request, Stages
  <1>3. /\ r.kind = kind /\ r.email = email /\ r.password = password
        /\ r.stage = "lookup" /\ r.cookie = Sent(jar.session)
        /\ r.csrf = Sent(jar.readable) /\ r.session = Keep /\ r.readable = Keep
    BY DEF Asked
  <1> HIDE DEF r
  <1>4. Keep.token <= issued /\ Within(Keep)
    BY StateType DEF AccessInv, Keep, Within, Lasts, NoToken
  <1>5. Fit(r)
    BY <1>3, <1>4, SentType DEF Fit
  <1> QED
    BY <1>1, <1>2, <1>3, <1>5 DEF r

LEMMA SendStep ==
  ASSUME AccessInv, NEW s \in Slots, SendRead(s) \/ SendLogout(s)
  PROVE  AccessInv'
  <1>1. PICK kind \in {"read", "logout"} : Send(s, kind, NoEmail, NoPassword)
    BY DEF SendRead, SendLogout
  <1>2. kind \in Kinds /\ kind \notin Opening
    BY <1>1 DEF Kinds, Opening
  <1> DEFINE r == Asked(kind, NoEmail, NoPassword)
  <1>3. r \in Request /\ Becomes(s, r) /\ Fit(r) /\ r.kind \notin Opening
    BY <1>1, <1>2, SendSound
  <1> HIDE DEF r
  <1> QED
    BY <1>1, <1>3, Step DEF Send

LEMMA SignInStep ==
  ASSUME AccessInv, NEW s \in Slots, NEW kind \in Opening, SignIn(s, kind)
  PROVE  AccessInv'
  <1>1. PICK email \in Emails, password \in Passwords :
          Send(s, kind, email, password)
    BY DEF SignIn
  <1> DEFINE r == Asked(kind, email, password)
  <1>2. r \in Request /\ Becomes(s, r) /\ Fit(r) /\ r.kind = kind
    BY <1>1, SendSound DEF Kinds, Opening
  <1> HIDE DEF r
  <1>3. /\ request' \in [Slots -> Request]
        /\ request'[s] = r
        /\ \A q \in Slots \ {s} : request'[q] = request[q]
    BY <1>2, BecomesType DEF AccessInv
  <1>4. Sound(s)'
    BY <1>1, <1>2, <1>3 DEF Sound, Fit, Within, Lasts, Send
  <1>5. Capacity'
    <2>1. SigningIn' \in SUBSET (SigningIn \cup {s})
      BY <1>3 DEF SigningIn
    <2>2. IsFiniteSet(SigningIn)
      BY FS_Subset, Numbers, Signing
    <2>3. /\ IsFiniteSet(SigningIn \cup {s})
          /\ Cardinality(SigningIn \cup {s}) <= Cardinality(SigningIn) + 1
          /\ Cardinality(SigningIn \cup {s}) \in Nat
          /\ Cardinality(SigningIn) \in Nat
      <3>1. Cardinality(SigningIn) \in Nat
        BY <2>2, FS_CardinalityType
      <3>2. /\ IsFiniteSet(SigningIn \cup {s})
            /\ \/ Cardinality(SigningIn \cup {s}) = Cardinality(SigningIn)
               \/ Cardinality(SigningIn \cup {s}) = Cardinality(SigningIn) + 1
        BY <2>2, FS_AddElement
      <3> QED
        BY <3>1, <3>2
    <2>4. /\ Cardinality(SigningIn') <= Cardinality(SigningIn \cup {s})
          /\ Cardinality(SigningIn') \in Nat
      BY <2>1, <2>3, FS_Subset, FS_CardinalityType
    <2>5. issued + Cardinality(SigningIn) < MaxTokens /\ issued' = issued
      BY <1>1 DEF SignIn, Send
    <2> QED
      BY <2>3, <2>4, <2>5, StateType, Numbers DEF AccessInv, Capacity
  <1> QED
    BY <1>1, <1>3, <1>4, <1>5, FaultType, OneRequest DEF Send

LEMMA UpdateType ==
  ASSUME NEW q \in Request
  PROVE  /\ \A v \in Stages : [q EXCEPT !.stage = v] \in Request
         /\ \A v \in Emails \cup {NoEmail} : [q EXCEPT !.user = v] \in Request
         /\ \A v \in Cookie \cup {Keep} : [q EXCEPT !.session = v] \in Request
         /\ \A v \in Cookie \cup {Keep} : [q EXCEPT !.readable = v] \in Request
  BY DEF Request

LEMMA StageFields ==
  ASSUME NEW q \in Request, NEW v
  PROVE  LET r == [q EXCEPT !.stage = v]
         IN  /\ r.stage = v /\ r.kind = q.kind /\ r.email = q.email
             /\ r.password = q.password /\ r.cookie = q.cookie /\ r.csrf = q.csrf
             /\ r.user = q.user /\ r.session = q.session
             /\ r.readable = q.readable
  BY DEF Request

LEMMA UserFields ==
  ASSUME NEW q \in Request, NEW v
  PROVE  LET r == [q EXCEPT !.user = v]
         IN  /\ r.stage = q.stage /\ r.kind = q.kind /\ r.email = q.email
             /\ r.password = q.password /\ r.cookie = q.cookie /\ r.csrf = q.csrf
             /\ r.user = v /\ r.session = q.session /\ r.readable = q.readable
  BY DEF Request

LEMMA SessionFields ==
  ASSUME NEW q \in Request, NEW v
  PROVE  LET r == [q EXCEPT !.session = v]
         IN  /\ r.stage = q.stage /\ r.kind = q.kind /\ r.email = q.email
             /\ r.password = q.password /\ r.cookie = q.cookie /\ r.csrf = q.csrf
             /\ r.user = q.user /\ r.session = v /\ r.readable = q.readable
  BY DEF Request

LEMMA ReadableFields ==
  ASSUME NEW q \in Request, NEW v
  PROVE  LET r == [q EXCEPT !.readable = v]
         IN  /\ r.stage = q.stage /\ r.kind = q.kind /\ r.email = q.email
             /\ r.password = q.password /\ r.cookie = q.cookie /\ r.csrf = q.csrf
             /\ r.user = q.user /\ r.session = q.session /\ r.readable = v
  BY DEF Request

\* withUser has looked the session up: the request goes on, with its user or
\* without, and carries nothing it did not carry before.
LEMMA GoesOn ==
  ASSUME AccessInv, NEW s \in Slots, NEW stage \in {"touch", "handle"},
         NEW user \in Emails \cup {NoEmail},
         stage = "touch" => request[s].cookie # NoToken,
         request[s].stage # "answer",
         LET q == [request[s] EXCEPT !.stage = stage]
         IN  Becomes(s, [q EXCEPT !.user = user]),
         Fault \/ UNCHANGED faults,
         UNCHANGED <<now, users, sessions, issued, jar, ended>>
  PROVE  AccessInv'
  <1> DEFINE q == [request[s] EXCEPT !.stage = stage]
             r == [q EXCEPT !.user = user]
  <1>1. request[s] \in Request /\ stage \in Stages
    BY RequestType DEF AccessInv, Stages
  <1>2. q \in Request
    BY <1>1, UpdateType
  <1>3. Becomes(s, r)
    OBVIOUS
  <1>5. /\ q.stage = stage /\ q.kind = request[s].kind
        /\ q.email = request[s].email /\ q.password = request[s].password
        /\ q.cookie = request[s].cookie /\ q.csrf = request[s].csrf
        /\ q.session = request[s].session /\ q.readable = request[s].readable
    BY <1>1, StageFields
  <1> HIDE DEF q
  <1>4. r \in Request
    BY <1>2, UpdateType
  <1>6. /\ r.stage = q.stage /\ r.kind = q.kind /\ r.email = q.email
        /\ r.password = q.password /\ r.cookie = q.cookie /\ r.csrf = q.csrf
        /\ r.session = q.session /\ r.readable = q.readable
    BY <1>2, UserFields
  <1> HIDE DEF r
  <1>7. Fit(request[s])
    BY DEF AccessInv, Requests, Sound
  <1>8. Fit(r)
    BY <1>5, <1>6, <1>7 DEF Fit
  <1>9. r.kind \in Opening /\ r.stage # "answer" => Busy(s)
    BY <1>5, <1>6 DEF Busy
  <1> QED
    BY <1>3, <1>4, <1>8, <1>9, Step

LEMMA LookupStep ==
  ASSUME AccessInv, NEW s \in Slots, Lookup(s)
  PROVE  AccessInv'
  <1> DEFINE t == request[s].cookie
  <1>1. UNCHANGED <<now, users, sessions, issued, jar, ended>>
    BY DEF Lookup
  <1>2. request[s].stage = "lookup" /\ request[s] \in Request
    BY RequestType DEF Lookup, AccessInv
  <1>3. CASE /\ Valid(t) /\ UNCHANGED faults
             /\ Becomes(s, [request[s] EXCEPT
                  !.stage = IF PastHalf(t) THEN "touch" ELSE "handle",
                  !.user  = sessions[t].email])
    <2> DEFINE stage == IF PastHalf(t) THEN "touch" ELSE "handle"
               user  == sessions[t].email
    <2>1. t \in Tokens /\ t # NoToken
      BY <1>3, RequestType DEF Valid, AccessInv
    <2>2. user \in Emails \cup {NoEmail}
      BY <2>1, StateType DEF AccessInv, Session
    <2>3. stage \in {"touch", "handle"}
      OBVIOUS
    <2>4. LET q == [request[s] EXCEPT !.stage = stage]
          IN  Becomes(s, [q EXCEPT !.user = user])
      BY <1>3
    <2> HIDE DEF stage, user
    <2> QED
      BY <1>1, <1>2, <1>3, <2>1, <2>2, <2>3, <2>4, GoesOn
  <1>4. CASE /\ Fault \/ UNCHANGED faults
             /\ Becomes(s, [request[s] EXCEPT !.stage = "handle"])
    <2> DEFINE r == [request[s] EXCEPT !.stage = "handle"]
    <2>1. r \in Request /\ Becomes(s, r)
      BY <1>2, <1>4, UpdateType DEF Stages
    <2>2. /\ r.stage = "handle" /\ r.kind = request[s].kind
          /\ r.email = request[s].email /\ r.password = request[s].password
          /\ r.cookie = request[s].cookie /\ r.csrf = request[s].csrf
          /\ r.session = request[s].session
          /\ r.readable = request[s].readable
      BY <1>2, StageFields
    <2> HIDE DEF r
    <2>3. Fit(r)
      BY <2>2 DEF AccessInv, Requests, Sound, Fit
    <2>4. r.kind \in Opening /\ r.stage # "answer" => Busy(s)
      BY <1>2, <2>2 DEF Busy
    <2> QED
      BY <1>1, <1>4, <2>1, <2>3, <2>4, Step
  <1> QED
    BY <1>3, <1>4 DEF Lookup

LEMMA TouchStep ==
  ASSUME AccessInv, NEW s \in Slots, Touch(s)
  PROVE  AccessInv'
  <1> DEFINE t == request[s].cookie
             c == [token |-> t, expires |-> Expiry]
             q == [request[s] EXCEPT !.stage = "handle"]
  <1>1. /\ request[s].stage = "touch"
        /\ UNCHANGED <<now, users, issued, jar, ended, faults>>
    BY DEF Touch
  <1>2. request[s] \in Request /\ Fit(request[s])
    BY RequestType DEF AccessInv, Requests, Sound
  <1>3. t \in Tokens /\ t \in Nat /\ t <= issued
    BY <1>1, <1>2, RequestType, StateType DEF AccessInv, Fit
  <1>4. /\ q \in Request
        /\ q.stage = "handle" /\ q.kind = request[s].kind
        /\ q.email = request[s].email /\ q.password = request[s].password
        /\ q.cookie = request[s].cookie /\ q.csrf = request[s].csrf
        /\ q.session = request[s].session /\ q.readable = request[s].readable
    <2>1. q \in Request
      BY <1>2, UpdateType DEF Stages
    <2> QED
      BY <1>2, <2>1, StageFields
  <1>5. CASE /\ sessions[t] # NoSession
             /\ sessions' = [sessions EXCEPT ![t].expires = Expiry]
             /\ Extended(s)
    <2> DEFINE r == [q EXCEPT !.session = c]
    <2>1. c \in Cookie /\ c.token = t /\ c.expires = Expiry
      BY <1>3, StateType DEF AccessInv, Cookie
    <2>2. Becomes(s, r)
      BY <1>5 DEF Extended
    <2> HIDE DEF c, q
    <2>3. r \in Request
      BY <1>4, <2>1, UpdateType
    <2>4. /\ r.stage = "handle" /\ r.kind = request[s].kind
          /\ r.email = request[s].email /\ r.password = request[s].password
          /\ r.cookie = request[s].cookie /\ r.csrf = request[s].csrf
          /\ r.session = c /\ r.readable = request[s].readable
      BY <1>4, SessionFields
    <2> HIDE DEF r, t
    <2>5. /\ request' \in [Slots -> Request]
          /\ request'[s] = r
          /\ \A x \in Slots \ {s} : request'[x] = request[x]
      BY <2>2, <2>3, BecomesType DEF AccessInv
    <2>6. /\ sessions' \in [Tokens -> Session]
          /\ sessions'[t].expires = Expiry
          /\ sessions'[t].email = sessions[t].email
          /\ sessions'[t].shown = sessions[t].shown
          /\ \A x \in Tokens \ {t} : sessions'[x] = sessions[x]
      BY <1>3, <1>5, StateType DEF AccessInv, AccessTypeOK, Session
    <2>7. Grows
      <3>1. \A x \in Tokens : sessions[x].expires <= Expiry
        BY DEF AccessInv, Table
      <3> QED
        BY <1>1, <1>5, <2>6, <3>1, StateType DEF AccessInv, Grows
    <2>8. Table'
      <3>1. Expiry' = Expiry /\ Expiry \in Nat /\ Expiry <= Expiry
        BY <1>1, StateType DEF AccessInv, Expiry
      <3>2. ASSUME NEW x \in Tokens
            PROVE  /\ sessions'[x].expires <= Expiry
                   /\ sessions'[x] # NoSession =>
                        /\ x <= issued
                        /\ sessions'[x].email \in Emails
                        /\ sessions'[x].shown \in Passwords
                        /\ users[sessions'[x].email] = sessions'[x].shown
        <4>1. CASE x = t
          BY <1>3, <1>5, <2>6, <3>1, <4>1 DEF AccessInv, Table
        <4>2. CASE x # t
          BY <2>6, <4>2 DEF AccessInv, Table
        <4> QED
          BY <4>1, <4>2
      <3> QED
        BY <1>1, <3>1, <3>2 DEF Table
    <2>9. Endings'
      <3>1. t \notin ended
        BY <1>5 DEF AccessInv, Endings, SignedOutStaysOut
      <3> QED
        BY <1>1, <2>6, <3>1 DEF AccessInv, AccessTypeOK, Endings, SignedOutStaysOut
    <2>10. Lasts(request[s].readable, sessions')
      BY <1>2, <2>7, LastsOn, RequestType DEF AccessInv, Fit, Within
    <2>11. Lasts(c, sessions')
      BY <2>1, <2>6, StateType DEF AccessInv, Lasts
    <2>12. Sound(s)'
      BY <1>1, <1>2, <1>3, <2>1, <2>4, <2>5, <2>10, <2>11 DEF Sound, Fit, Within
    <2>13. Capacity'
      <3>1. ASSUME NEW x \in Slots, Busy(x)'
            PROVE  Busy(x)
        BY <1>1, <2>4, <2>5, <3>1 DEF Busy
      <3> QED
        BY <1>1, <3>1, CapacityStays
    <2> QED
      BY <1>1, <2>5, <2>6, <2>7, <2>8, <2>9, <2>12, <2>13, TableStep
           DEF AccessInv, AccessTypeOK
  <1>6. CASE /\ UNCHANGED sessions
             /\ Becomes(s, q)
    <2> HIDE DEF q
    <2>1. Fit(q)
      BY <1>2, <1>4 DEF Fit
    <2>2. q.kind \in Opening /\ q.stage # "answer" => Busy(s)
      BY <1>1, <1>4 DEF Busy
    <2> QED
      BY <1>1, <1>4, <1>6, <2>1, <2>2, Step
  <1> QED
    BY <1>5, <1>6 DEF Touch

\* An answer that says what the middleware has set, and mints what it heals.
LEMMA PlainAnswerStep ==
  ASSUME AccessInv, NEW s \in Slots,
         Answers(s, request[s].session, Healed(s)),
         UNCHANGED <<now, users, sessions, issued, jar, ended, faults>>
  PROVE  AccessInv'
  <1>1. /\ request[s].session \in Cookie \cup {Keep}
        /\ Healed(s) \in Cookie \cup {Keep}
    BY RequestType, HealedType DEF AccessInv
  <1>2. /\ request[s].session.token <= issued /\ Within(request[s].session)
        /\ Healed(s).token <= issued /\ Within(Healed(s))
    BY HealedSound DEF AccessInv, Requests, Sound, Fit
  <1> QED
    BY <1>1, <1>2, AnswerStep

LEMMA ServeStep ==
  ASSUME AccessInv, NEW s \in Slots, Serve(s)
  PROVE  AccessInv'
  BY PlainAnswerStep DEF Serve

LEMMA StartSessionFailsStep ==
  ASSUME AccessInv, NEW s \in Slots, StartSessionFails(s)
  PROVE  AccessInv'
  <1>1. /\ request[s].session \in Cookie \cup {Keep}
        /\ request[s].readable \in Cookie \cup {Keep}
    BY RequestType DEF AccessInv
  <1>2. /\ request[s].session.token <= issued /\ Within(request[s].session)
        /\ request[s].readable.token <= issued /\ Within(request[s].readable)
    BY DEF AccessInv, Requests, Sound, Fit
  <1> QED
    BY <1>1, <1>2, AnswerStep DEF StartSessionFails

LEMMA Registered ==
  ASSUME AccessInv, NEW s \in Slots, LetIn(s),
         request[s].stage = "handle", request[s].kind \in Opening,
         users' \in [Emails -> Passwords \cup {NoPassword}],
         users'[request[s].email] = request[s].password,
         \A e \in Emails : users[e] # NoPassword => users'[e] = users[e],
         UNCHANGED <<now, sessions, issued, jar, ended, faults>>
  PROVE  AccessInv'
  <1> DEFINE q1 == [request[s] EXCEPT !.stage = "session"]
             q2 == [q1 EXCEPT !.user = request[s].email]
             r  == [q2 EXCEPT !.readable = Healed(s)]
  <1>1. request[s] \in Request /\ Fit(request[s])
    BY RequestType DEF AccessInv, Requests, Sound
  <1>2. Becomes(s, r)
    BY DEF LetIn
  <1>3. /\ q1 \in Request
        /\ q1.stage = "session" /\ q1.kind = request[s].kind
        /\ q1.email = request[s].email /\ q1.password = request[s].password
        /\ q1.cookie = request[s].cookie /\ q1.csrf = request[s].csrf
        /\ q1.session = request[s].session
    <2>1. q1 \in Request
      BY <1>1, UpdateType DEF Stages
    <2> QED
      BY <1>1, <2>1, StageFields
  <1> HIDE DEF q1
  <1>4. /\ q2 \in Request
        /\ q2.stage = "session" /\ q2.kind = request[s].kind
        /\ q2.email = request[s].email /\ q2.password = request[s].password
        /\ q2.cookie = request[s].cookie /\ q2.csrf = request[s].csrf
        /\ q2.user = request[s].email /\ q2.session = request[s].session
    <2>1. request[s].email \in Emails \cup {NoEmail}
      BY RequestType DEF AccessInv
    <2>2. q2 \in Request
      BY <1>3, <2>1, UpdateType
    <2> QED
      BY <1>3, <2>2, UserFields
  <1> HIDE DEF q2
  <1>5. /\ r \in Request
        /\ r.stage = "session" /\ r.kind = request[s].kind
        /\ r.email = request[s].email /\ r.password = request[s].password
        /\ r.cookie = request[s].cookie /\ r.csrf = request[s].csrf
        /\ r.user = request[s].email /\ r.session = request[s].session
        /\ r.readable = Healed(s)
    <2>1. Healed(s) \in Cookie \cup {Keep}
      BY HealedType DEF AccessInv
    <2>2. r \in Request
      BY <1>4, <2>1, UpdateType
    <2> QED
      BY <1>4, <2>2, ReadableFields
  <1> HIDE DEF r
  <1>6. /\ request' \in [Slots -> Request]
        /\ request'[s] = r
        /\ \A x \in Slots \ {s} : request'[x] = request[x]
    BY <1>2, <1>5, BecomesType DEF AccessInv
  <1>7. Grows
    BY StateType DEF AccessInv, Grows
  <1>8. Sound(s)'
    <2>1. Healed(s).token <= issued /\ Within(Healed(s))
      BY HealedSound
    <2> QED
      BY <1>1, <1>5, <1>6, <2>1 DEF Sound, Fit, Within, Lasts
  <1>9. Capacity'
    <2>1. ASSUME NEW x \in Slots, Busy(x)'
          PROVE  Busy(x)
      BY <1>5, <1>6, <2>1 DEF Busy
    <2> QED
      BY <2>1, CapacityStays
  <1>10. Table'
    <2>1. Expiry' = Expiry
      BY DEF Expiry
    <2>2. ASSUME NEW x \in Tokens, sessions[x] # NoSession
          PROVE  users'[sessions[x].email] = sessions[x].shown
      <3>1. /\ sessions[x].email \in Emails /\ sessions[x].shown \in Passwords
            /\ users[sessions[x].email] = sessions[x].shown
        BY <2>2 DEF AccessInv, Table
      <3> QED
        BY <3>1, Numbers
    <2> QED
      BY <2>1, <2>2 DEF AccessInv, Table
  <1>11. Endings'
    BY DEF AccessInv, Endings, SignedOutStaysOut
  <1> QED
    BY <1>6, <1>7, <1>8, <1>9, <1>10, <1>11, TableStep DEF AccessInv, AccessTypeOK

LEMMA RegisterStep ==
  ASSUME AccessInv, NEW s \in Slots, Register(s)
  PROVE  AccessInv'
  <1> DEFINE e == request[s].email
             p == request[s].password
  <1>1. /\ request[s].stage = "handle" /\ request[s].kind = "register"
        /\ UNCHANGED <<now, sessions, issued, jar, ended, faults>>
    BY DEF Register, Handling
  <1>2. e \in Emails /\ p \in Passwords
    BY <1>1 DEF AccessInv, Requests, Sound, Fit, Opening
  <1>3. CASE /\ users[e] = NoPassword
             /\ users' = [users EXCEPT ![e] = p]
             /\ LetIn(s)
    <2>1. /\ users' \in [Emails -> Passwords \cup {NoPassword}]
          /\ users'[e] = p
          /\ \A x \in Emails : users[x] # NoPassword => users'[x] = users[x]
      BY <1>2, <1>3 DEF AccessInv, AccessTypeOK
    <2>2. request[s].kind \in Opening
      BY <1>1 DEF Opening
    <2> QED
      BY <1>1, <1>3, <2>1, <2>2, Registered
  <1>4. CASE /\ Answers(s, request[s].session, Healed(s))
             /\ UNCHANGED users
    BY <1>1, <1>4, PlainAnswerStep
  <1> QED
    BY <1>3, <1>4 DEF Register

LEMMA LoginStep ==
  ASSUME AccessInv, NEW s \in Slots, Login(s)
  PROVE  AccessInv'
  <1>1. /\ request[s].stage = "handle" /\ request[s].kind = "login"
        /\ UNCHANGED <<now, users, sessions, issued, jar, ended, faults>>
    BY DEF Login, Handling
  <1>2. CASE users[request[s].email] = request[s].password /\ LetIn(s)
    <2>1. request[s].kind \in Opening
      BY <1>1 DEF Opening
    <2> QED
      BY <1>1, <1>2, <2>1, Registered DEF AccessInv, AccessTypeOK
  <1>3. CASE Answers(s, request[s].session, Healed(s))
    BY <1>1, <1>3, PlainAnswerStep
  <1> QED
    BY <1>2, <1>3 DEF Login

LEMMA StartSessionStep ==
  ASSUME AccessInv, NEW s \in Slots, StartSession(s)
  PROVE  AccessInv'
  <1> DEFINE t == issued + 1
             c == [token |-> t, expires |-> Expiry]
             row == [email |-> request[s].user, expires |-> Expiry,
                     shown |-> request[s].password]
  <1>1. /\ request[s].stage = "session"
        /\ issued' = t
        /\ sessions' = [sessions EXCEPT ![t] = row]
        /\ Answers(s, c, c)
        /\ UNCHANGED <<now, users, jar, ended, faults>>
    BY DEF StartSession
  <1>2. /\ request[s].kind \in Opening /\ request[s].user \in Emails
        /\ request[s].password \in Passwords
        /\ users[request[s].user] = request[s].password
    BY <1>1 DEF AccessInv, Requests, Sound, Fit
  <1>3. s \in SigningIn
    BY <1>1, <1>2 DEF SigningIn, Opening
  <1>4. IsFiniteSet(SigningIn) /\ Cardinality(SigningIn) \in Nat
    BY FS_Subset, FS_CardinalityType, Numbers, Signing
  <1>5. IsFiniteSet(SigningIn \ {s})
        /\ Cardinality(SigningIn \ {s}) = Cardinality(SigningIn) - 1
        /\ Cardinality(SigningIn \ {s}) \in Nat
    <2>1. /\ IsFiniteSet(SigningIn \ {s})
          /\ Cardinality(SigningIn \ {s}) = Cardinality(SigningIn) - 1
      BY <1>3, <1>4, FS_RemoveElement
    <2>2. Cardinality(SigningIn \ {s}) \in Nat
      BY <2>1, FS_CardinalityType
    <2> QED
      BY <2>1, <2>2
  <1>6. t \in Tokens /\ t \in Nat /\ t <= MaxTokens
    BY <1>4, <1>5, StateType, Numbers DEF AccessInv, Capacity, Tokens
  <1>7. /\ c \in Cookie \cup {Keep} /\ c.token = t /\ c.expires = Expiry
        /\ row \in Session /\ row.expires = Expiry
        /\ row.email = request[s].user /\ row.shown = request[s].password
    BY <1>2, <1>6, StateType DEF AccessInv, Cookie, Session
  <1> HIDE DEF c, row
  <1>8. /\ sessions' \in [Tokens -> Session]
        /\ sessions'[t] = row
        /\ \A x \in Tokens \ {t} : sessions'[x] = sessions[x]
    BY <1>1, <1>6, <1>7 DEF AccessInv, AccessTypeOK
  <1>9. Grows
    <2>1. \A x \in Tokens : x <= issued => x # t /\ sessions'[x] = sessions[x]
      BY <1>8, StateType DEF AccessInv
    <2>2. issued <= issued' /\ issued' \in Nat
      BY <1>1, <1>6, StateType DEF AccessInv
    <2> QED
      BY <1>1, <2>1, <2>2, StateType DEF AccessInv, Grows
  <1>10. Lasts(c, sessions') /\ c.token <= issued'
    BY <1>1, <1>6, <1>7, <1>8, StateType DEF AccessInv, Lasts
  <1>11. Sound(s)' /\ ~Busy(s)'
    BY <1>1, <1>7, <1>9, <1>10, AnswerSound
  <1>12. /\ request' \in [Slots -> Request]
         /\ \A x \in Slots \ {s} : request'[x] = request[x]
    BY <1>1, <1>7, AnswersType DEF AccessInv
  <1>13. Capacity'
    <2>1. SigningIn' \in SUBSET (SigningIn \ {s})
      BY <1>11, <1>12 DEF SigningIn, Busy, Opening
    <2>2. /\ Cardinality(SigningIn') <= Cardinality(SigningIn \ {s})
          /\ Cardinality(SigningIn') \in Nat
      BY <1>5, <2>1, FS_Subset, FS_CardinalityType
    <2> QED
      BY <1>1, <1>4, <1>5, <2>2, StateType, Numbers DEF AccessInv, Capacity
  <1>14. Table'
    <2>1. Expiry' = Expiry /\ Expiry <= Expiry /\ t <= t
      BY <1>1, <1>6, StateType DEF AccessInv, Expiry
    <2>2. ASSUME NEW x \in Tokens, x # t, sessions[x] # NoSession
          PROVE  x <= t
      BY <2>2, StateType DEF AccessInv, Table
    <2>3. ASSUME NEW x \in Tokens
          PROVE  /\ sessions'[x].expires <= Expiry
                 /\ sessions'[x] # NoSession =>
                      /\ x <= t
                      /\ sessions'[x].email \in Emails
                      /\ sessions'[x].shown \in Passwords
                      /\ users[sessions'[x].email] = sessions'[x].shown
      <3>1. CASE x = t
        BY <1>2, <1>7, <1>8, <2>1, <3>1
      <3>2. CASE x # t
        BY <1>8, <2>2, <3>2 DEF AccessInv, Table
      <3> QED
        BY <3>1, <3>2
    <2> QED
      BY <1>1, <2>1, <2>3 DEF Table
  <1>15. Endings'
    <2>1. \A x \in ended : x \in Tokens /\ x \in 1..issued' /\ x # t
      BY <1>1, <1>6, StateType DEF AccessInv, AccessTypeOK, Endings
    <2> QED
      BY <1>1, <1>8, <2>1 DEF AccessInv, Endings, SignedOutStaysOut
  <1> QED
    BY <1>1, <1>6, <1>8, <1>9, <1>11, <1>12, <1>13, <1>14, <1>15, TableStep
       DEF AccessInv, AccessTypeOK, Tokens

LEMMA LogoutStep ==
  ASSUME AccessInv, NEW s \in Slots, Logout(s)
  PROVE  AccessInv'
  <1> DEFINE t == request[s].cookie
  <1>1. /\ request[s].stage = "handle"
        /\ Answers(s, NoCookie, NoCookie)
        /\ UNCHANGED <<now, users, issued, jar>>
    BY DEF Logout, Handling
  <1>2. /\ NoCookie \in Cookie \cup {Keep} /\ NoCookie.token = NoToken
        /\ NoToken <= issued
    BY NoCookieType, StateType DEF AccessInv, NoCookie, NoToken
  <1>3. CASE /\ t # NoToken
             /\ sessions' = [sessions EXCEPT ![t] = NoSession]
             /\ ended' = ended \cup {t}
             /\ UNCHANGED faults
    <2>1. t \in Tokens /\ t <= issued
      BY <1>3, RequestType DEF AccessInv, Requests, Sound, Fit
    <2>2. NoSession \in Session /\ NoSession.expires = 0
      BY DEF NoSession, Session
    <2>3. /\ sessions' \in [Tokens -> Session]
          /\ sessions'[t] = NoSession
          /\ \A x \in Tokens \ {t} : sessions'[x] = sessions[x]
      BY <1>3, <2>1, <2>2 DEF AccessInv, AccessTypeOK
    <2> HIDE DEF t
    <2>4. Grows
      BY <1>1, <2>3, StateType DEF AccessInv, Grows
    <2>5. Lasts(NoCookie, sessions')
      BY <1>2 DEF Lasts
    <2>6. Sound(s)' /\ ~Busy(s)'
      BY <1>1, <1>2, <2>4, <2>5, AnswerSound
    <2>7. /\ request' \in [Slots -> Request]
          /\ \A x \in Slots \ {s} : request'[x] = request[x]
      BY <1>1, <1>2, AnswersType DEF AccessInv
    <2>8. Capacity'
      <3>1. ASSUME NEW x \in Slots, Busy(x)'
            PROVE  Busy(x)
        BY <2>6, <2>7, <3>1 DEF Busy
      <3> QED
        BY <1>1, <3>1, CapacityStays
    <2>9. Table'
      <3>1. Expiry' = Expiry /\ 0 <= Expiry
        BY <1>1, StateType DEF AccessInv, Expiry
      <3> QED
        BY <1>1, <2>2, <2>3, <3>1 DEF AccessInv, Table
    <2>10. Endings'
      <3>1. t \in 1..issued /\ ended' \subseteq Tokens
        BY <1>3, <2>1, StateType DEF AccessInv, AccessTypeOK, Tokens
      <3> QED
        BY <1>1, <1>3, <2>3, <3>1
           DEF AccessInv, AccessTypeOK, Endings, SignedOutStaysOut
    <2> QED
      BY <1>1, <1>3, <2>1, <2>3, <2>4, <2>6, <2>7, <2>8, <2>9, <2>10, TableStep
         DEF AccessInv, AccessTypeOK
  <1>4. CASE UNCHANGED <<sessions, ended>> /\ (Fault \/ UNCHANGED faults)
    <2>1. Within(NoCookie)
      BY <1>2 DEF Within, Lasts
    <2> QED
      BY <1>1, <1>2, <1>4, <2>1, AnswerStep
  <1> QED
    BY <1>3, <1>4 DEF Logout

LEMMA FreeSound ==
  ASSUME AccessInv
  PROVE  /\ Free \in Request /\ Fit(Free) /\ Free.kind \notin Opening
  <1>1. /\ Free.stage = "free" /\ Free.kind = "read" /\ Free.cookie = NoToken
        /\ Free.csrf = NoToken /\ Free.session = Keep /\ Free.readable = Keep
    BY DEF Free
  <1>2. NoToken <= issued /\ Keep.token = NoToken
    BY StateType DEF AccessInv, NoToken, Keep
  <1> QED
    BY <1>1, <1>2, FreeType DEF Fit, Within, Lasts, Opening

LEMMA LostStep ==
  ASSUME AccessInv, NEW s \in Slots, Lost(s)
  PROVE  AccessInv'
  BY FreeSound, Step DEF Lost

LEMMA DeliverStep ==
  ASSUME AccessInv, NEW s \in Slots, Deliver(s)
  PROVE  AccessInv'
  <1>1. /\ request[s].stage = "answer" /\ Becomes(s, Free)
        /\ UNCHANGED <<now, users, sessions, issued, ended, faults>>
        /\ jar' = [session  |-> Stored(jar.session, request[s].session),
                   readable |-> Stored(jar.readable, request[s].readable)]
    BY DEF Deliver
  <1>2. /\ request' \in [Slots -> Request]
        /\ request'[s] = Free
        /\ \A x \in Slots \ {s} : request'[x] = request[x]
    BY <1>1, FreeSound, BecomesType DEF AccessInv
  <1>3. Requests'
    <2>1. Sound(s)'
      BY <1>1, <1>2, FreeSound DEF Sound, Fit, Within, Lasts
    <2>2. ASSUME NEW x \in Slots, x # s
          PROVE  Sound(x)'
      BY <1>1, <1>2, <2>2, NothingGrows, StaysSound
    <2> QED
      BY <2>1, <2>2 DEF Requests
  <1>4. Capacity'
    <2>1. ASSUME NEW x \in Slots, Busy(x)'
          PROVE  Busy(x)
      BY <1>2, <2>1, FreeSound DEF Busy
    <2> QED
      BY <1>1, <2>1, CapacityStays
  <1>5. /\ jar' \in [session : Cookie, readable : Cookie]
        /\ Jar'
    <2>1. Fit(request[s])
      BY DEF AccessInv, Requests, Sound
    <2>2. /\ request[s].session \in Cookie \cup {Keep}
          /\ request[s].readable \in Cookie \cup {Keep}
          /\ jar.session \in Cookie /\ jar.readable \in Cookie
      BY RequestType, StateType DEF AccessInv
    <2>3. /\ jar'.session \in Cookie /\ jar'.session.token <= issued
          /\ Within(jar'.session)
      BY <1>1, <2>1, <2>2 DEF AccessInv, Jar, Fit, Stored
    <2>4. /\ jar'.readable \in Cookie /\ jar'.readable.token <= issued
          /\ Within(jar'.readable)
      BY <1>1, <2>1, <2>2 DEF AccessInv, Jar, Fit, Stored
    <2>5. jar' \in [session : Cookie, readable : Cookie]
      BY <1>1, <2>3, <2>4
    <2> QED
      BY <1>1, <2>3, <2>4, <2>5 DEF Jar, Within, Lasts
  <1>6. Table' /\ Endings'
    BY <1>1 DEF AccessInv, Table, Endings, SignedOutStaysOut, Expiry
  <1> QED
    BY <1>1, <1>2, <1>3, <1>4, <1>5, <1>6 DEF AccessInv, AccessTypeOK

LEMMA TickStep ==
  ASSUME AccessInv, Tick
  PROVE  AccessInv'
  <1>1. /\ now' = now + 1 /\ now' \in 0..MaxTime
        /\ UNCHANGED <<users, sessions, issued, jar, request, ended, faults>>
    BY StateType, Numbers DEF AccessInv, Tick
  <1>2. Expiry' = Expiry + 1 /\ Expiry \in Nat
    BY <1>1, StateType, Numbers DEF AccessInv, Expiry
  <1>3. Table'
    BY <1>1, <1>2, StateType DEF AccessInv, Table
  <1>4. Requests' /\ Jar' /\ Endings' /\ Capacity'
    BY <1>1 DEF AccessInv, Requests, Sound, Fit, Jar, Within, Lasts, Endings,
       SignedOutStaysOut, Capacity, SigningIn
  <1> QED
    BY <1>1, <1>3, <1>4 DEF AccessInv, AccessTypeOK

-----------------------------------------------------------------------------
(* The invariant.                                                          *)

LEMMA AccessInvInit == AccessInit => AccessInv
  <1> SUFFICES ASSUME AccessInit
               PROVE  AccessInv
    OBVIOUS
  <1>1. /\ NoSession \in Session /\ NoSession.expires = 0
        /\ NoCookie \in Cookie /\ NoCookie.token = NoToken
    BY NoCookieType DEF NoSession, Session, NoCookie
  <1>2. AccessTypeOK
    BY <1>1, FreeType, AccessAssumption DEF AccessInit, AccessTypeOK
  <1>3. Capacity
    <2>1. SigningIn = {}
      BY DEF AccessInit, SigningIn, Free
    <2> QED
      BY <2>1, FS_EmptySet, Numbers DEF AccessInit, Capacity
  <1>4. /\ Free.stage = "free" /\ Free.kind = "read" /\ Free.cookie = NoToken
        /\ Free.csrf = NoToken /\ Free.session = Keep /\ Free.readable = Keep
        /\ Keep.token = NoToken
    BY DEF Free, Keep
  <1>5. Requests
    BY <1>4 DEF AccessInit, Requests, Sound, Fit, Within, Lasts, Opening, NoToken
  <1>6. Jar
    BY <1>1 DEF AccessInit, Jar, Within, Lasts, NoToken
  <1>7. Table
    BY <1>1, Numbers DEF AccessInit, Table, Expiry
  <1>8. Endings
    BY DEF AccessInit, Endings, SignedOutStaysOut
  <1> QED
    BY <1>2, <1>3, <1>5, <1>6, <1>7, <1>8 DEF AccessInv

LEMMA AccessInvNext ==
  ASSUME AccessInv, [AccessNext]_accessVars
  PROVE  AccessInv'
  <1>1. CASE Tick
    BY <1>1, TickStep
  <1>2. ASSUME NEW s \in Slots, SendRead(s) \/ SendLogout(s)
        PROVE  AccessInv'
    BY <1>2, SendStep
  <1>3. ASSUME NEW s \in Slots, NEW kind \in {"login", "register"}, SignIn(s, kind)
        PROVE  AccessInv'
    BY <1>3, SignInStep DEF Opening
  <1>4. ASSUME NEW s \in Slots, Statement(s)
        PROVE  AccessInv'
    BY <1>4, LookupStep, TouchStep, ServeStep, RegisterStep, LoginStep,
       StartSessionStep, StartSessionFailsStep, LogoutStep DEF Statement
  <1>5. ASSUME NEW s \in Slots, Deliver(s)
        PROVE  AccessInv'
    BY <1>5, DeliverStep
  <1>6. ASSUME NEW s \in Slots, Lost(s)
        PROVE  AccessInv'
    BY <1>6, LostStep
  <1>7. CASE UNCHANGED accessVars
    BY <1>7 DEF accessVars, AccessInv, AccessTypeOK, Capacity, SigningIn, Requests,
       Sound, Fit, Jar, Within, Lasts, Table, Expiry, Endings, SignedOutStaysOut
  <1> QED
    BY <1>1, <1>2, <1>3, <1>4, <1>5, <1>6, <1>7 DEF AccessNext

LEMMA AccessInvariant == AccessSpec => []AccessInv
  BY AccessInvInit, AccessInvNext, PTL DEF AccessSpec

\* Types are kept: a request names an account and a session that exist in the
\* tables, and no more tokens are handed out than there are.
THEOREM AccessTypeCorrect == AccessSpec => []AccessTypeOK
  <1>1. AccessInv => AccessTypeOK
    BY DEF AccessInv
  <1> QED
    BY <1>1, AccessInvariant, PTL

\* A session that a logout ended is never there again, however many requests
\* were on their way with its cookie (sessions.go, DeleteSession and
\* TouchSession).
THEOREM SignedOutStays == AccessSpec => []SignedOutStaysOut
  <1>1. AccessInv => SignedOutStaysOut
    BY DEF AccessInv, Endings
  <1> QED
    BY <1>1, AccessInvariant, PTL

\* Every session was opened with its account's password, whoever registers
\* beside whom (users.go, CreateUser; auth.go, login and register).
THEOREM PasswordsOpenSessions == AccessSpec => []SessionsNeedThePassword
  <1>1. AccessInv => SessionsNeedThePassword
    BY DEF AccessInv, Table, SessionsNeedThePassword
  <1> QED
    BY <1>1, AccessInvariant, PTL

\* No cookie outlasts the session it names, for any lifetime and any order of
\* the answers (middleware.go, slide and withUser).
THEOREM CookiesEndInTime == AccessSpec => []CookiesWithinSession
  <1>1. AccessInv => CookiesWithinSession
    BY DEF AccessInv, Jar, Within, Lasts, CookiesWithinSession
  <1> QED
    BY <1>1, AccessInvariant, PTL

=============================================================================
