------------------------------- MODULE Limiter -------------------------------
(***************************************************************************)
(* The token buckets in front of register and login                        *)
(* (server/internal/http/ratelimit.go).  A bucket remembers what it held   *)
(* when it was last seen; what has come back since is added when it is     *)
(* looked at again.  A sweep forgets buckets nobody has used for a while,  *)
(* and a process that stops forgets them all.                              *)
(*                                                                         *)
(* Time is counted in ticks, of which a second has several, and a bucket   *)
(* in what one tick gives back: an attempt costs Cost of these units (six  *)
(* seconds' worth in the code) and a full bucket holds Burst of them       *)
(* (sixty seconds' worth).  What a bucket holds is so a fraction of an     *)
(* attempt, and what it lacks a fraction of a second, as in the code; only *)
(* Retry-After is in whole seconds.  The mutex makes allow and sweep one   *)
(* step each; that the clock is read just before the lock is taken is not  *)
(* told apart.                                                             *)
(***************************************************************************)
EXTENDS Integers

CONSTANTS
  Clients,   \* what clientIP returns: the first X-Forwarded-For from loopback
  Second,    \* ticks of one second, the unit of Retry-After
  Burst,     \* units a bucket holds: loginBurst attempts
  Cost,      \* units of one attempt: 1 / loginRate seconds give them back
  IdleTime   \* ticks until the sweep forgets: bucketIdle

\* Ten minutes is longer than the minute in which a bucket fills.
ASSUME LimiterAssumption ==
  /\ Second \in Nat \ {0}
  /\ Burst \in Nat /\ Cost \in 1..Burst
  /\ IdleTime \in Nat /\ Burst <= IdleTime

VARIABLES
  buckets,   \* the map, by client
  serving,   \* the process runs
  wait       \* history: ticks until the client was told to come back

limiterVars == <<buckets, serving, wait>>

\* Ages beyond IdleTime are one: by then the bucket is full.
Bucket   == [known : BOOLEAN, tokens : 0..Burst, age : 0..IdleTime]
NoBucket == [known |-> FALSE, tokens |-> 0, age |-> 0]
NoWait   == -1

LimiterTypeOK ==
  /\ buckets \in [Clients -> Bucket]
  /\ serving \in BOOLEAN
  /\ wait \in [Clients -> NoWait..(Cost + Second)]

LimiterInit ==
  /\ buckets = [c \in Clients |-> NoBucket]
  /\ serving = TRUE
  /\ wait = [c \in Clients |-> NoWait]

\* Mutant: what came back is added without the ceiling.
Overfull(b) == b.tokens + b.age

\* math.Min(burst, tokens + elapsed * rate)
Refilled(b) == IF b.tokens + b.age < Burst THEN b.tokens + b.age ELSE Burst

Seen(c, tokens) ==
  buckets' = [buckets EXCEPT ![c] = [known |-> TRUE, tokens |-> tokens, age |-> 0]]

\* Mutant: rounded down.
WaitRoundedDown(tokens) == (Cost - tokens) \div Second

\* math.Ceil: the whole seconds that give back what is missing.
RetryAfter(tokens) == (Cost - tokens + Second - 1) \div Second

\* allow: a client without a bucket starts with a full one, less this attempt.
Allowed(c) ==
  LET tokens == IF buckets[c].known THEN Refilled(buckets[c]) ELSE Burst
  IN  /\ serving
      /\ tokens >= Cost
      /\ Seen(c, tokens - Cost)
      /\ wait' = [wait EXCEPT ![c] = NoWait]
      /\ UNCHANGED serving

\* A refused attempt costs nothing and says how long to wait.
TooMany(c) ==
  LET tokens == Refilled(buckets[c])
  IN  /\ serving
      /\ buckets[c].known
      /\ tokens < Cost
      /\ Seen(c, tokens)
      /\ wait' = [wait EXCEPT ![c] = RetryAfter(tokens) * Second]
      /\ UNCHANGED serving

Forget(cs) == [c \in Clients |-> IF c \in cs THEN NoBucket ELSE buckets[c]]

\* Mutant: a bucket is idle as soon as nobody has used it for a tick.
IdleAtOnce == {c \in Clients : buckets[c].age >= 1}

Idle == {c \in Clients : buckets[c].age >= IdleTime}

\* The ticker runs once a minute; any moment may be one of its.
Sweep ==
  /\ serving
  /\ buckets' = Forget({c \in Idle : buckets[c].known})
  /\ UNCHANGED <<serving, wait>>

\* The map is memory of the process.
Stopped ==
  /\ serving
  /\ serving' = FALSE
  /\ buckets' = Forget(Clients)
  /\ UNCHANGED wait

Started ==
  /\ ~serving
  /\ serving' = TRUE
  /\ UNCHANGED <<buckets, wait>>

Tick ==
  /\ buckets' = [c \in Clients |->
       [buckets[c] EXCEPT !.age = IF buckets[c].known /\ @ < IdleTime
                                  THEN @ + 1 ELSE @]]
  /\ wait' = [c \in Clients |-> IF wait[c] > 0 THEN wait[c] - 1 ELSE wait[c]]
  /\ UNCHANGED serving

LimiterNext ==
  \/ \E c \in Clients : Allowed(c) \/ TooMany(c)
  \/ Sweep
  \/ Stopped \/ Started
  \/ Tick

LimiterSpec == LimiterInit /\ [][LimiterNext]_limiterVars

-----------------------------------------------------------------------------
(* Properties.                                                             *)

\* Forgetting a bucket gives nobody an attempt more than a limiter that never
\* forgets: only time and a restart fill an allowance (ratelimit.go, sweep).
Level(c) == IF buckets[c].known THEN Refilled(buckets[c]) ELSE Burst
Steady == INSTANCE Allowance WITH
  level <- [c \in Clients |-> Level(c)], up <- serving
SweepingIsInvisible == Steady!Spec

\* A client that has waited the whole seconds Retry-After named, without
\* another attempt, is let in, whatever fraction of one was missing: "a client
\* told to wait zero seconds retries at once and is refused again"
\* (ratelimit.go, allow).
WaitIsEnough == \A c \in Clients : wait[c] = 0 => Level(c) >= Cost
=============================================================================
