----------------------------- MODULE UserService -----------------------------
(***************************************************************************)
(* user-service of lab6_event_driven (and lab5_redis): the accounts of     *)
(* Accounts behind the login limit of RateLimiter.  A login first counts   *)
(* in Redis and only then reads its body and asks MongoDB; registration,   *)
(* GET and search are not limited.  One process, one clock: a crash takes  *)
(* both sorts of requests.                                                 *)
(***************************************************************************)
EXTENDS RateLimiter, FiniteSets

CONSTANTS
  Logins,
  Passwords,
  Life,        \* life of a token in ticks; 24 hours in the code
  MaxUsers,    \* bound of the model: how many users may be stored
  MaxTokens,   \* bound of the model: how many tokens may be given out
  MongoFails   \* whether MongoDB may fail

ASSUME ServiceAssumption ==
  Life \in Nat /\ MaxUsers \in Nat /\ MaxTokens \in Nat /\ MongoFails \in BOOLEAN

VARIABLES
  users,  \* the collection
  step,   \* where each request stands in Accounts, once the limiter let it through
  asked,  \* login and password in its body
  id,     \* new_id of a registration, or the id of the user a login found
  exp,    \* the expiry inside the token a login has signed
  reply,  \* the last answer of each worker
  tokens, \* tokens that clients hold
  uncounted \* history: how many logins were answered 500 because Redis raised

AccountFaults == (Faults \cap {"crash"}) \cup (IF MongoFails THEN {"mongo"} ELSE {})

A == INSTANCE Accounts WITH pc <- step, UniqueIndex <- FALSE, Faults <- AccountFaults

limits == <<counters, locals, requests, history, admitted, uncounted>>
accounts == <<users, step, asked, id, exp, reply, tokens>>
serviceVars == <<limiterVars, accounts, uncounted>>

-----------------------------------------------------------------------------
(* POST /api/v1/auth/login.                                                *)

\* CheckLimit, up to its verdict; a failure of Redis ends the request.
Limited(w) ==
  /\ step[w] = "idle"
  /\ \/ (ReadClock(w) \/ Incr(w) \/ Expire(w)) /\ UNCHANGED uncounted
     \/ (IncrRaises(w) \/ ExpireRaises(w)) /\ uncounted' = uncounted + 1
  /\ UNCHANGED accounts

\* Mutant of Login: what ApplyRateLimit returns is not looked at.
LoginUnlimited(w) ==
  /\ Decide(w)
  /\ A!LoginRefused(w) \/ \E c \in A!Credentials : A!BeginLogin(w, c)
  /\ UNCHANGED uncounted

\* The verdict; without a wait the body is read and MongoDB is asked.
Login(w) ==
  /\ Decide(w)
  /\ \/ answer'[w].code = "429" /\ UNCHANGED accounts
     \/ /\ answer'[w].code = "allowed"
        /\ A!LoginRefused(w) \/ \E c \in A!Credentials : A!BeginLogin(w, c)
  /\ UNCHANGED uncounted

Authenticate(w) ==
  /\ A!AuthenticateUser(w) \/ A!FindRaises(w)
  /\ UNCHANGED limits

GiveToken(w) ==
  /\ A!GenerateToken(w) \/ A!AnswerLogin(w)
  /\ UNCHANGED limits

-----------------------------------------------------------------------------
(* The requests that are not limited.                                      *)

Register(w) ==
  /\ pc[w] = "idle"
  /\ A!CreateRefused(w) \/ \E c \in A!Credentials : A!BeginCreate(w, c)
  /\ UNCHANGED limits

CreateUser(w) ==
  /\ A!InsertOne(w) \/ A!InsertRaises(w)
  /\ UNCHANGED limits

GetUser(w) ==
  /\ pc[w] = "idle"
  /\ \E l \in Logins : A!GetUser(w, l)
  /\ UNCHANGED limits

\* A mask selects any of the documents.
SearchUsersByQuery == SUBSET users

\* An answer holds the ids of what was found: one of them stands for all.  No
\* query is 400, and one that is no regular expression raises.
SearchUsers(w) ==
  /\ pc[w] = "idle" /\ step[w] = "idle"
  /\ \/ \E found \in SearchUsersByQuery :
          \/ found = {} /\ A!Answer(w, "200", 0)
          \/ \E u \in found : A!Answer(w, "200", u.id)
     \/ \E code \in {"400", "500"} : A!Answer(w, code, 0)
  /\ UNCHANGED <<now, users, asked, tokens, limits>>

-----------------------------------------------------------------------------
TimePasses == Tick /\ UNCHANGED <<accounts, uncounted>>

Crash == ServiceCrash /\ A!ServiceCrash /\ UNCHANGED uncounted

RedisLosesData == RedisRestart /\ UNCHANGED <<accounts, uncounted>>

ServiceInit == Init /\ A!Init /\ uncounted = 0

Request(w) ==
  \/ Limited(w) \/ Login(w) \/ Authenticate(w) \/ GiveToken(w)
  \/ Register(w) \/ CreateUser(w) \/ GetUser(w) \/ SearchUsers(w)

ServiceNext ==
  (\E w \in Workers : Request(w)) \/ TimePasses \/ Crash \/ RedisLosesData

ServiceSpec == ServiceInit /\ [][ServiceNext]_serviceVars

-----------------------------------------------------------------------------
(* What the service promises.                                              *)

\* The requests the limiter let through, each as a place in its window.
Places == {p \in Windows \X (1 .. MaxRequests) : p[2] <= admitted[p[1]]}
LoggingIn == {w \in Workers : step[w] \in {"find", "sign", "answer"}}

\* Tokens, and logins that may still get one, are not more than the requests the
\* limiter let through and those it could not count: no request that was told 429
\* gets to a password, whatever crashes, expires or raises beside it
\* (login_user_handler.cpp:67-75, 101-115).  Of a login that Redis failed nothing is
\* said: performance_design.md:114-117 lets it go on without its place, the code
\* answers 500.
TokensAreAdmitted ==
  Cardinality(tokens) + Cardinality(LoggingIn) <= Cardinality(Places) + uncounted
=============================================================================
