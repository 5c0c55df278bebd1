----------------------------- MODULE RateLimiter -----------------------------
(***************************************************************************)
(* The fixed-window limit on POST /api/v1/auth/login of lab5_redis and     *)
(* lab6_event_driven: RateLimiter::CheckLimit as ApplyRateLimit calls it   *)
(* (login_user_handler.cpp:23-39 and 66-75), for the requests of one       *)
(* client.  Keys of different clients never meet.  A request reads the     *)
(* clock, then waits for INCR, then, if its count is 1, for EXPIRE.        *)
(***************************************************************************)
EXTENDS Integers

CONSTANTS
  Workers,     \* requests of the client that can be in progress at once
  Limit,       \* logins per window; 10 in the handler
  Window,      \* its length in ticks; one minute in the handler
  MaxTime,     \* bound of the model: the last tick
  MaxRequests, \* bound of the model: how many requests are made
  Faults       \* which of "redis", "crash", "redis_data" may happen

ASSUME LimiterAssumption ==
  /\ Limit \in Nat \ {0} /\ Window \in Nat \ {0}
  /\ MaxTime \in Nat /\ MaxRequests \in Nat
  /\ Faults \subseteq {"redis", "crash", "redis_data"}

Windows == 0 .. MaxTime \div Window
NoExpiry == 0

VARIABLES
  now,      \* the clock
  count,    \* Redis: count[k] is the value of "rate_limit:{key}:{k}", 0 without key
  expiry,   \* Redis: the tick at which that key goes, NoExpiry if it has no TTL
  pc,       \* where each request stands
  stamp,    \* now_sec of each request
  seen,     \* the count its INCR returned
  answer,   \* what the last request of each worker was told
  requests, \* history: requests made
  counted,  \* history: INCRs done for each window
  admitted, \* history: requests let through for each window
  lives,    \* history: how often the counter of each window began at 1
  disturbed \* history: windows that were counted in after their end, or whose
            \* counter Redis lost

counters == <<count, expiry>>
locals == <<pc, stamp, seen, answer>>
history == <<counted, lives, disturbed>>
limiterVars == <<now, counters, locals, requests, history, admitted>>

NoAnswer == [code |-> "none", remaining |-> 0, reset |-> 1]
Failed == [code |-> "500", remaining |-> 0, reset |-> 1]

TypeOK ==
  /\ now \in 0 .. MaxTime
  /\ count \in [Windows -> 0 .. MaxRequests]
  /\ expiry \in [Windows -> 0 .. MaxTime + Window]
  /\ pc \in [Workers -> {"idle", "incr", "expire", "decide"}]
  /\ stamp \in [Workers -> 0 .. MaxTime]
  /\ seen \in [Workers -> 0 .. MaxRequests]
  /\ answer \in [Workers -> [code : {"none", "allowed", "429", "500"},
                             remaining : 0 .. Limit, reset : 1 .. Window]]
  /\ requests \in 0 .. MaxRequests
  /\ counted \in [Windows -> 0 .. MaxRequests]
  /\ admitted \in [Windows -> 0 .. MaxRequests]
  /\ lives \in [Windows -> 0 .. MaxRequests]
  /\ disturbed \subseteq Windows

-----------------------------------------------------------------------------
\* Mutant of WindowOf: one key for all windows.
OnlyOneWindow(t) == 0

\* window_ts of a request.
WindowOf(t) == t \div Window

\* The window a request belongs to, for the history.
TrueWindow(t) == t \div Window

\* Mutant of Remaining: no max.
RemainingUnclamped(c) == Limit - c

\* The headers X-RateLimit-Remaining and X-RateLimit-Reset.
Remaining(c) == IF Limit - c > 0 THEN Limit - c ELSE 0
ResetAfter(t) == Window - (t % Window)

Allowed(c) == c <= Limit

\* The request ends: its locals are gone.
Answer(w, a) ==
  /\ pc' = [pc EXCEPT ![w] = "idle"]
  /\ stamp' = [stamp EXCEPT ![w] = 0]
  /\ seen' = [seen EXCEPT ![w] = 0]
  /\ answer' = [answer EXCEPT ![w] = a]

ReadClock(w) ==
  /\ pc[w] = "idle"
  /\ requests < MaxRequests
  /\ requests' = requests + 1
  /\ pc' = [pc EXCEPT ![w] = "incr"]
  /\ stamp' = [stamp EXCEPT ![w] = now]
  /\ UNCHANGED <<now, counters, seen, answer, history, admitted>>

\* INCR: one atomic command, which leaves the TTL of the key as it is.
IncrKey(t) ==
  /\ count' = [count EXCEPT ![WindowOf(t)] = @ + 1]
  /\ counted' = [counted EXCEPT ![TrueWindow(t)] = @ + 1]
  /\ lives' = [lives EXCEPT ![TrueWindow(t)] = IF count[WindowOf(t)] = 0 THEN @ + 1 ELSE @]
  /\ disturbed' = IF TrueWindow(now) > TrueWindow(t) THEN disturbed \cup {TrueWindow(t)}
                  ELSE disturbed

\* Mutant of Incr: the value before the increment is taken for the one after.
IncrReadsOld(w) ==
  LET k == WindowOf(stamp[w]) IN
  /\ pc[w] = "incr"
  /\ IncrKey(stamp[w])
  /\ seen' = [seen EXCEPT ![w] = count[k]]
  /\ pc' = [pc EXCEPT ![w] = IF count[k] = 0 THEN "expire" ELSE "decide"]
  /\ UNCHANGED <<now, expiry, stamp, answer, requests, admitted>>

\* Lines 13-18.
Incr(w) ==
  LET k == WindowOf(stamp[w]) IN
  /\ pc[w] = "incr"
  /\ IncrKey(stamp[w])
  /\ seen' = [seen EXCEPT ![w] = count[k] + 1]
  /\ pc' = [pc EXCEPT ![w] = IF count[k] + 1 = 1 THEN "expire" ELSE "decide"]
  /\ UNCHANGED <<now, expiry, stamp, answer, requests, admitted>>

\* Redis fails the command; it may have carried it out.
IncrRaises(w) ==
  /\ "redis" \in Faults
  /\ pc[w] = "incr"
  /\ IncrKey(stamp[w]) \/ UNCHANGED <<count, history>>
  /\ Answer(w, Failed)
  /\ UNCHANGED <<now, expiry, requests, admitted>>

\* Mutant of ExpireKey: a TTL of one tick.
ExpireSoon(k) ==
  expiry' = [expiry EXCEPT ![k] = IF count[k] > 0 THEN now + 1 ELSE NoExpiry]

\* EXPIRE of the key of window k, which does nothing without the key.
ExpireKey(k) ==
  expiry' = [expiry EXCEPT ![k] = IF count[k] > 0 THEN now + Window ELSE NoExpiry]

Expire(w) ==
  /\ pc[w] = "expire"
  /\ ExpireKey(WindowOf(stamp[w]))
  /\ pc' = [pc EXCEPT ![w] = "decide"]
  /\ UNCHANGED <<now, count, stamp, seen, answer, requests, history, admitted>>

ExpireRaises(w) ==
  /\ "redis" \in Faults
  /\ pc[w] = "expire"
  /\ ExpireKey(WindowOf(stamp[w])) \/ UNCHANGED expiry
  /\ Answer(w, Failed)
  /\ UNCHANGED <<now, count, requests, history, admitted>>

\* A request that is let through goes on to AuthenticateUser.
Decide(w) ==
  LET k == TrueWindow(stamp[w])
      code == IF Allowed(seen[w]) THEN "allowed" ELSE "429"
  IN
  /\ pc[w] = "decide"
  /\ Answer(w, [code |-> code, remaining |-> Remaining(seen[w]),
                reset |-> ResetAfter(stamp[w])])
  /\ admitted' = [admitted EXCEPT ![k] = IF code = "allowed" THEN @ + 1 ELSE @]
  /\ UNCHANGED <<now, counters, requests, history>>

\* A tick passes; Redis drops the keys whose time has come.
Tick ==
  /\ now < MaxTime
  /\ now' = now + 1
  /\ count' = [k \in Windows |-> IF expiry[k] = now + 1 THEN 0 ELSE count[k]]
  /\ expiry' = [k \in Windows |-> IF expiry[k] = now + 1 THEN NoExpiry ELSE expiry[k]]
  /\ UNCHANGED <<locals, requests, history, admitted>>

\* user-service dies with the requests it was serving.
ServiceCrash ==
  /\ "crash" \in Faults
  /\ pc' = [w \in Workers |-> "idle"]
  /\ stamp' = [w \in Workers |-> 0]
  /\ seen' = [w \in Workers |-> 0]
  /\ answer' = [w \in Workers |-> NoAnswer]
  /\ UNCHANGED <<now, counters, requests, history, admitted>>

\* The Redis container restarts without its data.
RedisRestart ==
  /\ "redis_data" \in Faults
  /\ count' = [k \in Windows |-> 0]
  /\ expiry' = [k \in Windows |-> NoExpiry]
  /\ disturbed' = disturbed \cup {k \in Windows : count[k] > 0}
  /\ UNCHANGED <<now, locals, requests, counted, lives, admitted>>

-----------------------------------------------------------------------------
Init ==
  /\ now = 0
  /\ count = [k \in Windows |-> 0]
  /\ expiry = [k \in Windows |-> NoExpiry]
  /\ pc = [w \in Workers |-> "idle"]
  /\ stamp = [w \in Workers |-> 0]
  /\ seen = [w \in Workers |-> 0]
  /\ answer = [w \in Workers |-> NoAnswer]
  /\ requests = 0
  /\ counted = [k \in Windows |-> 0]
  /\ admitted = [k \in Windows |-> 0]
  /\ lives = [k \in Windows |-> 0]
  /\ disturbed = {}

CheckLimit(w) ==
  ReadClock(w) \/ Incr(w) \/ IncrRaises(w) \/ Expire(w) \/ ExpireRaises(w) \/ Decide(w)

Next == (\E w \in Workers : CheckLimit(w)) \/ Tick \/ ServiceCrash \/ RedisRestart

Spec == Init /\ [][Next]_limiterVars

-----------------------------------------------------------------------------
(* What the limiter promises.                                              *)

\* A window lets more than Limit requests through only if one of them was
\* counted after the end of the window, when its key may be gone, or if Redis
\* lost the key: not by any number of requests at once, failed commands,
\* crashes, or an EXPIRE that comes late or never (rate_limiter.cpp:10-22).
AdmittedAtMostLimit == \A k \in Windows : admitted[k] > Limit => k \in disturbed

\* What it costs when it happens: at most Limit more for each time the counter
\* of the window began anew (rate_limiter.cpp:16-22).
AdmittedPerCounter == \A k \in Windows : admitted[k] <= Limit * lives[k]

\* Nobody is rejected on account of another window: 429 means that more than
\* Limit requests of the window of its clock were counted, whatever became of
\* keys that never expire (rate_limiter.cpp:13-16).
RejectedOnlyAtLimit ==
  \A w \in Workers : pc[w] = "decide" /\ ~Allowed(seen[w]) => counted[TrueWindow(stamp[w])] > Limit
=============================================================================
