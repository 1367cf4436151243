------------------------------ MODULE Admission ------------------------------
(***************************************************************************)
(* What stands between a request and its use case: the quota of its peer   *)
(* address, the check of its origin, its token, the quota of its user.     *)
(* Every API instance counts in the same Redis, one window per key that    *)
(* starts with the first request; frames of a WebSocket take from the same *)
(* user quota.  A client that is told Retry-After waits as long.           *)
(*                                                                         *)
(* Definitions named ...Mutant are plausible slips of the code; no         *)
(* specification uses them.                                                *)
(***************************************************************************)
EXTENDS ApiDocs

CONSTANTS
  Request,       \* requests in flight at one time
  Ip,            \* peer addresses
  IpPerMinute, UserPerMinute,
  Second,        \* ticks of PTTL in a second, 1000 in Redis
  Seconds,       \* seconds in a window, 60 in the code
  Origin,        \* origins of pages, "docs" is that of the API
  Allowed        \* CORS_ALLOWED_ORIGINS

ASSUME AdmissionAssumption ==
  /\ IpPerMinute \in Nat \ {0} /\ UserPerMinute \in Nat \ {0}
  /\ Second \in Nat \ {0} /\ Seconds \in Nat \ {0}
  /\ Allowed \subseteq Origin /\ "docs" \in Origin /\ "none" \notin Origin
  /\ Ip \cap User = {}

VARIABLES
  redis,      \* "up" or "down"
  counter,    \* [n, ttl] of each key, n = 0 if the key does not exist
  request,    \* of each request its way so far, address, origin, method and token
  patience,   \* the ticks until its client tries again
  admitted,   \* requests and frames a key has let pass since its counter began
  blocker     \* the key that refused the request, until its counter expires

vars == <<redis, counter, request, patience, admitted, blocker, docsVars>>
clientVars == <<patience, blocker>>

Key == Ip \cup User
LimitOf(k) == IF k \in Ip THEN IpPerMinute ELSE UserPerMinute

-----------------------------------------------------------------------------
(* Take                                                                    *)

\* A count above the limit is as good as any other.
CountedMutant(c, limit) ==
  [n |-> IF c.n > limit THEN c.n ELSE c.n + 1, ttl |-> Second * Seconds]

\* The script of counter: INCR, and PEXPIRE with the first.
Counted(c, limit) ==
  [n |-> IF c.n > limit THEN c.n ELSE c.n + 1,
   ttl |-> IF c.n = 0 THEN Second * Seconds ELSE c.ttl]

PassesMutant(c, limit) == c.n <= limit + 1
Passes(c, limit) == c.n <= limit

RetryAfterMutant(c) == c.ttl \div Second

\* PTTL is 0 within the last millisecond; seconds are rounded up.
RetryAfter(c) ==
  LET ttl == IF c.ttl < 1 THEN 1 ELSE c.ttl
  IN (ttl + Second - 1) \div Second

\* go-redis sends a command again when the reply of the first was lost.
Take(k) ==
  /\ redis = "up"
  /\ \/ counter' = [counter EXCEPT ![k] = Counted(@, LimitOf(k))]
     \/ counter' = [counter EXCEPT ![k] = Counted(Counted(@, LimitOf(k)), LimitOf(k))]

Admit(k) ==
  /\ Take(k)
  /\ Passes(counter'[k], LimitOf(k))
  /\ admitted' = [admitted EXCEPT ![k] = @ + 1]

\* Redis cannot be reached within 500 ms, or the script ran and its answer is lost: 503.
Fails(k) ==
  /\ \/ redis = "down" /\ UNCHANGED counter
     \/ Take(k)
  /\ UNCHANGED admitted

-----------------------------------------------------------------------------
(* The way of a request                                                    *)

Idle == [at |-> "client"]

\* From here on only the token matters.
To(r, step) == request' = [request EXCEPT ![r] = [at |-> step, token |-> @.token]]
Answer(r) == request' = [request EXCEPT ![r] = Idle]

\* Try it out: the page's methods and its token; browsers name the origin of a patch.
TryItOut ==
  {q \in [at : {"arrived"}, ip : Ip, origin : {"none", "docs"}, token : {memory},
          method : page.supportedSubmitMethods] :
     (q.origin = "docs") = (q.method \notin {"get", "head"})}

\* Other clients have a token of their own.
Elsewhere ==
  [at : {"arrived"}, ip : Ip, origin : (Origin \ {"docs"}) \cup {"none"}, token : User,
   method : {"get", "options"}]

FromDocs(r) ==
  /\ Loaded /\ request[r] = Idle
  /\ \E q \in TryItOut : request' = [request EXCEPT ![r] = q]

FromElsewhere(r) ==
  /\ request[r] = Idle
  /\ \E q \in Elsewhere : request' = [request EXCEPT ![r] = q]

Send(r) ==
  /\ FromDocs(r) \/ FromElsewhere(r)
  /\ UNCHANGED <<redis, counter, admitted, clientVars, docsVars>>

OriginAllowed(q) == q.origin = "none" \/ q.origin \in Allowed
Preflight(q) == q.method = "options" /\ q.origin # "none"

\* 429 with Retry-After.  Its client tries again after as many seconds and the time
\* the two messages take.
Refuse(r, k) ==
  /\ Take(k)
  /\ ~Passes(counter'[k], LimitOf(k))
  /\ request' = [request EXCEPT ![r] = [at |-> "refused"]]
  /\ patience' = [patience EXCEPT ![r] = Second * RetryAfter(counter'[k]) + 1]
  /\ blocker' = [blocker EXCEPT ![r] = k]
  /\ UNCHANGED admitted

\* Limiter.Before takes from the quota of the address whatever the origin.
Before(r) ==
  /\ request[r].at = "arrived"
  /\ LET q == request[r]
     IN \/ /\ Admit(q.ip)
           /\ IF OriginAllowed(q) /\ ~Preflight(q) THEN To(r, "counted") ELSE Answer(r)
           /\ UNCHANGED clientVars
        \/ Refuse(r, q.ip)
        \/ Fails(q.ip) /\ Answer(r) /\ UNCHANGED clientVars
  /\ UNCHANGED <<redis, docsVars>>

\* A token that is missing or no longer good: 401.
Authenticate(r) ==
  /\ request[r].at = "counted"
  /\ \/ request[r].token # NoOne /\ To(r, "verified")
     \/ Answer(r)
  /\ UNCHANGED <<redis, counter, admitted, clientVars, docsVars>>

\* Limiter.After, and the use case.
After(r) ==
  /\ request[r].at = "verified"
  /\ LET u == request[r].token
     IN \/ Admit(u) /\ Answer(r) /\ UNCHANGED clientVars
        \/ Refuse(r, u)
        \/ Fails(u) /\ Answer(r) /\ UNCHANGED clientVars
  /\ UNCHANGED <<redis, docsVars>>

\* A command frame of a WebSocket; its refusal does not say when to try again.
Frame(u) ==
  /\ \/ Admit(u)
     \/ Take(u) /\ ~Passes(counter'[u], LimitOf(u)) /\ UNCHANGED admitted
     \/ Fails(u)
  /\ UNCHANGED <<redis, request, clientVars, docsVars>>

Retry(r) ==
  /\ request[r].at = "refused" /\ patience[r] = 0
  /\ Answer(r)
  /\ blocker' = [blocker EXCEPT ![r] = NoOne]
  /\ UNCHANGED <<redis, counter, patience, admitted, docsVars>>

-----------------------------------------------------------------------------
(* Time, Redis and the page                                                *)

\* A key still exists in the tick in which its PTTL is 0.
Expires(k) == counter[k].n > 0 /\ counter[k].ttl = 0

Tick ==
  /\ counter' = [k \in Key |->
       IF counter[k].ttl = 0 THEN [n |-> 0, ttl |-> 0] ELSE [counter[k] EXCEPT !.ttl = @ - 1]]
  /\ admitted' = [k \in Key |-> IF Expires(k) THEN 0 ELSE admitted[k]]
  /\ patience' = [r \in Request |-> IF patience[r] = 0 THEN 0 ELSE patience[r] - 1]
  /\ blocker' = [r \in Request |->
       IF blocker[r] # NoOne /\ Expires(blocker[r]) THEN NoOne ELSE blocker[r]]
  /\ UNCHANGED <<redis, request, docsVars>>

\* An outage of Redis that keeps its keys.
Outage ==
  /\ redis' = IF redis = "up" THEN "down" ELSE "up"
  /\ UNCHANGED <<counter, request, patience, admitted, blocker, docsVars>>

Browse ==
  /\ DocsNext
  /\ UNCHANGED <<redis, counter, request, patience, admitted, blocker>>

Init ==
  /\ redis = "up"
  /\ counter = [k \in Key |-> [n |-> 0, ttl |-> 0]]
  /\ request = [r \in Request |-> Idle]
  /\ patience = [r \in Request |-> 0]
  /\ admitted = [k \in Key |-> 0]
  /\ blocker = [r \in Request |-> NoOne]
  /\ DocsInit

Next ==
  \/ \E r \in Request : Send(r) \/ Before(r) \/ Authenticate(r) \/ After(r) \/ Retry(r)
  \/ \E u \in User : Frame(u)
  \/ Tick \/ Outage \/ Browse

\* Redis keeps time.
Spec == Init /\ [][Next]_vars /\ WF_vars(Tick)

-----------------------------------------------------------------------------

(* Lost answers, repeated commands, an outage of Redis or several instances never   *)
(* let more pass in one window than the limit of the key (Limiter fails closed).    *)
WithinLimit == \A k \in Key : admitted[k] <= LimitOf(k)

(* Whoever waits the seconds of Retry-After is not refused by the same window       *)
(* again: the seconds are rounded up, and no request in between extends the window. *)
WaitIsEnough ==
  \A r \in Request : request[r].at = "refused" /\ patience[r] = 0 => blocker[r] = NoOne

(* No crash and no steady stream of requests leaves a counter without an end.       *)
WindowEnds == \A k \in Key : counter[k].n > 0 ~> counter[k].n = 0

(* The page sends no token that was not typed into it since it was loaded, whatever *)
(* its query string asked for: tokens live only in this tab's memory.               *)
TokenForgotten ==
  [][\A r \in Request : FromDocs(r) => request'[r].token \in typed \cup {NoOne}]_vars
=============================================================================
