--------------------------- MODULE AdmissionProofs ---------------------------
(***************************************************************************)
(* Proofs about the quotas and the page, for any keys, limits, windows and *)
(* requests: no window lets more pass than its limit, whoever waits as     *)
(* long as he was told is past the window that refused him, and the page   *)
(* sends no token that was not typed into it.                              *)
(***************************************************************************)
EXTENDS Admission, TLAPS

-----------------------------------------------------------------------------
(* The inductive invariant                                                 *)

Counters == [n : Nat, ttl : Nat]

Requests ==
  {Idle} \cup [at : {"refused"}]
    \cup [at : {"counted"}, token : User \cup {NoOne}]
    \cup [at : {"verified"}, token : User]
    \cup [at : {"arrived"}, ip : Ip, origin : Origin \cup {"none"}, token : User \cup {NoOne},
          method : {"get", "head", "patch", "options"}]

AdmissionTypeOK ==
  /\ counter \in [Key -> Counters]
  /\ request \in [Request -> Requests]
  /\ patience \in [Request -> Nat]
  /\ admitted \in [Key -> Nat]
  /\ blocker \in [Request -> Key \cup {NoOne}]

\* Whoever was let pass was counted, perhaps more than once, and the limit was not reached.
AdmittedCounted == \A k \in Key : admitted[k] <= counter[k].n /\ admitted[k] <= LimitOf(k)

\* The window that refused a request is still there, and ends before the wait does.
BlockerEnds ==
  \A r \in Request : blocker[r] # NoOne =>
    counter[blocker[r]].n > 0 /\ counter[blocker[r]].ttl < patience[r]

\* The page has its own settings, and the token it holds was typed into it.
PageInv ==
  /\ page \in {Settings, Closed}
  /\ memory \in User \cup {NoOne}
  /\ memory \in typed \cup {NoOne}

AdmissionInv == AdmissionTypeOK /\ AdmittedCounted /\ BlockerEnds /\ PageInv

-----------------------------------------------------------------------------
(* Windows                                                                 *)

LEMMA LimitType == ASSUME NEW k \in Key PROVE LimitOf(k) \in Nat \ {0}
  BY AdmissionAssumption DEF LimitOf

\* A request that is counted does not make the window longer, and does not forget.
LEMMA CountedGrows ==
  ASSUME NEW c \in Counters, NEW limit \in Nat \ {0}
  PROVE  /\ Counted(c, limit) \in Counters
         /\ Counted(c, limit).n > 0 /\ Counted(c, limit).n >= c.n
         /\ c.n > 0 => Counted(c, limit).ttl = c.ttl
         /\ Counted(c, limit).n <= limit => Counted(c, limit).n >= c.n + 1
<1>1. Second * Seconds \in Nat
  BY AdmissionAssumption
<1>2. c.n \in Nat /\ c.ttl \in Nat
  BY DEF Counters
<1>3. /\ Counted(c, limit).n = IF c.n > limit THEN c.n ELSE c.n + 1
      /\ Counted(c, limit).ttl = IF c.n = 0 THEN Second * Seconds ELSE c.ttl
  BY DEF Counted
<1>4. Counted(c, limit) \in Counters
  BY <1>1, <1>2 DEF Counted, Counters
<1> QED BY <1>2, <1>3, <1>4

\* One or two executions of the script leave the other keys alone.
LEMMA TakeGrows ==
  ASSUME AdmissionTypeOK, NEW k \in Key, Take(k)
  PROVE  /\ counter' \in [Key -> Counters]
         /\ \A j \in Key : /\ counter'[j].n >= counter[j].n
                           /\ counter[j].n > 0 => counter'[j].ttl = counter[j].ttl
                           /\ j # k => counter'[j] = counter[j]
         /\ counter'[k].n > 0
         /\ Passes(counter'[k], LimitOf(k)) => counter'[k].n >= counter[k].n + 1
<1> DEFINE once == Counted(counter[k], LimitOf(k))
           twice == Counted(once, LimitOf(k))
<1>1. counter \in [Key -> Counters] /\ LimitOf(k) \in Nat \ {0} /\ counter[k] \in Counters
  BY LimitType DEF AdmissionTypeOK
<1>2. /\ once \in Counters
      /\ once.n > 0 /\ once.n >= counter[k].n
      /\ counter[k].n > 0 => once.ttl = counter[k].ttl
      /\ once.n <= LimitOf(k) => once.n >= counter[k].n + 1
  BY <1>1, CountedGrows
<1>3. /\ twice \in Counters
      /\ twice.n > 0 /\ twice.n >= once.n
      /\ once.n > 0 => twice.ttl = once.ttl
      /\ twice.n <= LimitOf(k) => twice.n >= once.n + 1
  <2> HIDE DEF once
  <2> QED BY <1>1, <1>2, CountedGrows DEF twice
<1>4. counter' = [counter EXCEPT ![k] = once] \/ counter' = [counter EXCEPT ![k] = twice]
  BY DEF Take
<1> HIDE DEF once, twice
<1>5. \A j \in Key : counter[j].n \in Nat
  BY <1>1 DEF Counters
<1>6. once.n \in Nat /\ twice.n \in Nat
  BY <1>2, <1>3 DEF Counters
<1>7. CASE counter' = [counter EXCEPT ![k] = once]
  <2>1. counter'[k] = once /\ \A j \in Key : j # k => counter'[j] = counter[j]
    BY <1>1, <1>7
  <2>2. counter' \in [Key -> Counters]
    BY <1>1, <1>2, <1>7
  <2> QED BY <1>2, <1>5, <1>6, <2>1, <2>2 DEF Passes
<1>8. CASE counter' = [counter EXCEPT ![k] = twice]
  <2>1. counter'[k] = twice /\ \A j \in Key : j # k => counter'[j] = counter[j]
    BY <1>1, <1>8
  <2>2. counter' \in [Key -> Counters]
    BY <1>1, <1>3, <1>8
  <2>3. /\ twice.n > 0 /\ twice.n >= counter[k].n
        /\ counter[k].n > 0 => twice.ttl = counter[k].ttl
        /\ twice.n <= LimitOf(k) => twice.n >= counter[k].n + 1
    BY <1>1, <1>2, <1>3, <1>5, <1>6
  <2> QED BY <1>5, <1>6, <2>1, <2>2, <2>3 DEF Passes
<1> QED BY <1>4, <1>7, <1>8

\* The seconds of Retry-After are not shorter than what is left of the window.
LEMMA RetryAfterCovers ==
  ASSUME NEW c \in Counters
  PROVE  Second * RetryAfter(c) + 1 \in Nat /\ c.ttl < Second * RetryAfter(c) + 1
<1> DEFINE ttl == IF c.ttl < 1 THEN 1 ELSE c.ttl
           q == (ttl + Second - 1) \div Second
<1>1. ttl \in Nat /\ c.ttl \in Nat /\ c.ttl <= ttl /\ Second \in Nat \ {0} /\ ttl + Second - 1 \in Nat
  BY AdmissionAssumption DEF Counters
<1> HIDE DEF ttl
<1>2. q \in Nat /\ ttl <= Second * q
  BY <1>1, SMTT(30)
<1>3. RetryAfter(c) = q
  BY DEF RetryAfter, ttl
<1> HIDE DEF q
<1>4. Second * q \in Nat
  BY <1>1, <1>2
<1> QED BY <1>1, <1>2, <1>3, <1>4

-----------------------------------------------------------------------------
(* Init                                                                    *)

LEMMA AdmissionInit == Init => AdmissionInv
<1> SUFFICES ASSUME Init PROVE AdmissionInv
  OBVIOUS
<1> USE DEF Init, DocsInit
<1>1. AdmissionTypeOK
  BY DEF AdmissionTypeOK, Counters, Requests
<1>2. AdmittedCounted
  BY LimitType DEF AdmittedCounted
<1>3. BlockerEnds /\ PageInv
  BY DEF BlockerEnds, PageInv
<1> QED BY <1>1, <1>2, <1>3 DEF AdmissionInv

-----------------------------------------------------------------------------
(* The counters, and who waits for them                                    *)

counterVars == <<counter, admitted, patience, blocker>>

\* A take that is not a refusal keeps what is known of the counters.
LEMMA TakeKeeps ==
  ASSUME AdmissionTypeOK, AdmittedCounted, BlockerEnds, NEW k \in Key,
         Admit(k) \/ Fails(k) \/ (Take(k) /\ UNCHANGED admitted), UNCHANGED clientVars
  PROVE  /\ counter' \in [Key -> Counters] /\ admitted' \in [Key -> Nat]
         /\ AdmittedCounted' /\ BlockerEnds'
<1>1. /\ counter \in [Key -> Counters] /\ admitted \in [Key -> Nat] /\ patience \in [Request -> Nat]
      /\ blocker \in [Request -> Key \cup {NoOne}]
  BY DEF AdmissionTypeOK
<1>2. \A j \in Key : counter[j].n \in Nat /\ counter[j].ttl \in Nat /\ LimitOf(j) \in Nat
  BY <1>1, LimitType DEF Counters
<1>3. CASE UNCHANGED counter /\ UNCHANGED admitted
  BY <1>1, <1>3 DEF AdmittedCounted, BlockerEnds, clientVars, LimitOf
<1>4. CASE Take(k)
  <2>1. /\ counter' \in [Key -> Counters]
        /\ \A j \in Key : /\ counter'[j].n >= counter[j].n
                          /\ counter[j].n > 0 => counter'[j].ttl = counter[j].ttl
                          /\ j # k => counter'[j] = counter[j]
        /\ counter'[k].n > 0
        /\ Passes(counter'[k], LimitOf(k)) => counter'[k].n >= counter[k].n + 1
    BY <1>4, TakeGrows
  <2>2. \A j \in Key : counter'[j].n \in Nat /\ counter'[j].ttl \in Nat
    BY <2>1 DEF Counters
  <2>3. \/ UNCHANGED admitted
        \/ Passes(counter'[k], LimitOf(k)) /\ admitted' = [admitted EXCEPT ![k] = @ + 1]
    BY DEF Admit, Fails
  <2>4. admitted' \in [Key -> Nat]
    BY <1>1, <2>3
  <2>5. AdmittedCounted'
    <3> SUFFICES ASSUME NEW j \in Key PROVE admitted'[j] <= counter'[j].n /\ admitted'[j] <= LimitOf(j)
      BY DEF AdmittedCounted, LimitOf
    <3>1. admitted[j] <= counter[j].n /\ admitted[j] <= LimitOf(j) /\ admitted[j] \in Nat
      BY <1>1 DEF AdmittedCounted
    <3>2. CASE admitted'[j] = admitted[j]
      BY <1>2, <2>1, <2>2, <3>1, <3>2
    <3>3. CASE admitted'[j] # admitted[j]
      <4>1. j = k /\ Passes(counter'[k], LimitOf(k)) /\ admitted'[k] = admitted[k] + 1
        BY <1>1, <2>3, <3>3
      <4>2. counter'[k].n <= LimitOf(k) /\ counter'[k].n >= counter[k].n + 1
        BY <2>1, <4>1 DEF Passes
      <4> QED BY <1>2, <2>2, <3>1, <4>1, <4>2
    <3> QED BY <3>2, <3>3
  <2>6. BlockerEnds'
    <3> SUFFICES ASSUME NEW r \in Request, blocker[r] # NoOne
                 PROVE  counter'[blocker[r]].n > 0 /\ counter'[blocker[r]].ttl < patience[r]
      BY DEF BlockerEnds, clientVars
    <3>1. blocker[r] \in Key /\ counter[blocker[r]].n > 0 /\ counter[blocker[r]].ttl < patience[r]
      BY <1>1 DEF BlockerEnds
    <3> QED BY <1>2, <2>1, <2>2, <3>1
  <2> QED BY <2>1, <2>4, <2>5, <2>6
<1> QED BY <1>3, <1>4 DEF Admit, Fails

\* A refused request waits longer than the window that refused it lasts.
LEMMA RefuseKeeps ==
  ASSUME AdmissionTypeOK, AdmittedCounted, BlockerEnds, NEW r \in Request, NEW k \in Key, Refuse(r, k)
  PROVE  /\ AdmissionTypeOK' /\ AdmittedCounted' /\ BlockerEnds'
<1>1. /\ counter \in [Key -> Counters] /\ admitted \in [Key -> Nat] /\ patience \in [Request -> Nat]
      /\ blocker \in [Request -> Key \cup {NoOne}] /\ request \in [Request -> Requests]
  BY DEF AdmissionTypeOK
<1>2. \A j \in Key : counter[j].n \in Nat /\ counter[j].ttl \in Nat /\ LimitOf(j) \in Nat
  BY <1>1, LimitType DEF Counters
<1>3. /\ counter' \in [Key -> Counters]
      /\ \A j \in Key : /\ counter'[j].n >= counter[j].n
                        /\ counter[j].n > 0 => counter'[j].ttl = counter[j].ttl
      /\ counter'[k].n > 0
  BY TakeGrows DEF Refuse
<1>4. \A j \in Key : counter'[j].n \in Nat /\ counter'[j].ttl \in Nat
  BY <1>3 DEF Counters
<1> DEFINE wait == Second * RetryAfter(counter'[k]) + 1
<1>5. wait \in Nat /\ counter'[k].ttl < wait
  BY <1>3, RetryAfterCovers
<1>6. /\ request' = [request EXCEPT ![r] = [at |-> "refused"]]
      /\ patience' = [patience EXCEPT ![r] = wait]
      /\ blocker' = [blocker EXCEPT ![r] = k]
      /\ UNCHANGED admitted
  BY DEF Refuse
<1> HIDE DEF wait
<1>7. AdmissionTypeOK'
  <2>1. [at |-> "refused"] \in Requests
    BY DEF Requests
  <2> QED BY <1>1, <1>3, <1>5, <1>6, <2>1 DEF AdmissionTypeOK
<1>8. AdmittedCounted'
  <2> SUFFICES ASSUME NEW j \in Key PROVE admitted[j] <= counter'[j].n /\ admitted[j] <= LimitOf(j)
    BY <1>6 DEF AdmittedCounted, LimitOf
  <2>1. admitted[j] <= counter[j].n /\ admitted[j] <= LimitOf(j) /\ admitted[j] \in Nat
    BY <1>1 DEF AdmittedCounted
  <2> QED BY <1>2, <1>3, <1>4, <2>1
<1>9. BlockerEnds'
  <2> SUFFICES ASSUME NEW q \in Request, blocker'[q] # NoOne
               PROVE  counter'[blocker'[q]].n > 0 /\ counter'[blocker'[q]].ttl < patience'[q]
    BY DEF BlockerEnds
  <2>1. CASE q = r
    <3>1. blocker'[q] = k /\ patience'[q] = wait
      BY <1>1, <1>6, <2>1
    <3> QED BY <1>3, <1>5, <3>1
  <2>2. CASE q # r
    <3>1. blocker'[q] = blocker[q] /\ patience'[q] = patience[q]
      BY <1>1, <1>6, <2>2
    <3>2. blocker[q] \in Key /\ counter[blocker[q]].n > 0 /\ counter[blocker[q]].ttl < patience[q]
      BY <1>1, <3>1 DEF BlockerEnds
    <3> QED BY <1>2, <1>3, <1>4, <3>1, <3>2
  <2> QED BY <2>1, <2>2
<1> QED BY <1>7, <1>8, <1>9

-----------------------------------------------------------------------------
(* The actions                                                             *)

LEMMA SendInv == ASSUME AdmissionInv, NEW r \in Request, Send(r) PROVE AdmissionInv'
<1>1. UNCHANGED <<counter, admitted, patience, blocker, page, memory, typed>>
  BY DEF Send, clientVars, docsVars
<1>2. page \in {Settings, Closed} /\ memory \in User \cup {NoOne} /\ request \in [Request -> Requests]
  BY DEF AdmissionInv, AdmissionTypeOK, PageInv
<1>3. page.supportedSubmitMethods \subseteq {"get", "head", "patch"}
  BY <1>2 DEF Settings, Closed
<1>4. TryItOut \cup Elsewhere \subseteq Requests
  BY <1>2, <1>3, AdmissionAssumption DEF TryItOut, Elsewhere, Requests
<1>5. request' \in [Request -> Requests]
  BY <1>2, <1>4 DEF Send, FromDocs, FromElsewhere
<1> QED BY <1>1, <1>5 DEF AdmissionInv, AdmissionTypeOK, AdmittedCounted, BlockerEnds, PageInv, LimitOf

LEMMA AnswerType ==
  ASSUME request \in [Request -> Requests], NEW r \in Request, Answer(r)
  PROVE  request' \in [Request -> Requests]
  BY DEF Answer, Requests

LEMMA BeforeInv == ASSUME AdmissionInv, NEW r \in Request, Before(r) PROVE AdmissionInv'
<1>1. /\ AdmissionTypeOK /\ AdmittedCounted /\ BlockerEnds
      /\ request \in [Request -> Requests] /\ patience \in [Request -> Nat]
      /\ blocker \in [Request -> Key \cup {NoOne}]
  BY DEF AdmissionInv, AdmissionTypeOK
<1>2. request[r].ip \in Key /\ request[r].token \in User \cup {NoOne}
  BY <1>1 DEF Before, Requests, Idle, Key
<1>3. PageInv'
  BY DEF AdmissionInv, Before, docsVars, PageInv
<1>4. CASE Refuse(r, request[r].ip)
  BY <1>1, <1>2, <1>3, <1>4, RefuseKeeps DEF AdmissionInv
<1>5. CASE ~Refuse(r, request[r].ip)
  <2>1. /\ Admit(request[r].ip) \/ Fails(request[r].ip)
        /\ UNCHANGED clientVars
        /\ Answer(r) \/ To(r, "counted")
    BY <1>5 DEF Before
  <2>2. /\ counter' \in [Key -> Counters] /\ admitted' \in [Key -> Nat]
        /\ AdmittedCounted' /\ BlockerEnds'
    BY <1>1, <1>2, <2>1, TakeKeeps
  <2>3. request' \in [Request -> Requests]
    <3>1. CASE To(r, "counted")
      <4>1. [at |-> "counted", token |-> request[r].token] \in Requests BY <1>2 DEF Requests
      <4> QED BY <1>1, <3>1, <4>1 DEF To
    <3> QED BY <1>1, <2>1, <3>1, AnswerType
  <2> QED BY <1>1, <1>3, <2>1, <2>2, <2>3 DEF AdmissionInv, AdmissionTypeOK, clientVars
<1> QED BY <1>4, <1>5

LEMMA AuthenticateInv == ASSUME AdmissionInv, NEW r \in Request, Authenticate(r) PROVE AdmissionInv'
<1>1. /\ request \in [Request -> Requests]
      /\ UNCHANGED <<counter, admitted, patience, blocker, page, memory, typed>>
  BY DEF AdmissionInv, AdmissionTypeOK, Authenticate, clientVars, docsVars
<1>2. request' \in [Request -> Requests]
  <2>1. CASE request[r].token # NoOne /\ To(r, "verified")
    <3>1. request[r].token \in User
      BY <1>1, <2>1 DEF Authenticate, Requests, Idle
    <3>2. [at |-> "verified", token |-> request[r].token] \in Requests BY <3>1 DEF Requests
    <3> QED BY <1>1, <2>1, <3>2 DEF To
  <2> QED BY <1>1, <2>1, AnswerType DEF Authenticate
<1> QED BY <1>1, <1>2 DEF AdmissionInv, AdmissionTypeOK, AdmittedCounted, BlockerEnds, PageInv, LimitOf

LEMMA AfterInv == ASSUME AdmissionInv, NEW r \in Request, After(r) PROVE AdmissionInv'
<1>1. /\ AdmissionTypeOK /\ AdmittedCounted /\ BlockerEnds
      /\ request \in [Request -> Requests] /\ patience \in [Request -> Nat]
      /\ blocker \in [Request -> Key \cup {NoOne}]
  BY DEF AdmissionInv, AdmissionTypeOK
<1>2. request[r].token \in Key
  BY <1>1 DEF After, Requests, Idle, Key
<1>3. PageInv'
  BY DEF AdmissionInv, After, docsVars, PageInv
<1>4. CASE Refuse(r, request[r].token)
  BY <1>1, <1>2, <1>3, <1>4, RefuseKeeps DEF AdmissionInv
<1>5. CASE ~Refuse(r, request[r].token)
  <2>1. /\ Admit(request[r].token) \/ Fails(request[r].token)
        /\ UNCHANGED clientVars /\ Answer(r)
    BY <1>5 DEF After
  <2>2. /\ counter' \in [Key -> Counters] /\ admitted' \in [Key -> Nat]
        /\ AdmittedCounted' /\ BlockerEnds'
    BY <1>1, <1>2, <2>1, TakeKeeps
  <2>3. request' \in [Request -> Requests]
    BY <1>1, <2>1, AnswerType
  <2> QED BY <1>1, <1>3, <2>1, <2>2, <2>3 DEF AdmissionInv, AdmissionTypeOK, clientVars
<1> QED BY <1>4, <1>5

LEMMA FrameInv == ASSUME AdmissionInv, NEW u \in User, Frame(u) PROVE AdmissionInv'
<1>1. /\ AdmissionTypeOK /\ AdmittedCounted /\ BlockerEnds /\ u \in Key
      /\ UNCHANGED <<request, clientVars, docsVars>>
      /\ Admit(u) \/ Fails(u) \/ (Take(u) /\ UNCHANGED admitted)
  BY DEF AdmissionInv, Frame, Key
<1>2. /\ counter' \in [Key -> Counters] /\ admitted' \in [Key -> Nat]
      /\ AdmittedCounted' /\ BlockerEnds'
  BY <1>1, TakeKeeps
<1> QED BY <1>1, <1>2 DEF AdmissionInv, AdmissionTypeOK, clientVars, docsVars, PageInv

LEMMA RetryInv == ASSUME AdmissionInv, NEW r \in Request, Retry(r) PROVE AdmissionInv'
<1>1. /\ request \in [Request -> Requests] /\ blocker \in [Request -> Key \cup {NoOne}]
      /\ UNCHANGED <<counter, admitted, patience, page, memory, typed>>
      /\ blocker' = [blocker EXCEPT ![r] = NoOne]
  BY DEF AdmissionInv, AdmissionTypeOK, Retry, docsVars
<1>2. request' \in [Request -> Requests] /\ blocker' \in [Request -> Key \cup {NoOne}]
  BY <1>1, AnswerType DEF Retry
<1>3. BlockerEnds'
  BY <1>1 DEF AdmissionInv, BlockerEnds
<1> QED BY <1>1, <1>2, <1>3 DEF AdmissionInv, AdmissionTypeOK, AdmittedCounted, PageInv, LimitOf

\* Time takes as much from the wait as from the window; who waited for a window that
\* ends is free.
LEMMA TickInv == ASSUME AdmissionInv, Tick PROVE AdmissionInv'
<1>1. /\ counter \in [Key -> Counters] /\ admitted \in [Key -> Nat] /\ patience \in [Request -> Nat]
      /\ blocker \in [Request -> Key \cup {NoOne}] /\ request \in [Request -> Requests]
  BY DEF AdmissionInv, AdmissionTypeOK
<1>2. /\ UNCHANGED <<request, page, memory, typed>>
      /\ counter' = [k \in Key |->
           IF counter[k].ttl = 0 THEN [n |-> 0, ttl |-> 0] ELSE [counter[k] EXCEPT !.ttl = @ - 1]]
      /\ admitted' = [k \in Key |-> IF Expires(k) THEN 0 ELSE admitted[k]]
      /\ patience' = [r \in Request |-> IF patience[r] = 0 THEN 0 ELSE patience[r] - 1]
      /\ blocker' = [r \in Request |->
           IF blocker[r] # NoOne /\ Expires(blocker[r]) THEN NoOne ELSE blocker[r]]
  BY DEF Tick, docsVars
<1>3. ASSUME NEW k \in Key
      PROVE  /\ counter'[k] \in Counters /\ counter[k].n \in Nat /\ counter[k].ttl \in Nat
             /\ counter[k].ttl = 0 => counter'[k].n = 0
             /\ counter[k].ttl # 0 => counter'[k].n = counter[k].n /\ counter'[k].ttl = counter[k].ttl - 1
  <2>1. counter[k] \in Counters /\ counter[k].n \in Nat /\ counter[k].ttl \in Nat
    BY <1>1 DEF Counters
  <2>2. CASE counter[k].ttl = 0
    <3>1. counter'[k] = [n |-> 0, ttl |-> 0] BY <1>2, <2>2
    <3> QED BY <2>1, <2>2, <3>1 DEF Counters
  <2>3. CASE counter[k].ttl # 0
    <3>1. counter'[k] = [counter[k] EXCEPT !.ttl = @ - 1] BY <1>2, <2>3
    <3>2. counter'[k] = [n |-> counter[k].n, ttl |-> counter[k].ttl - 1] BY <2>1, <3>1 DEF Counters
    <3> QED BY <2>1, <2>3, <3>2 DEF Counters
  <2> QED BY <2>2, <2>3
<1>4. AdmissionTypeOK'
  <2>1. counter' \in [Key -> Counters]
    BY <1>2, <1>3
  <2>2. admitted' \in [Key -> Nat] /\ patience' \in [Request -> Nat]
    <3>1. \A r \in Request : patience[r] \in Nat
      BY <1>1
    <3>2. \A r \in Request : (IF patience[r] = 0 THEN 0 ELSE patience[r] - 1) \in Nat
      BY <3>1
    <3>3. \A k \in Key : (IF Expires(k) THEN 0 ELSE admitted[k]) \in Nat
      BY <1>1
    <3> QED BY <1>2, <3>2, <3>3
  <2>3. blocker' \in [Request -> Key \cup {NoOne}] /\ request' \in [Request -> Requests]
    BY <1>1, <1>2
  <2> QED BY <2>1, <2>2, <2>3 DEF AdmissionTypeOK
<1>5. AdmittedCounted'
  <2> SUFFICES ASSUME NEW k \in Key PROVE admitted'[k] <= counter'[k].n /\ admitted'[k] <= LimitOf(k)
    BY DEF AdmittedCounted, LimitOf
  <2>1. /\ admitted[k] <= counter[k].n /\ admitted[k] <= LimitOf(k) /\ admitted[k] \in Nat
        /\ LimitOf(k) \in Nat
    BY <1>1, LimitType DEF AdmissionInv, AdmittedCounted
  <2>2. admitted'[k] = IF counter[k].n > 0 /\ counter[k].ttl = 0 THEN 0 ELSE admitted[k]
    BY <1>2 DEF Expires
  <2>3. counter'[k].n \in Nat
    BY <1>3 DEF Counters
  <2> QED BY <1>3, <2>1, <2>2, <2>3
<1>6. BlockerEnds'
  <2> SUFFICES ASSUME NEW r \in Request, blocker'[r] # NoOne
               PROVE  counter'[blocker'[r]].n > 0 /\ counter'[blocker'[r]].ttl < patience'[r]
    BY DEF BlockerEnds
  <2>1. /\ blocker'[r] = blocker[r] /\ blocker[r] \in Key /\ ~Expires(blocker[r])
        /\ patience[r] \in Nat
    BY <1>1, <1>2
  <2>2. counter[blocker[r]].n > 0 /\ counter[blocker[r]].ttl < patience[r]
    BY <2>1 DEF AdmissionInv, BlockerEnds
  <2>3. counter[blocker[r]].ttl # 0
    BY <2>1, <2>2 DEF Expires
  <2>4. /\ counter'[blocker[r]].n = counter[blocker[r]].n
        /\ counter'[blocker[r]].ttl = counter[blocker[r]].ttl - 1
        /\ counter[blocker[r]].ttl \in Nat
    BY <1>3, <2>1, <2>3
  <2>5. patience'[r] = IF patience[r] = 0 THEN 0 ELSE patience[r] - 1
    BY <1>2
  <2> QED BY <2>1, <2>2, <2>4, <2>5
<1>7. PageInv'
  BY <1>2 DEF AdmissionInv, PageInv
<1> QED BY <1>4, <1>5, <1>6, <1>7 DEF AdmissionInv

LEMMA BrowseInv == ASSUME AdmissionInv, Browse PROVE AdmissionInv'
<1>1. UNCHANGED <<counter, request, patience, admitted, blocker>>
  BY DEF Browse
<1>2. PageInv'
  <2>1. \A query : Load(query) => page' = Settings /\ memory' = NoOne
    BY DEF Load, Settings
  <2>2. \A u \in User : Authorize(u) => PageInv'
    BY DEF AdmissionInv, PageInv, Authorize
  <2>3. Logout \/ Close => PageInv'
    BY DEF AdmissionInv, PageInv, Logout, Close
  <2> QED BY <2>1, <2>2, <2>3 DEF Browse, DocsNext, PageInv
<1> QED BY <1>1, <1>2 DEF AdmissionInv, AdmissionTypeOK, AdmittedCounted, BlockerEnds, LimitOf

LEMMA AdmissionStep == AdmissionInv /\ [Next]_vars => AdmissionInv'
<1> SUFFICES ASSUME AdmissionInv, [Next]_vars PROVE AdmissionInv'
  OBVIOUS
<1>1. CASE Outage \/ UNCHANGED vars
  <2>1. UNCHANGED <<counter, request, patience, admitted, blocker, page, memory, typed>>
    BY <1>1 DEF Outage, vars, docsVars
  <2> QED BY <2>1 DEF AdmissionInv, AdmissionTypeOK, AdmittedCounted, BlockerEnds, PageInv, LimitOf
<1> QED BY <1>1, SendInv, BeforeInv, AuthenticateInv, AfterInv, RetryInv, FrameInv, TickInv, BrowseInv
        DEF Next

-----------------------------------------------------------------------------
(* Theorems                                                                *)

\* The inductive invariant of the quotas and the page.
THEOREM AdmissionInvariant == Spec => []AdmissionInv
  BY AdmissionInit, AdmissionStep, PTL DEF Spec

\* Lost answers, repeated commands, outages and any number of instances let no more pass
\* in one window than its key is allowed.
THEOREM AlwaysWithinLimit == Spec => []WithinLimit
<1>1. AdmissionInv => WithinLimit
  BY DEF AdmissionInv, AdmittedCounted, WithinLimit
<1> QED BY <1>1, AdmissionInvariant, PTL

\* Whoever waits the seconds of Retry-After is past the window that refused him, for any
\* clock of Redis.
THEOREM WaitAlwaysEnough == Spec => []WaitIsEnough
<1>1. AdmissionInv => WaitIsEnough
  <2> SUFFICES ASSUME AdmissionInv, NEW r \in Request, patience[r] = 0, blocker[r] # NoOne PROVE FALSE
    BY DEF WaitIsEnough
  <2>1. blocker[r] \in Key /\ counter[blocker[r]].ttl < 0
    BY DEF AdmissionInv, AdmissionTypeOK, BlockerEnds
  <2>2. counter[blocker[r]].ttl \in Nat
    BY <2>1 DEF AdmissionInv, AdmissionTypeOK, Counters
  <2> QED BY <2>1, <2>2
<1> QED BY <1>1, AdmissionInvariant, PTL

\* The page sends no token that was not typed into it since it was loaded, whatever its
\* query string asked for.
THEOREM TokenAlwaysForgotten == Spec => TokenForgotten
<1>1. AdmissionInv =>
        [\A r \in Request : FromDocs(r) => request'[r].token \in typed \cup {NoOne}]_vars
  <2> SUFFICES ASSUME AdmissionInv, NEW r \in Request, FromDocs(r)
               PROVE  request'[r].token \in typed \cup {NoOne}
    OBVIOUS
  <2>1. PICK q \in TryItOut : request' = [request EXCEPT ![r] = q]
    BY DEF FromDocs
  <2>2. request'[r] = q /\ q.token = memory
    BY <2>1 DEF TryItOut, AdmissionInv, AdmissionTypeOK
  <2> QED BY <2>2 DEF AdmissionInv, PageInv
<1> QED BY <1>1, AdmissionInvariant, PTL DEF TokenForgotten
=============================================================================
