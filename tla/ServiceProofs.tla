---------------------------- MODULE ServiceProofs ----------------------------
(***************************************************************************)
(* Proofs about RateLimit, for every resolution of time, every rate and    *)
(* every burst, and about Service, for any pool, any number of requests in *)
(* flight, any routes and configurations: it keeps to its rate limits,     *)
(* answers every request once, and its pool cannot jam.                    *)
(***************************************************************************)
EXTENDS Service, TLAPS, FiniteSetTheorems

-----------------------------------------------------------------------------
(* The buckets. *)

\* What the wait of a bucket is worth: it is bounded by what the client was told.
HintIsEnough ==
    \A c \in Clients, b \in Budgets :
        hint[c][b] >= 0 => Usable(limits) /\ Wait(c, b) <= hint[c][b]

\* A bucket never holds more than fits.
BucketHolds ==
    Usable(limits) => \A c \in Clients, b \in Budgets : debt[c][b] <= Capacity(b)

RateInv == RateTypeOK /\ HintIsEnough /\ BucketHolds

-----------------------------------------------------------------------------
(* Arithmetic. *)

\* What division leaves: less than one divisor.
LEMMA DivisionFits ==
    ASSUME NEW n \in Nat, NEW m \in Nat \ {0}
    PROVE  /\ n \div m \in Nat
           /\ (n \div m) * m <= n
           /\ n < (n \div m) * m + m
OBVIOUS

\* Dividing makes nothing larger.
LEMMA DivisionShrinks ==
    ASSUME NEW n \in Nat, NEW m \in Nat \ {0}
    PROVE  n \div m <= n
<1> DEFINE q == n \div m
<1>1. q \in Nat /\ q * m <= n
  BY DivisionFits
<1>2. q <= q * m
  BY <1>1
<1> QED
  BY <1>1, <1>2

\* The interval is at least a tick and at most a second.
LEMMA IntervalBounds ==
    ASSUME NEW rate \in Nat
    PROVE  Interval(rate) \in Nat /\ 1 <= Interval(rate) /\ Interval(rate) <= Second
<1>1. AtLeastOne(rate) \in Nat \ {0}
  BY DEF AtLeastOne
<1>2. /\ Second \div AtLeastOne(rate) \in Nat
      /\ Second \div AtLeastOne(rate) <= Second
  BY <1>1, DivisionFits, DivisionShrinks, SecondAssumption
<1> QED
  BY <1>2, SecondAssumption DEF Interval, AtLeastOne

\* RateLimits::interval (api/src/limits.rs): rounding to whole ticks never gives
\* a client less than its rate, and less than twice as much.
THEOREM RateIsKept == RateIsNearlyKept
<1> SUFFICES ASSUME NEW rate \in 1..Second
             PROVE  /\ Interval(rate) * rate <= Second
                    /\ Second < 2 * Interval(rate) * rate
  BY DEF RateIsNearlyKept
<1> DEFINE q == Second \div rate
<1>1. rate \in Nat \ {0} /\ rate <= Second /\ Second \in Nat
  BY SecondAssumption
<1>2. q \in Nat /\ q * rate <= Second /\ Second < q * rate + rate
  BY <1>1, DivisionFits
<1>3. q # 0
  BY <1>1, <1>2
<1>4. Interval(rate) = q
  BY <1>1, <1>3 DEF Interval, AtLeastOne
<1>5. rate <= q * rate
  BY <1>1, <1>2, <1>3
<1>6. q * rate + rate <= 2 * q * rate
  BY <1>1, <1>2, <1>5
<1> QED
  BY <1>1, <1>2, <1>4, <1>6

\* A product is at least as large as one factor when the other is not zero.
LEMMA TimesAtLeast ==
    ASSUME NEW m \in Nat \ {0}, NEW n \in Nat
    PROVE  m * n \in Nat /\ n <= m * n
OBVIOUS

-----------------------------------------------------------------------------
(* The buckets. *)

\* The numbers a wait is computed from.
LEMMA BucketTypes ==
    ASSUME RateTypeOK, NEW c \in Clients, NEW b \in Budgets
    PROVE  /\ Cost(b) \in Nat /\ 1 <= Cost(b) /\ Cost(b) <= Second
           /\ Capacity(b) \in Nat
           /\ Wait(c, b) \in Int
<1>1. limits[b].rate \in Nat /\ limits[b].burst \in Nat
  BY DEF RateTypeOK, Limits
<1>2. Cost(b) \in Nat /\ 1 <= Cost(b) /\ Cost(b) <= Second
  BY <1>1, IntervalBounds DEF Cost
<1>3. Capacity(b) \in Nat
  BY <1>1, <1>2 DEF Capacity
<1>4. debt[c][b] \in Nat
  BY DEF RateTypeOK
<1> QED
  BY <1>2, <1>3, <1>4 DEF Wait

\* A client that is refused waits less than the second it is told to wait: no
\* interval is longer, and no bucket is more than full.
LEMMA OneSecond ==
    ASSUME RateTypeOK, BucketHolds, Usable(limits),
           NEW c \in Clients, NEW b \in Budgets, ~Admits(c, b)
    PROVE  /\ RetryAfter(c, b) = 1
           /\ Wait(c, b) <= Second
<1>1. Wait(c, b) \in Nat \ {0}
  BY BucketTypes DEF Admits
<1>2. Wait(c, b) <= Second
  <2>1. debt[c][b] <= Capacity(b) /\ debt[c][b] \in Nat
    BY DEF BucketHolds, RateTypeOK
  <2>2. /\ Cost(b) \in Nat /\ Cost(b) <= Second
        /\ Capacity(b) \in Nat
    BY BucketTypes
  <2> QED
    BY <2>1, <2>2, SecondAssumption DEF Wait
<1> DEFINE q == Wait(c, b) \div Second
<1>3. q \in Nat /\ q * Second <= Wait(c, b)
  BY <1>1, SecondAssumption, DivisionFits
<1>4. q <= 1
  <2> SUFFICES ASSUME q >= 2 PROVE FALSE
    BY <1>3
  <2>1. 2 * Second <= q * Second
    BY <1>3, SecondAssumption
  <2> QED
    BY <2>1, <1>1, <1>2, <1>3, SecondAssumption
<1> QED
  BY <1>2, <1>3, <1>4 DEF RetryAfter, AtLeastOne

LEMMA RateInitInv == RateInit => RateInv
<1> SUFFICES ASSUME RateInit PROVE RateInv
  OBVIOUS
<1>1. RateTypeOK
  BY DEF RateInit, RateTypeOK, NoLimits, Limits
<1>2. HintIsEnough
  BY DEF RateInit, HintIsEnough
<1>3. BucketHolds
  BY DEF RateInit, BucketHolds, Usable, NoLimits, Budgets
<1> QED
  BY <1>1, <1>2, <1>3 DEF RateInv

\* A start: every bucket is full, so what clients still wait for is enough.
LEMMA ConfigureInv ==
    ASSUME RateInv, NEW l \in Limits, Configure(l)
    PROVE  RateInv'
<1> USE DEF RateInv
<1>1. limits' \in Limits /\ Usable(limits')
  BY DEF Configure
<1>2. RateTypeOK'
  BY <1>1 DEF Configure, RateTypeOK
<1>3. ASSUME NEW c \in Clients, NEW b \in Budgets
      PROVE  debt'[c][b] = 0 /\ Capacity(b)' \in Nat /\ Wait(c, b)' \in Int /\ Wait(c, b)' <= 0
  <2>1. limits'[b].burst \in Nat \ {0} /\ limits'[b].rate \in Nat
    BY <1>1 DEF Usable, Limits
  <2>2. Cost(b)' \in Nat
    BY <2>1, IntervalBounds DEF Cost
  <2>3. Capacity(b)' \in Nat /\ Cost(b)' <= Capacity(b)'
    BY <2>1, <2>2, TimesAtLeast DEF Capacity
  <2>4. debt'[c][b] = 0
    BY DEF Configure
  <2> QED
    BY <2>2, <2>3, <2>4 DEF Wait
<1>4. HintIsEnough'
  <2> SUFFICES ASSUME NEW c \in Clients, NEW b \in Budgets, hint'[c][b] >= 0
               PROVE  Usable(limits') /\ Wait(c, b)' <= hint'[c][b]
    BY DEF HintIsEnough
  <2>1. Wait(c, b)' <= 0 /\ Wait(c, b)' \in Int
    BY <1>3
  <2>2. hint'[c][b] \in Nat
    BY <1>2 DEF RateTypeOK
  <2> QED
    BY <1>1, <2>1, <2>2
<1>5. BucketHolds'
  BY <1>3 DEF BucketHolds
<1> QED
  BY <1>2, <1>4, <1>5

\* A request that is served: its bucket had room for it.
LEMMA AdmitInv ==
    ASSUME RateInv, NEW c \in Clients, NEW b \in Budgets, Admit(c, b)
    PROVE  RateInv'
<1> USE DEF RateInv
<1>1. /\ limits' = limits
      /\ debt' = [debt EXCEPT ![c][b] = debt[c][b] + Cost(b)]
      /\ hint' = [hint EXCEPT ![c][b] = -1]
      /\ Usable(limits)
      /\ Wait(c, b) <= 0
  BY DEF Admit, Admits
<1>2. RateTypeOK'
  BY <1>1, BucketTypes DEF RateTypeOK
<1>3. ASSUME NEW d \in Clients, NEW e \in Budgets, <<d, e>> # <<c, b>>
      PROVE  debt'[d][e] = debt[d][e] /\ hint'[d][e] = hint[d][e]
  BY <1>1, <1>3 DEF RateTypeOK
<1>4. debt'[c][b] = debt[c][b] + Cost(b) /\ hint'[c][b] = -1
  BY <1>1 DEF RateTypeOK
<1>5. HintIsEnough'
  <2> SUFFICES ASSUME NEW d \in Clients, NEW e \in Budgets, hint'[d][e] >= 0
               PROVE  Usable(limits') /\ Wait(d, e)' <= hint'[d][e]
    BY DEF HintIsEnough
  <2>1. <<d, e>> # <<c, b>>
    BY <1>4
  <2> QED
    BY <2>1, <1>1, <1>3 DEF HintIsEnough, Wait, Cost, Capacity
<1>6. BucketHolds'
  <2> SUFFICES ASSUME NEW d \in Clients, NEW e \in Budgets
               PROVE  debt'[d][e] <= Capacity(e)'
    BY DEF BucketHolds
  <2>1. Capacity(e)' = Capacity(e)
    BY <1>1 DEF Capacity, Cost
  <2>2. CASE <<d, e>> # <<c, b>>
    BY <2>1, <2>2, <1>1, <1>3 DEF BucketHolds
  <2>3. CASE d = c /\ e = b
    BY <2>1, <2>3, <1>1, <1>4, BucketTypes DEF Wait, RateTypeOK
  <2> QED
    BY <2>2, <2>3
<1> QED
  BY <1>2, <1>5, <1>6

\* A request that is refused: the second it is told to wait is enough.
LEMMA RefuseInv ==
    ASSUME RateInv, NEW c \in Clients, NEW b \in Budgets, Refuse(c, b)
    PROVE  RateInv'
<1> USE DEF RateInv
<1>1. /\ limits' = limits /\ debt' = debt
      /\ hint' = [hint EXCEPT ![c][b] = RetryAfter(c, b) * Second]
      /\ Usable(limits)
  BY DEF Refuse
<1>2. RetryAfter(c, b) = 1 /\ Wait(c, b) <= Second
  BY OneSecond DEF Refuse
<1>3. hint' = [hint EXCEPT ![c][b] = Second]
  <2>1. RetryAfter(c, b) * Second = Second
    BY <1>2, SecondAssumption
  <2> QED
    BY <1>1, <2>1
<1>4. RateTypeOK'
  BY <1>1, <1>3, SecondAssumption DEF RateTypeOK
<1>5. HintIsEnough'
  <2> SUFFICES ASSUME NEW d \in Clients, NEW e \in Budgets, hint'[d][e] >= 0
               PROVE  Usable(limits') /\ Wait(d, e)' <= hint'[d][e]
    BY DEF HintIsEnough
  <2>1. Wait(d, e)' = Wait(d, e)
    BY <1>1 DEF Wait, Cost, Capacity
  <2>2. CASE <<d, e>> # <<c, b>>
    BY <2>1, <2>2, <1>1, <1>3 DEF HintIsEnough, RateTypeOK
  <2>3. CASE d = c /\ e = b
    BY <2>1, <2>3, <1>1, <1>2, <1>3 DEF RateTypeOK
  <2> QED
    BY <2>2, <2>3
<1>6. BucketHolds'
  BY <1>1 DEF BucketHolds, Capacity, Cost
<1> QED
  BY <1>4, <1>5, <1>6

\* A tick shortens the wait as much as it shortens what was told, unless there
\* is nothing left to wait for.
LEMMA RefillInv ==
    ASSUME RateInv, Refill
    PROVE  RateInv'
<1> USE DEF RateInv
<1>1. ASSUME NEW c \in Clients, NEW b \in Budgets
      PROVE  /\ debt[c][b] \in Nat /\ hint[c][b] \in Nat \cup {-1}
             /\ debt'[c][b] = Down(debt[c][b]) /\ hint'[c][b] = Down(hint[c][b])
             /\ Cost(b)' = Cost(b) /\ Capacity(b)' = Capacity(b)
  BY DEF Refill, RateTypeOK, Cost, Capacity
<1>2. limits' = limits
  BY DEF Refill
<1>3. RateTypeOK'
  <2>1. \A n \in Nat : Down(n) \in Nat
    BY DEF Down
  <2>2. \A n \in Nat \cup {-1} : Down(n) \in Nat \cup {-1}
    BY DEF Down
  <2> QED
    BY <1>2, <2>1, <2>2 DEF RateTypeOK, Refill
<1>4. HintIsEnough'
  <2> SUFFICES ASSUME NEW c \in Clients, NEW b \in Budgets, hint'[c][b] >= 0
               PROVE  Usable(limits') /\ Wait(c, b)' <= hint'[c][b]
    BY DEF HintIsEnough
  <2>1. hint[c][b] >= 0
    BY <1>1 DEF Down
  <2>2. Usable(limits) /\ Wait(c, b) <= hint[c][b]
    BY <2>1 DEF HintIsEnough
  <2>3. limits[b].burst \in Nat \ {0} /\ Cost(b) \in Nat
    BY <2>2, BucketTypes DEF Usable, RateTypeOK, Limits
  <2>4. Cost(b) <= Capacity(b) /\ Capacity(b) \in Nat
    BY <2>3, TimesAtLeast DEF Capacity
  <2> QED
    BY <1>1, <1>2, <2>1, <2>2, <2>3, <2>4 DEF Wait, Down
<1>5. BucketHolds'
  <2> SUFFICES ASSUME Usable(limits), NEW c \in Clients, NEW b \in Budgets
               PROVE  debt'[c][b] <= Capacity(b)'
    BY <1>2 DEF BucketHolds
  <2> QED
    BY <1>1, BucketTypes DEF BucketHolds, Down
<1> QED
  BY <1>3, <1>4, <1>5

\* What a step of the limiter, or of anything that leaves it alone, preserves.
LEMMA RateStepInv ==
    ASSUME RateInv, [RateNext]_rateVars
    PROVE  RateInv'
<1>1. CASE UNCHANGED rateVars
  BY <1>1 DEF rateVars, RateInv, RateTypeOK, HintIsEnough, BucketHolds, Wait, Capacity, Cost
<1>2. ASSUME NEW l \in Limits, Configure(l) PROVE RateInv'
  BY <1>2, ConfigureInv
<1>3. ASSUME NEW c \in Clients, NEW b \in Budgets, Admit(c, b) PROVE RateInv'
  BY <1>3, AdmitInv
<1>4. ASSUME NEW c \in Clients, NEW b \in Budgets, Refuse(c, b) PROVE RateInv'
  BY <1>4, RefuseInv
<1>5. CASE Refill
  BY <1>5, RefillInv
<1> QED
  BY <1>1, <1>2, <1>3, <1>4, <1>5 DEF RateNext

LEMMA RateInvIsEnough == RateInv => RetryAfterIsEnough
<1> SUFFICES ASSUME RateInv, NEW c \in Clients, NEW b \in Budgets, hint[c][b] = 0
             PROVE  Admits(c, b)
  BY DEF RetryAfterIsEnough
<1> QED
  BY DEF RateInv, HintIsEnough, Admits

\* limits and buckets keep their types, whatever is asked for when.
THEOREM RateTypeCorrect == RateSpec => []RateTypeOK
<1>1. RateSpec => []RateInv
  BY RateInitInv, RateStepInv, PTL DEF RateSpec
<1> QED
  BY <1>1, PTL DEF RateInv

\* refusal() (api/src/limits.rs) sends a client away for long enough: one that
\* waits for Retry-After and asks for nothing else is served.
THEOREM RetryAfterSuffices == RateSpec => []RetryAfterIsEnough
<1>1. RateSpec => []RateInv
  BY RateInitInv, RateStepInv, PTL DEF RateSpec
<1> QED
  BY <1>1, RateInvIsEnough, PTL

-----------------------------------------------------------------------------
(* The service has the buckets. *)

\* To its clients the service is a rate limiter: whatever else happens to a request.
THEOREM ServiceLimits == ServiceSpec => RateSpec
<1>1. ServiceInit => RateInit
  BY DEF ServiceInit
<1>2. [ServiceNext]_serviceVars => [RateNext]_rateVars
  <2> SUFFICES ASSUME ServiceNext PROVE RateNext \/ UNCHANGED rateVars
    BY DEF serviceVars
  <2>1. ASSUME NEW c \in Configs, Start(c) PROVE RateNext
    <3>1. c.limits \in Limits
      BY ServiceAssumption DEF Config
    <3> QED
      BY <2>1, <3>1 DEF Start, RateNext
  <2>2. ASSUME NEW client \in Clients, NEW r \in Routes, TurnAway(client, r) PROVE RateNext
    <3>1. r.budget \in Budgets
      BY <2>2, ServiceAssumption DEF TurnAway, Route
    <3> QED
      BY <2>2, <3>1 DEF TurnAway, RateNext
  <2>3. ASSUME NEW client \in Clients, NEW r \in Routes, NEW s \in Slots, TakeIn(client, s, r)
        PROVE  RateNext \/ UNCHANGED rateVars
    <3>1. r.budget # "none" => r.budget \in Budgets
      BY ServiceAssumption DEF Route
    <3> QED
      BY <2>3, <3>1 DEF TakeIn, RateNext
  <2>4. CASE Tick
    BY <2>4 DEF Tick, RateNext
  <2>5. CASE \/ \E r \in Routes : ServeAtOnce(r)
             \/ \E s \in Slots, k \in Connections : Acquire(s, k) \/ Work(s, k)
             \/ \E s \in Slots : TimeOut(s) \/ GoAway(s) \/ NoConnection(s)
             \/ \E k \in Connections : Recover(k)
             \/ StartFails \/ Terminate \/ Stop \/ Over
    BY <2>5 DEF ServeAtOnce, Acquire, Work, NextStatement, NextGroup, Finish, Fail, TimeOut,
                GoAway, NoConnection, Recover, StartFails, Terminate, Stop, Over, serviceVars
  <2> QED
    BY <2>1, <2>2, <2>3, <2>4, <2>5 DEF ServiceNext
<1> QED
  BY <1>1, <1>2, PTL DEF ServiceSpec, RateSpec

\* A refused client that waits as long as it was told is served, in the whole
\* service, through restarts with other limits.
THEOREM ServiceRetryAfterSuffices == ServiceSpec => []RetryAfterIsEnough
BY ServiceLimits, RetryAfterSuffices, PTL

-----------------------------------------------------------------------------
(* Types, and what every step relies on. *)

OwnTypeOK ==
    /\ phase \in {"stopped", "serving", "draining"}
    /\ config \in Config
    /\ stage \in [Slots -> {"free", "waiting", "running"}]
    /\ plan \in [Slots -> Seq(Nat \ {0})]
    /\ age \in [Slots -> Nat]
    /\ holder \in [Connections -> Slots \cup {Nobody, Dropped}]
    /\ ran \in [Connections -> Nat]
    /\ arrived \in Nat /\ gone \in Nat /\ starts \in Nat
    /\ given \in [Statuses -> Nat]
    /\ counted \in [Statuses -> Nat]

\* A request in flight has a statement to send, and a stopped service has none.
FlowInv ==
    /\ \A s \in Slots : stage[s] # "free" => plan[s] # << >>
    /\ phase = "stopped" => \A s \in Slots : stage[s] = "free"

StepInv == OwnTypeOK /\ FlowInv

LEMMA StepInit == ServiceInit => StepInv
<1> SUFFICES ASSUME ServiceInit PROVE StepInv
  OBVIOUS
<1>1. config \in Config
  BY DEF ServiceInit, NoConfig, Config, NoLimits, Limits
<1>2. given \in [Statuses -> Nat] /\ counted \in [Statuses -> Nat]
  BY DEF ServiceInit, NoCounts
<1> QED
  BY <1>1, <1>2 DEF ServiceInit, StepInv, OwnTypeOK, FlowInv

\* One more of a status.
LEMMA CountType ==
    ASSUME NEW counts \in [Statuses -> Nat], NEW status \in Statuses
    PROVE  [counts EXCEPT ![status] = @ + 1] \in [Statuses -> Nat]
OBVIOUS

LEMMA AnswerType ==
    ASSUME StepInv, NEW status \in Statuses, Answer(status)
    PROVE  given' \in [Statuses -> Nat] /\ counted' \in [Statuses -> Nat]
<1>1. given \in [Statuses -> Nat] /\ counted \in [Statuses -> Nat]
  BY DEF StepInv, OwnTypeOK
<1> QED
  BY <1>1, CountType DEF Answer

\* What is left of a plan of several groups.
LEMMA TailType ==
    ASSUME NEW q \in Seq(Nat \ {0}), Len(q) > 1
    PROVE  Tail(q) \in Seq(Nat \ {0}) /\ Tail(q) # << >>
<1>1. Tail(q) \in Seq(Nat \ {0})
  OBVIOUS
<1>2. Len(Tail(q)) = Len(q) - 1 /\ Len(q) \in Nat
  OBVIOUS
<1>3. Len(Tail(q)) # Len(<< >>)
  BY <1>2
<1> QED
  BY <1>1, <1>3, Zenon

LEMMA FreeType ==
    ASSUME StepInv, NEW s \in Slots, Free(s)
    PROVE  /\ stage' \in [Slots -> {"free", "waiting", "running"}]
           /\ plan' \in [Slots -> Seq(Nat \ {0})]
           /\ age' \in [Slots -> Nat]
           /\ \A t \in Slots : stage'[t] # "free" => plan'[t] # << >>
           /\ (\A t \in Slots : stage[t] = "free") => \A t \in Slots : stage'[t] = "free"
BY DEF StepInv, OwnTypeOK, FlowInv, Free

LEMMA GiveBackType ==
    ASSUME StepInv, NEW k \in Connections, GiveBack(k)
    PROVE  /\ holder' \in [Connections -> Slots \cup {Nobody, Dropped}]
           /\ ran' \in [Connections -> Nat]
BY DEF StepInv, OwnTypeOK, GiveBack

LEMMA DropType ==
    ASSUME StepInv, NEW s \in Slots, Drop(s)
    PROVE  /\ holder' \in [Connections -> Slots \cup {Nobody, Dropped}]
           /\ ran' \in [Connections -> Nat]
BY DEF StepInv, OwnTypeOK, Drop

\* A request arrives.
LEMMA ArrivalType ==
    ASSUME StepInv, NEW client, NEW r \in Routes,
           \/ TurnAway(client, r) \/ ServeAtOnce(r)
           \/ \E s \in Slots : TakeIn(client, s, r)
    PROVE  StepInv'
<1> USE DEF StepInv, OwnTypeOK, FlowInv
<1>1. CASE TurnAway(client, r)
  <2>1. given' \in [Statuses -> Nat] /\ counted' \in [Statuses -> Nat]
    BY <1>1, AnswerType DEF TurnAway, Statuses
  <2> QED
    BY <1>1, <2>1 DEF TurnAway, Arrive, processVars, requestVars, poolVars
<1>2. CASE ServeAtOnce(r)
  <2>1. given' \in [Statuses -> Nat] /\ counted' \in [Statuses -> Nat]
    BY <1>2, AnswerType DEF ServeAtOnce, Statuses
  <2> QED
    BY <1>2, <2>1 DEF ServeAtOnce, Arrive, processVars, requestVars, poolVars
<1>3. ASSUME NEW s \in Slots, TakeIn(client, s, r) PROVE StepInv'
  <2>1. r.plan \in Seq(Nat \ {0})
    BY ServiceAssumption DEF Route
  <2> QED
    BY <1>3, <2>1 DEF TakeIn, Arrive, processVars, poolVars
<1> QED
  BY <1>1, <1>2, <1>3

\* A request sends a statement or is done with one.
LEMMA WorkType ==
    ASSUME StepInv, NEW s \in Slots, NEW k \in Connections, Acquire(s, k) \/ Work(s, k)
    PROVE  StepInv'
<1> USE DEF StepInv, OwnTypeOK, FlowInv
<1>1. CASE Acquire(s, k)
  BY <1>1 DEF Acquire, processVars, countVars
<1>2. CASE NextStatement(s, k)
  <2>1. plan[s] \in Seq(Nat \ {0}) /\ plan[s] # << >> /\ Head(plan[s]) > 1
    BY <1>2 DEF NextStatement
  <2>2. [plan[s] EXCEPT ![1] = @ - 1] \in Seq(Nat \ {0})
        /\ [plan[s] EXCEPT ![1] = @ - 1] # << >>
    BY <2>1
  <2>3. plan' = [plan EXCEPT ![s] = [plan[s] EXCEPT ![1] = @ - 1]]
    BY <1>2 DEF NextStatement
  <2>4. plan' \in [Slots -> Seq(Nat \ {0})] /\ \A t \in Slots : plan[t] # << >> => plan'[t] # << >>
    BY <2>2, <2>3
  <2> QED
    BY <1>2, <2>4 DEF NextStatement, processVars, countVars
<1>3. CASE NextGroup(s, k)
  <2>1. plan[s] \in Seq(Nat \ {0}) /\ Len(plan[s]) > 1
    BY <1>3 DEF NextGroup
  <2>2. Tail(plan[s]) \in Seq(Nat \ {0}) /\ Tail(plan[s]) # << >>
    BY <2>1, TailType
  <2> QED
    BY <1>3, <2>2, GiveBackType DEF NextGroup, processVars, countVars
<1>4. CASE Finish(s, k) \/ Fail(s, k)
  <2>1. given' \in [Statuses -> Nat] /\ counted' \in [Statuses -> Nat]
    BY <1>4, AnswerType DEF Finish, Fail, Statuses
  <2>2. GiveBack(k) /\ Free(s) /\ UNCHANGED <<processVars, arrived, gone>>
    BY <1>4 DEF Finish, Fail
  <2> QED
    BY <2>1, <2>2, GiveBackType, FreeType DEF processVars
<1> QED
  BY <1>1, <1>2, <1>3, <1>4 DEF Work

\* A request ends without its statement.
LEMMA EndType ==
    ASSUME StepInv, NEW s \in Slots, TimeOut(s) \/ GoAway(s) \/ NoConnection(s)
    PROVE  StepInv'
<1> USE DEF StepInv, OwnTypeOK, FlowInv
<1>1. /\ given' \in [Statuses -> Nat] /\ counted' \in [Statuses -> Nat]
      /\ arrived' \in Nat /\ gone' \in Nat
  <2>1. CASE TimeOut(s)
    BY <2>1, CountType DEF TimeOut, Statuses
  <2>2. CASE GoAway(s)
    BY <2>2 DEF GoAway
  <2>3. CASE NoConnection(s)
    BY <2>3, AnswerType DEF NoConnection, Statuses
  <2> QED
    BY <2>1, <2>2, <2>3
<1>2. Free(s) /\ UNCHANGED processVars /\ (Drop(s) \/ UNCHANGED poolVars)
  BY DEF TimeOut, GoAway, NoConnection
<1> QED
  BY <1>1, <1>2, FreeType, DropType DEF processVars, poolVars

LEMMA StepStep == StepInv /\ [ServiceNext]_serviceVars => StepInv'
<1> SUFFICES ASSUME StepInv, [ServiceNext]_serviceVars PROVE StepInv'
  OBVIOUS
<1>1. CASE UNCHANGED serviceVars
  BY <1>1 DEF StepInv, OwnTypeOK, FlowInv, serviceVars, processVars, requestVars, poolVars,
              countVars
<1>2. ASSUME NEW c \in Configs, Start(c) PROVE StepInv'
  <2>1. c \in Config /\ NoCounts \in [Statuses -> Nat]
    BY ServiceAssumption DEF NoCounts
  <2> QED
    BY <1>2, <2>1 DEF StepInv, OwnTypeOK, FlowInv, Start, requestVars
<1>3. CASE Tick
  <2>1. age' \in [Slots -> Nat] /\ ran' \in [Connections -> Nat]
    BY <1>3 DEF StepInv, OwnTypeOK, Tick
  <2> QED
    BY <1>3, <2>1 DEF StepInv, OwnTypeOK, FlowInv, Tick, processVars, countVars
<1>4. ASSUME NEW k \in Connections, Recover(k) PROVE StepInv'
  BY <1>4, GiveBackType DEF StepInv, OwnTypeOK, FlowInv, Recover, processVars, requestVars,
                            countVars
<1>5. CASE StartFails \/ Terminate \/ Stop
  BY <1>5 DEF StepInv, OwnTypeOK, FlowInv, StartFails, Terminate, Stop, InFlight, requestVars,
              poolVars, countVars
<1>6. CASE \/ \E client \in Clients, r \in Routes :
                TurnAway(client, r) \/ \E s \in Slots : TakeIn(client, s, r)
           \/ \E r \in Routes : ServeAtOnce(r)
  BY <1>6, ArrivalType
<1>7. CASE \E s \in Slots, k \in Connections : Acquire(s, k) \/ Work(s, k)
  BY <1>7, WorkType
<1>8. CASE \E s \in Slots : TimeOut(s) \/ GoAway(s) \/ NoConnection(s)
  BY <1>8, EndType
<1> QED
  BY <1>1, <1>2, <1>3, <1>4, <1>5, <1>6, <1>7, <1>8 DEF ServiceNext, Over

LEMMA StepInvariance == ServiceSpec => []StepInv
BY StepInit, StepStep, PTL DEF ServiceSpec

\* Every variable of the service keeps its type.
THEOREM ServiceTypeCorrect == ServiceSpec => []ServiceTypeOK
<1>1. StepInv /\ RateTypeOK => ServiceTypeOK
  BY DEF StepInv, OwnTypeOK, ServiceTypeOK
<1> QED
  BY <1>1, StepInvariance, ServiceLimits, RateTypeCorrect, PTL

-----------------------------------------------------------------------------
(* The pool. *)

LEMMA PoolInit == ServiceInit => PoolCannotJam
BY SlotsAssumption DEF ServiceInit, PoolCannotJam, Holds

\* What leaves every slot's stage and every connection as it is.
LEMMA PoolUntouched ==
    ASSUME PoolCannotJam, UNCHANGED <<stage, holder>>
    PROVE  PoolCannotJam'
BY DEF PoolCannotJam, Holds

\* A running request that gives back its connection has no other one.
LEMMA PoolGivenBack ==
    ASSUME StepInv, PoolCannotJam, NEW s \in Slots, NEW k \in Connections, Holds(s, k), GiveBack(k),
           \A t \in Slots \ {s} : stage'[t] = stage[t], stage'[s] # "running"
    PROVE  PoolCannotJam'
<1>1. holder'[k] = Nobody /\ \A j \in Connections \ {k} : holder'[j] = holder[j] /\ holder[j] # s
  BY DEF StepInv, OwnTypeOK, PoolCannotJam, Holds, GiveBack
<1> QED
  BY <1>1, SlotsAssumption DEF PoolCannotJam, Holds

\* A handler that is dropped leaves its connection to nobody.
LEMMA PoolDropped ==
    ASSUME StepInv, PoolCannotJam, NEW s \in Slots, Drop(s), Free(s)
    PROVE  PoolCannotJam'
<1>1. stage'[s] = "free" /\ \A t \in Slots \ {s} : stage'[t] = stage[t]
  BY DEF StepInv, OwnTypeOK, Free
<1>2. \A k \in Connections : holder'[k] = IF Holds(s, k) THEN Dropped ELSE holder[k]
  BY DEF Drop
<1> QED
  BY <1>1, <1>2, SlotsAssumption DEF PoolCannotJam, Holds

LEMMA PoolStep == StepInv /\ PoolCannotJam /\ [ServiceNext]_serviceVars => PoolCannotJam'
<1> SUFFICES ASSUME StepInv, PoolCannotJam, [ServiceNext]_serviceVars PROVE PoolCannotJam'
  OBVIOUS
<1>1. CASE UNCHANGED <<stage, holder>>
  BY <1>1, PoolUntouched
<1>2. ASSUME NEW c \in Configs, Start(c) PROVE PoolCannotJam'
  BY <1>2, SlotsAssumption DEF StepInv, FlowInv, Start, requestVars, PoolCannotJam, Holds
<1>3. ASSUME NEW client \in Clients, NEW r \in Routes, NEW s \in Slots, TakeIn(client, s, r)
      PROVE  PoolCannotJam'
  <2>1. holder' = holder /\ stage[s] = "free" /\ stage' = [stage EXCEPT ![s] = "waiting"]
    BY <1>3 DEF TakeIn, poolVars
  <2> QED
    BY <2>1 DEF StepInv, OwnTypeOK, PoolCannotJam, Holds
<1>4. ASSUME NEW s \in Slots, NEW k \in Connections, Acquire(s, k) PROVE PoolCannotJam'
  <2>1. /\ stage[s] = "waiting" /\ stage' = [stage EXCEPT ![s] = "running"]
        /\ holder[k] = Nobody /\ holder' = [holder EXCEPT ![k] = s]
    BY <1>4 DEF Acquire
  <2>2. /\ stage'[s] = "running" /\ \A t \in Slots \ {s} : stage'[t] = stage[t]
        /\ holder'[k] = s /\ \A j \in Connections \ {k} : holder'[j] = holder[j]
    BY <2>1 DEF StepInv, OwnTypeOK
  <2> QED
    BY <2>1, <2>2, SlotsAssumption DEF PoolCannotJam, Holds
<1>5. ASSUME NEW s \in Slots, NEW k \in Connections, Work(s, k) PROVE PoolCannotJam'
  <2>1. CASE NextStatement(s, k)
    BY <2>1, PoolUntouched DEF NextStatement
  <2>2. CASE NextGroup(s, k) \/ Finish(s, k) \/ Fail(s, k)
    <3>1. Holds(s, k) /\ GiveBack(k)
      BY <2>2 DEF NextGroup, Finish, Fail
    <3>2. (\A t \in Slots \ {s} : stage'[t] = stage[t]) /\ stage'[s] # "running"
      BY <2>2 DEF NextGroup, Finish, Fail, Free, StepInv, OwnTypeOK
    <3> QED
      BY <3>1, <3>2, PoolGivenBack
  <2> QED
    BY <1>5, <2>1, <2>2 DEF Work
<1>6. ASSUME NEW s \in Slots, TimeOut(s) \/ GoAway(s) PROVE PoolCannotJam'
  BY <1>6, PoolDropped DEF TimeOut, GoAway
<1>7. ASSUME NEW s \in Slots, NoConnection(s) PROVE PoolCannotJam'
  <2>1. holder' = holder /\ stage[s] = "waiting" /\ stage' = [stage EXCEPT ![s] = "free"]
    BY <1>7 DEF NoConnection, Free, poolVars
  <2> QED
    BY <2>1 DEF StepInv, OwnTypeOK, PoolCannotJam, Holds
<1>8. ASSUME NEW k \in Connections, Recover(k) PROVE PoolCannotJam'
  <2>1. stage' = stage /\ holder' = [holder EXCEPT ![k] = Nobody] /\ holder[k] = Dropped
    BY <1>8 DEF Recover, GiveBack, requestVars
  <2> QED
    BY <2>1, SlotsAssumption DEF StepInv, OwnTypeOK, PoolCannotJam, Holds
<1>9. \/ \E client \in Clients, r \in Routes : TurnAway(client, r)
      \/ \E r \in Routes : ServeAtOnce(r)
      \/ StartFails \/ Tick \/ Terminate \/ Stop \/ Over \/ UNCHANGED serviceVars
      => UNCHANGED <<stage, holder>>
  BY DEF TurnAway, ServeAtOnce, StartFails, Tick, Terminate, Stop, Over, serviceVars, requestVars,
         poolVars
<1> QED
  BY <1>1, <1>2, <1>3, <1>4, <1>5, <1>6, <1>7, <1>8, <1>9 DEF ServiceNext

\* No request waits for a connection while it holds one, and no connection is
\* held by a request that does not run: what waits for the pool waits only for
\* statements that end.
THEOREM PoolIsNeverJammed == ServiceSpec => []PoolCannotJam
BY PoolInit, PoolStep, StepInvariance, PTL DEF ServiceSpec

-----------------------------------------------------------------------------
(* Every request is accounted for. *)

\* A slot becomes free, or is taken: one request less, or more, is in flight.
LEMMA InFlightCounts ==
    ASSUME StepInv
    PROVE  /\ Cardinality(InFlight) \in Nat
           /\ UNCHANGED stage => Cardinality(InFlight') = Cardinality(InFlight)
           /\ \A s \in Slots : stage[s] # "free" /\ stage' = [stage EXCEPT ![s] = "free"]
                => Cardinality(InFlight') = Cardinality(InFlight) - 1
           /\ \A s \in Slots : stage[s] = "free" /\ stage' = [stage EXCEPT ![s] = "waiting"]
                => Cardinality(InFlight') = Cardinality(InFlight) + 1
           /\ \A s \in Slots : stage[s] # "free" /\ (\/ stage' = [stage EXCEPT ![s] = "waiting"]
                                                     \/ stage' = [stage EXCEPT ![s] = "running"])
                => Cardinality(InFlight') = Cardinality(InFlight)
<1>1. IsFiniteSet(InFlight)
  BY SlotsAssumption, FS_Subset DEF InFlight
<1>2. Cardinality(InFlight) \in Nat
  BY <1>1, FS_CardinalityType
<1>3. UNCHANGED stage => InFlight' = InFlight
  BY DEF InFlight
<1>4. ASSUME NEW s \in Slots, stage[s] # "free", stage' = [stage EXCEPT ![s] = "free"]
      PROVE  Cardinality(InFlight') = Cardinality(InFlight) - 1
  <2>1. InFlight' = InFlight \ {s} /\ s \in InFlight
    BY <1>4 DEF StepInv, OwnTypeOK, InFlight
  <2> QED
    BY <1>1, <2>1, FS_RemoveElement
<1>5. ASSUME NEW s \in Slots, stage[s] = "free", stage' = [stage EXCEPT ![s] = "waiting"]
      PROVE  Cardinality(InFlight') = Cardinality(InFlight) + 1
  <2>1. InFlight' = InFlight \cup {s} /\ s \notin InFlight
    BY <1>5 DEF StepInv, OwnTypeOK, InFlight
  <2> QED
    BY <1>1, <2>1, FS_AddElement
<1>6. ASSUME NEW s \in Slots, stage[s] # "free",
             stage' = [stage EXCEPT ![s] = "waiting"] \/ stage' = [stage EXCEPT ![s] = "running"]
      PROVE  InFlight' = InFlight
  BY <1>6 DEF StepInv, OwnTypeOK, InFlight
<1> QED
  BY <1>2, <1>3, <1>4, <1>5, <1>6

LEMMA AnsweredInit == ServiceInit => EveryRequestIsAnswered
<1> SUFFICES ASSUME ServiceInit PROVE EveryRequestIsAnswered
  OBVIOUS
<1>1. InFlight = {}
  BY DEF ServiceInit, InFlight
<1>2. Cardinality(InFlight) = 0
  BY <1>1, FS_EmptySet
<1> QED
  BY <1>2 DEF ServiceInit, NoCounts, Statuses, EveryRequestIsAnswered

LEMMA NumbersType ==
    ASSUME StepInv
    PROVE  /\ arrived \in Nat /\ gone \in Nat /\ Cardinality(InFlight) \in Nat
           /\ given["ok"] \in Nat /\ given["limited"] \in Nat
           /\ given["internal"] \in Nat /\ given["unavailable"] \in Nat
BY InFlightCounts DEF StepInv, OwnTypeOK, Statuses

\* An answer from below the timeout layer adds one to the answers of its status.
LEMMA AnswerCounts ==
    ASSUME StepInv, EveryRequestIsAnswered, NEW status \in Statuses, Answer(status)
    PROVE  /\ given'[status] = given[status] + 1
           /\ \A other \in Statuses \ {status} : given'[other] = given[other]
           /\ \A other \in Statuses \ {"unavailable"} : counted'[other] = given'[other]
BY DEF StepInv, OwnTypeOK, EveryRequestIsAnswered, Answer

\* Such an answer to a request that just came in, or to one that was in flight.
LEMMA AnsweredAtOnce ==
    ASSUME StepInv, EveryRequestIsAnswered, NEW status \in {"ok", "limited"}, Answer(status),
           arrived' = arrived + 1, UNCHANGED <<stage, gone>>
    PROVE  EveryRequestIsAnswered'
<1>1. status \in Statuses
  BY DEF Statuses
<1> QED
  BY <1>1, NumbersType, InFlightCounts, AnswerCounts DEF EveryRequestIsAnswered, Statuses

LEMMA AnsweredLater ==
    ASSUME StepInv, EveryRequestIsAnswered, NEW status \in {"ok", "internal"}, Answer(status),
           NEW s \in Slots, stage[s] # "free", Free(s), UNCHANGED <<arrived, gone>>
    PROVE  EveryRequestIsAnswered'
<1>1. status \in Statuses
  BY DEF Statuses
<1>2. Cardinality(InFlight') = Cardinality(InFlight) - 1
  BY InFlightCounts DEF Free
<1> QED
  BY <1>1, <1>2, NumbersType, AnswerCounts DEF EveryRequestIsAnswered, Statuses

LEMMA AnsweredSame ==
    ASSUME EveryRequestIsAnswered, Cardinality(InFlight') = Cardinality(InFlight),
           UNCHANGED countVars
    PROVE  EveryRequestIsAnswered'
BY DEF EveryRequestIsAnswered, countVars

LEMMA AnsweredStep ==
    StepInv /\ EveryRequestIsAnswered /\ [ServiceNext]_serviceVars => EveryRequestIsAnswered'
<1> SUFFICES ASSUME StepInv, EveryRequestIsAnswered, [ServiceNext]_serviceVars
             PROVE  EveryRequestIsAnswered'
  OBVIOUS
<1>1. ASSUME NEW c \in Configs, Start(c) PROVE EveryRequestIsAnswered'
  <2>1. InFlight' = {}
    BY <1>1 DEF StepInv, FlowInv, Start, requestVars, InFlight
  <2>2. Cardinality(InFlight') = 0
    BY <2>1, FS_EmptySet
  <2>3. arrived' = 0 /\ gone' = 0 /\ given' = NoCounts /\ counted' = NoCounts
    BY <1>1 DEF Start
  <2> QED
    BY <2>2, <2>3 DEF NoCounts, Statuses, EveryRequestIsAnswered
<1>2. ASSUME NEW client \in Clients, NEW r \in Routes, TurnAway(client, r)
      PROVE  EveryRequestIsAnswered'
  BY <1>2, AnsweredAtOnce DEF TurnAway, Arrive, requestVars
<1>3. ASSUME NEW r \in Routes, ServeAtOnce(r) PROVE EveryRequestIsAnswered'
  BY <1>3, AnsweredAtOnce DEF ServeAtOnce, Arrive, requestVars
<1>4. ASSUME NEW client \in Clients, NEW r \in Routes, NEW s \in Slots, TakeIn(client, s, r)
      PROVE  EveryRequestIsAnswered'
  <2>1. Cardinality(InFlight') = Cardinality(InFlight) + 1
    BY <1>4, InFlightCounts DEF TakeIn
  <2>2. arrived' = arrived + 1 /\ UNCHANGED <<given, gone, counted>>
    BY <1>4 DEF TakeIn, Arrive
  <2> QED
    BY <2>1, <2>2, NumbersType DEF EveryRequestIsAnswered
<1>5. ASSUME NEW s \in Slots, NEW k \in Connections, Acquire(s, k) PROVE EveryRequestIsAnswered'
  BY <1>5, InFlightCounts, AnsweredSame DEF Acquire
<1>6. ASSUME NEW s \in Slots, NEW k \in Connections, Work(s, k) PROVE EveryRequestIsAnswered'
  <2>1. CASE NextStatement(s, k)
    BY <2>1, InFlightCounts, AnsweredSame DEF NextStatement
  <2>2. CASE NextGroup(s, k)
    BY <2>2, InFlightCounts, AnsweredSame DEF NextGroup
  <2>3. CASE Finish(s, k)
    BY <2>3, AnsweredLater DEF Finish
  <2>4. CASE Fail(s, k)
    BY <2>4, AnsweredLater DEF Fail
  <2> QED
    BY <1>6, <2>1, <2>2, <2>3, <2>4 DEF Work
<1>7. ASSUME NEW s \in Slots, TimeOut(s) PROVE EveryRequestIsAnswered'
  <2>1. Cardinality(InFlight') = Cardinality(InFlight) - 1
    BY <1>7, InFlightCounts DEF TimeOut, Free
  <2>2. /\ given' = [given EXCEPT !["unavailable"] = @ + 1] /\ UNCHANGED <<arrived, gone, counted>>
        /\ given \in [Statuses -> Nat]
    BY <1>7 DEF TimeOut, StepInv, OwnTypeOK
  <2> QED
    BY <2>1, <2>2, NumbersType DEF EveryRequestIsAnswered, Statuses
<1>8. ASSUME NEW s \in Slots, GoAway(s) PROVE EveryRequestIsAnswered'
  <2>1. Cardinality(InFlight') = Cardinality(InFlight) - 1
    BY <1>8, InFlightCounts DEF GoAway, Free
  <2>2. gone' = gone + 1 /\ UNCHANGED <<arrived, given, counted>>
    BY <1>8 DEF GoAway
  <2> QED
    BY <2>1, <2>2, NumbersType DEF EveryRequestIsAnswered
<1>9. ASSUME NEW s \in Slots, NoConnection(s) PROVE EveryRequestIsAnswered'
  BY <1>9, AnsweredLater DEF NoConnection
<1>10. CASE UNCHANGED <<stage, countVars>>
  BY <1>10, InFlightCounts, AnsweredSame
<1>11. \/ \E k \in Connections : Recover(k)
       \/ StartFails \/ Tick \/ Terminate \/ Stop \/ Over \/ UNCHANGED serviceVars
       => UNCHANGED <<stage, countVars>>
  BY DEF Recover, StartFails, Tick, Terminate, Stop, Over, serviceVars, requestVars
<1> QED
  BY <1>1, <1>2, <1>3, <1>4, <1>5, <1>6, <1>7, <1>8, <1>9, <1>10, <1>11 DEF ServiceNext

\* Every request is in flight, was answered once or lost its client, however its
\* timeout, its answer and the shutdown race; and what was answered below the
\* timeout layer was counted as it was answered.
THEOREM EveryRequestIsAccountedFor == ServiceSpec => []EveryRequestIsAnswered
BY AnsweredInit, AnsweredStep, StepInvariance, PTL DEF ServiceSpec
=============================================================================
