------------------------------ MODULE Service ------------------------------
(***************************************************************************)
(* The assembled service (server/src/lib.rs, main.rs, config.rs): requests *)
(* pass the request timeout, the counting middleware and, on the public    *)
(* surface, the rate limit of RateLimit, and work through SQL statements   *)
(* on a pool of connections, with a statement timeout.  The service starts *)
(* from a configuration, and stops when it is told to.                     *)
(*                                                                         *)
(* Layers added later are outer ones (axum), so the timeout is outside the *)
(* counting middleware.                                                    *)
(***************************************************************************)
EXTENDS RateLimit, Sequences, FiniteSets

CONSTANTS
    Slots,          \* requests that can be in flight at a time
    Connections,    \* the pool (max_connections)
    Routes,         \* what is asked for
    Configs,        \* the configurations the service is started with
    MaxRequests,    \* bound of the exploration: requests per run of the service
    MaxStarts       \* bound of the exploration: starts of the service

\* What a request costs: the budget it is limited by, and the statements it
\* sends, in groups that stay on one connection (a transaction).
Route == [budget : Budgets \cup {"none"}, plan : Seq(Nat \ {0})]

\* secret is its length; the timeouts are in seconds.
Config == [url : BOOLEAN, secret : Nat, limits : Limits,
           requestTimeout : Nat, statementTimeout : Nat]

ASSUME ServiceAssumption ==
    /\ Routes \subseteq Route
    /\ Configs \subseteq Config

VARIABLES
    phase,      \* of the process
    config,     \* what the running service was started with
    stage,      \* of each slot: "free", "waiting" for a connection, "running"
    plan,       \* the statements each request still has to send
    age,        \* ticks since each request arrived
    holder,     \* who has each connection: a slot, Nobody or Dropped
    ran,        \* ticks the statement on each connection has been running
    arrived,    \* history: requests that came in, per run of the service
    given,      \* history: answers senders and readers got, by status
    gone,       \* history: requests whose client went away
    counted,    \* http_requests_total, by status
    starts      \* how often the service was started

processVars == <<phase, config, starts>>
requestVars == <<stage, plan, age>>
poolVars == <<holder, ran>>
countVars == <<arrived, given, gone, counted>>
serviceVars == <<rateVars, processVars, requestVars, poolVars, countVars>>

Nobody == "nobody"
Dropped == "dropped"

ASSUME SlotsAssumption == IsFiniteSet(Slots) /\ Nobody \notin Slots /\ Dropped \notin Slots

Statuses == {"ok", "limited", "internal", "unavailable"}

NoConfig == [url |-> FALSE, secret |-> 0, limits |-> NoLimits,
             requestTimeout |-> 0, statementTimeout |-> 0]
NoCounts == [status \in Statuses |-> 0]

MinSecret == 32

\* Config::load: a database and a secret that is long enough.
Loads(c) == c.url /\ c.secret >= MinSecret

RequestTime == config.requestTimeout * Second
StatementTime == config.statementTimeout * Second

InFlight == {s \in Slots : stage[s] # "free"}
Holds(s, k) == holder[k] = s

\* An answer from below the timeout layer passes the counting middleware.
Answer(status) ==
    /\ given' = [given EXCEPT ![status] = @ + 1]
    /\ counted' = [counted EXCEPT ![status] = @ + 1]

Free(s) ==
    /\ stage' = [stage EXCEPT ![s] = "free"]
    /\ plan' = [plan EXCEPT ![s] = << >>]
    /\ age' = [age EXCEPT ![s] = 0]

GiveBack(k) ==
    /\ holder' = [holder EXCEPT ![k] = Nobody]
    /\ ran' = [ran EXCEPT ![k] = 0]

-----------------------------------------------------------------------------
ServiceInit ==
    /\ RateInit
    /\ phase = "stopped"
    /\ config = NoConfig
    /\ stage = [s \in Slots |-> "free"]
    /\ plan = [s \in Slots |-> << >>]
    /\ age = [s \in Slots |-> 0]
    /\ holder = [k \in Connections |-> Nobody]
    /\ ran = [k \in Connections |-> 0]
    /\ arrived = 0
    /\ given = NoCounts
    /\ gone = 0
    /\ counted = NoCounts
    /\ starts = 0

\* Configuration, schemas, metrics, database, listener and router all work: the
\* service answers.
Start(c) ==
    /\ phase = "stopped"
    /\ starts < MaxStarts
    /\ Loads(c)
    /\ Configure(c.limits)
    /\ phase' = "serving"
    /\ config' = c
    /\ starts' = starts + 1
    /\ holder' = [k \in Connections |-> Nobody]
    /\ ran' = [k \in Connections |-> 0]
    /\ arrived' = 0
    /\ given' = NoCounts
    /\ gone' = 0
    /\ counted' = NoCounts
    /\ UNCHANGED requestVars

\* One of them does not, which it may do with any configuration.
StartFails ==
    /\ phase = "stopped"
    /\ starts < MaxStarts
    /\ starts' = starts + 1
    /\ UNCHANGED <<rateVars, phase, config, requestVars, poolVars, countVars>>

Arrive ==
    /\ phase = "serving"
    /\ arrived < MaxRequests
    /\ arrived' = arrived + 1

\* A request on a limited route when the client's budget is spent.
TurnAway(client, r) ==
    /\ Arrive
    /\ r.budget # "none"
    /\ Refuse(client, r.budget)
    /\ Answer("limited")
    /\ UNCHANGED <<processVars, requestVars, poolVars, gone>>

\* The health check: no limit and no database.
ServeAtOnce(r) ==
    /\ Arrive
    /\ r.budget = "none"
    /\ r.plan = << >>
    /\ Answer("ok")
    /\ UNCHANGED <<rateVars, processVars, requestVars, poolVars, gone>>

TakeIn(client, s, r) ==
    /\ Arrive
    /\ r.plan # << >>
    /\ stage[s] = "free"
    /\ IF r.budget = "none" THEN UNCHANGED rateVars ELSE Admit(client, r.budget)
    /\ stage' = [stage EXCEPT ![s] = "waiting"]
    /\ plan' = [plan EXCEPT ![s] = r.plan]
    /\ UNCHANGED <<age, processVars, poolVars, given, gone, counted>>

\* The pool hands out a free connection, and the next statement is sent.
Acquire(s, k) ==
    /\ stage[s] = "waiting"
    /\ holder[k] = Nobody
    /\ stage' = [stage EXCEPT ![s] = "running"]
    /\ holder' = [holder EXCEPT ![k] = s]
    /\ ran' = [ran EXCEPT ![k] = 0]
    /\ UNCHANGED <<rateVars, processVars, plan, age, countVars>>

\* The statement has ended, and the same transaction sends its next one.
NextStatement(s, k) ==
    /\ stage[s] = "running"
    /\ Holds(s, k)
    /\ Head(plan[s]) > 1
    /\ plan' = [plan EXCEPT ![s][1] = @ - 1]
    /\ ran' = [ran EXCEPT ![k] = 0]
    /\ UNCHANGED <<rateVars, processVars, stage, age, holder, countVars>>

\* Mutant: one connection is kept while the next is asked for.
KeepAndAsk(s, k) ==
    /\ stage[s] = "running"
    /\ Holds(s, k)
    /\ Head(plan[s]) = 1
    /\ Len(plan[s]) > 1
    /\ plan' = [plan EXCEPT ![s] = Tail(@)]
    /\ stage' = [stage EXCEPT ![s] = "waiting"]
    /\ UNCHANGED <<rateVars, processVars, age, poolVars, countVars>>

\* The connection goes back before the handler asks for one again.
NextGroup(s, k) ==
    /\ stage[s] = "running"
    /\ Holds(s, k)
    /\ Head(plan[s]) = 1
    /\ Len(plan[s]) > 1
    /\ plan' = [plan EXCEPT ![s] = Tail(@)]
    /\ stage' = [stage EXCEPT ![s] = "waiting"]
    /\ GiveBack(k)
    /\ UNCHANGED <<rateVars, processVars, age, countVars>>

Finish(s, k) ==
    /\ stage[s] = "running"
    /\ Holds(s, k)
    /\ plan[s] = <<1>>
    /\ GiveBack(k)
    /\ Free(s)
    /\ Answer("ok")
    /\ UNCHANGED <<rateVars, processVars, arrived, gone>>

\* A statement fails, at the latest when it has run for statement_timeout.
Fail(s, k) ==
    /\ stage[s] = "running"
    /\ Holds(s, k)
    /\ GiveBack(k)
    /\ Free(s)
    /\ Answer("internal")
    /\ UNCHANGED <<rateVars, processVars, arrived, gone>>

\* The pool has no connection to give: it waited too long, or the database
\* does not take one.
NoConnection(s) ==
    /\ stage[s] = "waiting"
    /\ Free(s)
    /\ Answer("internal")
    /\ UNCHANGED <<rateVars, processVars, poolVars, arrived, gone>>

\* The handler is dropped.  Its connection is busy until the statement ends.
Drop(s) ==
    /\ holder' = [k \in Connections |-> IF Holds(s, k) THEN Dropped ELSE holder[k]]
    /\ UNCHANGED ran

\* Mutant: the timeout bounds what runs, and not the wait for the pool.
TimeOutRunning(s) ==
    /\ stage[s] = "running"
    /\ age[s] >= RequestTime
    /\ Drop(s)
    /\ Free(s)
    /\ given' = [given EXCEPT !["unavailable"] = @ + 1]
    /\ UNCHANGED <<rateVars, processVars, arrived, gone, counted>>

\* Mutant: the timeout bounds the wait for the pool, and not what runs.
TimeOutWaiting(s) ==
    /\ stage[s] = "waiting"
    /\ age[s] >= RequestTime
    /\ Drop(s)
    /\ Free(s)
    /\ given' = [given EXCEPT !["unavailable"] = @ + 1]
    /\ UNCHANGED <<rateVars, processVars, arrived, gone, counted>>

\* The request's time is up: 503.  The middleware inside never sees it.
TimeOut(s) ==
    /\ stage[s] # "free"
    /\ age[s] >= RequestTime
    /\ Drop(s)
    /\ Free(s)
    /\ given' = [given EXCEPT !["unavailable"] = @ + 1]
    /\ UNCHANGED <<rateVars, processVars, arrived, gone, counted>>

\* The client closes its connection: nobody is there to answer.
GoAway(s) ==
    /\ stage[s] # "free"
    /\ Drop(s)
    /\ Free(s)
    /\ gone' = gone + 1
    /\ UNCHANGED <<rateVars, processVars, arrived, given, counted>>

\* The statement of a dropped handler ends.
Recover(k) ==
    /\ holder[k] = Dropped
    /\ GiveBack(k)
    /\ UNCHANGED <<rateVars, processVars, requestVars, countVars>>

\* statement_timeout; PostgreSQL takes 0 for no limit.
Limited == config.statementTimeout > 0

\* A tick: no statement runs beyond its timeout, no request beyond its own.
Tick ==
    /\ \A k \in Connections : Limited /\ holder[k] # Nobody => ran[k] < StatementTime
    /\ \A s \in Slots : stage[s] # "free" => age[s] < RequestTime
    /\ Refill
    /\ age' = [s \in Slots |-> IF stage[s] = "free" THEN 0 ELSE age[s] + 1]
    /\ ran' = [k \in Connections |-> IF Limited /\ holder[k] # Nobody THEN ran[k] + 1 ELSE 0]
    /\ UNCHANGED <<processVars, stage, plan, holder, countVars>>

\* SIGTERM or Ctrl-C: no new requests.
Terminate ==
    /\ phase = "serving"
    /\ phase' = "draining"
    /\ UNCHANGED <<rateVars, config, starts, requestVars, poolVars, countVars>>

\* Mutant: the process exits at once.
StopAtOnce ==
    /\ phase = "draining"
    /\ phase' = "stopped"
    /\ stage' = [s \in Slots |-> "free"]
    /\ plan' = [s \in Slots |-> << >>]
    /\ age' = [s \in Slots |-> 0]
    /\ UNCHANGED <<rateVars, config, starts, poolVars, countVars>>

\* The process exits when the last request was answered.
Stop ==
    /\ phase = "draining"
    /\ InFlight = {}
    /\ phase' = "stopped"
    /\ UNCHANGED <<rateVars, config, starts, requestVars, poolVars, countVars>>

Work(s, k) == NextStatement(s, k) \/ NextGroup(s, k) \/ Finish(s, k) \/ Fail(s, k)

\* All the starts of the exploration were made.
Over == phase = "stopped" /\ starts = MaxStarts /\ UNCHANGED serviceVars

ServiceNext ==
    \/ \E c \in Configs : Start(c)
    \/ \E client \in Clients, r \in Routes :
         TurnAway(client, r) \/ \E s \in Slots : TakeIn(client, s, r)
    \/ \E r \in Routes : ServeAtOnce(r)
    \/ \E s \in Slots, k \in Connections : Acquire(s, k) \/ Work(s, k)
    \/ \E s \in Slots : TimeOut(s) \/ GoAway(s) \/ NoConnection(s)
    \/ \E k \in Connections : Recover(k)
    \/ StartFails \/ Tick \/ Terminate \/ Stop \/ Over

ServiceSpec == ServiceInit /\ [][ServiceNext]_serviceVars

\* Time goes on, timers fire and a service that may exit does.  A statement ends
\* where it has a timeout; without one nothing is assumed of it.
FairServiceSpec ==
    /\ ServiceSpec
    /\ WF_serviceVars(Tick)
    /\ WF_serviceVars(Stop)
    /\ \A s \in Slots : WF_serviceVars(TimeOut(s))
    /\ \A k \in Connections :
         /\ WF_serviceVars(Limited /\ Recover(k))
         /\ WF_serviceVars(Limited /\ \E s \in Slots : Work(s, k))

-----------------------------------------------------------------------------
(* Properties. *)

ServiceTypeOK ==
    /\ RateTypeOK
    /\ phase \in {"stopped", "serving", "draining"}
    /\ config \in Config
    /\ stage \in [Slots -> {"free", "waiting", "running"}]
    /\ plan \in [Slots -> Seq(Nat \ {0})]
    /\ age \in [Slots -> Nat]
    /\ holder \in [Connections -> Slots \cup {Nobody, Dropped}]
    /\ ran \in [Connections -> Nat]
    /\ arrived \in Nat /\ gone \in Nat /\ starts \in Nat
    /\ given \in [Statuses -> Nat]
    /\ counted \in [Statuses -> Nat]

\* A connection is busy for a reason that ends: it belongs to a request that
\* runs a statement on it, or its dropped statement is still running.  A request
\* never holds one connection while it waits for another, so requests that all
\* wait for the pool cannot wait for each other, whatever is dropped when.
PoolCannotJam ==
    /\ \A k \in Connections : holder[k] \in Slots => stage[holder[k]] = "running"
    /\ \A s \in Slots : stage[s] = "running" => \E k \in Connections : Holds(s, k)
    /\ \A k, j \in Connections : holder[k] \in Slots /\ holder[j] = holder[k] => k = j

\* Every request that came in is in flight, was answered once, or lost its
\* client: neither a timeout that races an answer nor a shutdown loses one.  And
\* whatever is answered from below the timeout layer is counted once, with the
\* status that was given, the refusals of the rate limiter and failures too.
EveryRequestIsAnswered ==
    /\ arrived = Cardinality(InFlight) + gone
                   + given["ok"] + given["limited"] + given["internal"] + given["unavailable"]
    /\ \A status \in Statuses \ {"unavailable"} : counted[status] = given[status]

\* "Outermost, so it sees the status a caller actually gets - including the one
\* the timeout layer below produces" (server/src/lib.rs:89).
EveryAnswerIsCounted == \A status \in Statuses : counted[status] = given[status]

\* The service exits after it was told to, whatever its requests wait for.
ShutdownCompletes == phase = "draining" ~> phase = "stopped"

\* Every request comes to its end, also when the pool is exhausted.
EveryRequestEnds == \A s \in Slots : stage[s] # "free" ~> stage[s] = "free"
=============================================================================
