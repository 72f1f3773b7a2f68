----------------------------- MODULE Collector ------------------------------
(***************************************************************************)
(* The agent's collection loop: metrics.Store.Run, Store.update and        *)
(* Collector.Collect, with the snapshot sessions read.                     *)
(*                                                                         *)
(* The clock is discrete; 0 is Go's zero time and the agent starts at 1.   *)
(* A Collect takes up to MaxCollect ticks, spent anywhere in it: between   *)
(* any two reads, and inside the commands of Custom Metrics.               *)
(*                                                                         *)
(* Run and update take the Collector by value, so every update works on a  *)
(* copy of the one Run was given.  The maps are shared by all copies; the  *)
(* other fields a Collect assigns are lost with its copy.                  *)
(***************************************************************************)
EXTENDS Integers

CONSTANTS
    Metrics,          \* the configured Custom Metrics
    Interval,         \* interval of each Custom Metric, in ticks
    SlowInterval,     \* interval of each slow collector, in ticks
    Update,           \* update_interval, in ticks
    MaxCollect,       \* bound on the ticks one Collect takes
    MaxTime           \* bound on the clock

Slow == {"temperature", "services", "docker"}

ASSUME IntervalAssumption ==
    /\ Interval \in [Metrics -> Nat \ {0}]
    /\ SlowInterval \in [Slow -> Nat \ {0}]
ASSUME TimeAssumption ==
    /\ Update \in Nat \ {0}
    /\ MaxCollect \in Nat
    /\ MaxTime \in Nat \ {0}

VARIABLES
    clock,          \* the wall clock, which is never set back
    ticker,         \* when the ticker fires next; 0 before NewTicker
    tick,           \* a tick waits in ticker.C
    pc,             \* where the loop is
    now,            \* `now' of the Collect under way, or of the last one
    stamp,          \* the Timestamp of its snapshot
    copy,           \* the fields of update's copy of the Collector
    values,         \* what the Collect under way has read so far
    countersAt,     \* the maps disks and network: when they were read
    customLast,     \* the map customLast
    customResults,  \* the map customResults
    todo,           \* ids collectCustom has yet to look at
    running,        \* the id whose command runs
    store,          \* Store.snapshot
    ready,          \* Store.ready
    \* the variables below are read by properties only
    ran,            \* `now' of the latest run of each Custom Metric
    succeeded,      \* when each Custom Metric last succeeded
    slowRead        \* `now' of the latest read of each slow collector

loop    == <<ticker, tick, pc, now, stamp>>
custom  == <<customLast, customResults, todo, running>>
history == <<ran, succeeded, slowRead>>
vars    == <<clock, loop, copy, values, countersAt, custom, store, ready, history>>

Steps == {"starting", "waiting", "host", "devices", "temperature", "services",
          "docker", "custom", "publish"}

Times == 0 .. MaxTime

NoMetric == "none"

ASSUME MetricsAssumption == NoMetric \notin Metrics

\* The collector Run was given: NewCollectorWithIntervals sets no time.
\* A slow collector is the time it was read at and its cached value, which the
\* model identifies with the time it was read.
Given == [previous |-> 0, at |-> [c \in Slow |-> 0]]

\* elapsed since the zero time: a Duration saturates at about 292 years.
Saturated == -1

NoRate == [elapsed |-> 0, over |-> 0]

NoValues == [slow |-> [c \in Slow |-> 0], rate |-> NoRate]

NoResult == [present |-> FALSE, status |-> "none", lastSuccessAt |-> 0, ran |-> 0]

EmptySnapshot == [timestamp |-> 0, now |-> 0, values |-> NoValues,
                  custom |-> [id \in Metrics |-> NoResult]]

----------------------------------------------------------------------------
(* Time *)

\* The channel of a ticker holds one tick: the ticks of a slow update are lost.
Tick ==
    /\ clock < MaxTime
    /\ pc # "waiting" => clock - now < MaxCollect
    /\ clock' = clock + 1
    /\ IF ticker = clock + 1
       THEN tick' = TRUE /\ ticker' = ticker + Update
       ELSE UNCHANGED <<tick, ticker>>
    /\ UNCHANGED <<pc, now, stamp, copy, values, countersAt, custom, store,
                   ready, history>>

----------------------------------------------------------------------------
(* Store.Run and Store.update *)

\* s.update(ctx, collector): Collect begins on a fresh copy.
Begin ==
    /\ \/ pc = "starting"
       \/ pc = "waiting" /\ tick
    /\ tick' = FALSE
    /\ now' = clock
    /\ copy' = Given
    /\ values' = NoValues
    /\ pc' = "host"
    /\ UNCHANGED <<clock, ticker, stamp, countersAt, custom, store, ready, history>>

\* Mutant: the ticker is made from the time the first update began.
ReturnBehind ==
    /\ pc' = "waiting"
    /\ ticker' = IF ticker = 0 THEN now + Update ELSE ticker

\* update returns to Run, which made its ticker after the first update.
Return ==
    /\ pc' = "waiting"
    /\ ticker' = IF ticker = 0 THEN clock + Update ELSE ticker

\* Mutant: update stores the empty snapshot a failed Collect returns.
HostFailureStored ==
    /\ pc = "host"
    /\ Return
    /\ store' = EmptySnapshot
    /\ UNCHANGED <<clock, tick, now, stamp, copy, values, countersAt, custom,
                   ready, history>>

\* The reads of CPU, memory and swap; the first error ends the update.
HostFails ==
    /\ pc = "host"
    /\ Return
    /\ UNCHANGED <<clock, tick, now, stamp, copy, values, countersAt, custom,
                   store, ready, history>>

HostRead ==
    /\ pc = "host"
    /\ pc' = "devices"
    /\ UNCHANGED <<clock, ticker, tick, now, stamp, copy, values, countersAt,
                   custom, store, ready, history>>

\* collectDevices(): what the counters gained over the time since the reading
\* kept in the maps is divided by the time since copy.previous.
Devices ==
    /\ pc = "devices"
    /\ values' = [values EXCEPT !.rate =
                     [elapsed |-> IF copy.previous = 0 THEN Saturated
                                  ELSE IF clock > copy.previous
                                       THEN clock - copy.previous ELSE 1,
                      over    |-> IF countersAt = 0 THEN 0
                                  ELSE clock - countersAt]]
    /\ countersAt' = clock
    /\ copy' = [copy EXCEPT !.previous = clock]
    /\ pc' = "temperature"
    /\ UNCHANGED <<clock, ticker, tick, now, stamp, custom, store, ready, history>>

Cached(c) == copy.at[c] # 0 /\ now - copy.at[c] < SlowInterval[c]

\* collectTemperaturesCached, collectServicesCached, collectDockerCached
ReadSlow(c) ==
    IF Cached(c)
    THEN /\ values' = [values EXCEPT !.slow[c] = copy.at[c]]
         /\ UNCHANGED <<copy, slowRead>>
    ELSE /\ values' = [values EXCEPT !.slow[c] = now]
         /\ copy' = [copy EXCEPT !.at[c] = now]
         /\ slowRead' = [slowRead EXCEPT ![c] = now]

\* The Timestamp is taken before services, Docker and Custom Metrics are read.
Temperature ==
    /\ pc = "temperature"
    /\ ReadSlow("temperature")
    /\ stamp' = clock
    /\ pc' = "services"
    /\ UNCHANGED <<clock, ticker, tick, now, countersAt, custom, store, ready,
                   ran, succeeded>>

Services ==
    /\ pc = "services"
    /\ ReadSlow("services")
    /\ pc' = "docker"
    /\ UNCHANGED <<clock, ticker, tick, now, stamp, countersAt, custom, store,
                   ready, ran, succeeded>>

Docker ==
    /\ pc = "docker"
    /\ ReadSlow("docker")
    /\ pc' = "custom"
    /\ todo' = Metrics
    /\ UNCHANGED <<clock, ticker, tick, now, stamp, countersAt, customLast,
                   customResults, running, store, ready, ran, succeeded>>

----------------------------------------------------------------------------
(* Collector.collectCustom, in the random order of Go's maps *)

\* Mutants: a metric is due one tick early, or one tick late.
DueEarly(id) == customLast[id] = 0 \/ now - customLast[id] >= Interval[id] - 1

DueLate(id) == customLast[id] = 0 \/ now - customLast[id] > Interval[id]

Due(id) == customLast[id] = 0 \/ now - customLast[id] >= Interval[id]

Skip(id) ==
    /\ pc = "custom" /\ running = NoMetric
    /\ id \in todo /\ ~Due(id)
    /\ todo' = todo \ {id}
    /\ UNCHANGED <<clock, loop, copy, values, countersAt, customLast,
                   customResults, running, store, ready, history>>

RunCommand(id) ==
    /\ pc = "custom" /\ running = NoMetric
    /\ id \in todo /\ Due(id)
    /\ running' = id
    /\ todo' = todo \ {id}
    /\ ran' = [ran EXCEPT ![id] = now]
    /\ UNCHANGED <<clock, loop, copy, values, countersAt, customLast,
                   customResults, store, ready, succeeded, slowRead>>

\* Mutant: a failure forgets the last success.
SuccessForgotten(id, status) == IF status = "ok" THEN clock ELSE 0

\* A result without a success of its own keeps the time of the last one.
LastSuccess(id, status) ==
    IF status = "ok" THEN clock ELSE customResults[id].lastSuccessAt

\* customLast[id] is set to that time, if there is one, and else to now.
Record(id, status) ==
    LET success == LastSuccess(id, status)
    IN  /\ customResults' = [customResults EXCEPT ![id] =
                [present |-> TRUE, status |-> status,
                 lastSuccessAt |-> success, ran |-> now]]
        /\ customLast' = [customLast EXCEPT ![id] =
                IF success # 0 THEN success ELSE now]

\* runCustom returns: the command succeeded, or failed, timed out or was cut.
CommandEnds(id) ==
    /\ running = id /\ id # NoMetric
    /\ running' = NoMetric
    /\ \E status \in {"ok", "error"} :
         /\ Record(id, status)
         /\ succeeded' = IF status = "ok"
                         THEN [succeeded EXCEPT ![id] = clock] ELSE succeeded
    /\ UNCHANGED <<clock, loop, copy, values, countersAt, todo, store, ready,
                   ran, slowRead>>

\* collectCustom returns every result it holds; update stores the snapshot.
Publish ==
    /\ pc = "custom" /\ todo = {} /\ running = NoMetric
    /\ store' = [timestamp |-> stamp, now |-> now, values |-> values,
                 custom |-> customResults]
    /\ ready' = TRUE
    /\ Return
    /\ UNCHANGED <<clock, tick, now, stamp, copy, values, countersAt, custom,
                   history>>

----------------------------------------------------------------------------
Init ==
    /\ clock = 1
    /\ ticker = 0 /\ tick = FALSE
    /\ pc = "starting" /\ now = 1 /\ stamp = 0
    /\ copy = Given
    /\ values = NoValues
    /\ countersAt = 0
    /\ customLast = [id \in Metrics |-> 0]
    /\ customResults = [id \in Metrics |-> NoResult]
    /\ todo = {} /\ running = NoMetric
    /\ store = EmptySnapshot /\ ready = FALSE
    /\ ran = [id \in Metrics |-> 0]
    /\ succeeded = [id \in Metrics |-> 0]
    /\ slowRead = [c \in Slow |-> 0]

Collect ==
    \/ HostFails \/ HostRead \/ Devices \/ Temperature \/ Services \/ Docker
    \/ \E id \in Metrics : Skip(id) \/ RunCommand(id) \/ CommandEnds(id)
    \/ Publish

Next == Tick \/ Begin \/ Collect

Spec == Init /\ [][Next]_vars

----------------------------------------------------------------------------
(* Properties *)

Result == [present : BOOLEAN, status : {"none", "ok", "error"},
           lastSuccessAt : Times, ran : Times]

Values == [slow : [Slow -> Times],
           rate : [elapsed : Times \cup {Saturated}, over : Times]]

\* Every variable has its type; the ticker always fires in the future, within
\* one update interval.
TypeOK ==
    /\ clock \in Times \ {0}
    /\ ticker = 0 \/ ticker \in clock + 1 .. clock + Update
    /\ tick \in BOOLEAN
    /\ pc \in Steps
    /\ now \in Times /\ stamp \in Times
    /\ copy \in [previous : Times, at : [Slow -> Times]]
    /\ values \in Values
    /\ countersAt \in Times
    /\ customLast \in [Metrics -> Times]
    /\ customResults \in [Metrics -> Result]
    /\ todo \in SUBSET Metrics
    /\ running \in Metrics \cup {NoMetric}
    /\ store \in [timestamp : Times, now : Times, values : Values,
                  custom : [Metrics -> Result]]
    /\ ready \in BOOLEAN
    /\ ran \in [Metrics -> Times]
    /\ succeeded \in [Metrics -> Times]
    /\ slowRead \in [Slow -> Times]

\* What sessions read never goes back: once ready the store stays ready, and
\* no later snapshot is older, or holds an older result, than the one before,
\* whatever updates failed in between.
SnapshotNeverRegresses ==
    [][/\ ready => ready'
       /\ store'.timestamp >= store.timestamp
       /\ \A id \in Metrics :
            /\ store'.custom[id].ran >= store.custom[id].ran
            /\ store'.custom[id].lastSuccessAt >= store.custom[id].lastSuccessAt
      ]_vars

\* Whatever failures follow it, a result names the time its command last
\* succeeded, and says "ok" only if that was its latest run.
LastSuccessKept ==
    \A id \in Metrics :
        /\ customResults[id].lastSuccessAt = succeeded[id]
        /\ customResults[id].status = "ok" /\ running # id
               => succeeded[id] >= ran[id]

\* A metric is not run again before its interval is over, if its latest run
\* succeeded or it never did: slow commands and lost ticks do not shorten it.
SuccessRespectsInterval ==
    [][\A id \in Metrics :
         /\ ran'[id] # ran[id] /\ ran[id] # 0
         /\ customResults[id].status = "ok" \/ succeeded[id] = 0
         => ran'[id] - ran[id] >= Interval[id]]_vars

\* A published snapshot holds every configured metric, none of them run longer
\* ago than its interval and the time the Collect that ran it took.
PublishedAreRecent ==
    ready => \A id \in Metrics :
                /\ store.custom[id].present
                /\ store.now - store.custom[id].ran < Interval[id] + MaxCollect

----------------------------------------------------------------------------
(* Statements of the repository that the code does not meet *)

\* README.md: slow collectors are cached.  A slow collector is not read again
\* before its interval is over.
SlowCollectorsCached ==
    [][\A c \in Slow :
         slowRead'[c] # slowRead[c] /\ slowRead[c] # 0
             => slowRead'[c] - slowRead[c] >= SlowInterval[c]]_vars

\* README.md: Custom Metrics run at their configured intervals, failed or not.
CustomAtInterval ==
    [][\A id \in Metrics :
         ran'[id] # ran[id] /\ ran[id] # 0
             => ran'[id] - ran[id] >= Interval[id]]_vars

\* TestRateCalculatesCounterDeltaPerSecond: what a counter gained since a
\* reading is divided by the time since that reading.
RatesArePerSecond ==
    ready /\ store.values.rate.over # 0
        => store.values.rate.elapsed = store.values.rate.over
=============================================================================
