--------------------------- MODULE CollectorProofs ---------------------------
(***************************************************************************)
(* Theorems about the collection loop for any Custom Metrics, intervals    *)
(* and duration of a Collect.  Inv is inductive: Past orders the times,    *)
(* Budget bounds a Collect, Recorded says what the two maps of Custom      *)
(* Metrics hold between runs, Looked what collectCustom has done so far,   *)
(* and Stored what sessions read.                                          *)
(***************************************************************************)
EXTENDS Collector, TLAPS

\* Nothing is dated after it happened.
Past ==
    /\ now >= 1 /\ now <= clock /\ stamp <= clock /\ countersAt <= clock
    /\ \A id \in Metrics : ran[id] <= now /\ succeeded[id] <= clock

Budget == pc # "waiting" => clock - now <= MaxCollect

\* A result dates from the latest run that ended; customLast is its last
\* success, however many failures followed it, or the run itself.
Recorded ==
    \A id \in Metrics :
        LET r == customResults[id]
        IN  /\ r.ran <= ran[id]
            /\ running # id => r.ran = ran[id]
            /\ r.present <=> r.ran # 0
            /\ r.lastSuccessAt # 0 => r.ran # 0
            /\ r.lastSuccessAt <= r.ran + MaxCollect
            /\ customLast[id] = IF r.lastSuccessAt # 0 THEN r.lastSuccessAt ELSE r.ran

\* Every metric collectCustom has looked at was run by it, or was not due.
Looked ==
    /\ pc # "custom" => running = NoMetric
    /\ running # NoMetric => running \notin todo /\ ran[running] = now
    /\ pc = "custom" => \A id \in Metrics \ todo :
          running # id => customResults[id].ran = now \/ ~Due(id)

\* What sessions read is no younger than what the loop holds.
Stored ==
    /\ store.timestamp <= stamp
    /\ \A id \in Metrics :
          /\ store.custom[id].ran <= customResults[id].ran
          /\ store.custom[id].lastSuccessAt <= customResults[id].lastSuccessAt

Inv ==
    /\ TypeOK /\ Past /\ Budget
    /\ Recorded /\ Looked /\ LastSuccessKept
    /\ Stored /\ PublishedAreRecent

----------------------------------------------------------------------------
(* Types and times *)

\* What the steps of a Collect rest on.
LEMMA Typed ==
    ASSUME TypeOK, Past
    PROVE  /\ clock \in Nat /\ clock >= 1 /\ clock <= MaxTime /\ MaxTime \in Nat
           /\ now \in Nat /\ stamp \in Nat /\ countersAt \in Nat
           /\ ticker \in Nat /\ Update \in Nat /\ Update >= 1 /\ MaxCollect \in Nat
           /\ \A id \in Metrics : /\ ran[id] \in Nat /\ succeeded[id] \in Nat
                                  /\ customLast[id] \in Nat
                                  /\ Interval[id] \in Nat /\ Interval[id] >= 1
                                  /\ id # NoMetric
           /\ NoMetric \notin Metrics
<1>1. MaxTime \in Nat /\ Update \in Nat /\ Update >= 1 /\ MaxCollect \in Nat
  BY TimeAssumption
<1>2. /\ clock \in Nat /\ clock >= 1 /\ clock <= MaxTime /\ now \in Nat
      /\ stamp \in Nat /\ countersAt \in Nat
  BY <1>1 DEF TypeOK, Times
<1>3. ticker \in Nat
  BY <1>1, <1>2 DEF TypeOK
<1>4. ASSUME NEW id \in Metrics
      PROVE  /\ ran[id] \in Nat /\ succeeded[id] \in Nat /\ customLast[id] \in Nat
             /\ Interval[id] \in Nat /\ Interval[id] >= 1 /\ id # NoMetric
  <2>1. ran[id] \in Times /\ succeeded[id] \in Times /\ customLast[id] \in Times
    BY DEF TypeOK
  <2>2. Interval[id] \in Nat \ {0}
    BY IntervalAssumption
  <2> QED
    BY <1>1, <2>1, <2>2, MetricsAssumption DEF Times
<1> QED
  BY <1>1, <1>2, <1>3, <1>4, MetricsAssumption

LEMMA TypeInit == Init => TypeOK
<1> SUFFICES ASSUME Init PROVE TypeOK
  OBVIOUS
<1>1. MaxTime \in Nat /\ MaxTime >= 1 /\ 0 \in Times /\ 1 \in Times
  BY TimeAssumption DEF Times
<1>2. NoValues \in Values /\ NoResult \in Result
  BY <1>1 DEF NoValues, NoRate, Values, NoResult, Result
<1>3. Given \in [previous : Times, at : [Slow -> Times]]
  BY <1>1 DEF Given
<1>4. EmptySnapshot \in [timestamp : Times, now : Times, values : Values,
                         custom : [Metrics -> Result]]
  BY <1>1, <1>2 DEF EmptySnapshot
<1>5. /\ clock \in Times \ {0} /\ ticker = 0 /\ tick \in BOOLEAN /\ pc \in Steps
      /\ now \in Times /\ stamp \in Times /\ countersAt \in Times
      /\ todo \in SUBSET Metrics /\ running \in Metrics \cup {NoMetric}
      /\ ready \in BOOLEAN
  <2>1. /\ clock = 1 /\ ticker = 0 /\ tick = FALSE /\ pc = "starting" /\ now = 1
        /\ stamp = 0 /\ countersAt = 0 /\ todo = {} /\ running = NoMetric
        /\ ready = FALSE
    BY DEF Init
  <2>2. 1 \in Times \ {0}
    BY <1>1
  <2> QED
    BY <1>1, <2>1, <2>2 DEF Steps
<1>6. /\ customLast \in [Metrics -> Times] /\ customResults \in [Metrics -> Result]
      /\ ran \in [Metrics -> Times] /\ succeeded \in [Metrics -> Times]
      /\ slowRead \in [Slow -> Times]
  BY <1>1, <1>2 DEF Init
<1>7. /\ copy \in [previous : Times, at : [Slow -> Times]] /\ values \in Values
      /\ store \in [timestamp : Times, now : Times, values : Values,
                    custom : [Metrics -> Result]]
  BY <1>2, <1>3, <1>4 DEF Init
<1> QED
  BY <1>5, <1>6, <1>7 DEF TypeOK

\* The slow collectors read at `now', or answer from the copy.
LEMMA SlowTypes ==
    ASSUME TypeOK, NEW c \in Slow, ReadSlow(c)
    PROVE  /\ values' \in Values /\ copy' \in [previous : Times, at : [Slow -> Times]]
           /\ slowRead' \in [Slow -> Times]
  BY DEF TypeOK, ReadSlow, Values

LEMMA CollectTypes == ASSUME TypeOK, Past, Begin \/ Collect PROVE TypeOK'
<1>0. clock \in Times \ {0} /\ 0 \in Times /\ 1 \in Times /\ now \in Times
  BY Typed DEF TypeOK, Times
<1>1. CASE Begin
  <2>1. NoValues \in Values /\ Given \in [previous : Times, at : [Slow -> Times]]
    BY <1>0 DEF NoValues, NoRate, Values, Given
  <2> QED
    BY <1>0, <1>1, <2>1 DEF Begin, TypeOK, Steps, custom, history
<1>2. ASSUME Return, UNCHANGED clock
      PROVE  pc' \in Steps /\ (ticker' = 0 \/ ticker' \in clock' + 1 .. clock' + Update)
  BY <1>2, Typed DEF Return, TypeOK, Steps
<1>3. CASE HostFails
  BY <1>2, <1>3 DEF HostFails, TypeOK, custom, history
<1>4. CASE HostRead
  BY <1>4 DEF HostRead, TypeOK, Steps, custom, history
<1>5. CASE Devices
  <2> DEFINE elapsed == IF copy.previous = 0 THEN Saturated
                        ELSE IF clock > copy.previous THEN clock - copy.previous ELSE 1
             over == IF countersAt = 0 THEN 0 ELSE clock - countersAt
  <2>1. elapsed \in Times \cup {Saturated}
    <3>1. copy.previous \in Times
      BY DEF TypeOK
    <3> QED
      BY <1>0, <3>1, Typed DEF Times
  <2>2. over \in Times
    BY Typed DEF Past, Times
  <2> HIDE DEF elapsed, over
  <2>3. values' = [values EXCEPT !.rate = [elapsed |-> elapsed, over |-> over]]
    BY <1>5 DEF Devices, elapsed, over
  <2>4. values' \in Values
    BY <2>1, <2>2, <2>3 DEF TypeOK, Values
  <2>5. copy' \in [previous : Times, at : [Slow -> Times]]
    BY <1>0, <1>5 DEF Devices, TypeOK
  <2> QED
    BY <1>0, <1>5, <2>4, <2>5 DEF Devices, TypeOK, Steps, custom, history
<1>6. CASE Temperature
  BY <1>0, <1>6, SlowTypes DEF Temperature, Slow, TypeOK, Steps, custom
<1>7. CASE Services
  BY <1>0, <1>7, SlowTypes DEF Services, Slow, TypeOK, Steps, custom
<1>8. CASE Docker
  BY <1>0, <1>8, SlowTypes DEF Docker, Slow, TypeOK, Steps
<1>9. ASSUME NEW id \in Metrics, Skip(id) \/ RunCommand(id) \/ CommandEnds(id)
      PROVE  TypeOK'
  <2>1. CASE Skip(id)
    BY <2>1 DEF Skip, TypeOK, loop, history
  <2>2. CASE RunCommand(id)
    BY <1>0, <2>2 DEF RunCommand, TypeOK, loop
  <2>3. CASE CommandEnds(id)
    <3>1. PICK status \in {"ok", "error"} :
             /\ Record(id, status)
             /\ succeeded' = IF status = "ok"
                             THEN [succeeded EXCEPT ![id] = clock] ELSE succeeded
      BY <2>3 DEF CommandEnds
    <3>2. LastSuccess(id, status) \in Times
      BY <1>0 DEF LastSuccess, TypeOK, Result
    <3>3. customResults' \in [Metrics -> Result] /\ customLast' \in [Metrics -> Times]
      BY <1>0, <3>1, <3>2 DEF Record, TypeOK, Result
    <3>4. succeeded' \in [Metrics -> Times]
      BY <1>0, <3>1 DEF TypeOK
    <3> QED
      BY <2>3, <3>3, <3>4 DEF CommandEnds, TypeOK, loop
  <2> QED
    BY <1>9, <2>1, <2>2, <2>3
<1>10. CASE Publish
  <2>1. store' \in [timestamp : Times, now : Times, values : Values,
                    custom : [Metrics -> Result]]
    BY <1>10 DEF Publish, TypeOK
  <2> QED
    BY <1>2, <1>10, <2>1 DEF Publish, TypeOK, custom, history
<1> QED
  BY <1>1, <1>3, <1>4, <1>5, <1>6, <1>7, <1>8, <1>9, <1>10 DEF Collect

LEMMA TickTypes == ASSUME TypeOK, Past, Tick PROVE TypeOK'
<1>1. clock' \in Times \ {0}
  BY Typed DEF Tick, Times
<1>2. ticker' = 0 \/ ticker' \in clock' + 1 .. clock' + Update
  BY Typed DEF Tick, TypeOK
<1>3. tick' \in BOOLEAN
  BY DEF Tick, TypeOK
<1> QED
  BY <1>1, <1>2, <1>3 DEF Tick, TypeOK, custom, history

LEMMA TypeStep == TypeOK /\ Past /\ [Next]_vars => TypeOK'
<1> SUFFICES ASSUME TypeOK, Past, [Next]_vars PROVE TypeOK'
  OBVIOUS
<1>1. CASE UNCHANGED vars
  BY <1>1 DEF TypeOK, vars, loop, custom, history
<1> QED
  BY <1>1, CollectTypes, TickTypes DEF Next

----------------------------------------------------------------------------
(* What a Collect does *)

LEMMA InvInit == Init => Inv
<1> SUFFICES ASSUME Init PROVE Inv
  OBVIOUS
<1>1. MaxCollect \in Nat /\ MaxTime \in Nat
  BY TimeAssumption
<1>2. \A id \in Metrics : id # NoMetric
  BY MetricsAssumption
<1>3. /\ clock = 1 /\ now = 1 /\ stamp = 0 /\ countersAt = 0 /\ pc = "starting"
      /\ todo = {} /\ running = NoMetric /\ ~ready /\ store.timestamp = 0
      /\ \A id \in Metrics : /\ ran[id] = 0 /\ succeeded[id] = 0 /\ customLast[id] = 0
                             /\ customResults[id] = NoResult
                             /\ store.custom[id] = NoResult
  BY DEF Init, EmptySnapshot
<1>4. NoResult.present = FALSE /\ NoResult.status = "none"
      /\ NoResult.lastSuccessAt = 0 /\ NoResult.ran = 0
  BY DEF NoResult
<1>5. Past /\ Budget
  BY <1>1, <1>3 DEF Past, Budget
<1>6. Recorded /\ LastSuccessKept /\ Looked
  BY <1>1, <1>3, <1>4 DEF Recorded, LastSuccessKept, Looked
<1>7. Stored /\ PublishedAreRecent
  BY <1>3, <1>4 DEF Stored, PublishedAreRecent
<1> QED
  BY <1>5, <1>6, <1>7, TypeInit DEF Inv

\* The types of what a step reads.
LEMMA Facts ==
    ASSUME Inv
    PROVE  /\ clock \in Nat /\ clock >= 1 /\ now \in Nat /\ now >= 1 /\ now <= clock
           /\ stamp \in Nat /\ stamp <= clock /\ MaxCollect \in Nat
           /\ \A id \in Metrics :
                 /\ ran[id] \in Nat /\ succeeded[id] \in Nat /\ customLast[id] \in Nat
                 /\ Interval[id] \in Nat /\ Interval[id] >= 1 /\ id # NoMetric
                 /\ customResults[id].ran \in Nat /\ customResults[id].lastSuccessAt \in Nat
                 /\ store.custom[id].ran \in Nat /\ store.custom[id].lastSuccessAt \in Nat
           /\ store.timestamp \in Nat /\ store.now \in Nat
<1>1. \A n \in Times : n \in Nat
  BY TimeAssumption DEF Times
<1>2. \A id \in Metrics : /\ customResults[id].ran \in Times
                          /\ customResults[id].lastSuccessAt \in Times
                          /\ store.custom[id].ran \in Times
                          /\ store.custom[id].lastSuccessAt \in Times
  BY DEF Inv, TypeOK, Result
<1>3. store.timestamp \in Times /\ store.now \in Times
  BY DEF Inv, TypeOK
<1> QED
  BY <1>1, <1>2, <1>3, Typed DEF Inv, Past

\* Time passes within the bound on a Collect.
LEMMA TimeStep == ASSUME Inv, [Next]_vars PROVE Past' /\ Budget'
<1>0. Past /\ Budget
  BY DEF Inv
<1>1. CASE Tick
  <2>1. /\ clock' = clock + 1 /\ (pc # "waiting" => clock - now < MaxCollect)
        /\ UNCHANGED <<pc, now, stamp, countersAt, ran, succeeded>>
    BY <1>1 DEF Tick, history
  <2>2. countersAt \in Nat
    BY Typed DEF Inv
  <2>3. Past'
    BY <1>0, <2>1, <2>2, Facts DEF Past
  <2>4. Budget'
    BY <2>1, Facts DEF Budget
  <2> QED
    BY <2>3, <2>4
<1>2. CASE Begin
  BY <1>0, <1>2, Facts DEF Begin, Past, Budget, custom, history
<1>3. CASE HostFails \/ Publish
  BY <1>0, <1>3, Facts DEF HostFails, Publish, Return, Past, Budget, custom, history
<1>4. CASE HostRead \/ Devices \/ Services \/ Docker
  BY <1>0, <1>4, Facts DEF HostRead, Devices, Services, Docker, Past, Budget, custom, history
<1>5. CASE Temperature
  BY <1>0, <1>5, Facts DEF Temperature, Past, Budget
<1>6. ASSUME NEW id \in Metrics, Skip(id) \/ RunCommand(id) \/ CommandEnds(id)
      PROVE  Past' /\ Budget'
  <2>1. CASE Skip(id)
    BY <1>0, <2>1 DEF Skip, Past, Budget, loop, history
  <2>2. CASE RunCommand(id)
    <3>1. ran' = [ran EXCEPT ![id] = now] /\ UNCHANGED <<clock, loop, countersAt, succeeded>>
      BY <2>2 DEF RunCommand
    <3> QED
      BY <1>0, <3>1, Facts DEF Past, Budget, loop, Inv, TypeOK
  <2>3. CASE CommandEnds(id)
    <3>1. \A i \in Metrics : succeeded'[i] = succeeded[i] \/ succeeded'[i] = clock
      BY <2>3 DEF CommandEnds, Inv, TypeOK
    <3>2. UNCHANGED <<clock, loop, countersAt, ran>>
      BY <2>3 DEF CommandEnds
    <3> QED
      BY <1>0, <3>1, <3>2, Facts DEF Past, Budget, loop
  <2> QED
    BY <1>6, <2>1, <2>2, <2>3
<1>7. CASE UNCHANGED vars
  BY <1>0, <1>7 DEF Past, Budget, vars, loop, custom, history
<1> QED
  BY <1>1, <1>2, <1>3, <1>4, <1>5, <1>6, <1>7 DEF Next, Collect

\* A step that is not collectCustom's leaves the maps as they are.
Idle == UNCHANGED <<customLast, customResults, running, ran, succeeded>>

LEMMA IdleSteps ==
    ASSUME Tick \/ Begin \/ HostFails \/ HostRead \/ Devices \/ Temperature
               \/ Services \/ Docker \/ Publish \/ UNCHANGED vars
    PROVE  Idle
  BY DEF Tick, Begin, HostFails, HostRead, Devices, Temperature, Services, Docker,
         Publish, Idle, custom, history, vars

\* collectCustom keeps its two maps to what Recorded says of them.
LEMMA RecordedStep == ASSUME Inv, [Next]_vars PROVE Recorded' /\ LastSuccessKept'
<1>0. Recorded /\ LastSuccessKept
  BY DEF Inv
<1>1. CASE Idle
  BY <1>0, <1>1 DEF Idle, Recorded, LastSuccessKept
<1>2. ASSUME NEW id \in Metrics, Skip(id)
      PROVE  Recorded' /\ LastSuccessKept'
  BY <1>0, <1>2 DEF Skip, history, Recorded, LastSuccessKept
<1>3. ASSUME NEW id \in Metrics, RunCommand(id)
      PROVE  Recorded' /\ LastSuccessKept'
  <2>1. /\ running = NoMetric /\ running' = id
        /\ ran' = [ran EXCEPT ![id] = now]
        /\ UNCHANGED <<customLast, customResults, succeeded>>
    BY <1>3 DEF RunCommand
  <2>2. /\ ran'[id] = now /\ ran[id] <= now
        /\ \A i \in Metrics \ {id} : ran'[i] = ran[i]
    BY <2>1 DEF Inv, TypeOK, Past
  <2>3. Recorded'
    BY <1>0, <2>1, <2>2, Facts DEF Recorded
  <2>4. LastSuccessKept'
    BY <1>0, <2>1, <2>2, Facts DEF LastSuccessKept
  <2> QED
    BY <2>3, <2>4
<1>4. ASSUME NEW id \in Metrics, CommandEnds(id)
      PROVE  Recorded' /\ LastSuccessKept'
  <2>1. PICK status \in {"ok", "error"} :
           /\ Record(id, status)
           /\ succeeded' = IF status = "ok"
                           THEN [succeeded EXCEPT ![id] = clock] ELSE succeeded
    BY <1>4 DEF CommandEnds
  <2>2. running = id /\ running' = NoMetric /\ ran' = ran /\ pc # "waiting" /\ ran[id] = now
    BY <1>4 DEF CommandEnds, Inv, Looked
  <2> DEFINE success == LastSuccess(id, status)
  <2>3. /\ customResults'[id] = [present |-> TRUE, status |-> status,
                                 lastSuccessAt |-> success, ran |-> now]
        /\ customLast'[id] = IF success # 0 THEN success ELSE now
        /\ \A i \in Metrics \ {id} : /\ customResults'[i] = customResults[i]
                                     /\ customLast'[i] = customLast[i]
                                     /\ succeeded'[i] = succeeded[i]
    BY <2>1 DEF Record, Inv, TypeOK
  <2>4. /\ success \in Nat /\ success <= now + MaxCollect
        /\ success = succeeded'[id]
        /\ status = "ok" => succeeded'[id] = clock
    <3>1. CASE status = "ok"
      BY <2>1, <2>2, <3>1, Facts DEF LastSuccess, Inv, TypeOK, Budget
    <3>2. CASE status # "ok"
      <4>1. success = customResults[id].lastSuccessAt /\ succeeded' = succeeded
        BY <2>1, <3>2 DEF LastSuccess
      <4>2. /\ customResults[id].lastSuccessAt <= customResults[id].ran + MaxCollect
            /\ customResults[id].ran <= ran[id]
            /\ customResults[id].lastSuccessAt = succeeded[id]
        BY <1>0 DEF Recorded, LastSuccessKept
      <4> QED
        BY <2>2, <3>2, <4>1, <4>2, Facts
    <3> QED
      BY <3>1, <3>2
  <2> HIDE DEF success
  <2>5. Recorded'
    BY <1>0, <2>2, <2>3, <2>4, Facts DEF Recorded
  <2>6. LastSuccessKept'
    BY <1>0, <2>2, <2>3, <2>4, Facts DEF LastSuccessKept
  <2> QED
    BY <2>5, <2>6
<1> QED
  BY <1>1, <1>2, <1>3, <1>4, IdleSteps DEF Next, Collect

\* collectCustom looks at every metric once.
LEMMA LookedStep == ASSUME Inv, [Next]_vars PROVE Looked'
<1>0. Looked
  BY DEF Inv
<1>1. CASE Tick \/ UNCHANGED vars
  BY <1>0, <1>1 DEF Tick, vars, loop, custom, history, Looked, Due
<1>2. CASE Begin
  BY <1>0, <1>2 DEF Begin, custom, history, Looked
<1>3. CASE HostFails \/ HostRead \/ Devices \/ Temperature \/ Services
  BY <1>0, <1>3 DEF HostFails, Return, HostRead, Devices, Temperature, Services,
                    custom, history, Looked
<1>4. CASE Docker
  BY <1>0, <1>4 DEF Docker, Looked
<1>5. CASE Publish
  BY <1>0, <1>5 DEF Publish, Return, custom, history, Looked
<1>6. ASSUME NEW id \in Metrics, Skip(id)
      PROVE  Looked'
  BY <1>0, <1>6 DEF Skip, loop, history, Looked, Due
<1>7. ASSUME NEW id \in Metrics, RunCommand(id)
      PROVE  Looked'
  BY <1>0, <1>7, Facts DEF RunCommand, loop, Looked, Due, Inv, TypeOK
<1>8. ASSUME NEW id \in Metrics, CommandEnds(id)
      PROVE  Looked'
  <2>1. /\ running = id /\ id # NoMetric /\ running' = NoMetric
        /\ UNCHANGED <<now, pc, todo, ran>> /\ pc = "custom" /\ id \notin todo
    BY <1>0, <1>8 DEF CommandEnds, loop, Looked
  <2>2. /\ customResults'[id].ran = now
        /\ \A i \in Metrics \ {id} : /\ customResults'[i] = customResults[i]
                                     /\ customLast'[i] = customLast[i]
    BY <1>8 DEF CommandEnds, Record, Inv, TypeOK
  <2> QED
    BY <1>0, <2>1, <2>2 DEF Looked, Due
<1> QED
  BY <1>1, <1>2, <1>3, <1>4, <1>5, <1>6, <1>7, <1>8 DEF Next, Collect

----------------------------------------------------------------------------
(* What sessions read *)

\* The maps go forward.
LEMMA ResultsGoForward ==
    ASSUME Inv, [Next]_vars, NEW id \in Metrics
    PROVE  /\ customResults'[id].ran >= customResults[id].ran
           /\ customResults'[id].lastSuccessAt >= customResults[id].lastSuccessAt
<1>1. CASE UNCHANGED customResults
  BY <1>1, Facts
<1>2. ASSUME NEW i \in Metrics, CommandEnds(i)
      PROVE  /\ customResults'[id].ran >= customResults[id].ran
             /\ customResults'[id].lastSuccessAt >= customResults[id].lastSuccessAt
  <2>1. PICK status \in {"ok", "error"} : Record(i, status)
    BY <1>2 DEF CommandEnds
  <2>2. \/ customResults'[id] = customResults[id]
        \/ /\ customResults'[id].ran = now
           /\ customResults'[id].lastSuccessAt = LastSuccess(id, status)
    BY <2>1 DEF Record, Inv, TypeOK
  <2>3. LastSuccess(id, status) \in {clock, customResults[id].lastSuccessAt}
    BY DEF LastSuccess
  <2>4. /\ customResults[id].ran <= ran[id] /\ ran[id] <= now
        /\ customResults[id].lastSuccessAt = succeeded[id] /\ succeeded[id] <= clock
    BY DEF Inv, Recorded, LastSuccessKept, Past
  <2> QED
    BY <2>2, <2>3, <2>4, Facts
<1> QED
  BY <1>1, <1>2, IdleSteps
     DEF Idle, Next, Collect, Skip, RunCommand

LEMMA StampGoesForward == ASSUME Inv, [Next]_vars PROVE stamp' >= stamp
  BY Facts DEF Next, Collect, Tick, Begin, HostFails, HostRead, Devices, Temperature,
         Services, Docker, Skip, RunCommand, CommandEnds, Publish, loop, vars

\* Only Publish writes the store.
LEMMA StoreChanges ==
    ASSUME [Next]_vars
    PROVE  Publish \/ UNCHANGED <<store, ready>>
  BY DEF Next, Collect, Tick, Begin, HostFails, HostRead, Devices, Temperature,
         Services, Docker, Skip, RunCommand, CommandEnds, vars

LEMMA Published ==
    ASSUME Inv, Publish
    PROVE  /\ store'.timestamp = stamp /\ store'.now = now /\ ready'
           /\ \A id \in Metrics : store'.custom[id] = customResults[id]
           /\ UNCHANGED <<stamp, customResults>>
  BY DEF Publish, custom

LEMMA StoredStep == ASSUME Inv, [Next]_vars PROVE Stored'
<1>1. CASE Publish
  <2>1. \A id \in Metrics : store'.custom[id] = customResults'[id]
    BY <1>1, Published
  <2>2. store'.timestamp = stamp'
    BY <1>1, Published
  <2>3. stamp' \in Nat /\ \A id \in Metrics : /\ customResults'[id].ran \in Nat
                                              /\ customResults'[id].lastSuccessAt \in Nat
    BY <1>1, Published, Facts
  <2> QED
    BY <2>1, <2>2, <2>3 DEF Stored
<1>2. CASE UNCHANGED <<store, ready>>
  <2>1. TypeOK'
    BY TypeStep DEF Inv
  <2>2. stamp' \in Nat /\ \A id \in Metrics : /\ customResults'[id].ran \in Nat
                                              /\ customResults'[id].lastSuccessAt \in Nat
    BY <2>1, TimeAssumption DEF TypeOK, Times, Result
  <2> QED
    BY <1>2, <2>2, StampGoesForward, ResultsGoForward, Facts DEF Inv, Stored
<1> QED
  BY <1>1, <1>2, StoreChanges

\* At Publish every metric was looked at: it was run by this Collect, or its
\* interval since its last success, or its last run, was not over.
LEMMA RecentStep == ASSUME Inv, [Next]_vars PROVE PublishedAreRecent'
<1>1. CASE Publish
  <2> SUFFICES ASSUME NEW id \in Metrics
               PROVE  /\ customResults[id].present
                      /\ now - customResults[id].ran < Interval[id] + MaxCollect
    BY <1>1, Published DEF PublishedAreRecent
  <2>1. customResults[id].ran = now \/ ~Due(id)
    BY <1>1, Facts DEF Publish, Inv, Looked
  <2>2. /\ customResults[id].present <=> customResults[id].ran # 0
        /\ customResults[id].lastSuccessAt # 0 => customResults[id].ran # 0
        /\ customResults[id].lastSuccessAt <= customResults[id].ran + MaxCollect
        /\ customLast[id] = IF customResults[id].lastSuccessAt # 0
                            THEN customResults[id].lastSuccessAt
                            ELSE customResults[id].ran
    BY DEF Inv, Recorded
  <2>3. CASE customResults[id].ran = now
    BY <2>2, <2>3, Facts
  <2>4. CASE ~Due(id)
    <3>1. customLast[id] # 0 /\ now - customLast[id] < Interval[id]
      BY <2>4, Facts DEF Due
    <3>2. customLast[id] <= customResults[id].ran + MaxCollect
      BY <2>2, Facts
    <3> QED
      BY <2>2, <3>1, <3>2, Facts
  <2> QED
    BY <2>1, <2>3, <2>4
<1>2. CASE UNCHANGED <<store, ready>>
  BY <1>2 DEF Inv, PublishedAreRecent
<1> QED
  BY <1>1, <1>2, StoreChanges

LEMMA InvStep == Inv /\ [Next]_vars => Inv'
  BY TypeStep, TimeStep, RecordedStep, LookedStep, StoredStep, RecentStep DEF Inv

THEOREM InvHolds == Spec => []Inv
  BY InvInit, InvStep, PTL DEF Spec

\* Every variable of the loop keeps its type, and the ticker its distance.
THEOREM TypeOKHolds == Spec => []TypeOK
<1>1. Inv => TypeOK
  BY DEF Inv
<1> QED
  BY <1>1, InvHolds, PTL

\* A result names the time of the last success, whatever failed since.
THEOREM LastSuccessKeptHolds == Spec => []LastSuccessKept
<1>1. Inv => LastSuccessKept
  BY DEF Inv
<1> QED
  BY <1>1, InvHolds, PTL

\* Published results are no older than an interval and a Collect.
THEOREM PublishedAreRecentHolds == Spec => []PublishedAreRecent
<1>1. Inv => PublishedAreRecent
  BY DEF Inv
<1> QED
  BY <1>1, InvHolds, PTL

\* No update, failed or late, takes back what sessions have read.
THEOREM SnapshotNeverRegressesHolds == Spec => SnapshotNeverRegresses
<1> DEFINE Forward ==
       /\ ready => ready'
       /\ store'.timestamp >= store.timestamp
       /\ \A id \in Metrics :
            /\ store'.custom[id].ran >= store.custom[id].ran
            /\ store'.custom[id].lastSuccessAt >= store.custom[id].lastSuccessAt
<1>1. Inv /\ [Next]_vars => [Forward]_vars
  <2> SUFFICES ASSUME Inv, [Next]_vars PROVE Forward
    OBVIOUS
  <2>1. CASE Publish
    BY <2>1, Published, Facts DEF Inv, Stored
  <2>2. CASE UNCHANGED <<store, ready>>
    BY <2>2, Facts
  <2> QED
    BY <2>1, <2>2, StoreChanges
<1> QED
  BY <1>1, InvHolds, PTL DEF Spec, SnapshotNeverRegresses

\* A metric that succeeded, or never did, waits its whole interval.
THEOREM SuccessRespectsIntervalHolds == Spec => SuccessRespectsInterval
<1> DEFINE Respected ==
       \A id \in Metrics :
         /\ ran'[id] # ran[id] /\ ran[id] # 0
         /\ customResults[id].status = "ok" \/ succeeded[id] = 0
         => ran'[id] - ran[id] >= Interval[id]
<1>1. Inv /\ [Next]_vars => [Respected]_vars
  <2> SUFFICES ASSUME Inv, [Next]_vars, NEW id \in Metrics,
                      ran'[id] # ran[id], ran[id] # 0,
                      customResults[id].status = "ok" \/ succeeded[id] = 0
               PROVE  ran'[id] - ran[id] >= Interval[id]
    OBVIOUS
  <2>1. RunCommand(id)
    BY IdleSteps DEF Idle, Next, Collect, Skip, RunCommand, CommandEnds, history, Inv, TypeOK
  <2>2. /\ ran'[id] = now /\ running # id
        /\ customLast[id] = 0 \/ now - customLast[id] >= Interval[id]
    BY <2>1, Facts DEF RunCommand, Due, Inv, TypeOK
  <2>3. /\ customResults[id].ran = ran[id]
        /\ customLast[id] = IF customResults[id].lastSuccessAt # 0
                            THEN customResults[id].lastSuccessAt
                            ELSE customResults[id].ran
        /\ customResults[id].lastSuccessAt = succeeded[id]
        /\ customResults[id].status = "ok" => succeeded[id] >= ran[id]
    BY <2>2 DEF Inv, Recorded, LastSuccessKept
  <2>4. customLast[id] # 0 /\ customLast[id] >= ran[id]
    BY <2>3, Facts
  <2> QED
    BY <2>2, <2>4, Facts
<1> QED
  BY <1>1, InvHolds, PTL DEF Spec, SuccessRespectsInterval

==============================================================================
