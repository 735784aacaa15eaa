------------------------------ MODULE Sensors ------------------------------
(***************************************************************************)
(* The motion sensors (Sensors.cc, SensorData.hh, bounded_map.h).  The run *)
(* loop of an architecture initialises them once and then moves the events *)
(* Android has queued for each sensor into a map bounded in size, from     *)
(* which the oldest event goes when a newer one needs its place.           *)
(***************************************************************************)
EXTENDS Integers, Sequences, FiniteSets

CONSTANTS
    NoSensors,      \* sensors added by MAR.addSensors, numbered in the order
                    \* in which the hash map `sensors' is walked through
    MaxReadings,    \* add_sensor: queuedMax, 1000 in the application
    MaxToProcess,   \* process_queues: max_to_process, 200 in the run loops
    MaxStamp,       \* bound: the timestamps of events
    MaxEvents       \* bound: events Android delivers

ASSUME SensorAssumption ==
    /\ NoSensors \in Nat
    /\ MaxReadings \in Nat \ {0}
    /\ MaxToProcess \in Nat
    /\ MaxStamp \in Nat
    /\ MaxEvents \in Nat

VARIABLES
    loop,           \* the run thread: not yet there, in its loop, done, crashed
    sensorQueue,    \* per sensor: what sensor_queue points to
    available,      \* run(): noSensors after initialize
    pending,        \* events Android has queued for each sensor
    events,         \* how many events there have been
    readings,       \* the bounded maps
    received,       \* history: every event that was ever put in a map
    visit, pulling, count   \* process_queues: the sensor it is at (0 outside),
                            \* whether it is in the while loop, its counter

vars == <<loop, sensorQueue, available, pending, events, readings, received,
          visit, pulling, count>>

SensorIds == 1 .. NoSensors

\* An event; n is its place among all events, which a multimap keeps for
\* events of equal timestamp.
SensorEvents == [t : 1 .. MaxStamp, n : 1 .. MaxEvents]
Older(e, f) == e.t < f.t \/ (e.t = f.t /\ e.n < f.n)

TypeOK ==
    /\ loop \in {"off", "running", "done", "crashed"}
    /\ sensorQueue \in [SensorIds -> {"none", "live", "destroyed"}]
    /\ available \in Nat
    /\ pending \in [SensorIds -> Seq(SensorEvents)]
    /\ events \in 0 .. MaxEvents
    /\ readings \in [SensorIds -> SUBSET SensorEvents]
    /\ received \in [SensorIds -> SUBSET SensorEvents]
    /\ visit \in 0 .. NoSensors
    /\ pulling \in BOOLEAN
    /\ count \in Nat

Init ==
    /\ loop = "off"
    /\ sensorQueue = [s \in SensorIds |-> "none"]
    /\ available = 0
    /\ pending = [s \in SensorIds |-> <<>>]
    /\ events = 0
    /\ readings = [s \in SensorIds |-> {}]
    /\ received = [s \in SensorIds |-> {}]
    /\ visit = 0 /\ pulling = FALSE /\ count = 0

-----------------------------------------------------------------------------

\* initialize: each sensor may be missing, or refuse to be enabled, in which
\* case its queue is destroyed but the pointer kept.  The caller counts those
\* that work.
Initialize ==
    /\ loop = "off"
    /\ loop' = "running"
    /\ sensorQueue' \in [SensorIds -> {"none", "live", "destroyed"}]
    /\ available' = Cardinality({s \in SensorIds : sensorQueue'[s] = "live"})
    /\ UNCHANGED <<pending, events, readings, received, visit, pulling, count>>

\* Android (external): an event is queued; those of one sensor need not come
\* in the order of their timestamps.
SensorFires(s, t) ==
    /\ events < MaxEvents /\ sensorQueue[s] = "live"
    /\ events' = events + 1
    /\ pending' = [pending EXCEPT ![s] = Append(@, [t |-> t, n |-> events + 1])]
    /\ UNCHANGED <<loop, sensorQueue, available, readings, received, visit,
                   pulling, count>>

\* process_queues is called and the looper reports events; a timeout changes
\* nothing.
Poll ==
    /\ loop = "running" /\ visit = 0 /\ available > 0
    /\ \E s \in SensorIds : pending[s] # <<>>
    /\ visit' = 1 /\ count' = 0
    /\ UNCHANGED <<loop, sensorQueue, available, pending, events, readings,
                   received, pulling>>

GoOn == visit' = (IF visit < NoSensors THEN visit + 1 ELSE 0) /\ pulling' = FALSE

\* Mutant of HasEvents: a sensor without events ends the walk.
HasEventsOrEnd ==
    /\ loop = "running" /\ visit # 0 /\ ~pulling
    /\ IF pending[visit] # <<>>
       THEN pulling' = TRUE /\ visit' = visit
       ELSE pulling' = FALSE /\ visit' = 0
    /\ count' = 0
    /\ UNCHANGED <<loop, sensorQueue, available, pending, events, readings, received>>

\* ASensorEventQueue_hasEvents; `good' is not looked at, so a sensor without a
\* queue is asked too: undefined, it may crash.
HasEvents ==
    /\ loop = "running" /\ visit # 0 /\ ~pulling
    /\ \/ /\ pending[visit] # <<>>
          /\ pulling' = TRUE /\ count' = 0
          /\ UNCHANGED <<loop, visit>>
       \/ /\ pending[visit] = <<>>
          /\ GoOn
          /\ \/ UNCHANGED loop
             \/ sensorQueue[visit] # "live" /\ loop' = "crashed"
          /\ UNCHANGED count
    /\ UNCHANGED <<sensorQueue, available, pending, events, readings, received>>

\* prune walks the map from its oldest event on while it is too large, erases
\* what it comes to and steps over the event after it, for `it' is at the next
\* already when the loop goes on.  Ranks count from 0, the oldest.
Rank(e, S) == Cardinality({f \in S : Older(f, e)})

\* Mutant of Prune: the loop goes on while the map is not below its size, and
\* so steps over an older event to erase a newer.
PruneBelow(S) ==
    LET excess == Cardinality(S) - MaxReadings + 1
    IN  {e \in S : Rank(e, S) % 2 = 1 \/ Rank(e, S) >= 2 * excess}

\* The loop ends when the map is small enough; excess is how much it is above.
Prune(S) ==
    LET excess == Cardinality(S) - MaxReadings
    IN  {e \in S : Rank(e, S) % 2 = 1 \/ Rank(e, S) >= 2 * excess}

\* bounded_map::insert, of one event at a time.
Insert(s, e) ==
    LET S == readings[s] \cup {e}
    IN  readings' = [readings EXCEPT ![s] =
                        IF Cardinality(S) > MaxReadings THEN Prune(S) ELSE S]

\* One turn of the loop around ASensorEventQueue_getEvents.
GetEvent ==
    /\ loop = "running" /\ visit # 0 /\ pulling
    /\ IF pending[visit] = <<>>
       THEN GoOn /\ UNCHANGED <<pending, readings, received, count>>
       ELSE /\ Insert(visit, Head(pending[visit]))
            /\ received' = [received EXCEPT ![visit] = @ \cup {Head(pending[visit])}]
            /\ pending' = [pending EXCEPT ![visit] = Tail(@)]
            /\ count' = count + 1
            /\ IF count > MaxToProcess THEN GoOn ELSE UNCHANGED <<visit, pulling>>
    /\ UNCHANGED <<loop, sensorQueue, available, events>>

ProcessQueues == Poll \/ HasEvents \/ GetEvent

\* must_terminate is tested between two calls of process_queues.
LeaveLoop ==
    /\ loop = "running" /\ visit = 0
    /\ loop' = "done"
    /\ UNCHANGED <<sensorQueue, available, pending, events, readings, received,
                   visit, pulling, count>>

Next ==
    \/ Initialize
    \/ ProcessQueues
    \/ LeaveLoop
    \/ \E s \in SensorIds, t \in 1 .. MaxStamp : SensorFires(s, t)

Spec == Init /\ [][Next]_vars

\* The run thread runs; Android and the user owe nothing.
FairSpec == Spec /\ WF_vars(ProcessQueues)

-----------------------------------------------------------------------------

\* Each map holds the newest events of its sensor, as many as it may: an event
\* that is not in it is older than all that are, whatever the order in which
\* they came ("limits size by removing the smallest keys first",
\* bounded_map.h:9).
NewestKept ==
    \A s \in SensorIds :
        /\ readings[s] \subseteq received[s]
        /\ \A e \in received[s] \ readings[s], f \in readings[s] : Older(e, f)
        /\ Cardinality(readings[s]) <= MaxReadings
        /\ readings[s] # received[s] => Cardinality(readings[s]) = MaxReadings

\* While the loop runs, what a sensor measured gets into its map, however busy
\* the sensors before it in the walk are.
EventsArrive ==
    \A s \in SensorIds, n \in 1 .. MaxEvents :
        (\E i \in DOMAIN pending[s] : pending[s][i].n = n) ~>
            ((\E e \in received[s] : e.n = n) \/ loop \in {"done", "crashed"})

=============================================================================
