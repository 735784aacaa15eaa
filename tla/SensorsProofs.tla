--------------------------- MODULE SensorsProofs ----------------------------
(***************************************************************************)
(* Theorems about Sensors: what the bounded maps hold.                     *)
(***************************************************************************)
EXTENDS Sensors, FiniteSetTheorems, WellFoundedInduction, TLAPS

Finite == \A s \in SensorIds : IsFiniteSet(readings[s])

IInv == TypeOK /\ Finite /\ NewestKept

Oldest(e, S) == \A f \in S \ {e} : Older(e, f)

-----------------------------------------------------------------------------

\* Older orders the events.
LEMMA OlderTransitive ==
    ASSUME NEW e \in SensorEvents, NEW f \in SensorEvents, NEW g \in SensorEvents,
           Older(e, f), Older(f, g)
    PROVE  Older(e, g)
<1>1. /\ e.t \in Int /\ f.t \in Int /\ g.t \in Int
      /\ e.n \in Int /\ f.n \in Int /\ g.n \in Int
  BY SensorAssumption DEF SensorEvents
<1> QED
  BY <1>1 DEF Older

\* There is one that is older than all others.
LEMMA OldestExists ==
    ASSUME NEW S \in SUBSET SensorEvents, IsFiniteSet(S), S # {}
    PROVE  \E o \in S : Oldest(o, S)
<1> DEFINE Before(e) == {f \in S : Older(f, e)}
           Closed == {Q \in SUBSET S : Q # {} /\ \A e \in Q : Before(e) \subseteq Q}
<1>1. IsWellFoundedOn(StrictSubsetOrdering(S), FiniteSubsetsOf(S))
  BY FS_StrictSubsetOrderingWellFounded
<1>2. Closed \subseteq FiniteSubsetsOf(S) /\ Closed # {}
  BY FS_Subset DEF FiniteSubsetsOf
<1>3. PICK Q \in Closed : \A D \in Closed : <<D, Q>> \notin StrictSubsetOrdering(S)
  <2> HIDE DEF Closed
  <2> QED
    BY <1>1, <1>2, WFMin
<1>4. PICK o \in Q : TRUE
  BY <1>3
<1>5. o \in S /\ ~Older(o, o)
  BY <1>3, <1>4, SensorAssumption DEF Older, SensorEvents
<1>6. \A e \in Before(o) : Before(e) \subseteq Before(o)
  BY <1>5, OlderTransitive
<1>7. Before(o) = {}
  <2>1. Before(o) \subseteq Q /\ o \notin Before(o)
    BY <1>3, <1>4, <1>5
  <2>2. Before(o) # {} => Before(o) \in Closed
    BY <1>6
  <2>3. Before(o) # {} => <<Before(o), Q>> \in StrictSubsetOrdering(S)
    BY <1>3, <1>4, <2>1 DEF StrictSubsetOrdering
  <2> QED
    BY <1>3, <2>2, <2>3
<1>8. \A f \in S : ~Older(f, o)
  BY <1>7
<1>9. \A f \in S \ {o} : Older(o, f)
  BY <1>5, <1>8, SensorAssumption DEF Older, SensorEvents
<1> QED
  BY <1>5, <1>9 DEF Oldest

\* One event too many, and prune takes out the oldest and no other.
LEMMA PruneOne ==
    ASSUME NEW S \in SUBSET SensorEvents, IsFiniteSet(S),
           Cardinality(S) = MaxReadings + 1
    PROVE  \E o \in S : Oldest(o, S) /\ Prune(S) = S \ {o}
<1>1. S # {}
  BY FS_EmptySet, SensorAssumption
<1>2. PICK o \in S : Oldest(o, S)
  BY <1>1, OldestExists
<1>3. ASSUME NEW e \in S
      PROVE  Rank(e, S) \in Nat /\ (Rank(e, S) = 0 <=> e = o)
  <2>1. IsFiniteSet({f \in S : Older(f, e)})
    BY FS_Subset
  <2>2. {f \in S : Older(f, e)} = {} <=> e = o
    BY <1>2, SensorAssumption DEF Oldest, Older, SensorEvents
  <2> QED
    BY <2>1, <2>2, FS_EmptySet, FS_CardinalityType DEF Rank
<1>4. Cardinality(S) - MaxReadings = 1
  BY SensorAssumption
<1>5. \A r \in Nat : r % 2 = 1 \/ r >= 2 * 1 <=> r # 0
  OBVIOUS
<1>6. Prune(S) = {e \in S : Rank(e, S) # 0}
  BY <1>3, <1>4, <1>5 DEF Prune
<1> QED
  BY <1>2, <1>3, <1>6

\* What insert and prune make of one map R whose sensor has sent C so far.
LEMMA InsertKeepsNewest ==
    ASSUME NEW R, NEW C \in SUBSET SensorEvents, NEW e \in SensorEvents, NEW N,
           R \subseteq C, IsFiniteSet(R),
           \A x \in C \ R, f \in R : Older(x, f),
           Cardinality(R) <= MaxReadings,
           R # C => Cardinality(R) = MaxReadings,
           \/ Cardinality(R \cup {e}) <= MaxReadings /\ N = R \cup {e}
           \/ /\ Cardinality(R \cup {e}) > MaxReadings
              /\ \E o \in R \cup {e} : Oldest(o, R \cup {e}) /\ N = (R \cup {e}) \ {o}
    PROVE  /\ N \subseteq C \cup {e} /\ IsFiniteSet(N)
           /\ \A x \in (C \cup {e}) \ N, f \in N : Older(x, f)
           /\ Cardinality(N) <= MaxReadings
           /\ N # C \cup {e} => Cardinality(N) = MaxReadings
<1>1. /\ IsFiniteSet(R \cup {e})
      /\ Cardinality(R) \in Nat /\ MaxReadings \in Nat
      /\ Cardinality(R \cup {e}) =
            IF e \in R THEN Cardinality(R) ELSE Cardinality(R) + 1
  BY FS_AddElement, FS_CardinalityType, SensorAssumption
<1>2. CASE Cardinality(R \cup {e}) <= MaxReadings /\ N = R \cup {e}
  <2>1. R = C \/ e \in R
    BY <1>1, <1>2
  <2>2. N = C \cup {e} \/ (N = R /\ C \cup {e} = C)
    BY <1>2, <2>1
  <2> QED
    BY <1>1, <1>2, <2>2
<1>3. CASE /\ Cardinality(R \cup {e}) > MaxReadings
           /\ \E o \in R \cup {e} : Oldest(o, R \cup {e}) /\ N = (R \cup {e}) \ {o}
  <2>1. PICK o \in R \cup {e} : Oldest(o, R \cup {e}) /\ N = (R \cup {e}) \ {o}
    BY <1>3
  <2>2. e \notin R /\ Cardinality(R \cup {e}) = MaxReadings + 1
    BY <1>1, <1>3
  <2>3. IsFiniteSet(N) /\ Cardinality(N) = Cardinality(R \cup {e}) - 1
    BY <1>1, <2>1, FS_RemoveElement
  <2>4. Cardinality(N) = MaxReadings
    BY <1>1, <2>2, <2>3
  <2>5. N \subseteq C \cup {e}
    BY <2>1
  <2>6. ASSUME NEW x \in (C \cup {e}) \ N, NEW f \in N
        PROVE  Older(x, f)
    <3>1. \A g \in (R \cup {e}) \ {o} : Older(o, g)
      BY <2>1 DEF Oldest
    <3>2. CASE x = o
      BY <2>1, <3>1, <3>2
    <3>3. CASE x # o
      <4>1. x \in C \ R
        BY <2>1, <3>3
      <4>2. CASE f \in R
        BY <4>1, <4>2
      <4>3. CASE f \notin R
        <5>1. f = e /\ o \in R
          BY <2>1, <4>3
        <5>2. Older(x, o) /\ Older(o, f)
          BY <2>1, <3>1, <4>1, <5>1
        <5> QED
          BY <4>1, <5>1, <5>2, OlderTransitive
      <4> QED
        BY <4>2, <4>3
    <3> QED
      BY <3>2, <3>3
  <2> QED
    BY <1>1, <2>3, <2>4, <2>5, <2>6
<1> QED
  BY <1>2, <1>3

\* The maps start empty.
LEMMA Initially == Init => IInv
<1> SUFFICES ASSUME Init PROVE IInv
  OBVIOUS
<1>1. TypeOK
  <2>1. 0 \in 0 .. MaxEvents /\ 0 \in 0 .. NoSensors
    BY SensorAssumption
  <2>2. pending \in [SensorIds -> Seq(SensorEvents)]
    BY DEF Init
  <2>3. readings \in [SensorIds -> SUBSET SensorEvents]
    BY DEF Init
  <2>4. received \in [SensorIds -> SUBSET SensorEvents]
    BY DEF Init
  <2> QED
    BY <2>1, <2>2, <2>3, <2>4 DEF Init, TypeOK
<1>2. Finite /\ NewestKept
  BY FS_EmptySet, SensorAssumption DEF Init, Finite, NewestKept
<1> QED
  BY <1>1, <1>2 DEF IInv

\* Steps that leave the maps alone.
LEMMA MapsUnchanged ==
    ASSUME IInv, UNCHANGED <<readings, received>>
    PROVE  Finite' /\ NewestKept'
  BY DEF IInv, Finite, NewestKept

\* The loop goes on to the next sensor or starts over.
LEMMA GoesOn ==
    ASSUME IInv, GoOn
    PROVE  visit' \in 0 .. NoSensors /\ pulling' = FALSE
  BY SensorAssumption DEF IInv, TypeOK, GoOn

\* An event goes in, and the oldest out when the map is full.
LEMMA GetEventStep == IInv /\ GetEvent => IInv'
<1> SUFFICES ASSUME IInv, GetEvent PROVE IInv'
  OBVIOUS
<1>1. CASE pending[visit] = <<>>
  <2>1. GoOn /\ UNCHANGED <<loop, sensorQueue, available, pending, events, readings,
                            received, count>>
    BY <1>1 DEF GetEvent
  <2>2. TypeOK'
    BY <2>1, GoesOn DEF IInv, TypeOK
  <2> QED
    BY <2>1, <2>2, MapsUnchanged DEF IInv
<1>2. CASE pending[visit] # <<>>
  <2> DEFINE e == Head(pending[visit])
  <2>1. /\ Insert(visit, e)
        /\ received' = [received EXCEPT ![visit] = @ \cup {e}]
        /\ pending' = [pending EXCEPT ![visit] = Tail(@)]
        /\ count' = count + 1
        /\ GoOn \/ UNCHANGED <<visit, pulling>>
        /\ UNCHANGED <<loop, sensorQueue, available, events>>
    BY <1>2 DEF GetEvent
  <2>2. visit \in SensorIds
    BY SensorAssumption DEF GetEvent, IInv, TypeOK, SensorIds
  <2>3. pending[visit] \in Seq(SensorEvents)
    BY <2>2 DEF IInv, TypeOK
  <2>4. e \in SensorEvents /\ Tail(pending[visit]) \in Seq(SensorEvents)
    BY <1>2, <2>3
  <2> DEFINE R == readings[visit]
             C == received[visit]
             N == readings'[visit]
  <2>5. R \in SUBSET SensorEvents /\ C \in SUBSET SensorEvents /\ IsFiniteSet(R)
    BY <2>2 DEF IInv, TypeOK, Finite
  <2>6. readings \in [SensorIds -> SUBSET SensorEvents]
    BY DEF IInv, TypeOK
  <2>7. Cardinality(R \cup {e}) \in Nat /\ MaxReadings \in Nat
    BY <2>5, FS_AddElement, FS_CardinalityType, SensorAssumption
  <2>8. /\ readings' = [readings EXCEPT ![visit] = N]
        /\ \/ Cardinality(R \cup {e}) <= MaxReadings /\ N = R \cup {e}
           \/ /\ Cardinality(R \cup {e}) > MaxReadings
              /\ \E o \in R \cup {e} : Oldest(o, R \cup {e}) /\ N = (R \cup {e}) \ {o}
    <3>1. CASE Cardinality(R \cup {e}) > MaxReadings
      <4>1. readings' = [readings EXCEPT ![visit] = Prune(R \cup {e})]
        BY <2>1, <3>1 DEF Insert
      <4>2. N = Prune(R \cup {e})
        BY <2>2, <2>6, <4>1
      <4>3. Cardinality(R) <= MaxReadings /\ Cardinality(R) \in Nat
        BY <2>2, <2>5, FS_CardinalityType DEF IInv, NewestKept
      <4>4. Cardinality(R \cup {e}) = MaxReadings + 1
        <5>1. Cardinality(R \cup {e}) =
                  IF e \in R THEN Cardinality(R) ELSE Cardinality(R) + 1
          <6> HIDE DEF R, e
          <6> QED
            BY <2>5, FS_AddElement
        <5> HIDE DEF R, e
        <5> QED
          BY <2>7, <3>1, <4>3, <5>1
      <4>5. R \cup {e} \in SUBSET SensorEvents /\ IsFiniteSet(R \cup {e})
        BY <2>4, <2>5, FS_AddElement
      <4>6. PICK o \in R \cup {e} : /\ Oldest(o, R \cup {e})
                                    /\ Prune(R \cup {e}) = (R \cup {e}) \ {o}
        BY <4>4, <4>5, PruneOne
      <4> QED
        BY <3>1, <4>1, <4>2, <4>6
    <3>2. CASE ~(Cardinality(R \cup {e}) > MaxReadings)
      <4>1. readings' = [readings EXCEPT ![visit] = R \cup {e}]
        BY <2>1, <3>2 DEF Insert
      <4>2. N = R \cup {e}
        BY <2>2, <2>6, <4>1
      <4>3. Cardinality(R \cup {e}) <= MaxReadings
        BY <2>7, <3>2
      <4>4. readings' = [readings EXCEPT ![visit] = N]
        BY <4>1, <4>2
      <4> QED
        BY <4>2, <4>3, <4>4
    <3> QED
      BY <3>1, <3>2
  <2>9. /\ R \subseteq C
        /\ \A x \in C \ R, f \in R : Older(x, f)
        /\ Cardinality(R) <= MaxReadings
        /\ R # C => Cardinality(R) = MaxReadings
    BY <2>2 DEF IInv, NewestKept
  <2> HIDE DEF N, R, C, e
  <2>10. /\ N \subseteq C \cup {e} /\ IsFiniteSet(N)
         /\ \A x \in (C \cup {e}) \ N, f \in N : Older(x, f)
         /\ Cardinality(N) <= MaxReadings
         /\ N # C \cup {e} => Cardinality(N) = MaxReadings
    BY ZenonT(60), <2>4, <2>5, <2>8, <2>9, InsertKeepsNewest
  <2>11. received'[visit] = C \cup {e} /\ readings'[visit] = N
    BY <2>1, <2>2 DEF IInv, TypeOK, C, N
  <2>12. \A s \in SensorIds \ {visit} :
            readings'[s] = readings[s] /\ received'[s] = received[s]
    BY <2>1, <2>6, <2>8 DEF IInv, TypeOK
  <2>13. Finite'
    <3> SUFFICES ASSUME NEW s \in SensorIds PROVE IsFiniteSet(readings'[s])
      BY DEF Finite
    <3>1. CASE s = visit
      BY <3>1, <2>10, <2>11
    <3>2. CASE s # visit
      BY <3>2, <2>12 DEF IInv, Finite
    <3> QED
      BY <3>1, <3>2
  <2>14. NewestKept'
    <3> SUFFICES ASSUME NEW s \in SensorIds
                 PROVE  /\ readings'[s] \subseteq received'[s]
                        /\ \A x \in received'[s] \ readings'[s], f \in readings'[s] :
                              Older(x, f)
                        /\ Cardinality(readings'[s]) <= MaxReadings
                        /\ readings'[s] # received'[s] =>
                              Cardinality(readings'[s]) = MaxReadings
      BY DEF NewestKept
    <3>1. CASE s = visit
      BY <3>1, <2>10, <2>11
    <3>2. CASE s # visit
      <4>1. readings'[s] = readings[s] /\ received'[s] = received[s]
        BY <3>2, <2>12
      <4> QED
        BY <4>1 DEF IInv, NewestKept
    <3> QED
      BY <3>1, <3>2
  <2>15. TypeOK'
    <3>1. visit' \in 0 .. NoSensors /\ pulling' \in BOOLEAN
      BY <2>1, GoesOn DEF IInv, TypeOK
    <3>2. pending' \in [SensorIds -> Seq(SensorEvents)]
      BY <2>1, <2>2, <2>4 DEF IInv, TypeOK
    <3>3. received' \in [SensorIds -> SUBSET SensorEvents]
      BY <2>1, <2>4 DEF IInv, TypeOK
    <3>4. N \in SUBSET SensorEvents
      BY <2>4, <2>5, <2>10
    <3>5. readings' \in [SensorIds -> SUBSET SensorEvents]
      BY <2>6, <2>8, <3>4
    <3>6. count' \in Nat
      BY <2>1 DEF IInv, TypeOK
    <3> QED
      BY <2>1, <3>1, <3>2, <3>3, <3>5, <3>6 DEF IInv, TypeOK
  <2> QED
    BY <2>13, <2>14, <2>15 DEF IInv
<1> QED
  BY <1>1, <1>2

\* Starting, polling and leaving the loop touch no map.
LEMMA OtherSteps ==
    ASSUME IInv, Initialize \/ Poll \/ HasEvents \/ LeaveLoop
    PROVE  IInv'
<1>1. CASE Initialize
  <2>1. IsFiniteSet(SensorIds)
    BY FS_Interval, SensorAssumption DEF SensorIds
  <2>2. {s \in SensorIds : sensorQueue'[s] = "live"} \in SUBSET SensorIds
    OBVIOUS
  <2>3. available' \in Nat
    BY <1>1, <2>1, <2>2, FS_Subset, FS_CardinalityType DEF Initialize
  <2>4. TypeOK'
    BY <1>1, <2>3 DEF Initialize, IInv, TypeOK
  <2> QED
    BY <1>1, <2>4, MapsUnchanged DEF Initialize, IInv
<1>2. CASE Poll
  <2>1. 1 \in 0 .. NoSensors
    <3>1. PICK s \in SensorIds : pending[s] # <<>>
      BY <1>2 DEF Poll
    <3> QED
      BY <3>1, SensorAssumption DEF SensorIds
  <2>2. TypeOK'
    BY <1>2, <2>1 DEF Poll, IInv, TypeOK
  <2> QED
    BY <1>2, <2>2, MapsUnchanged DEF Poll, IInv
<1>3. CASE HasEvents
  <2>1. loop' \in {"off", "running", "done", "crashed"} /\ count' \in Nat
    BY <1>3 DEF HasEvents, IInv, TypeOK
  <2>2. visit' \in 0 .. NoSensors /\ pulling' \in BOOLEAN
    BY <1>3, GoesOn DEF HasEvents, IInv, TypeOK
  <2>3. TypeOK'
    BY <1>3, <2>1, <2>2 DEF HasEvents, IInv, TypeOK
  <2> QED
    BY <1>3, <2>3, MapsUnchanged DEF HasEvents, IInv
<1>4. CASE LeaveLoop
  <2>1. TypeOK'
    BY <1>4 DEF LeaveLoop, IInv, TypeOK
  <2> QED
    BY <1>4, <2>1, MapsUnchanged DEF LeaveLoop, IInv
<1> QED
  BY <1>1, <1>2, <1>3, <1>4

\* An event that arrives waits in its queue.
LEMMA FiresStep ==
    ASSUME IInv, NEW s \in SensorIds, NEW t \in 1 .. MaxStamp, SensorFires(s, t)
    PROVE  IInv'
<1>1. events + 1 \in 1 .. MaxEvents
  BY SensorAssumption DEF SensorFires, IInv, TypeOK
<1>2. [t |-> t, n |-> events + 1] \in SensorEvents
  BY <1>1 DEF SensorEvents
<1>3. pending' \in [SensorIds -> Seq(SensorEvents)]
  BY <1>2 DEF SensorFires, IInv, TypeOK
<1>4. TypeOK'
  BY <1>1, <1>3 DEF SensorFires, IInv, TypeOK
<1> QED
  BY <1>4, MapsUnchanged DEF SensorFires, IInv

\* Every step keeps the maps' newest.
LEMMA Step == IInv /\ [Next]_vars => IInv'
<1> SUFFICES ASSUME IInv, [Next]_vars PROVE IInv'
  OBVIOUS
<1>1. CASE UNCHANGED vars
  BY <1>1 DEF vars, IInv, TypeOK, Finite, NewestKept
<1>2. CASE Next
  BY <1>2, GetEventStep, OtherSteps, FiresStep DEF Next, ProcessQueues
<1> QED
  BY <1>1, <1>2

\* The invariant, for any number of sensors and any bound.
THEOREM Invariance == Spec => []IInv
  BY Initially, Step, PTL DEF Spec

\* Type correctness.
THEOREM TypeCorrect == Spec => []TypeOK
<1>1. IInv => TypeOK
  BY DEF IInv
<1> QED
  BY <1>1, Invariance, PTL

\* The maps hold the newest events, as many as they may (bounded_map.h:22-28,
\* 90-101).
THEOREM KeepsNewest == Spec => []NewestKept
<1>1. IInv => NewestKept
  BY DEF IInv
<1> QED
  BY <1>1, Invariance, PTL

=============================================================================
