---------------------------- MODULE DeliveryProofs ----------------------------
(***************************************************************************)
(* Proofs about the delivery of tasks and answers, for any number of       *)
(* instances and faults: the relays lose nothing that was committed, and   *)
(* the consumers skip nothing but what a shutdown made them give up.       *)
(***************************************************************************)
EXTENDS Delivery, FiniteSetTheorems, TLAPS

\* What a tick has locked is in the outbox, and what it has published is in Kafka.
TicksHoldRows ==
  \A r \in Relays : claimed[r] \subseteq queue /\ sent[r] \subseteq claimed[r] \cap Published

\* Rows are locked by one tick at a time.
LocksAreExclusive == \A r, s \in Relays : r # s => claimed[r] \cap claimed[s] = {}

RelayInv == RelayTypeOK /\ TicksHoldRows /\ LocksAreExclusive

\* All that is before the place of a consumer has been handled or given up.
ReadersSkipNothing ==
  \A p \in Consumers :
    /\ \A o \in 0..(reader[p].offset - 1) : o \in handled \cup abandoned
    /\ reader[p].at = "committing" => reader[p].offset \in handled

IInv == TypeOK /\ RelayInv /\ ReadersSkipNothing /\ OnlyAbandonedAreSkipped

-----------------------------------------------------------------------------
(* The relays *)

LEMMA PublishedByAppend ==
  ASSUME topic \in Seq(Events), NEW e \in Events, topic' = Append(topic, e)
  PROVE  Published' = Published \cup {e} /\ topic' \in Seq(Events) /\ Len(topic') = Len(topic) + 1
<1>1. topic' \in Seq(Events) /\ Len(topic') = Len(topic) + 1 /\ Len(topic) \in Nat
  OBVIOUS
<1>2. \A i \in 1..Len(topic) : topic'[i] = topic[i]
  OBVIOUS
<1>3. topic'[Len(topic) + 1] = e
  OBVIOUS
<1>4. 1..Len(topic') = (1..Len(topic)) \cup {Len(topic) + 1}
  BY <1>1
<1> QED
  BY <1>1, <1>2, <1>3, <1>4 DEF Published

\* A fault of another component.
OtherFault == Fault /\ UNCHANGED <<queue, topic, claimed, sent>>

\* Every step of the composition, as it bears on the outbox.
RelayMoves == RelayNext \/ OtherFault \/ UNCHANGED relayVars

LEMMA FaultType == RelayTypeOK /\ Fault => faults' \in 0..MaxFaults
BY FaultsAssumption DEF RelayTypeOK, Fault

LEMMA RelayStepInv == ASSUME RelayInv, RelayMoves PROVE RelayInv'
<1> USE DEF RelayInv
<1>1. ASSUME NEW e \in Events, Insert(e) PROVE RelayInv'
  BY <1>1 DEF Insert, RelayTypeOK, TicksHoldRows, LocksAreExclusive, Published
<1>2. ASSUME NEW r \in Relays, SelectBatch(r) PROVE RelayInv'
  <2>1. PICK batch \in SUBSET FreeRows : claimed' = [claimed EXCEPT ![r] = batch]
    BY <1>2 DEF SelectBatch
  <2>2. UNCHANGED <<queue, topic, sent, faults>> /\ claimed[r] = {}
    BY <1>2 DEF SelectBatch
  <2>3. batch \subseteq queue /\ \A s \in Relays : batch \cap claimed[s] = {}
    BY DEF FreeRows
  <2>4. RelayTypeOK'
    BY <2>1, <2>2, <2>3 DEF RelayTypeOK
  <2>5. TicksHoldRows'
    BY <2>1, <2>2, <2>3 DEF RelayTypeOK, TicksHoldRows, Published
  <2>6. LocksAreExclusive'
    BY <2>1, <2>2, <2>3 DEF RelayTypeOK, LocksAreExclusive
  <2> QED
    BY <2>4, <2>5, <2>6
<1>3. ASSUME NEW r \in Relays, Publish(r) PROVE RelayInv'
  <2>1. PICK e \in claimed[r] : topic' = Append(topic, e) /\ sent' = [sent EXCEPT ![r] = @ \cup {e}]
    BY <1>3 DEF Publish
  <2>2. e \in Events /\ UNCHANGED <<queue, claimed, faults>>
    BY <1>3 DEF Publish, RelayTypeOK
  <2>3. Published' = Published \cup {e} /\ topic' \in Seq(Events)
    BY <2>1, <2>2, PublishedByAppend DEF RelayTypeOK
  <2>4. RelayTypeOK'
    BY <2>1, <2>2, <2>3 DEF RelayTypeOK
  <2>5. TicksHoldRows'
    BY <2>1, <2>2, <2>3 DEF RelayTypeOK, TicksHoldRows
  <2>6. LocksAreExclusive'
    BY <2>2 DEF LocksAreExclusive
  <2> QED
    BY <2>4, <2>5, <2>6
<1>4. ASSUME NEW r \in Relays, DeleteAndCommit(r) PROVE RelayInv'
  <2>1. /\ queue' = queue \ claimed[r] /\ UNCHANGED <<topic, faults>>
        /\ claimed' = [claimed EXCEPT ![r] = {}] /\ sent' = [sent EXCEPT ![r] = {}]
    BY <1>4 DEF DeleteAndCommit
  <2>2. RelayTypeOK'
    BY <2>1 DEF RelayTypeOK
  <2>3. TicksHoldRows'
    BY <2>1 DEF RelayTypeOK, TicksHoldRows, LocksAreExclusive, Published
  <2>4. LocksAreExclusive'
    BY <2>1 DEF RelayTypeOK, LocksAreExclusive
  <2> QED
    BY <2>2, <2>3, <2>4
<1>5. ASSUME NEW r \in Relays, Unlock(r), UNCHANGED queue,
             Published \subseteq Published', topic' \in Seq(Events), faults' \in 0..MaxFaults
      PROVE  RelayInv'
  BY <1>5 DEF Unlock, RelayTypeOK, TicksHoldRows, LocksAreExclusive
<1>6. ASSUME NEW r \in Relays, PublishFails(r) PROVE RelayInv'
  <2>1. PICK e \in claimed[r] : topic' \in {topic, Append(topic, e)}
    BY <1>6 DEF PublishFails
  <2>2. topic' \in Seq(Events) /\ Published \subseteq Published'
    <3>1. CASE topic' = topic
      BY <3>1 DEF RelayTypeOK, Published
    <3>2. CASE topic' = Append(topic, e)
      BY <3>2, PublishedByAppend DEF RelayTypeOK
    <3> QED
      BY <2>1, <3>1, <3>2
  <2> QED
    BY <2>2, <1>5, <1>6, FaultType DEF PublishFails
<1>7. ASSUME NEW r \in Relays, TickFails(r) \/ Cut(r) \/ Interrupt(r) PROVE RelayInv'
  <2>1. Unlock(r) /\ UNCHANGED <<queue, topic>> /\ faults' \in 0..MaxFaults
    BY <1>7, FaultType DEF TickFails, Cut, Interrupt, RelayTypeOK
  <2> QED
    BY <2>1, <1>5 DEF RelayTypeOK, Published
<1>8. ASSUME OtherFault PROVE RelayInv'
  BY <1>8, FaultType DEF OtherFault, RelayTypeOK, TicksHoldRows, LocksAreExclusive, Published
<1>9. ASSUME UNCHANGED relayVars PROVE RelayInv'
  BY <1>9 DEF relayVars, RelayTypeOK, TicksHoldRows, LocksAreExclusive, Published
<1> QED
  BY <1>1, <1>2, <1>3, <1>4, <1>6, <1>7, <1>8, <1>9 DEF RelayMoves, RelayNext, RelayStep

\* Kafka is the only place an accepted event goes to.
LEMMA RelayStepMaps ==
  ASSUME RelayInv, RelayMoves
  PROVE  Promise!Next \/ UNCHANGED Promise!vars
<1> USE DEF RelayInv
<1>1. ASSUME NEW e \in Events, Insert(e) PROVE Promise!Next
  <2>1. Promise!Accept(e)
    BY <1>1 DEF Insert, Promise!Accept, Published
  <2> QED
    BY <2>1 DEF Promise!Next
<1>2. ASSUME UNCHANGED <<queue, topic>> PROVE UNCHANGED Promise!vars
  BY <1>2 DEF Promise!vars, Published
<1>3. ASSUME NEW r \in Relays, NEW e \in claimed[r], topic' = Append(topic, e), UNCHANGED queue
      PROVE  Promise!Next \/ UNCHANGED Promise!vars
  <2>1. e \in Events /\ e \in queue
    BY DEF RelayTypeOK, TicksHoldRows
  <2>2. Published' = Published \cup {e}
    BY <1>3, <2>1, PublishedByAppend DEF RelayTypeOK
  <2>3. CASE e \in Published
    BY <1>3, <2>1, <2>2, <2>3 DEF Promise!vars
  <2>4. CASE e \notin Published
    <3>1. Promise!Deliver(e)
      BY <1>3, <2>1, <2>2, <2>4 DEF Promise!Deliver
    <3> QED
      BY <2>1, <3>1 DEF Promise!Next
  <2> QED
    BY <2>3, <2>4
<1>4. ASSUME NEW r \in Relays, Publish(r) \/ PublishFails(r)
      PROVE  Promise!Next \/ UNCHANGED Promise!vars
  BY <1>2, <1>3, <1>4 DEF Publish, PublishFails
<1>5. ASSUME NEW r \in Relays, DeleteAndCommit(r) PROVE UNCHANGED Promise!vars
  BY <1>5 DEF DeleteAndCommit, TicksHoldRows, Promise!vars, Published
<1>6. ASSUME NEW r \in Relays, SelectBatch(r) \/ TickFails(r) \/ Cut(r) \/ Interrupt(r)
      PROVE  UNCHANGED Promise!vars
  BY <1>2, <1>6 DEF SelectBatch, TickFails, Cut, Interrupt
<1>7. ASSUME OtherFault \/ UNCHANGED relayVars PROVE UNCHANGED Promise!vars
  BY <1>2, <1>7 DEF OtherFault, relayVars
<1> QED
  BY <1>1, <1>4, <1>5, <1>6, <1>7 DEF RelayMoves, RelayNext, RelayStep

LEMMA RelayInitInv == RelayInit => RelayInv
BY FaultsAssumption DEF RelayInit, RelayInv, RelayTypeOK, TicksHoldRows, LocksAreExclusive, Published

LEMMA RelayInitMaps == RelayInit => Promise!Init
BY DEF RelayInit, Promise!Init, Published

-----------------------------------------------------------------------------
(* The consumers *)

ConsumerInv == ConsumerTypeOK /\ ReadersSkipNothing /\ OnlyAbandonedAreSkipped

\* Every step of the composition, as it bears on the consumers.
ConsumerMoves ==
  \/ \E p \in Consumers :
       \/ \E cancelled \in BOOLEAN : ConsumerStep(p, answered, cancelled)
       \/ FetchFails(p) \/ Rebalance(p) \/ Joins(p) \/ Leaves(p)
  \/ UNCHANGED consumerVars

\* A consumer that only changes its place, unless it comes to commit.
LEMMA GoKeeps ==
  ASSUME ConsumerInv, NEW p \in Consumers, NEW place \in Places \ {"committing"}, Go(p, place),
         UNCHANGED <<owner, committed, handled, abandoned>>
  PROVE  ConsumerInv'
BY DEF ConsumerInv, ConsumerTypeOK, ReadersSkipNothing, OnlyAbandonedAreSkipped, Go

\* A consumer that goes on to the next message has handled this one or given it up.
LEMMA AdvanceKeeps ==
  ASSUME ConsumerInv, NEW p \in Consumers,
         reader' = [reader EXCEPT ![p] = [at |-> "fetching", offset |-> @.offset + 1]],
         committed' \in {committed, reader[p].offset + 1}, owner' = owner,
         handled' = handled, abandoned \subseteq abandoned', abandoned' \subseteq Nat,
         reader[p].offset \in handled' \cup abandoned'
  PROVE  ConsumerInv'
<1> DEFINE n == reader[p].offset
<1>1. /\ n \in Nat /\ committed \in Nat
      /\ \A o \in 0..(n - 1) : o \in handled \cup abandoned
      /\ \A o \in 0..(committed - 1) : o \in handled \cup abandoned
  BY DEF ConsumerInv, ConsumerTypeOK, ReadersSkipNothing, OnlyAbandonedAreSkipped
<1>2. \A o \in 0..n : o \in handled' \cup abandoned'
  BY <1>1
<1>3. \A q \in Consumers : reader'[q] = IF q = p THEN [at |-> "fetching", offset |-> n + 1] ELSE reader[q]
  BY DEF ConsumerInv, ConsumerTypeOK
<1>4. ConsumerTypeOK'
  BY <1>1, <1>3 DEF ConsumerInv, ConsumerTypeOK, Places
<1>5. \A o \in 0..(committed' - 1) : o \in handled' \cup abandoned'
  <2>1. CASE committed' = committed
    BY <1>1, <2>1
  <2>2. CASE committed' = n + 1
    <3>1. committed' - 1 = n
      BY <1>1, <2>2
    <3> QED
      BY <1>2, <3>1
  <2> QED
    BY <2>1, <2>2
<1>6. ASSUME NEW q \in Consumers
      PROVE  /\ \A o \in 0..(reader'[q].offset - 1) : o \in handled' \cup abandoned'
             /\ reader'[q].at = "committing" => reader'[q].offset \in handled'
  <2>1. CASE q = p
    <3>1. reader'[q].at = "fetching" /\ reader'[q].offset - 1 = n
      BY <1>1, <1>3, <2>1
    <3> QED
      BY <3>1, <1>2
  <2>2. CASE q # p
    BY <1>3, <2>2 DEF ConsumerInv, ReadersSkipNothing
  <2> QED
    BY <2>1, <2>2
<1> QED
  <2>1. ReadersSkipNothing'
    BY <1>6 DEF ReadersSkipNothing
  <2>2. OnlyAbandonedAreSkipped'
    BY <1>5 DEF OnlyAbandonedAreSkipped
  <2> QED
    BY <1>4, <2>1, <2>2 DEF ConsumerInv

LEMMA ConsumerStepInv ==
  ASSUME ConsumerInv, ConsumerMoves, answered \in Nat
  PROVE  ConsumerInv'
<1> USE DEF ConsumerInv, ConsumerTypeOK, ReadersSkipNothing, OnlyAbandonedAreSkipped
<1>1. ASSUME NEW p \in Consumers, NEW cancelled \in BOOLEAN,
             Fetch(p, answered) \/ FetchStops(p, cancelled) \/ HandleFails(p) \/ Retry(p)
             \/ FetchFails(p) \/ Leaves(p)
      PROVE  ConsumerInv'
  <2>1. PICK place \in Places \ {"committing"} : Go(p, place) /\ UNCHANGED <<owner, committed, handled, abandoned>>
    BY <1>1 DEF Fetch, FetchStops, HandleFails, Retry, FetchFails, Leaves, Places
  <2> HIDE DEF ConsumerInv
  <2> QED
    BY <2>1, GoKeeps
<1>2. ASSUME NEW p \in Consumers, HandleSucceeds(p) PROVE ConsumerInv'
  BY <1>2 DEF HandleSucceeds, Go, Places
<1>3. ASSUME NEW p \in Consumers, NEW cancelled \in BOOLEAN, GiveUp(p, cancelled) PROVE ConsumerInv'
  <2>1. /\ reader' = [reader EXCEPT ![p] = [at |-> "fetching", offset |-> @.offset + 1]]
        /\ abandoned' = abandoned \cup {reader[p].offset} /\ UNCHANGED <<owner, committed, handled>>
        /\ reader[p].offset \in Nat
    BY <1>3 DEF GiveUp
  <2>2. abandoned' \subseteq Nat
    BY <2>1
  <2> HIDE DEF ConsumerInv
  <2> QED
    BY <2>1, <2>2, AdvanceKeeps
<1>4. ASSUME NEW p \in Consumers, Commit(p) PROVE ConsumerInv'
  <2>1. /\ reader' = [reader EXCEPT ![p] = [at |-> "fetching", offset |-> @.offset + 1]]
        /\ committed' \in {committed, reader[p].offset + 1} /\ UNCHANGED <<owner, handled, abandoned>>
        /\ reader[p].offset \in handled /\ abandoned \subseteq Nat
    BY <1>4 DEF Commit, At
  <2> HIDE DEF ConsumerInv
  <2> QED
    BY <2>1, AdvanceKeeps
<1>5. ASSUME NEW p \in Consumers, Rebalance(p) PROVE ConsumerInv'
  BY <1>5 DEF Rebalance, At
<1>6. ASSUME NEW p \in Consumers, Joins(p) PROVE ConsumerInv'
  BY <1>6 DEF Joins, Places
<1>7. CASE UNCHANGED consumerVars
  BY <1>7 DEF consumerVars
<1> HIDE DEF ConsumerInv
<1> QED
  BY <1>1, <1>2, <1>3, <1>4, <1>5, <1>6, <1>7 DEF ConsumerMoves, ConsumerStep

LEMMA ConsumerInitInv == ConsumerInit => ConsumerInv
BY DEF ConsumerInit, ConsumerInv, ConsumerTypeOK, ReadersSkipNothing, OnlyAbandonedAreSkipped, Places

-----------------------------------------------------------------------------
(* The composition *)

\* A step of an instance is a step of its relay, of its consumer, or of both.
LEMMA StepsCompose ==
  ASSUME [Next]_vars
  PROVE  RelayMoves /\ ConsumerMoves
<1> USE InstancesAssumption
<1>1. ASSUME NEW e \in Events, Produce(e) PROVE RelayMoves /\ ConsumerMoves
  BY <1>1 DEF Produce, RelayMoves, RelayNext, ConsumerMoves
<1>2. CASE Answer
  BY <1>2 DEF Answer, RelayMoves, ConsumerMoves
<1>3. ASSUME NEW p \in Relays, RelayRuns(p) PROVE RelayMoves /\ ConsumerMoves
  BY <1>3 DEF RelayRuns, RelayMoves, RelayNext, RelayStep, ConsumerMoves
<1>4. ASSUME NEW p \in Relays, ConsumerRuns(p) PROVE RelayMoves /\ ConsumerMoves
  <2>1. ConsumerCancelled(p) \in BOOLEAN
    BY DEF ConsumerCancelled
  <2> QED
    BY <1>4, <2>1 DEF ConsumerRuns, RelayMoves, ConsumerMoves
<1>5. ASSUME NEW p \in Relays, ConsumerGoesDeaf(p) PROVE RelayMoves /\ ConsumerMoves
  BY <1>5 DEF ConsumerGoesDeaf, RelayMoves, OtherFault, ConsumerMoves
<1>6. ASSUME NEW p \in Relays, GroupRebalances(p) PROVE RelayMoves /\ ConsumerMoves
  BY <1>6 DEF GroupRebalances, RelayMoves, OtherFault, ConsumerMoves, relayVars
<1>7. ASSUME NEW p \in Relays, Signal(p) PROVE RelayMoves /\ ConsumerMoves
  BY <1>7 DEF Signal, RelayMoves, OtherFault, ConsumerMoves
<1>8. ASSUME NEW p \in Relays, HttpDone(p) \/ ConsumerDone(p) \/ RelayDone(p) PROVE RelayMoves /\ ConsumerMoves
  BY <1>8 DEF HttpDone, ConsumerDone, RelayDone, RelayMoves, ConsumerMoves
<1>9. ASSUME NEW p \in Relays, Dies(p) PROVE RelayMoves /\ ConsumerMoves
  BY <1>9 DEF Dies, RelayMoves, RelayNext, ConsumerMoves
<1>10. ASSUME NEW p \in Relays, Starts(p) PROVE RelayMoves /\ ConsumerMoves
  BY <1>10 DEF Starts, RelayMoves, ConsumerMoves
<1>11. CASE UNCHANGED vars
  BY <1>11 DEF vars, RelayMoves, ConsumerMoves
<1> QED
  BY <1>1, <1>2, <1>3, <1>4, <1>5, <1>6, <1>7, <1>8, <1>9, <1>10, <1>11 DEF Next, Instance

\* Kafka forgets nothing.
LEMMA TopicGrows ==
  ASSUME RelayTypeOK, RelayMoves
  PROVE  Len(topic') >= Len(topic) /\ Len(topic) \in Nat
<1>1. \A r \in Relays : \A e \in claimed[r] : e \in Events
  BY DEF RelayTypeOK
<1>2. ASSUME NEW e \in Events, topic' = Append(topic, e) PROVE Len(topic') >= Len(topic)
  BY <1>2, PublishedByAppend DEF RelayTypeOK
<1>3. topic' = topic \/ \E e \in Events : topic' = Append(topic, e)
  BY <1>1 DEF RelayMoves, RelayNext, RelayStep, Insert, SelectBatch, Publish, DeleteAndCommit,
              PublishFails, TickFails, Cut, Interrupt, OtherFault, relayVars
<1> QED
  BY <1>2, <1>3 DEF RelayTypeOK

LEMMA StepInvariant == IInv /\ [Next]_vars => IInv'
<1> SUFFICES ASSUME IInv, [Next]_vars PROVE IInv'
  OBVIOUS
<1>1. RelayInv /\ RelayTypeOK /\ ConsumerInv /\ phase \in [Relays -> Phases] /\ answered \in 0..Len(topic)
  BY DEF IInv, TypeOK, RelayInv, ConsumerInv
<1>2. RelayMoves /\ ConsumerMoves
  BY StepsCompose
<1>3. RelayInv'
  BY <1>1, <1>2, RelayStepInv
<1>4. ConsumerInv'
  BY <1>1, <1>2, ConsumerStepInv
<1>5. phase' \in [Relays -> Phases]
  BY <1>1 DEF Next, Instance, Produce, Answer, RelayRuns, ConsumerRuns, ConsumerGoesDeaf, GroupRebalances,
              Signal, HttpDone, ConsumerDone, RelayDone, Dies, Starts, Enter, Phases, vars
<1>6. answered' \in 0..Len(topic')
  <2>1. Len(topic') >= Len(topic) /\ Len(topic) \in Nat /\ Len(topic') \in Nat
    BY <1>1, <1>2, <1>3, TopicGrows DEF RelayInv, RelayTypeOK
  <2>2. CASE Answer
    BY <2>1, <2>2, <1>1 DEF Answer, relayVars
  <2>3. CASE ~ Answer
    <3>1. answered' = answered
      BY <2>3 DEF Next, Instance, Produce, RelayRuns, ConsumerRuns, ConsumerGoesDeaf, GroupRebalances,
                  Signal, HttpDone, ConsumerDone, RelayDone, Dies, Starts, vars
    <3> QED
      BY <2>1, <3>1, <1>1
  <2> QED
    BY <2>2, <2>3
<1> QED
  BY <1>3, <1>4, <1>5, <1>6 DEF IInv, TypeOK, RelayInv, ConsumerInv

LEMMA Invariance == Spec => []IInv
<1>1. Init => IInv
  <2> SUFFICES ASSUME Init PROVE IInv
    OBVIOUS
  <2>1. RelayInv /\ ConsumerInv
    BY RelayInitInv, ConsumerInitInv DEF Init
  <2>2. phase \in [Relays -> Phases] /\ answered \in 0..Len(topic)
    BY DEF Init, RelayInit, Phases
  <2> QED
    BY <2>1, <2>2 DEF IInv, TypeOK, RelayInv, ConsumerInv
<1> QED
  BY <1>1, StepInvariant, PTL DEF Spec

-----------------------------------------------------------------------------
(* The copies of a task *)

\* Instances whose shutdown has been paid for, and may still cut a tick short.
Prepaid == {p \in Relays : phase[p] \in {"http", "consumer"} \/ (phase[p] = "relay" /\ claimed[p] # {})}

\* The one copy that an event has without a fault: its tick holds it, or it is
\* not, or no longer, in the outbox.
Credit(e) == IF e \notin queue \/ \E r \in Relays : e \in sent[r] THEN 1 ELSE 0

CopiesArePaid ==
  /\ Cardinality(Prepaid) <= faults
  /\ \A e \in Events : Cardinality(Copies(e)) + Cardinality(Prepaid) <= faults + Credit(e)

CopiesInv == IInv /\ CopiesArePaid

LEMMA CountsAreNaturals ==
  ASSUME RelayTypeOK
  PROVE  /\ IsFiniteSet(Prepaid) /\ Cardinality(Prepaid) \in Nat
         /\ \A e \in Events : IsFiniteSet(Copies(e)) /\ Cardinality(Copies(e)) \in Nat
         /\ faults \in Nat
<1>1. IsFiniteSet(Prepaid)
  BY InstancesAssumption, FS_Subset DEF Prepaid
<1>2. ASSUME NEW e \in Events PROVE IsFiniteSet(Copies(e))
  <2>1. IsFiniteSet(1..Len(topic))
    BY FS_Interval DEF RelayTypeOK
  <2> QED
    BY <2>1, FS_Subset DEF Copies
<1> QED
  BY <1>1, <1>2, FS_CardinalityType, FaultsAssumption DEF RelayTypeOK

LEMMA CountsStayNaturals ==
  ASSUME RelayTypeOK'
  PROVE  /\ IsFiniteSet(Prepaid)' /\ Cardinality(Prepaid)' \in Nat
         /\ \A e \in Events : Cardinality(Copies(e))' \in Nat
         /\ faults' \in Nat
<1>1. IsFiniteSet(Prepaid')
  BY InstancesAssumption, FS_Subset DEF Prepaid
<1>2. ASSUME NEW e \in Events PROVE IsFiniteSet(Copies(e)')
  <2>1. IsFiniteSet(1..Len(topic'))
    BY FS_Interval DEF RelayTypeOK
  <2>2. Copies(e)' \subseteq 1..Len(topic')
    BY DEF Copies
  <2> QED
    BY <2>1, <2>2, FS_Subset
<1>3. faults' \in Nat
  BY FaultsAssumption DEF RelayTypeOK
<1> QED
  BY <1>1, <1>2, <1>3, FS_CardinalityType

LEMMA CopiesByAppend ==
  ASSUME RelayTypeOK, NEW f \in Events, topic' = Append(topic, f), NEW e \in Events
  PROVE  Cardinality(Copies(e)') = IF e = f THEN Cardinality(Copies(e)) + 1 ELSE Cardinality(Copies(e))
<1>1. /\ Len(topic) \in Nat /\ Len(topic') = Len(topic) + 1
      /\ \A i \in 1..Len(topic) : topic'[i] = topic[i]
      /\ topic'[Len(topic) + 1] = f
  BY DEF RelayTypeOK
<1>2. Copies(e)' = IF e = f THEN Copies(e) \cup {Len(topic) + 1} ELSE Copies(e)
  <2>1. 1..Len(topic') = (1..Len(topic)) \cup {Len(topic) + 1}
    BY <1>1
  <2> QED
    BY <1>1, <2>1 DEF Copies
<1>3. Len(topic) + 1 \notin Copies(e)
  BY <1>1 DEF Copies
<1>4. Cardinality(Copies(e) \cup {Len(topic) + 1}) = Cardinality(Copies(e)) + 1
  BY <1>3, CountsAreNaturals, FS_AddElement
<1> QED
  BY <1>2, <1>4

LEMMA CreditIsOne == \A e \in Events : Credit(e) \in {0, 1} /\ Credit(e)' \in {0, 1}
BY DEF Credit

\* The sums of PaidStep: n copies, credit c, k shutdowns booked, f faults.
LEMMA Balance ==
  ASSUME NEW n \in Nat, NEW n1 \in Nat, NEW c \in {0, 1}, NEW c1 \in {0, 1},
         NEW k \in Nat, NEW k1 \in Nat, NEW f \in Nat, NEW f1, NEW paid \in Int, NEW booked \in Int,
         n + k <= f + c, k1 <= k + booked, booked <= paid, f1 = f + paid, k1 <= f1,
         n1 = 0 \/ n1 + booked + c <= n + paid + c1
  PROVE  n1 + k1 <= f1 + c1
OBVIOUS

\* A step that pays for what it costs: a copy or a lost credit costs a fault,
\* a shutdown costs one in advance.
LEMMA PaidStep ==
  ASSUME CopiesArePaid, RelayTypeOK, RelayTypeOK',
         NEW paid \in Int, faults' = faults + paid,
         NEW booked \in Int, Cardinality(Prepaid)' <= Cardinality(Prepaid) + booked, booked <= paid,
         \A e \in Events :
           \/ Cardinality(Copies(e))' = 0
           \/ Cardinality(Copies(e))' + booked + Credit(e) <= Cardinality(Copies(e)) + paid + Credit(e)'
  PROVE  CopiesArePaid'
<1> DEFINE k == Cardinality(Prepaid)
<1>1. k \in Nat /\ k' \in Nat /\ faults \in Nat
  BY CountsAreNaturals, CountsStayNaturals
<1>2. k' <= faults'
  BY <1>1 DEF CopiesArePaid
<1>3. ASSUME NEW e \in Events PROVE Cardinality(Copies(e))' + k' <= faults' + Credit(e)'
  <2>1. Cardinality(Copies(e)) \in Nat /\ Cardinality(Copies(e))' \in Nat
    BY CountsAreNaturals, CountsStayNaturals
  <2>2. Credit(e) \in {0, 1} /\ Credit(e)' \in {0, 1}
    BY CreditIsOne
  <2>3. Cardinality(Copies(e)) + k <= faults + Credit(e)
    BY DEF CopiesArePaid
  <2>4. /\ Cardinality(Prepaid)' <= Cardinality(Prepaid) + booked
        /\ \/ Cardinality(Copies(e))' = 0
           \/ Cardinality(Copies(e))' + booked + Credit(e) <= Cardinality(Copies(e)) + paid + Credit(e)'
    OBVIOUS
  <2> QED
    BY <1>1, <1>2, <2>1, <2>2, <2>3, <2>4, Balance
<1> QED
  BY <1>2, <1>3 DEF CopiesArePaid

\* Shutdowns that are over, or that have nothing to cut, free what they booked.
LEMMA FewerPrepaid ==
  ASSUME RelayTypeOK, RelayTypeOK', Prepaid' \subseteq Prepaid
  PROVE  Cardinality(Prepaid)' <= Cardinality(Prepaid)
BY CountsAreNaturals, FS_Subset

\* Nothing is published.
LEMMA SameCopies ==
  ASSUME topic' = topic, NEW e \in Events
  PROVE  Cardinality(Copies(e))' = Cardinality(Copies(e))
BY DEF Copies

\* A fault pays for the credit of the tick it cuts.
LEMMA FaultPays ==
  ASSUME CopiesArePaid, RelayTypeOK, RelayTypeOK', topic' = topic, Fault, Prepaid' \subseteq Prepaid
  PROVE  CopiesArePaid'
<1>1. Cardinality(Prepaid)' <= Cardinality(Prepaid) + 0
  BY FewerPrepaid, CountsAreNaturals
<1>2. ASSUME NEW e \in Events
      PROVE  Cardinality(Copies(e))' + 0 + Credit(e) <= Cardinality(Copies(e)) + 1 + Credit(e)'
  <2>1. Credit(e) \in {0, 1} /\ Credit(e)' \in {0, 1} /\ Cardinality(Copies(e)) \in Nat
    BY CreditIsOne, CountsAreNaturals
  <2>2. Cardinality(Copies(e))' = Cardinality(Copies(e))
    BY SameCopies
  <2> QED
    BY <2>1, <2>2
<1>3. faults' = faults + 1
  BY DEF Fault
<1> QED
  BY <1>1, <1>2, <1>3, PaidStep

\* A step that costs nothing.
LEMMA NothingToPay ==
  ASSUME CopiesArePaid, RelayTypeOK, RelayTypeOK', topic' = topic, faults' = faults,
         Prepaid' \subseteq Prepaid,
         \A e \in Events : Cardinality(Copies(e)) = 0 \/ Credit(e)' >= Credit(e)
  PROVE  CopiesArePaid'
<1>1. Cardinality(Prepaid)' <= Cardinality(Prepaid) + 0
  BY FewerPrepaid, CountsAreNaturals
<1>2. ASSUME NEW e \in Events
      PROVE  \/ Cardinality(Copies(e))' = 0
             \/ Cardinality(Copies(e))' + 0 + Credit(e) <= Cardinality(Copies(e)) + 0 + Credit(e)'
  <2>1. Credit(e) \in {0, 1} /\ Credit(e)' \in {0, 1} /\ Cardinality(Copies(e)) \in Nat
    BY CreditIsOne, CountsAreNaturals
  <2>2. Cardinality(Copies(e))' = Cardinality(Copies(e))
    BY SameCopies
  <2> QED
    BY <2>1, <2>2
<1>3. faults' = faults + 0
  BY CountsAreNaturals
<1> QED
  BY <1>1, <1>2, <1>3, PaidStep

LEMMA RelayRunsPays ==
  ASSUME IInv, CopiesArePaid, RelayTypeOK', NEW p \in Relays, RelayRuns(p)
  PROVE  CopiesArePaid'
<1>0. /\ RelayTypeOK /\ TicksHoldRows /\ LocksAreExclusive
      /\ phase' = phase
  BY DEF IInv, RelayInv, RelayRuns
<1>1. CASE SelectBatch(p) /\ ~RelayCancelled(p)
  <2>1. UNCHANGED <<queue, topic, sent, faults>> /\ \A r \in Relays : r # p => claimed'[r] = claimed[r]
    BY <1>0, <1>1 DEF SelectBatch, RelayTypeOK
  <2>2. Prepaid' \subseteq Prepaid
    BY <1>0, <1>1, <2>1 DEF Prepaid, RelayCancelled
  <2>3. \A e \in Events : Credit(e)' >= Credit(e)
    <3>1. \A e \in Events : Credit(e)' = Credit(e)
      BY <2>1 DEF Credit
    <3> QED
      BY <3>1, CreditIsOne
  <2> QED
    BY <1>0, <2>1, <2>2, <2>3, NothingToPay
\* The event that is published next has no credit yet.
<1>2. ASSUME NEW f \in claimed[p], f \notin sent[p] PROVE f \in Events /\ Credit(f) = 0
  <2>1. f \in Events /\ f \in queue
    BY <1>0 DEF RelayTypeOK, TicksHoldRows
  <2>2. \A r \in Relays : f \notin sent[r]
    BY <1>0, <1>2 DEF TicksHoldRows, LocksAreExclusive
  <2> QED
    BY <2>1, <2>2 DEF Credit
<1>3. CASE Publish(p)
  <2>1. PICK f \in claimed[p] : /\ f \notin sent[p] /\ topic' = Append(topic, f)
                                /\ sent' = [sent EXCEPT ![p] = @ \cup {f}]
    BY <1>3 DEF Publish, IsNext
  <2>2. UNCHANGED <<queue, claimed, faults>>
    BY <1>3 DEF Publish
  <2>3. Prepaid' = Prepaid
    BY <1>0, <2>2 DEF Prepaid
  <2>4. f \in Events /\ Credit(f) = 0
    BY <1>2, <2>1
  <2>5. ASSUME NEW e \in Events
        PROVE  Cardinality(Copies(e))' + 0 + Credit(e) <= Cardinality(Copies(e)) + 0 + Credit(e)'
    <3>1. \A r \in Relays : sent[r] \subseteq sent'[r]
      BY <1>0, <2>1 DEF RelayTypeOK
    <3>2. f \in sent'[p]
      BY <1>0, <2>1 DEF RelayTypeOK
    <3>3. Credit(e)' >= Credit(e)
      BY <3>1, <2>2 DEF Credit
    <3>4. Credit(f)' = 1
      BY <3>2 DEF Credit
    <3>5. Cardinality(Copies(e)') = IF e = f THEN Cardinality(Copies(e)) + 1 ELSE Cardinality(Copies(e))
      BY <1>0, <2>1, <2>4, CopiesByAppend
    <3>6. Cardinality(Copies(e)) \in Nat /\ Credit(e) \in {0, 1} /\ Credit(e)' \in {0, 1}
      BY <1>0, CountsAreNaturals, CreditIsOne
    <3>7. CASE e = f
      <4>1. Credit(e) = 0 /\ Credit(e)' = 1 /\ Cardinality(Copies(e))' = Cardinality(Copies(e)) + 1
        BY <3>4, <3>5, <3>7, <2>4
      <4> QED
        BY <4>1, <3>6
    <3>8. CASE e # f
      <4>1. Cardinality(Copies(e))' = Cardinality(Copies(e))
        BY <3>5, <3>8
      <4> QED
        BY <4>1, <3>3, <3>6
    <3> QED
      BY <3>7, <3>8
  <2>6. Cardinality(Prepaid)' <= Cardinality(Prepaid) + 0 /\ faults' = faults + 0
    BY <1>0, <2>2, <2>3, CountsAreNaturals
  <2> QED
    BY <1>0, <2>5, <2>6, PaidStep
<1>4. ASSUME Unlock(p) PROVE Prepaid' \subseteq Prepaid
  BY <1>0, <1>4 DEF Unlock, Prepaid, RelayTypeOK
<1>5. CASE DeleteAndCommit(p)
  <2>1. /\ queue' = queue \ sent[p] /\ UNCHANGED <<topic, faults>> /\ Unlock(p)
        /\ \A r \in Relays : r # p => sent'[r] = sent[r]
    BY <1>0, <1>5 DEF DeleteAndCommit, Unlock, RelayTypeOK
  <2>2. ASSUME NEW e \in Events PROVE Credit(e)' >= Credit(e)
    <3>1. e \notin queue => e \notin queue'
      BY <2>1
    <3>2. (\E r \in Relays : e \in sent[r]) => e \notin queue' \/ \E r \in Relays : e \in sent'[r]
      BY <2>1
    <3> QED
      BY <3>1, <3>2 DEF Credit
  <2> QED
    BY <1>0, <1>4, <2>1, <2>2, NothingToPay
<1>6. CASE PublishFails(p)
  <2>1. PICK f \in claimed[p] : f \notin sent[p] /\ topic' \in {topic, Append(topic, f)}
    BY <1>6 DEF PublishFails, IsNext
  <2>2. Fault /\ Unlock(p) /\ queue' = queue
    BY <1>6 DEF PublishFails
  <2>3. CASE topic' = topic
    BY <1>0, <1>4, <2>2, <2>3, FaultPays
  <2>4. CASE topic' = Append(topic, f)
    <3>1. f \in Events /\ Credit(f) = 0
      BY <1>2, <2>1
    <3>2. ASSUME NEW e \in Events
          PROVE  Cardinality(Copies(e))' + 0 + Credit(e) <= Cardinality(Copies(e)) + 1 + Credit(e)'
      <4>1. Cardinality(Copies(e)') = IF e = f THEN Cardinality(Copies(e)) + 1 ELSE Cardinality(Copies(e))
        BY <1>0, <2>4, <3>1, CopiesByAppend
      <4>2. Cardinality(Copies(e)) \in Nat /\ Credit(e) \in {0, 1} /\ Credit(e)' \in {0, 1}
        BY <1>0, CountsAreNaturals, CreditIsOne
      <4>3. CASE e = f
        <5>1. Credit(e) = 0 /\ Cardinality(Copies(e))' = Cardinality(Copies(e)) + 1
          BY <4>1, <4>3, <3>1
        <5> QED
          BY <5>1, <4>2
      <4>4. CASE e # f
        <5>1. Cardinality(Copies(e))' = Cardinality(Copies(e))
          BY <4>1, <4>4
        <5> QED
          BY <5>1, <4>2
      <4> QED
        BY <4>3, <4>4
    <3>3. Cardinality(Prepaid)' <= Cardinality(Prepaid) + 0 /\ faults' = faults + 1
      BY <1>0, <1>4, <2>2, FewerPrepaid, CountsAreNaturals DEF Fault
    <3> QED
      BY <1>0, <3>2, <3>3, PaidStep
  <2> QED
    BY <2>1, <2>3, <2>4
<1>7. CASE TickFails(p)
  BY <1>0, <1>4, <1>7, FaultPays DEF TickFails
\* The shutdown has paid for the tick it interrupts.
<1>8. CASE Interrupt(p) /\ RelayCancelled(p)
  <2>1. claimed[p] # {} /\ Unlock(p) /\ UNCHANGED <<queue, topic, faults>> /\ phase[p] = "relay"
    BY <1>8 DEF Interrupt, RelayCancelled
  <2>2. Prepaid' = Prepaid \ {p} /\ p \in Prepaid
    BY <1>0, <2>1 DEF Unlock, Prepaid, RelayTypeOK
  <2>3. Cardinality(Prepaid)' = Cardinality(Prepaid) - 1
    BY <1>0, <2>2, CountsAreNaturals, FS_RemoveElement
  <2>4. ASSUME NEW e \in Events
        PROVE  Cardinality(Copies(e))' + (-1) + Credit(e) <= Cardinality(Copies(e)) + 0 + Credit(e)'
    <3>1. Cardinality(Copies(e))' = Cardinality(Copies(e))
      BY <2>1, SameCopies
    <3>2. Cardinality(Copies(e)) \in Nat /\ Credit(e) \in {0, 1} /\ Credit(e)' \in {0, 1}
      BY <1>0, CountsAreNaturals, CreditIsOne
    <3> QED
      BY <3>1, <3>2
  <2>5. Cardinality(Prepaid)' <= Cardinality(Prepaid) + (-1) /\ faults' = faults + 0
    BY <1>0, <2>1, <2>3, CountsAreNaturals
  <2> QED
    BY <1>0, <2>4, <2>5, PaidStep
<1> QED
  BY <1>1, <1>3, <1>5, <1>6, <1>7, <1>8 DEF RelayRuns

LEMMA CopiesStep == CopiesInv /\ [Next]_vars => CopiesInv'
<1> SUFFICES ASSUME CopiesInv, [Next]_vars PROVE CopiesInv'
  OBVIOUS
<1>0. IInv /\ IInv' /\ CopiesArePaid /\ RelayTypeOK /\ RelayTypeOK' /\ phase \in [Relays -> Phases]
  BY StepInvariant DEF CopiesInv, IInv, TypeOK
\* The shutdown moves on, or something else than the relays moves.
<1>1. ASSUME UNCHANGED relayVars, Prepaid' \subseteq Prepaid PROVE CopiesArePaid'
  <2>1. \A e \in Events : Credit(e)' >= Credit(e)
    <3>1. \A e \in Events : Credit(e)' = Credit(e)
      BY <1>1 DEF Credit, relayVars
    <3> QED
      BY <3>1, CreditIsOne
  <2> QED
    BY <1>0, <1>1, <2>1, NothingToPay DEF relayVars
<1>2. ASSUME NEW e \in Events, Produce(e) PROVE CopiesArePaid'
  <2>1. /\ e \notin Published /\ queue' = queue \cup {e}
        /\ UNCHANGED <<topic, claimed, sent, faults, phase>>
    BY <1>2 DEF Produce, Insert
  <2>2. Copies(e) = {}
    BY <2>1 DEF Copies, Published
  <2>3. Prepaid' = Prepaid
    BY <2>1 DEF Prepaid
  <2>4. ASSUME NEW f \in Events PROVE Cardinality(Copies(f)) = 0 \/ Credit(f)' >= Credit(f)
    <3>1. CASE f = e
      BY <2>2, <3>1, FS_EmptySet
    <3>2. CASE f # e
      <4>1. Credit(f)' = Credit(f)
        BY <2>1, <3>2 DEF Credit
      <4> QED
        BY <4>1, CreditIsOne
    <3> QED
      BY <3>1, <3>2
  <2> QED
    BY <1>0, <2>1, <2>3, <2>4, NothingToPay
<1>3. ASSUME Answer PROVE CopiesArePaid'
  BY <1>1, <1>3 DEF Answer, Prepaid, relayVars
<1>4. ASSUME NEW p \in Relays, ConsumerRuns(p) PROVE CopiesArePaid'
  BY <1>1, <1>4 DEF ConsumerRuns, Prepaid, relayVars
<1>5. ASSUME NEW p \in Relays, ConsumerGoesDeaf(p) PROVE CopiesArePaid'
  BY <1>0, <1>5, FaultPays DEF ConsumerGoesDeaf, Prepaid
<1>6. ASSUME NEW p \in Relays, GroupRebalances(p) PROVE CopiesArePaid'
  <2>1. UNCHANGED <<queue, topic, claimed, sent, phase>> /\ (Fault \/ faults' = faults)
    BY <1>6 DEF GroupRebalances
  <2>2. Prepaid' = Prepaid
    BY <2>1 DEF Prepaid
  <2> QED
    BY <1>0, <1>1, <2>1, <2>2, FaultPays DEF relayVars
<1>7. ASSUME NEW p \in Relays, Signal(p) PROVE CopiesArePaid'
  <2>1. /\ UNCHANGED <<queue, topic, claimed, sent>> /\ faults' = faults + 1
        /\ phase' = [phase EXCEPT ![p] = "http"]
    BY <1>7 DEF Signal, Fault, Enter
  <2>2. Prepaid' \subseteq Prepaid \cup {p}
    BY <1>0, <2>1 DEF Prepaid
  <2>3. IsFiniteSet(Prepaid) /\ Cardinality(Prepaid) \in Nat /\ Cardinality(Prepaid)' \in Nat
    BY <1>0, CountsAreNaturals, CountsStayNaturals
  <2>4. /\ IsFiniteSet(Prepaid \cup {p}) /\ Cardinality(Prepaid \cup {p}) \in Nat
        /\ Cardinality(Prepaid \cup {p}) <= Cardinality(Prepaid) + 1
    BY <2>3, FS_AddElement, FS_CardinalityType
  <2>5. Cardinality(Prepaid)' <= Cardinality(Prepaid) + 1
    <3>1. Cardinality(Prepaid') <= Cardinality(Prepaid \cup {p})
      BY <2>2, <2>4, FS_Subset
    <3> QED
      BY <3>1, <2>3, <2>4
  <2>6. ASSUME NEW e \in Events
        PROVE  Cardinality(Copies(e))' + 1 + Credit(e) <= Cardinality(Copies(e)) + 1 + Credit(e)'
    <3>1. Cardinality(Copies(e))' = Cardinality(Copies(e)) /\ Credit(e)' = Credit(e)
      BY <2>1, SameCopies DEF Credit
    <3>2. Cardinality(Copies(e)) \in Nat /\ Credit(e) \in {0, 1}
      BY <1>0, CountsAreNaturals, CreditIsOne
    <3> QED
      BY <3>1, <3>2
  <2> QED
    BY <1>0, <2>1, <2>5, <2>6, PaidStep
<1>8. ASSUME NEW p \in Relays, HttpDone(p) \/ ConsumerDone(p) \/ RelayDone(p) \/ Starts(p) PROVE CopiesArePaid'
  <2>1. UNCHANGED relayVars
    BY <1>8 DEF HttpDone, ConsumerDone, RelayDone, Starts
  <2>2. Prepaid' \subseteq Prepaid
    BY <1>0, <1>8, <2>1 DEF HttpDone, ConsumerDone, RelayDone, Starts, Enter, Prepaid, relayVars
  <2> QED
    BY <1>1, <2>1, <2>2
<1>9. ASSUME NEW p \in Relays, Dies(p) PROVE CopiesArePaid'
  <2>1. Fault /\ topic' = topic /\ Unlock(p) /\ phase' = [phase EXCEPT ![p] = "off"]
    BY <1>9 DEF Dies, Cut, Enter
  <2>2. Prepaid' \subseteq Prepaid
    BY <1>0, <2>1 DEF Unlock, Prepaid, RelayTypeOK
  <2> QED
    BY <1>0, <2>1, <2>2, FaultPays
<1>10. ASSUME UNCHANGED vars PROVE CopiesArePaid'
  <2>1. UNCHANGED relayVars /\ UNCHANGED phase
    BY <1>10 DEF vars
  <2>2. Prepaid' \subseteq Prepaid
    BY <2>1 DEF Prepaid, relayVars
  <2> QED
    BY <1>1, <2>1, <2>2
<1>11. ASSUME NEW p \in Relays, RelayRuns(p) PROVE CopiesArePaid'
  BY <1>0, <1>11, RelayRunsPays
<1>12. CopiesArePaid'
  BY <1>2, <1>3, <1>4, <1>5, <1>6, <1>7, <1>8, <1>9, <1>10, <1>11 DEF Next, Instance
<1> QED
  BY <1>0, <1>12 DEF CopiesInv

LEMMA CopiesInvariance == Spec => []CopiesInv
<1>1. Init => CopiesInv
  <2> SUFFICES ASSUME Init PROVE CopiesInv
    OBVIOUS
  <2>0. Init => IInv
    BY RelayInitInv, ConsumerInitInv DEF Init, RelayInit, Phases, IInv, TypeOK, RelayInv, ConsumerInv
  <2>1. Prepaid = {} /\ \A e \in Events : Copies(e) = {}
    BY DEF Init, RelayInit, Prepaid, Copies
  <2>2. faults = 0 /\ Cardinality({}) = 0
    BY FS_EmptySet DEF Init, RelayInit
  <2>3. CopiesArePaid
    BY <2>1, <2>2, CreditIsOne DEF CopiesArePaid
  <2> QED
    BY <2>0, <2>3 DEF CopiesInv
<1> QED
  BY <1>1, CopiesStep, PTL DEF Spec

-----------------------------------------------------------------------------
(* The order in which answers are dealt with *)

\* The answers that were handled or given up are the first of their partition.
DealtWithInOrder == \E n \in 0..answered : handled \cup abandoned = 0..(n - 1)

\* A message at a consumer is one that the worker has sent.
FetchedIsAnswered ==
  \A p \in Consumers :
    reader[p].at \in {"handling", "waiting", "committing"} => reader[p].offset < answered

\* What goes wrong begins with a fault: until then all instances run.
FaultsComeFirst == faults = 0 => abandoned = {} /\ \A p \in Relays : phase[p] = "running"

OrderInv == IInv /\ FetchedIsAnswered /\ DealtWithInOrder /\ FaultsComeFirst

LEMMA AnswersGrow ==
  ASSUME answered \in Nat, [Next]_vars
  PROVE  answered' \in {answered, answered + 1}
BY DEF Next, Instance, Produce, Answer, RelayRuns, ConsumerRuns, ConsumerGoesDeaf, GroupRebalances,
       Signal, HttpDone, ConsumerDone, RelayDone, Dies, Starts, vars

\* A step deals with the message of one consumer, or with none.
LEMMA DealsWithOne ==
  ASSUME ConsumerMoves
  PROVE  \/ UNCHANGED <<handled, abandoned>>
         \/ \E p \in Consumers :
              /\ reader[p].at \in {"handling", "waiting"}
              /\ handled' \cup abandoned' = (handled \cup abandoned) \cup {reader[p].offset}
<1>1. ASSUME NEW p \in Consumers, HandleSucceeds(p)
      PROVE  /\ reader[p].at = "handling"
             /\ handled' \cup abandoned' = (handled \cup abandoned) \cup {reader[p].offset}
  BY <1>1 DEF HandleSucceeds, At
<1>2. ASSUME NEW p \in Consumers, NEW cancelled \in BOOLEAN, GiveUp(p, cancelled)
      PROVE  /\ reader[p].at = "waiting"
             /\ handled' \cup abandoned' = (handled \cup abandoned) \cup {reader[p].offset}
  BY <1>2 DEF GiveUp, At
<1> QED
  BY <1>1, <1>2
     DEF ConsumerMoves, ConsumerStep, Fetch, FetchStops, HandleFails, Retry, Commit, FetchFails,
         Rebalance, Joins, Leaves, consumerVars

LEMMA OrderStep ==
  ASSUME IInv, FetchedIsAnswered, DealtWithInOrder, [Next]_vars
  PROVE  DealtWithInOrder'
<1> DEFINE D == handled \cup abandoned
<1>1. answered \in Nat /\ answered' \in {answered, answered + 1} /\ ConsumerMoves
  BY AnswersGrow, StepsCompose DEF IInv, TypeOK, RelayInv, RelayTypeOK
<1>2. PICK n \in 0..answered : D = 0..(n - 1)
  BY DEF DealtWithInOrder
<1>3. CASE D' = D
  <2>1. n \in 0..answered'
    BY <1>1
  <2> QED
    BY <1>2, <1>3, <2>1 DEF DealtWithInOrder
<1>4. ASSUME NEW p \in Consumers, reader[p].at \in {"handling", "waiting"},
             D' = D \cup {reader[p].offset}
      PROVE  DealtWithInOrder'
  <2> DEFINE o == reader[p].offset
  <2>1. o \in Nat /\ o < answered /\ \A k \in 0..(o - 1) : k \in D
    BY <1>4 DEF IInv, TypeOK, ConsumerTypeOK, ReadersSkipNothing, FetchedIsAnswered
  <2>2. o <= n
    BY <1>2, <2>1
  <2>3. CASE o = n
    <3>1. D' = 0..((n + 1) - 1) /\ n + 1 \in 0..answered'
      BY <1>1, <1>2, <1>4, <2>1, <2>3
    <3> QED
      BY <3>1 DEF DealtWithInOrder
  <2>4. CASE o # n
    <3>1. D' = D
      BY <1>2, <1>4, <2>1, <2>2, <2>4
    <3> QED
      BY <1>3, <3>1
  <2> QED
    BY <2>3, <2>4
<1>5. CASE UNCHANGED <<handled, abandoned>>
  BY <1>3, <1>5
<1> QED
  BY <1>1, <1>4, <1>5, DealsWithOne

LEMMA FetchedStep ==
  ASSUME IInv, FetchedIsAnswered, [Next]_vars
  PROVE  FetchedIsAnswered'
<1>1. /\ answered \in Nat /\ answered' \in {answered, answered + 1} /\ ConsumerMoves
      /\ reader \in [Consumers -> [at : Places, offset : Nat]] /\ committed \in Nat
  BY AnswersGrow, StepsCompose DEF IInv, TypeOK, RelayInv, RelayTypeOK, ConsumerTypeOK
<1> SUFFICES ASSUME NEW q \in Consumers,
                    reader'[q].at \in {"handling", "waiting", "committing"}
             PROVE  reader'[q].offset < answered'
  BY DEF FetchedIsAnswered
<1>2. ASSUME reader'[q] = reader[q]
      PROVE  reader'[q].offset < answered'
  BY <1>1, <1>2 DEF FetchedIsAnswered
<1>3. ASSUME NEW p \in Consumers, NEW place \in Places, Go(p, place),
             place \in {"handling", "waiting", "committing"} => reader[p].offset < answered
      PROVE  reader'[q].offset < answered'
  <2>1. CASE q # p
    BY <1>1, <1>2, <1>3, <2>1 DEF Go
  <2>2. CASE q = p
    <3>1. reader'[q].at = place /\ reader'[q].offset = reader[p].offset
      BY <1>1, <1>3, <2>2 DEF Go
    <3> QED
      BY <1>1, <1>3, <3>1
  <2> QED
    BY <2>1, <2>2
<1>4. ASSUME NEW p \in Consumers, NEW n \in Nat,
             reader' = [reader EXCEPT ![p] = [at |-> "fetching", offset |-> n]]
      PROVE  reader'[q].offset < answered'
  <2>1. q # p
    BY <1>1, <1>4
  <2> QED
    BY <1>1, <1>2, <1>4, <2>1
<1>5. ASSUME NEW p \in Consumers, Rebalance(p)
      PROVE  reader'[q].offset < answered'
  <2>1. q # p
    BY <1>1, <1>5 DEF Rebalance, At
  <2> QED
    BY <1>1, <1>2, <1>5, <2>1 DEF Rebalance
<1>6. ASSUME NEW p \in Consumers, NEW cancelled \in BOOLEAN, ConsumerStep(p, answered, cancelled)
      PROVE  reader'[q].offset < answered'
  <2>1. reader[p].offset + 1 \in Nat
    BY <1>1
  <2>2. CASE Fetch(p, answered) \/ FetchStops(p, cancelled)
    BY <1>3, <2>2 DEF Fetch, FetchStops, Places
  <2>3. CASE HandleSucceeds(p) \/ HandleFails(p) \/ Retry(p)
    BY <1>3, <2>3 DEF HandleSucceeds, HandleFails, Retry, At, Places, FetchedIsAnswered
  <2>4. CASE GiveUp(p, cancelled) \/ Commit(p)
    BY <1>4, <2>1, <2>4 DEF GiveUp, Commit
  <2> QED
    BY <1>6, <2>2, <2>3, <2>4 DEF ConsumerStep
<1>7. ASSUME NEW p \in Consumers, FetchFails(p) \/ Joins(p) \/ Leaves(p)
      PROVE  reader'[q].offset < answered'
  BY <1>1, <1>3, <1>4, <1>7 DEF FetchFails, Joins, Leaves, Places
<1>8. CASE UNCHANGED consumerVars
  BY <1>2, <1>8 DEF consumerVars
<1> QED
  BY <1>1, <1>5, <1>6, <1>7, <1>8 DEF ConsumerMoves

\* A shutdown or a crash is a fault itself.
LEMMA FaultsStep ==
  ASSUME IInv, FaultsComeFirst, [Next]_vars
  PROVE  FaultsComeFirst'
<1> USE InstancesAssumption
<1>1. faults \in Nat /\ phase \in [Relays -> Phases]
  BY FaultsAssumption DEF IInv, TypeOK, RelayTypeOK
<1>2. ASSUME Fault PROVE FaultsComeFirst'
  BY <1>1, <1>2 DEF Fault, FaultsComeFirst
<1>3. ASSUME UNCHANGED <<faults, phase, abandoned>> PROVE FaultsComeFirst'
  BY <1>3 DEF FaultsComeFirst
<1>4. ASSUME NEW p \in Relays, phase[p] # "running", faults' = faults PROVE FaultsComeFirst'
  BY <1>4 DEF FaultsComeFirst
<1>5. ASSUME NEW e \in Events, Produce(e) PROVE FaultsComeFirst'
  BY <1>3, <1>5 DEF Produce, Insert, consumerVars
<1>6. CASE Answer
  BY <1>3, <1>6 DEF Answer, relayVars, consumerVars
<1>7. ASSUME NEW p \in Relays, RelayRuns(p) PROVE FaultsComeFirst'
  BY <1>2, <1>3, <1>7
     DEF RelayRuns, SelectBatch, Publish, DeleteAndCommit, PublishFails, TickFails, Interrupt,
         consumerVars
<1>8. ASSUME NEW p \in Relays, ConsumerRuns(p) PROVE FaultsComeFirst'
  <2>1. CASE GiveUp(p, ConsumerCancelled(p))
    <3>1. phase[p] # "running"
      BY <2>1 DEF GiveUp, ConsumerCancelled
    <3> QED
      BY <1>4, <1>8, <3>1 DEF ConsumerRuns, relayVars
  <2>2. CASE ~ GiveUp(p, ConsumerCancelled(p))
    BY <1>3, <1>8, <2>2
       DEF ConsumerRuns, ConsumerStep, Fetch, FetchStops, HandleSucceeds, HandleFails, Retry, Commit,
           relayVars
  <2> QED
    BY <2>1, <2>2
<1>9. ASSUME NEW p \in Relays, ConsumerGoesDeaf(p) \/ Signal(p) \/ Dies(p) PROVE FaultsComeFirst'
  BY <1>2, <1>9 DEF ConsumerGoesDeaf, Signal, Dies, Cut
<1>10. ASSUME NEW p \in Relays, GroupRebalances(p) PROVE FaultsComeFirst'
  BY <1>2, <1>3, <1>10 DEF GroupRebalances, Rebalance
<1>11. ASSUME NEW p \in Relays, HttpDone(p) \/ ConsumerDone(p) \/ RelayDone(p) \/ Starts(p)
       PROVE  FaultsComeFirst'
  BY <1>4, <1>11 DEF HttpDone, ConsumerDone, RelayDone, Starts, relayVars
<1>12. CASE UNCHANGED vars
  BY <1>3, <1>12 DEF vars, relayVars, consumerVars
<1> QED
  BY <1>5, <1>6, <1>7, <1>8, <1>9, <1>10, <1>11, <1>12 DEF Next, Instance

LEMMA OrderInvariance == Spec => []OrderInv
<1>1. Init => FetchedIsAnswered /\ DealtWithInOrder /\ FaultsComeFirst
  <2> SUFFICES ASSUME Init PROVE FetchedIsAnswered /\ DealtWithInOrder /\ FaultsComeFirst
    OBVIOUS
  <2>1. handled \cup abandoned = 0..(0 - 1) /\ 0 \in 0..answered
    BY DEF Init, ConsumerInit
  <2> QED
    BY <2>1 DEF Init, ConsumerInit, FetchedIsAnswered, DealtWithInOrder, FaultsComeFirst
<1>2. IInv /\ FetchedIsAnswered /\ DealtWithInOrder /\ FaultsComeFirst /\ [Next]_vars
        => FetchedIsAnswered' /\ DealtWithInOrder' /\ FaultsComeFirst'
  BY OrderStep, FetchedStep, FaultsStep
<1> QED
  BY <1>1, <1>2, Invariance, PTL DEF Spec, OrderInv

-----------------------------------------------------------------------------
(* The theorems *)

\* Every variable of the delivery keeps its type, and the worker answers no task
\* that it was not sent.
THEOREM DeliveryTypeCorrect == Spec => []TypeOK
<1>1. IInv => TypeOK
  BY DEF IInv
<1> QED
  BY Invariance, <1>1, PTL

\* Crashes, rebalances, failed commits and shutdowns of any number of instances
\* skip no answer but those whose retry a shutdown gave up.
THEOREM AbandonedAlone == Spec => []OnlyAbandonedAreSkipped
<1>1. IInv => OnlyAbandonedAreSkipped
  BY DEF IInv
<1> QED
  BY Invariance, <1>1, PTL

\* Rows are locked by one tick at a time, are in the outbox while they are, and
\* only what Kafka has got is deleted.
THEOREM TicksAreExclusive == Spec => [](TicksHoldRows /\ LocksAreExclusive)
<1>1. IInv => TicksHoldRows /\ LocksAreExclusive
  BY DEF IInv, RelayInv
<1> QED
  BY Invariance, <1>1, PTL

\* The relays of all instances together, with their crashes and shutdowns,
\* implement the outbox that the services rely on.
THEOREM RelaysImplementOutbox == Spec => ImplementsOutbox
<1>1. Init => Promise!Init
  BY RelayInitMaps DEF Init
<1>2. IInv /\ [Next]_vars => Promise!Next \/ UNCHANGED Promise!vars
  BY StepsCompose, RelayStepMaps DEF IInv
<1> QED
  BY <1>1, <1>2, Invariance, PTL DEF Spec, ImplementsOutbox, Promise!Spec

\* An event reaches Kafka once, and once more for each fault or shutdown at most,
\* however many relays empty the outbox.
THEOREM CopiesNeedFaults == Spec => []CopiesCostFaults
<1>1. CopiesInv => CopiesCostFaults
  <2> SUFFICES ASSUME CopiesInv, NEW e \in Events PROVE Cardinality(Copies(e)) <= 1 + faults
    BY DEF CopiesCostFaults
  <2>1. /\ Cardinality(Copies(e)) \in Nat /\ Cardinality(Prepaid) \in Nat /\ faults \in Nat
        /\ Credit(e) \in {0, 1}
    BY CountsAreNaturals, CreditIsOne DEF CopiesInv, IInv, RelayInv
  <2>2. Cardinality(Copies(e)) + Cardinality(Prepaid) <= faults + Credit(e)
    BY DEF CopiesInv, CopiesArePaid
  <2> QED
    BY <2>1, <2>2
<1> QED
  BY CopiesInvariance, <1>1, PTL

\* Whatever crashes, rebalances and late commits repeat, the answers are dealt with
\* for the first time in the order of their partition, and none is passed over:
\* this is the order in which VideoPipeline applies the events of a video.
THEOREM AnswersInOrder == Spec => []DealtWithInOrder
<1>1. OrderInv => DealtWithInOrder
  BY DEF OrderInv
<1> QED
  BY OrderInvariance, <1>1, PTL

\* Consumer.Run keeps what it says, that only handled messages are committed, until
\* a fault or a shutdown: the counterexample of shutdown_skip needs one.
THEOREM CommittedUntilFault == Spec => [](faults = 0 => CommittedIsHandled)
<1>1. OrderInv => (faults = 0 => CommittedIsHandled)
  BY DEF OrderInv, IInv, FaultsComeFirst, OnlyAbandonedAreSkipped, CommittedIsHandled
<1> QED
  BY OrderInvariance, <1>1, PTL
=============================================================================
