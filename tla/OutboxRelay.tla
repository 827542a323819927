----------------------------- MODULE OutboxRelay -----------------------------
(***************************************************************************)
(* The outbox (app.outbox_events) and the relays that empty it into Kafka, *)
(* one in each instance of the service (internal/outbox/relay.go). A tick  *)
(* is a transaction: it locks a batch of the oldest free rows, publishes   *)
(* them one by one in the order of their ids, deletes them and commits;    *)
(* whatever goes wrong rolls it back, and Kafka keeps what it has got.     *)
(***************************************************************************)
EXTENDS Naturals, FiniteSets, Sequences

CONSTANTS
  Events,        \* ids of the events that are ever inserted
  Relays,
  BatchSize,     \* config outbox.batch_size
  MaxFaults      \* faults of the environment in a behaviour

ASSUME EventsAssumption == Events \subseteq Nat
ASSUME BatchAssumption == BatchSize \in Nat \ {0}
ASSUME FaultsAssumption == MaxFaults \in Nat

VARIABLES
  queue,       \* committed rows of the outbox
  topic,       \* the partition the events go to: ids, in the order Kafka got them
  claimed,     \* rows that the tick of each relay has locked
  sent,        \* those of them that it has published
  faults       \* faults so far

relayVars == <<queue, topic, claimed, sent, faults>>

Published == {topic[i] : i \in 1..Len(topic)}

RelayInit ==
  /\ queue = {}
  /\ topic = <<>>
  /\ claimed = [r \in Relays |-> {}]
  /\ sent = [r \in Relays |-> {}]
  /\ faults = 0

\* A saga with OutboxRepository.Insert commits. The ids are drawn before the
\* commits and the commits come in any order.
Insert(e) ==
  /\ e \notin queue \cup Published
  /\ queue' = queue \cup {e}
  /\ UNCHANGED <<topic, claimed, sent, faults>>

\* A slip: FOR UPDATE is left out, other ticks' rows are not skipped.
AnyRows == queue

\* FOR UPDATE SKIP LOCKED: rows of other ticks are passed over.
FreeRows == queue \ UNION {claimed[r] : r \in Relays}

\* ORDER BY id LIMIT batchSize
OldestOf(rows, batch) ==
  /\ batch \subseteq rows
  /\ Cardinality(batch) <= BatchSize
  /\ Cardinality(batch) < BatchSize => batch = rows
  /\ \A e \in batch, f \in rows \ batch : e < f

\* SelectBatchForUpdate; an empty batch ends the tick.
SelectBatch(r) ==
  /\ claimed[r] = {}
  /\ \E batch \in SUBSET FreeRows :
       /\ OldestOf(FreeRows, batch)
       /\ batch # {}
       /\ claimed' = [claimed EXCEPT ![r] = batch]
  /\ UNCHANGED <<queue, topic, sent, faults>>

\* The event that the tick publishes next.
IsNext(r, e) ==
  /\ e \in claimed[r] \ sent[r]
  /\ \A f \in claimed[r] \ sent[r] : e <= f

Publish(r) ==
  /\ \E e \in claimed[r] :
       /\ IsNext(r, e)
       /\ topic' = Append(topic, e)
       /\ sent' = [sent EXCEPT ![r] = @ \cup {e}]
  /\ UNCHANGED <<queue, claimed, faults>>

\* A slip: the whole batch is deleted, published or not.
DeleteSelected(r) ==
  /\ claimed[r] # {}
  /\ queue' = queue \ claimed[r]
  /\ claimed' = [claimed EXCEPT ![r] = {}]
  /\ sent' = [sent EXCEPT ![r] = {}]
  /\ UNCHANGED <<topic, faults>>

\* DeleteByIDs of the published, and the commit.
DeleteAndCommit(r) ==
  /\ claimed[r] # {}
  /\ sent[r] = claimed[r]
  /\ queue' = queue \ sent[r]
  /\ claimed' = [claimed EXCEPT ![r] = {}]
  /\ sent' = [sent EXCEPT ![r] = {}]
  /\ UNCHANGED <<topic, faults>>

Unlock(r) ==
  /\ claimed' = [claimed EXCEPT ![r] = {}]
  /\ sent' = [sent EXCEPT ![r] = {}]

Fault == faults < MaxFaults /\ faults' = faults + 1

\* Publish returns an error, Kafka may have the message all the same.
PublishFails(r) ==
  /\ Fault
  /\ \E e \in claimed[r] :
       /\ IsNext(r, e)
       /\ topic' \in {topic, Append(topic, e)}
  /\ Unlock(r)
  /\ UNCHANGED queue

\* The database fails before or at the commit.
TickFails(r) ==
  /\ claimed[r] # {}
  /\ Fault
  /\ Unlock(r)
  /\ UNCHANGED <<queue, topic>>

RelayStep(r) ==
  SelectBatch(r) \/ Publish(r) \/ DeleteAndCommit(r) \/ PublishFails(r) \/ TickFails(r)

\* The instance stops or dies: its transaction, if there is one, is rolled back.
Cut(r) ==
  /\ Fault
  /\ Unlock(r)
  /\ UNCHANGED <<queue, topic>>

\* The context of the tick is cancelled.
Interrupt(r) ==
  /\ claimed[r] # {}
  /\ Unlock(r)
  /\ UNCHANGED <<queue, topic, faults>>

RelayNext ==
  \/ \E e \in Events : Insert(e)
  \/ \E r \in Relays : RelayStep(r) \/ Cut(r) \/ Interrupt(r)

RelaySpec == RelayInit /\ [][RelayNext]_relayVars

-----------------------------------------------------------------------------
(* Properties *)

RelayTypeOK ==
  /\ queue \subseteq Events
  /\ topic \in Seq(Events)
  /\ claimed \in [Relays -> SUBSET Events]
  /\ sent \in [Relays -> SUBSET Events]
  /\ faults \in 0..MaxFaults

\* No row leaves the outbox before Kafka has it, and no event reaches Kafka
\* that no transaction has committed.
Promise == INSTANCE Outbox WITH accepted <- queue \cup Published, delivered <- Published
ImplementsOutbox == Promise!Spec
=============================================================================
