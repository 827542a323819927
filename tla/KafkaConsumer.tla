----------------------------- MODULE KafkaConsumer -----------------------------
(***************************************************************************)
(* The consumers of the processing events, one in each instance of the     *)
(* service, on one partition (internal/kafka/consumer.go): fetch, handle   *)
(* with an endless retry, commit the offset. The handler is a transaction  *)
(* of VideoPipeline; here it succeeds or fails. The group's coordinator    *)
(* and the reader of kafka-go are modelled from how the code uses them.    *)
(***************************************************************************)
EXTENDS Naturals

CONSTANTS
  Consumers

VARIABLES
  reader,       \* [at, offset] of each consumer
  owner,        \* who the partition is assigned to
  committed,    \* the offset the group starts from
  handled,      \* offsets whose handler has succeeded
  abandoned     \* offsets whose retry was given up for a shutdown

consumerVars == <<reader, owner, committed, handled, abandoned>>

\* "deaf": Run has returned for an error of FetchMessage, and only a log line says so.
Places == {"fetching", "handling", "committing", "waiting", "stopped", "deaf"}

ConsumerInit ==
  /\ reader = [p \in Consumers |-> [at |-> "fetching", offset |-> 0]]
  /\ owner \in Consumers
  /\ committed = 0
  /\ handled = {}
  /\ abandoned = {}

At(p, place) == reader[p].at = place
Go(p, place) == reader' = [reader EXCEPT ![p].at = place]

\* FetchMessage: the next message of the partition. A context that is cancelled
\* does not prevent it when a message is at hand.
Fetch(p, length) ==
  /\ At(p, "fetching") /\ owner = p
  /\ reader[p].offset < length
  /\ Go(p, "handling")
  /\ UNCHANGED <<owner, committed, handled, abandoned>>

\* FetchMessage ends for the cancelled context, and Run returns.
FetchStops(p, cancelled) ==
  /\ At(p, "fetching") /\ cancelled
  /\ Go(p, "stopped")
  /\ UNCHANGED <<owner, committed, handled, abandoned>>

\* fetchError: any other error ends Run as well.
FetchFails(p) ==
  /\ At(p, "fetching")
  /\ Go(p, "deaf")
  /\ UNCHANGED <<owner, committed, handled, abandoned>>

HandleSucceeds(p) ==
  /\ At(p, "handling")
  /\ Go(p, "committing")
  /\ handled' = handled \cup {reader[p].offset}
  /\ UNCHANGED <<owner, committed, abandoned>>

\* A slip: a message whose handler fails is committed.
SkipFailed(p) ==
  /\ At(p, "handling")
  /\ Go(p, "committing")
  /\ UNCHANGED <<owner, committed, handled, abandoned>>

\* A slip: an error of the handler ends Run.
StopOnError(p) ==
  /\ At(p, "handling")
  /\ Go(p, "stopped")
  /\ UNCHANGED <<owner, committed, handled, abandoned>>

HandleFails(p) ==
  /\ At(p, "handling")
  /\ Go(p, "waiting")
  /\ UNCHANGED <<owner, committed, handled, abandoned>>

\* wait: the pause ends, or the shutdown ends it.
Retry(p) ==
  /\ At(p, "waiting")
  /\ Go(p, "handling")
  /\ UNCHANGED <<owner, committed, handled, abandoned>>

GiveUp(p, cancelled) ==
  /\ At(p, "waiting") /\ cancelled
  /\ reader' = [reader EXCEPT ![p] = [at |-> "fetching", offset |-> @.offset + 1]]
  /\ abandoned' = abandoned \cup {reader[p].offset}
  /\ UNCHANGED <<owner, committed, handled>>

\* CommitMessages: an error is only logged. The offset is that of the next message.
Commit(p) ==
  /\ At(p, "committing")
  /\ committed' \in {committed, reader[p].offset + 1}
  /\ reader' = [reader EXCEPT ![p] = [at |-> "fetching", offset |-> @.offset + 1]]
  /\ UNCHANGED <<owner, handled, abandoned>>

\* The group assigns the partition anew, and its owner reads from the committed
\* offset, if it still reads. A consumer in the middle of a message goes on with it.
Rebalance(p) ==
  /\ owner # p
  /\ reader[p].at \in {"fetching", "stopped", "deaf"}
  /\ owner' = p
  /\ reader' = [reader EXCEPT ![p].offset = committed]
  /\ UNCHANGED <<committed, handled, abandoned>>

ConsumerStep(p, length, cancelled) ==
  \/ Fetch(p, length) \/ FetchStops(p, cancelled)
  \/ HandleSucceeds(p) \/ HandleFails(p) \/ Retry(p) \/ GiveUp(p, cancelled)
  \/ Commit(p)

\* A process starts: a reader that has fetched nothing.
Joins(p) ==
  /\ reader' = [reader EXCEPT ![p] = [at |-> "fetching", offset |-> committed]]
  /\ UNCHANGED <<owner, committed, handled, abandoned>>

\* A process is gone: what it was handling is rolled back.
Leaves(p) ==
  /\ Go(p, "stopped")
  /\ UNCHANGED <<owner, committed, handled, abandoned>>

-----------------------------------------------------------------------------
(* Properties *)

ConsumerTypeOK ==
  /\ reader \in [Consumers -> [at : Places, offset : Nat]]
  /\ owner \in Consumers
  /\ committed \in Nat
  /\ handled \subseteq Nat
  /\ abandoned \subseteq Nat

\* An offset below the committed one has been handled, by whichever consumer, or
\* is one whose retry a shutdown interrupted: crashes, rebalances and commits
\* that fail or come late skip nothing.
OnlyAbandonedAreSkipped == \A o \in 0..(committed - 1) : o \in handled \cup abandoned

\* Consumer.Run: "a message is committed only when its handling succeeded, on an
\* error it is not committed".
CommittedIsHandled == \A o \in 0..(committed - 1) : o \in handled
=============================================================================
