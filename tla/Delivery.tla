------------------------------- MODULE Delivery -------------------------------
(***************************************************************************)
(* A task on its way to the worker and its answer on the way back, through *)
(* several instances of the service (cmd/main.go), each with a relay and a *)
(* consumer, that start, crash and shut down. The worker answers every     *)
(* copy of a task, in order: the partition of answers is the partition of  *)
(* tasks up to answered.                                                   *)
(***************************************************************************)
EXTENDS OutboxRelay, KafkaConsumer

ASSUME InstancesAssumption == Consumers = Relays /\ IsFiniteSet(Relays)

VARIABLES
  phase,       \* of each instance: where its main function is
  answered     \* copies of tasks that the worker has answered

vars == <<relayVars, consumerVars, phase, answered>>

\* "http", "consumer" and "relay": what shutdown is waiting for.
Phases == {"off", "running", "http", "consumer", "relay"}

Init ==
  /\ RelayInit
  /\ ConsumerInit
  /\ phase = [p \in Relays |-> "running"]
  /\ answered = 0

Enter(p, next) == phase' = [phase EXCEPT ![p] = next]

\* The contexts of main: cancelled once shutdown has come to the component.
ConsumerCancelled(p) == phase[p] \in {"consumer", "relay"}
RelayCancelled(p) == phase[p] = "relay"

\* A service inserts an event.
Produce(e) ==
  /\ \E p \in Relays : phase[p] \in {"running", "http"}
  /\ Insert(e)
  /\ UNCHANGED <<consumerVars, phase, answered>>

Answer ==
  /\ answered < Len(topic)
  /\ answered' = answered + 1
  /\ UNCHANGED <<relayVars, consumerVars, phase>>

\* drain looks at its context before every tick; the tick that it interrupts is
\* rolled back, or gets to its end.
RelayRuns(p) ==
  /\ phase[p] # "off"
  /\ \/ SelectBatch(p) /\ ~RelayCancelled(p)
     \/ Publish(p) \/ DeleteAndCommit(p) \/ PublishFails(p) \/ TickFails(p)
     \/ Interrupt(p) /\ RelayCancelled(p)
  /\ UNCHANGED <<consumerVars, phase, answered>>

ConsumerRuns(p) ==
  /\ phase[p] # "off"
  /\ ConsumerStep(p, answered, ConsumerCancelled(p))
  /\ UNCHANGED <<relayVars, phase, answered>>

ConsumerGoesDeaf(p) ==
  /\ phase[p] # "off" /\ ~ConsumerCancelled(p)
  /\ FetchFails(p)
  /\ Fault
  /\ UNCHANGED <<queue, topic, claimed, sent, phase, answered>>

\* The partition of an instance that is gone goes to another one; from one that
\* is there it is taken by accident. An instance that is deaf or shutting down is
\* of the group until its reader is closed, and may be given the partition too.
GroupRebalances(p) ==
  /\ phase[p] # "off"
  /\ Rebalance(p)
  /\ IF phase[owner] = "off" THEN UNCHANGED faults ELSE Fault
  /\ UNCHANGED <<queue, topic, claimed, sent, phase, answered>>

-----------------------------------------------------------------------------
(* The life of an instance *)

\* SIGTERM: shutdown begins with srv.Shutdown.
Signal(p) ==
  /\ phase[p] = "running"
  /\ Enter(p, "http")
  /\ Fault
  /\ UNCHANGED <<queue, topic, claimed, sent, consumerVars, answered>>

\* The server and the watchdog are done, stopConsumer.
HttpDone(p) ==
  /\ phase[p] = "http"
  /\ Enter(p, "consumer")
  /\ UNCHANGED <<relayVars, consumerVars, answered>>

\* <-consumerDone, stopRelay.
ConsumerDone(p) ==
  /\ phase[p] = "consumer"
  /\ At(p, "stopped") \/ At(p, "deaf")
  /\ Enter(p, "relay")
  /\ UNCHANGED <<relayVars, consumerVars, answered>>

\* <-relayDone, then the producer and the reader are closed.
RelayDone(p) ==
  /\ phase[p] = "relay"
  /\ claimed[p] = {}
  /\ Enter(p, "off")
  /\ UNCHANGED <<relayVars, consumerVars, answered>>

\* A crash; and srv.Shutdown that runs out of time: main returns at once.
Dies(p) ==
  /\ phase[p] # "off"
  /\ Enter(p, "off")
  /\ Cut(p)
  /\ Leaves(p)
  /\ UNCHANGED answered

Starts(p) ==
  /\ phase[p] = "off"
  /\ Enter(p, "running")
  /\ Joins(p)
  /\ UNCHANGED <<relayVars, answered>>

Instance(p) ==
  \/ RelayRuns(p) \/ ConsumerRuns(p) \/ ConsumerGoesDeaf(p) \/ GroupRebalances(p)
  \/ Signal(p) \/ HttpDone(p) \/ ConsumerDone(p) \/ RelayDone(p) \/ Dies(p) \/ Starts(p)

Next ==
  \/ \E e \in Events : Produce(e)
  \/ Answer
  \/ \E p \in Relays : Instance(p)

Spec == Init /\ [][Next]_vars

\* The goroutines run, a shutdown goes on, an instance that is off is started
\* again, and a handler that is tried again and again succeeds at last. The
\* coordinator takes the partition from an instance that is gone. Faults are
\* finitely many; a deaf consumer is helped by nothing.
NeedsOwner(p) == GroupRebalances(p) /\ phase[owner] = "off"
TickProceeds(p) ==
  /\ RelayRuns(p)
  /\ SelectBatch(p) \/ Publish(p) \/ DeleteAndCommit(p)
MessageProceeds(p) ==
  /\ ConsumerRuns(p)
  /\ Fetch(p, answered) \/ Retry(p) \/ Commit(p) \/ FetchStops(p, ConsumerCancelled(p))
MessageIsHandled(p) == ConsumerRuns(p) /\ HandleSucceeds(p)
ShutdownProceeds(p) == HttpDone(p) \/ ConsumerDone(p) \/ RelayDone(p)

Fairness ==
  /\ WF_vars(Answer)
  /\ \A p \in Relays :
       /\ WF_vars(TickProceeds(p)) /\ WF_vars(MessageProceeds(p))
       /\ SF_vars(MessageIsHandled(p))
       /\ WF_vars(ShutdownProceeds(p)) /\ WF_vars(Starts(p)) /\ SF_vars(NeedsOwner(p))

FairSpec == Spec /\ Fairness

-----------------------------------------------------------------------------
(* Properties *)

TypeOK ==
  /\ RelayTypeOK
  /\ ConsumerTypeOK
  /\ phase \in [Relays -> Phases]
  /\ answered \in 0..Len(topic)

Copies(e) == {i \in 1..Len(topic) : topic[i] = e}

\* A second copy costs a fault or a shutdown: however many relays run, ticks that
\* succeed publish an event once (FOR UPDATE SKIP LOCKED, and the delete).
CopiesCostFaults == \A e \in Events : Cardinality(Copies(e)) <= 1 + faults

Settled(e) == \E o \in handled \cup abandoned : topic[o + 1] = e

\* Every task a service has committed is answered, and the answer is handled:
\* the outbox, Kafka, crashes and shutdowns lose none of them. Exceptions: the
\* retry of the answer was given up for a shutdown, or the consumer that has
\* the partition went deaf.
EveryTaskIsAnswered ==
  \A e \in Events : e \in queue ~> (Settled(e) \/ \E p \in Relays : At(p, "deaf"))
=============================================================================
