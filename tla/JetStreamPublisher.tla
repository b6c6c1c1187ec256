-------------------------- MODULE JetStreamPublisher --------------------------
(***************************************************************************)
(* Publication to JetStream: publish_with_retry (publisher.rs) and the     *)
(* creation and reconciliation of the stream it goes to (streams.rs), by   *)
(* requests of several replicas of the server at once.  Every round trip   *)
(* to NATS is a step that may fail; a message on its way is stored later,  *)
(* possibly after its request has been given up.                           *)
(*                                                                         *)
(* There is one stream.  The settings of a stream are its storage, which   *)
(* cannot be changed, those that the configuration of a replica determines *)
(* (managed: limits, age, replicas, compression, discard and retention     *)
(* policy, subjects) and the rest (unmanaged), each one value here.        *)
(***************************************************************************)
EXTENDS Naturals, Sequences, SequencesExt

CONSTANTS
  Requests,     \* publications in flight
  Storages,     \* file and memory
  Managed,      \* combinations of managed settings
  Unmanaged,    \* combinations of unmanaged settings
  Default,      \* the unmanaged settings of a stream the server creates
  Desired,      \* per request: the storage and managed settings of its replica
  MaxAttempts   \* publish_retry_attempts

ASSUME SettingsAssumption ==
  /\ "none" \notin Storages
  /\ Default \in Unmanaged
  /\ Desired \in [Requests -> [storage : Storages, managed : Managed]]
\* JetStreamConfig::validate rejects zero.
ASSUME AttemptsAssumption == MaxAttempts \in Nat \ {0}

VARIABLES
  stream,    \* on the server: the settings of the stream, NoStream when absent
  stored,    \* on the server: the requests whose messages were stored, in order
  network,   \* messages on their way to the server
  request    \* per request, see Request

server == <<stream, stored, network>>
vars == <<stream, stored, network, request>>

Settings == [storage : Storages, managed : Managed, unmanaged : Unmanaged]

NoStream == [storage |-> "none", managed |-> "none", unmanaged |-> "none"]

\* "rejected" is the storage mismatch, "failed" any other terminal error.
Phases == {"idle", "lookup", "create", "inspect", "reconcile", "update",
           "publish", "acknowledge", "ok", "rejected", "failed"}

Answered == {"ok", "rejected", "failed"}

\* current is the configuration that the last lookup returned.
Request ==
  [phase : Phases, attempt : 1..MaxAttempts, current : Settings \cup {NoStream}]

TypeOK ==
  /\ stream \in Settings \cup {NoStream}
  /\ stored \in Seq(Requests)
  /\ network \in SUBSET Requests
  /\ request \in [Requests -> Request]

\* The stream may have been there before, made by an operator.
Init ==
  /\ stream \in Settings \cup {NoStream}
  /\ stored = <<>>
  /\ network = {}
  /\ request = [r \in Requests |->
                  [phase |-> "idle", attempt |-> 1, current |-> NoStream]]

-----------------------------------------------------------------------------

Go(r, phase) == request' = [request EXCEPT ![r].phase = phase]

At(r, phase) == request[r].phase = phase

\* Mutation of Retried: any error is taken for a transient one.
RetriedAlways(r, error) == request[r].attempt < MaxAttempts

\* is_channel_closed_error: of the errors, only a closed channel to the NATS
\* client, into which nothing can have been handed, is tried again.
Retried(r, error) == error = "channel closed" /\ request[r].attempt < MaxAttempts

\* Mutation of Fail: attempts are not counted.
FailUncounted(r, error) ==
  IF error = "channel closed" THEN Go(r, "lookup") ELSE Go(r, "failed")

\* publish_with_retry: the next attempt starts over with the stream.
Fail(r, error) ==
  IF Retried(r, error)
  THEN request' = [request EXCEPT ![r].phase = "lookup", ![r].attempt = @ + 1]
  ELSE Go(r, "failed")

Errors == {"channel closed", "other"}

\* put_messages and put_message_with_headers are called.
Begin(r) ==
  /\ At(r, "idle")
  /\ Go(r, "lookup")
  /\ UNCHANGED server

\* get_stream: a lookup that fails falls back to creation, like one that does not
\* find the stream.
Lookup(r) ==
  /\ At(r, "lookup")
  /\ \/ /\ stream # NoStream
        /\ request' = [request EXCEPT ![r].phase = "reconcile", ![r].current = stream]
     \/ Go(r, "create")
  /\ UNCHANGED server

Wanted(r) ==
  [storage |-> Desired[r].storage, managed |-> Desired[r].managed,
   unmanaged |-> Default]

\* create_stream: NATS accepts the creation of a stream that is there with the
\* very same settings, and otherwise says that the name exists.
Create(r) ==
  /\ At(r, "create")
  /\ \/ /\ stream \in {NoStream, Wanted(r)}
        /\ stream' = Wanted(r)
        /\ Go(r, "publish")
     \/ /\ stream \notin {NoStream, Wanted(r)}
        /\ Go(r, "inspect")
        /\ UNCHANGED stream
     \/ /\ \E error \in Errors : Fail(r, error)
        /\ UNCHANGED stream
  /\ UNCHANGED <<stored, network>>

\* The stream another replica has created is looked up.
Inspect(r) ==
  /\ At(r, "inspect")
  /\ \/ /\ stream # NoStream
        /\ request' = [request EXCEPT ![r].phase = "reconcile", ![r].current = stream]
     \/ \E error \in Errors : Fail(r, error)
  /\ UNCHANGED server

\* Mutation of Reconcile: the storage is not compared.
ReconcileAnyStorage(r) ==
  /\ At(r, "reconcile")
  /\ Go(r, IF request[r].current.managed = Desired[r].managed THEN "publish" ELSE "update")
  /\ UNCHANGED server

\* reconcile_existing_stream_config: compares what the lookup returned.
Reconcile(r) ==
  /\ At(r, "reconcile")
  /\ LET current == request[r].current
     IN Go(r, IF current.storage # Desired[r].storage THEN "rejected"
              ELSE IF current.managed = Desired[r].managed THEN "publish"
              ELSE "update")
  /\ UNCHANGED server

\* Mutation of Merged: the desired configuration is sent as it is.
MergedAway(r) == [Wanted(r) EXCEPT !.storage = request[r].current.storage]

\* merged_reconciled_config: the settings of the lookup with the managed ones
\* replaced.
Merged(r) == [request[r].current EXCEPT !.managed = Desired[r].managed]

Update(r) ==
  /\ At(r, "update")
  /\ \/ stream' = Merged(r) /\ Go(r, "publish")
     \/ /\ \E error \in Errors : Fail(r, error)
        /\ UNCHANGED stream
  /\ UNCHANGED <<stored, network>>

\* The message is handed to the client, or the channel to it is closed.
Send(r) ==
  /\ At(r, "publish")
  /\ \/ network' = network \cup {r} /\ Go(r, "acknowledge")
     \/ Fail(r, "channel closed") /\ UNCHANGED network
  /\ UNCHANGED <<stream, stored>>

\* The server stores a message that reaches it, whether or not its request still
\* waits for the acknowledgement.
Store(r) ==
  /\ r \in network
  /\ stored' = Append(stored, r)
  /\ network' = network \ {r}
  /\ UNCHANGED <<stream, request>>

\* The message is lost, or refused by the server.
Lose(r) ==
  /\ r \in network
  /\ network' = network \ {r}
  /\ UNCHANGED <<stream, stored, request>>

\* Mutation of Acknowledged: the acknowledgement is not waited for.
AcknowledgedBySending(r) == TRUE

Acknowledged(r) == r \in ToSet(stored)

\* The acknowledgement arrives, or an error, or nothing for too long.
Acknowledge(r) ==
  /\ At(r, "acknowledge")
  /\ \/ Acknowledged(r) /\ Go(r, "ok")
     \/ Fail(r, "other")
  /\ UNCHANGED server

Serve(r) ==
  \/ Lookup(r) \/ Create(r) \/ Inspect(r) \/ Reconcile(r) \/ Update(r)
  \/ Send(r) \/ Acknowledge(r)

Next == \E r \in Requests : Begin(r) \/ Serve(r) \/ Store(r) \/ Lose(r)

Spec == Init /\ [][Next]_vars

\* A request's task goes on until it has an answer: every round trip ends in a
\* response, an error or a timeout.
FairSpec == Spec /\ \A r \in Requests : WF_vars(Serve(r))

-----------------------------------------------------------------------------
(* Correctness.                                                             *)

\* A notification is stored once at most, whatever was retried: an attempt whose
\* message may have been stored, or may still be, is never repeated.
AtMostOneCopy ==
  /\ \A i, j \in DOMAIN stored : stored[i] = stored[j] => i = j
  /\ \A r \in network : r \notin ToSet(stored)

\* A publication that is reported as successful has been stored.
SuccessIsStored == \A r \in Requests : At(r, "ok") => r \in ToSet(stored)

\* No replica publishes to a stream of another storage than it is configured
\* for, although the stream may have been created by a peer between its lookup
\* and its creation: with file storage configured, nothing is kept in memory.
StorageRespected == \A r \in ToSet(stored) \cup network : stream.storage = Desired[r].storage

\* Reconciliation leaves alone what the configuration does not manage, whoever
\* created the stream, and never changes its storage.
UnmanagedPreserved ==
  [][stream # NoStream =>
       stream'.unmanaged = stream.unmanaged /\ stream'.storage = stream.storage]_stream

\* Every publication is answered, within the configured number of attempts.
RequestsAnswered ==
  \A r \in Requests : At(r, "lookup") ~> request[r].phase \in Answered
=============================================================================
