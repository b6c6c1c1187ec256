------------------------ MODULE JetStreamPublisherProofs ------------------------
(***************************************************************************)
(* Proofs about JetStreamPublisher, for any requests, replicas, settings   *)
(* and number of attempts.                                                 *)
(***************************************************************************)
EXTENDS JetStreamPublisher, SequenceTheorems, TLAPS

\* The steps of a request, with what each leaves of its record: a phase, and
\* at most a new attempt or a new lookup.
LEMMA FailSteps ==
  ASSUME NEW r \in Requests, NEW error \in Errors, TypeOK, Fail(r, error)
  PROVE  /\ request' \in [Requests -> Request]
         /\ \A q \in Requests \ {r} : request'[q] = request[q]
         /\ request'[r].current = request[r].current
         /\ \/ request'[r].phase = "failed"
            \/ request'[r].phase = "lookup" /\ error = "channel closed"
  <1>1. request[r] \in Request /\ request \in [Requests -> Request]
    BY DEF TypeOK
  <1>2. request[r].attempt \in 1..MaxAttempts /\ MaxAttempts \in Nat
    BY <1>1, AttemptsAssumption DEF Request
  <1>3. CASE Retried(r, error)
    <2>1. request[r].attempt < MaxAttempts /\ error = "channel closed"
      BY <1>3 DEF Retried
    <2>2. request[r].attempt + 1 \in 1..MaxAttempts
      <3>1. \A a \in 1..MaxAttempts : a < MaxAttempts => a + 1 \in 1..MaxAttempts
        BY <1>2
      <3>. QED BY <1>2, <2>1, <3>1
    <2>3. request' = [request EXCEPT ![r].phase = "lookup", ![r].attempt = @ + 1]
      BY <1>3 DEF Fail
    <2>. QED BY <1>1, <2>1, <2>2, <2>3 DEF Request, Phases
  <1>4. CASE ~Retried(r, error)
    <2>1. request' = [request EXCEPT ![r].phase = "failed"]
      BY <1>4 DEF Fail, Go
    <2>. QED BY <1>1, <2>1 DEF Request, Phases
  <1>. QED BY <1>3, <1>4

\* What a change of phase leaves of the record.
LEMMA GoSteps ==
  ASSUME NEW r \in Requests, NEW phase \in Phases, TypeOK, Go(r, phase)
  PROVE  /\ request' \in [Requests -> Request]
         /\ \A q \in Requests \ {r} : request'[q] = request[q]
         /\ request'[r].current = request[r].current
         /\ request'[r].phase = phase
  BY DEF TypeOK, Go, Request

\* What Lookup and Inspect do on finding the stream.
Found(r) ==
  /\ stream # NoStream
  /\ request' = [request EXCEPT ![r].phase = "reconcile", ![r].current = stream]

\* What a lookup leaves of the record.
LEMMA FoundSteps ==
  ASSUME NEW r \in Requests, TypeOK, Found(r)
  PROVE  /\ request' \in [Requests -> Request]
         /\ \A q \in Requests \ {r} : request'[q] = request[q]
         /\ request'[r].current = stream
         /\ request'[r].phase = "reconcile"
  BY DEF TypeOK, Found, Request, Phases

-----------------------------------------------------------------------------
(* Types.                                                                   *)

\* The configuration that a replica creates a stream with.
LEMMA WantedIsSettings ==
  ASSUME NEW r \in Requests
  PROVE  /\ Wanted(r) \in Settings
         /\ Wanted(r).storage = Desired[r].storage
         /\ Desired[r].storage \in Storages
         /\ Wanted(r) # NoStream
  BY SettingsAssumption DEF Wanted, Settings, NoStream

\* Reconciliation keeps the storage and the unmanaged settings of the lookup.
LEMMA MergedIsSettings ==
  ASSUME NEW r \in Requests, TypeOK, request[r].current \in Settings
  PROVE  /\ Merged(r) \in Settings
         /\ Merged(r).storage = request[r].current.storage
         /\ Merged(r).unmanaged = request[r].current.unmanaged
         /\ Merged(r) # NoStream
  BY SettingsAssumption DEF TypeOK, Merged, Settings, NoStream

\* What a request has looked up is still true where reconciliation relies on
\* it: nobody changes the storage or the unmanaged settings of a stream.
LookupsHold ==
  \A r \in Requests : request[r].phase \in {"reconcile", "update"} =>
    /\ stream \in Settings
    /\ request[r].current \in Settings
    /\ request[r].current.storage = stream.storage
    /\ request[r].current.unmanaged = stream.unmanaged
    /\ At(r, "update") => request[r].current.storage = Desired[r].storage

\* From the reconciliation on, the stream has the storage of the request.
StorageAgreed ==
  \A r \in Requests :
    request[r].phase \in {"publish", "acknowledge", "ok"} \/ r \in network \cup ToSet(stored)
      => stream \in Settings /\ stream.storage = Desired[r].storage

\* A message has left its request, and the request goes nowhere but to an answer.
SentOnce ==
  \A r \in network \cup ToSet(stored) : request[r].phase \in {"acknowledge", "ok", "failed"}

IInv == TypeOK /\ AtMostOneCopy /\ SuccessIsStored /\ SentOnce /\ LookupsHold /\ StorageAgreed

-----------------------------------------------------------------------------
\* Storing a message that is not there yet makes no duplicate.
LEMMA StoredGrows ==
  ASSUME TypeOK, NEW r \in Requests
  PROVE  /\ Append(stored, r) \in Seq(Requests)
         /\ ToSet(Append(stored, r)) = ToSet(stored) \cup {r}
         /\ r \notin ToSet(stored) /\ (\A i, j \in DOMAIN stored : stored[i] = stored[j] => i = j)
              => \A i, j \in DOMAIN Append(stored, r) :
                    Append(stored, r)[i] = Append(stored, r)[j] => i = j
  <1>1. stored \in Seq(Requests)
    BY DEF TypeOK
  <1>2. /\ Append(stored, r) \in Seq(Requests)
        /\ Len(Append(stored, r)) = Len(stored) + 1
        /\ \A i \in 1..Len(stored) : Append(stored, r)[i] = stored[i]
        /\ Append(stored, r)[Len(stored) + 1] = r
    BY <1>1, AppendProperties
  <1>3. DOMAIN stored = 1..Len(stored) /\ Len(stored) \in Nat
        /\ DOMAIN Append(stored, r) = 1..(Len(stored) + 1)
    BY <1>1, <1>2, LenProperties
  <1>4. ToSet(Append(stored, r)) = ToSet(stored) \cup {r}
    BY <1>2, <1>3 DEF ToSet
  <1>5. ASSUME r \notin ToSet(stored),
               \A i, j \in DOMAIN stored : stored[i] = stored[j] => i = j,
               NEW i \in DOMAIN Append(stored, r), NEW j \in DOMAIN Append(stored, r),
               Append(stored, r)[i] = Append(stored, r)[j]
        PROVE  i = j
    BY <1>2, <1>3, <1>5 DEF ToSet
  <1>. QED BY <1>2, <1>4, <1>5

\* Nothing is stored, sent or looked up at first.
LEMMA InitEstablishes == Init => IInv
  <1>. SUFFICES ASSUME Init PROVE IInv
    OBVIOUS
  <1>1. ToSet(stored) = {} /\ DOMAIN stored = {} /\ stored \in Seq(Requests)
    BY DEF Init, ToSet
  <1>2. TypeOK
    BY <1>1, AttemptsAssumption DEF Init, TypeOK, Request, Phases
  <1>3. AtMostOneCopy /\ SentOnce
    BY <1>1 DEF Init, AtMostOneCopy, SentOnce
  <1>4. SuccessIsStored /\ LookupsHold /\ StorageAgreed
    BY <1>1 DEF Init, SuccessIsStored, LookupsHold, StorageAgreed, At
  <1>. QED BY <1>2, <1>3, <1>4 DEF IInv

\* A step of a request's record alone preserves the invariant if the new phase
\* claims nothing more.
LEMMA LocalStep ==
  ASSUME IInv, NEW r \in Requests, UNCHANGED server,
         request' \in [Requests -> Request],
         \A q \in Requests \ {r} : request'[q] = request[q],
         r \in network \cup ToSet(stored) => request'[r].phase \in {"acknowledge", "ok", "failed"},
         request'[r].phase = "ok" => r \in ToSet(stored),
         request'[r].phase \in {"reconcile", "update"} =>
            /\ stream \in Settings
            /\ request'[r].current \in Settings
            /\ request'[r].current.storage = stream.storage
            /\ request'[r].current.unmanaged = stream.unmanaged
            /\ request'[r].phase = "update" => request'[r].current.storage = Desired[r].storage,
         request'[r].phase \in {"publish", "acknowledge", "ok"} =>
            stream \in Settings /\ stream.storage = Desired[r].storage
  PROVE  IInv'
  <1>1. stream' = stream /\ stored' = stored /\ network' = network
    BY DEF server
  <1>2. ToSet(stored)' = ToSet(stored)
    BY <1>1 DEF ToSet
  <1>3. TypeOK'
    BY <1>1 DEF IInv, TypeOK
  <1>4. AtMostOneCopy'
    BY <1>1, <1>2 DEF IInv, AtMostOneCopy
  <1>5. SuccessIsStored'
    BY <1>2 DEF IInv, SuccessIsStored, At
  <1>6. SentOnce'
    <2>1. network \subseteq Requests /\ ToSet(stored) \subseteq Requests
      BY DEF IInv, TypeOK, ToSet
    <2>. QED BY <1>1, <1>2, <2>1 DEF IInv, SentOnce
  <1>7. LookupsHold'
    BY <1>1 DEF IInv, LookupsHold, At
  <1>8. StorageAgreed'
    BY <1>1, <1>2 DEF IInv, StorageAgreed
  <1>. QED BY <1>3, <1>4, <1>5, <1>6, <1>7, <1>8 DEF IInv

\* A request that fails and may try again has not handed over its message.
LEMMA FailKeeps ==
  ASSUME IInv, NEW r \in Requests, NEW error \in Errors, Fail(r, error), UNCHANGED server,
         error = "channel closed" => r \notin network \cup ToSet(stored)
  PROVE  IInv'
  <1>1. /\ request' \in [Requests -> Request]
        /\ \A q \in Requests \ {r} : request'[q] = request[q]
        /\ \/ request'[r].phase = "failed"
           \/ request'[r].phase = "lookup" /\ error = "channel closed"
    BY FailSteps DEF IInv
  <1>. QED BY <1>1, LocalStep

\* Nothing of a request is on its way before the request waits for it.
LEMMA NotSentBefore ==
  ASSUME IInv, NEW r \in Requests,
         request[r].phase \in {"idle", "lookup", "create", "inspect", "reconcile",
                              "update", "publish"}
  PROVE  r \notin network \cup ToSet(stored)
  BY DEF IInv, SentOnce

\* A lookup has just been made, so it is true.
LEMMA FoundKeeps ==
  ASSUME IInv, NEW r \in Requests, At(r, "lookup") \/ At(r, "inspect"), Found(r),
         UNCHANGED server
  PROVE  IInv'
  <1>1. /\ request' \in [Requests -> Request]
        /\ \A q \in Requests \ {r} : request'[q] = request[q]
        /\ request'[r].current = stream
        /\ request'[r].phase = "reconcile"
    BY FoundSteps DEF IInv
  <1>2. stream \in Settings
    BY DEF IInv, TypeOK, Found
  <1>3. r \notin network \cup ToSet(stored)
    BY NotSentBefore DEF At
  <1>. QED BY <1>1, <1>2, <1>3, LocalStep

\* A publication begins.
LEMMA BeginKeeps ==
  ASSUME IInv, NEW r \in Requests, Begin(r)
  PROVE  IInv'
  <1>1. Go(r, "lookup") /\ "lookup" \in Phases /\ UNCHANGED server
    BY DEF Begin, Phases
  <1>2. r \notin network \cup ToSet(stored)
    BY NotSentBefore DEF Begin, At
  <1>. QED BY <1>1, <1>2, GoSteps, LocalStep DEF IInv

\* The lookup finds the stream or falls back to creation.
LEMMA LookupKeeps ==
  ASSUME IInv, NEW r \in Requests, Lookup(r)
  PROVE  IInv'
  <1>1. CASE Found(r)
    BY <1>1, FoundKeeps DEF Lookup
  <1>2. CASE Go(r, "create")
    <2>1. UNCHANGED server /\ "create" \in Phases
      BY DEF Lookup, Phases
    <2>2. r \notin network \cup ToSet(stored)
      BY NotSentBefore DEF Lookup, At
    <2>. QED BY <1>2, <2>1, <2>2, GoSteps, LocalStep DEF IInv
  <1>. QED BY <1>1, <1>2 DEF Lookup, Found

\* The lookup after a creation that was refused.
LEMMA InspectKeeps ==
  ASSUME IInv, NEW r \in Requests, Inspect(r)
  PROVE  IInv'
  <1>1. CASE Found(r)
    BY <1>1, FoundKeeps DEF Inspect
  <1>2. CASE \E error \in Errors : Fail(r, error)
    <2>1. UNCHANGED server
      BY DEF Inspect
    <2>2. r \notin network \cup ToSet(stored)
      BY NotSentBefore DEF Inspect, At
    <2>. QED BY <1>2, <2>1, <2>2, FailKeeps
  <1>. QED BY <1>1, <1>2 DEF Inspect, Found

\* Reconciliation goes on only with the storage of the replica.
LEMMA ReconcileKeeps ==
  ASSUME IInv, NEW r \in Requests, Reconcile(r)
  PROVE  IInv'
  <1>1. /\ stream \in Settings
        /\ request[r].current \in Settings
        /\ request[r].current.storage = stream.storage
        /\ request[r].current.unmanaged = stream.unmanaged
    BY DEF IInv, LookupsHold, Reconcile, At
  <1>2. r \notin network \cup ToSet(stored)
    BY NotSentBefore DEF Reconcile, At
  <1>3. CASE Go(r, "rejected")
    <2>1. "rejected" \in Phases /\ UNCHANGED server
      BY DEF Reconcile, Phases
    <2>. QED BY <1>2, <1>3, <2>1, GoSteps, LocalStep DEF IInv
  <1>4. CASE /\ request[r].current.storage = Desired[r].storage
             /\ Go(r, "publish") \/ Go(r, "update")
    <2>1. /\ "publish" \in Phases /\ "update" \in Phases
          /\ UNCHANGED server
      BY DEF Reconcile, Phases
    <2>2. /\ request' \in [Requests -> Request]
          /\ \A q \in Requests \ {r} : request'[q] = request[q]
          /\ request'[r].current = request[r].current
          /\ request'[r].phase \in {"publish", "update"}
      BY <1>4, <2>1, GoSteps DEF IInv
    <2>. QED BY <1>1, <1>2, <1>4, <2>1, <2>2, LocalStep
  <1>. QED BY <1>3, <1>4 DEF Reconcile

-----------------------------------------------------------------------------
(* The steps that change the stream.                                        *)

\* A stream that is created, or changed in what is managed, keeps what the
\* requests rely on.
LEMMA StreamStep ==
  ASSUME IInv, NEW r \in Requests, Go(r, "publish"), UNCHANGED <<stored, network>>,
         r \notin network \cup ToSet(stored),
         stream' \in Settings, stream'.storage = Desired[r].storage,
         stream \in Settings =>
           stream'.storage = stream.storage /\ stream'.unmanaged = stream.unmanaged
  PROVE  IInv'
  <1>1. /\ request' \in [Requests -> Request]
        /\ \A q \in Requests \ {r} : request'[q] = request[q]
        /\ request'[r].phase = "publish"
    BY GoSteps DEF IInv, Phases
  <1>2. ToSet(stored)' = ToSet(stored)
    BY DEF ToSet
  <1>3. network \subseteq Requests /\ ToSet(stored) \subseteq Requests
    BY DEF IInv, TypeOK, ToSet
  <1>4. TypeOK'
    BY <1>1 DEF IInv, TypeOK
  <1>5. AtMostOneCopy'
    BY <1>2 DEF IInv, AtMostOneCopy
  <1>6. SuccessIsStored'
    BY <1>1, <1>2 DEF IInv, SuccessIsStored, At
  <1>7. SentOnce'
    BY <1>1, <1>2, <1>3 DEF IInv, SentOnce
  <1>8. LookupsHold'
    BY <1>1 DEF IInv, LookupsHold, At
  <1>9. StorageAgreed'
    BY <1>1, <1>2 DEF IInv, StorageAgreed
  <1>. QED BY <1>4, <1>5, <1>6, <1>7, <1>8, <1>9 DEF IInv

\* No stream is mistaken for the absence of one.
LEMMA NoStreamIsNoSettings == NoStream \notin Settings
  BY SettingsAssumption DEF NoStream, Settings

\* Creation never replaces a stream that is there.
LEMMA CreateKeeps ==
  ASSUME IInv, NEW r \in Requests, Create(r)
  PROVE  IInv'
  <1>1. r \notin network \cup ToSet(stored)
    BY NotSentBefore DEF Create, At
  <1>2. UNCHANGED <<stored, network>>
    BY DEF Create
  <1>3. CASE /\ stream \in {NoStream, Wanted(r)}
             /\ stream' = Wanted(r)
             /\ Go(r, "publish")
    <2>1. /\ stream' \in Settings
          /\ stream'.storage = Desired[r].storage
          /\ stream \in Settings => stream' = stream
      BY <1>3, WantedIsSettings, NoStreamIsNoSettings
    <2>. QED BY <1>1, <1>2, <1>3, <2>1, StreamStep
  <1>4. CASE Go(r, "inspect") /\ UNCHANGED stream
    <2>1. "inspect" \in Phases /\ UNCHANGED server
      BY <1>2, <1>4 DEF Phases, server
    <2>. QED BY <1>1, <1>4, <2>1, GoSteps, LocalStep DEF IInv
  <1>5. CASE (\E error \in Errors : Fail(r, error)) /\ UNCHANGED stream
    <2>1. UNCHANGED server
      BY <1>2, <1>5 DEF server
    <2>. QED BY <1>1, <1>5, <2>1, FailKeeps
  <1>. QED BY <1>3, <1>4, <1>5 DEF Create

\* An update changes what is managed, of whichever stream is there.
LEMMA UpdateKeeps ==
  ASSUME IInv, NEW r \in Requests, Update(r)
  PROVE  IInv'
  <1>1. r \notin network \cup ToSet(stored)
    BY NotSentBefore DEF Update, At
  <1>2. UNCHANGED <<stored, network>>
    BY DEF Update
  <1>3. CASE stream' = Merged(r) /\ Go(r, "publish")
    <2>1. /\ stream \in Settings
          /\ request[r].current \in Settings
          /\ request[r].current.storage = stream.storage
          /\ request[r].current.unmanaged = stream.unmanaged
          /\ request[r].current.storage = Desired[r].storage
      BY DEF IInv, LookupsHold, Update, At
    <2>2. /\ Merged(r) \in Settings
          /\ Merged(r).storage = request[r].current.storage
          /\ Merged(r).unmanaged = request[r].current.unmanaged
      BY <2>1, MergedIsSettings DEF IInv
    <2>. QED BY <1>1, <1>2, <1>3, <2>1, <2>2, StreamStep
  <1>4. CASE (\E error \in Errors : Fail(r, error)) /\ UNCHANGED stream
    <2>1. UNCHANGED server
      BY <1>2, <1>4 DEF server
    <2>. QED BY <1>1, <1>4, <2>1, FailKeeps
  <1>. QED BY <1>3, <1>4 DEF Update

-----------------------------------------------------------------------------
(* The steps of a message.                                                  *)

\* A message is handed over once.
LEMMA SendKeeps ==
  ASSUME IInv, NEW r \in Requests, Send(r)
  PROVE  IInv'
  <1>1. r \notin network \cup ToSet(stored) /\ request[r].phase = "publish"
    BY NotSentBefore DEF Send, At
  <1>2. stream' = stream /\ stored' = stored /\ ToSet(stored)' = ToSet(stored)
    BY DEF Send, ToSet
  <1>3. CASE network' = network \cup {r} /\ Go(r, "acknowledge")
    <2>1. /\ request' \in [Requests -> Request]
          /\ \A q \in Requests \ {r} : request'[q] = request[q]
          /\ request'[r].phase = "acknowledge"
      BY <1>3, GoSteps DEF IInv, Phases
    <2>2. TypeOK'
      BY <1>2, <1>3, <2>1 DEF IInv, TypeOK
    <2>3. AtMostOneCopy'
      BY <1>1, <1>2, <1>3 DEF IInv, AtMostOneCopy
    <2>4. SuccessIsStored'
      BY <1>2, <2>1 DEF IInv, SuccessIsStored, At
    <2>5. SentOnce'
      <3>1. network \subseteq Requests /\ ToSet(stored) \subseteq Requests
        BY DEF IInv, TypeOK, ToSet
      <3>. QED BY <1>2, <1>3, <2>1, <3>1 DEF IInv, SentOnce
    <2>6. LookupsHold'
      BY <1>2, <2>1 DEF IInv, LookupsHold, At
    <2>7. StorageAgreed'
      BY <1>1, <1>2, <1>3, <2>1 DEF IInv, StorageAgreed
    <2>. QED BY <2>2, <2>3, <2>4, <2>5, <2>6, <2>7 DEF IInv
  <1>4. CASE Fail(r, "channel closed") /\ UNCHANGED network
    <2>1. UNCHANGED server /\ "channel closed" \in Errors
      BY <1>2, <1>4 DEF server, Errors
    <2>. QED BY <1>1, <1>4, <2>1, FailKeeps
  <1>. QED BY <1>3, <1>4 DEF Send

\* The server stores a message that is on its way and nowhere else.
LEMMA StoreKeeps ==
  ASSUME IInv, NEW r \in Requests, Store(r)
  PROVE  IInv'
  <1>1. r \in network /\ r \notin ToSet(stored)
    BY DEF IInv, AtMostOneCopy, Store
  <1>2. /\ stream' = stream /\ request' = request
        /\ network' = network \ {r} /\ stored' = Append(stored, r)
    BY DEF Store
  <1>3. /\ stored' \in Seq(Requests)
        /\ ToSet(stored)' = ToSet(stored) \cup {r}
        /\ \A i, j \in DOMAIN stored' : stored'[i] = stored'[j] => i = j
    <2>1. \A i, j \in DOMAIN stored : stored[i] = stored[j] => i = j
      BY DEF IInv, AtMostOneCopy
    <2>2. ToSet(stored)' = ToSet(Append(stored, r))
      BY <1>2 DEF ToSet
    <2>. QED BY <1>1, <1>2, <2>1, <2>2, StoredGrows DEF IInv
  <1>4. TypeOK'
    BY <1>2, <1>3 DEF IInv, TypeOK
  <1>5. AtMostOneCopy'
    BY <1>2, <1>3 DEF IInv, AtMostOneCopy
  <1>6. SuccessIsStored' /\ SentOnce'
    BY <1>1, <1>2, <1>3 DEF IInv, SuccessIsStored, SentOnce, At
  <1>7. LookupsHold'
    BY <1>2 DEF IInv, LookupsHold, At
  <1>8. StorageAgreed'
    BY <1>1, <1>2, <1>3 DEF IInv, StorageAgreed
  <1>. QED BY <1>4, <1>5, <1>6, <1>7, <1>8 DEF IInv

\* A message that is lost is on its way no more.
LEMMA LoseKeeps ==
  ASSUME IInv, NEW r \in Requests, Lose(r)
  PROVE  IInv'
  <1>1. /\ stream' = stream /\ request' = request /\ stored' = stored
        /\ network' = network \ {r} /\ ToSet(stored)' = ToSet(stored)
    BY DEF Lose, ToSet
  <1>2. TypeOK'
    BY <1>1 DEF IInv, TypeOK
  <1>3. AtMostOneCopy' /\ SuccessIsStored' /\ SentOnce'
    BY <1>1 DEF IInv, AtMostOneCopy, SuccessIsStored, SentOnce, At
  <1>4. LookupsHold' /\ StorageAgreed'
    BY <1>1 DEF IInv, LookupsHold, StorageAgreed, At
  <1>. QED BY <1>2, <1>3, <1>4 DEF IInv

\* Success is reported for a stored message; any error ends the request.
LEMMA AcknowledgeKeeps ==
  ASSUME IInv, NEW r \in Requests, Acknowledge(r)
  PROVE  IInv'
  <1>1. UNCHANGED server /\ request[r].phase = "acknowledge"
    BY DEF Acknowledge, At
  <1>2. CASE Acknowledged(r) /\ Go(r, "ok")
    <2>1. /\ request' \in [Requests -> Request]
          /\ \A q \in Requests \ {r} : request'[q] = request[q]
          /\ request'[r].phase = "ok"
      BY <1>2, GoSteps DEF IInv, Phases
    <2>2. stream \in Settings /\ stream.storage = Desired[r].storage
      BY <1>1 DEF IInv, StorageAgreed
    <2>. QED BY <1>1, <1>2, <2>1, <2>2, LocalStep DEF Acknowledged
  <1>3. CASE Fail(r, "other")
    <2>1. "other" \in Errors /\ "other" # "channel closed"
      BY DEF Errors
    <2>. QED BY <1>1, <1>3, <2>1, FailKeeps
  <1>. QED BY <1>2, <1>3 DEF Acknowledge

-----------------------------------------------------------------------------

\* Nothing changes.
LEMMA StutterKeeps ==
  ASSUME IInv, UNCHANGED vars
  PROVE  IInv'
  <1>1. ToSet(stored)' = ToSet(stored)
    BY DEF vars, ToSet
  <1>2. TypeOK'
    BY DEF vars, IInv, TypeOK
  <1>3. AtMostOneCopy' /\ SuccessIsStored' /\ SentOnce'
    BY <1>1 DEF vars, IInv, AtMostOneCopy, SuccessIsStored, SentOnce, At
  <1>4. LookupsHold' /\ StorageAgreed'
    BY <1>1 DEF vars, IInv, LookupsHold, StorageAgreed, At
  <1>. QED BY <1>2, <1>3, <1>4 DEF IInv

\* Every step preserves the invariant.
LEMMA NextKeeps == IInv /\ [Next]_vars => IInv'
  <1>. SUFFICES ASSUME IInv, [Next]_vars PROVE IInv'
    OBVIOUS
  <1>1. CASE UNCHANGED vars
    BY <1>1, StutterKeeps
  <1>2. ASSUME NEW r \in Requests, Begin(r) \/ Serve(r) \/ Store(r) \/ Lose(r)
        PROVE  IInv'
    BY <1>2, BeginKeeps, LookupKeeps, CreateKeeps, InspectKeeps, ReconcileKeeps,
       UpdateKeeps, SendKeeps, AcknowledgeKeeps, StoreKeeps, LoseKeeps DEF Serve
  <1>. QED BY <1>1, <1>2 DEF Next

\* What publications rely on holds in every state.
THEOREM InvariantHolds == Spec => []IInv
  BY InitEstablishes, NextKeeps, PTL DEF Spec

\* The state of the streams and of the requests is well formed.
THEOREM TypeCorrect == Spec => []TypeOK
  <1>1. IInv => TypeOK
    BY DEF IInv
  <1>. QED BY <1>1, InvariantHolds, PTL

\* publish_with_retry never stores a notification twice, however many attempts,
\* replicas and lost acknowledgements there are.
THEOREM StoredOnce == Spec => []AtMostOneCopy
  <1>1. IInv => AtMostOneCopy
    BY DEF IInv
  <1>. QED BY <1>1, InvariantHolds, PTL

\* A producer that is told of success has its notification stored.
THEOREM SuccessMeansStored == Spec => []SuccessIsStored
  <1>1. IInv => SuccessIsStored
    BY DEF IInv
  <1>. QED BY <1>1, InvariantHolds, PTL

\* No replica publishes to a stream of another storage than its own
\* configuration asks for (reconcile_existing_stream_config).
THEOREM StorageIsRespected == Spec => []StorageRespected
  <1>1. IInv => StorageRespected
    <2>1. SUFFICES ASSUME IInv, NEW r \in ToSet(stored) \cup network
                   PROVE  stream.storage = Desired[r].storage
      BY DEF StorageRespected
    <2>2. r \in Requests
      BY <2>1 DEF IInv, TypeOK, ToSet
    <2>. QED BY <2>1, <2>2 DEF IInv, StorageAgreed
  <1>. QED BY <1>1, InvariantHolds, PTL

\* merged_reconciled_config leaves the settings alone that the configuration
\* does not manage, although it works on a lookup that may be old.
THEOREM UnmanagedIsPreserved == Spec => UnmanagedPreserved
  <1>1. ASSUME IInv, Next
        PROVE  [stream # NoStream =>
                  stream'.unmanaged = stream.unmanaged /\ stream'.storage = stream.storage]_stream
    <2>1. PICK r \in Requests : Begin(r) \/ Serve(r) \/ Store(r) \/ Lose(r)
      BY <1>1 DEF Next
    <2>2. CASE Create(r)
      BY <2>2 DEF Create
    <2>3. CASE Update(r)
      <3>1. CASE stream' = Merged(r)
        <4>1. /\ request[r].current \in Settings
              /\ request[r].current.storage = stream.storage
              /\ request[r].current.unmanaged = stream.unmanaged
          BY <1>1, <2>3 DEF IInv, LookupsHold, Update, At
        <4>. QED BY <1>1, <3>1, <4>1, MergedIsSettings DEF IInv
      <3>2. CASE UNCHANGED stream
        BY <3>2
      <3>. QED BY <2>3, <3>1, <3>2 DEF Update
    <2>4. CASE ~Create(r) /\ ~Update(r)
      BY <2>1, <2>4 DEF Begin, Serve, Lookup, Inspect, Reconcile, Send, Acknowledge,
         Store, Lose, server
    <2>. QED BY <2>2, <2>3, <2>4
  <1>2. IInv /\ [Next]_vars =>
          [stream # NoStream =>
             stream'.unmanaged = stream.unmanaged /\ stream'.storage = stream.storage]_stream
    BY <1>1 DEF vars
  <1>. QED BY <1>2, InvariantHolds, PTL DEF Spec, UnmanagedPreserved
=============================================================================
