------------------------ MODULE IntentRegistryProofs ------------------------
(***************************************************************************)
(* Safety of the Intent Registry for every value of the constants.         *)
(***************************************************************************)
EXTENDS IntentRegistry, FiniteSetTheorems, SequenceTheorems, TLAPS

\* The publisher marks only what the stream holds, and sends only rows of the
\* log.
PublisherSound ==
  /\ marking # 0 => marking \in DOMAIN log /\ InStream(marking)
  /\ batch \subseteq DOMAIN log

\* The inductive invariant behind the safety properties.
IInv == TypeOK /\ CausalVersions /\ OutboxSound /\ PublisherSound

-----------------------------------------------------------------------------
(* Lemmas on the store.                                                    *)

\* The version lock reads the length of the intent's history.
LEMMA CurrentVersionIsLength ==
  ASSUME NEW i, NEW n \in Nat, Versions(i) = 1..n
  PROVE  CurrentVersion(i) = n
<1>1. CASE n = 0
  <2>1. Versions(i) = {}
    BY <1>1
  <2> QED
    BY <1>1, <2>1 DEF CurrentVersion
<1>2. CASE n # 0
  <2>1. n \in 1..n /\ \A w \in 1..n : w <= n
    BY <1>2
  <2>2. \A v \in 1..n : (\A w \in 1..n : w <= v) => v = n
    BY <1>2
  <2>3. (CHOOSE v \in 1..n : \A w \in 1..n : w <= v) = n
    BY <2>1, <2>2
  <2>4. Versions(i) # {}
    BY <2>1
  <2> QED
    BY <2>3, <2>4 DEF CurrentVersion
<1> QED
  BY <1>1, <1>2

LEMMA LogDomain ==
  ASSUME TypeOK
  PROVE  Len(log) \in Nat /\ DOMAIN log = 1..Len(log)
BY DEF TypeOK

\* What one transaction appends.
NewEvent(req) ==
  [intent |-> req.intent, type |-> req.type, version |-> req.expected]

LEMMA PersistAppends ==
  ASSUME TypeOK, OutboxSound, NEW req \in Request, CanPersist(req), Persist(req)
  PROVE  /\ log' \in Seq(Event) /\ outbox' \in Seq(BOOLEAN)
         /\ Len(log') = Len(log) + 1
         /\ DOMAIN log' = 1..Len(log) + 1 /\ DOMAIN outbox' = DOMAIN log'
         /\ \A n \in DOMAIN log : log'[n] = log[n]
         /\ \A n \in DOMAIN log : outbox'[n] <=> outbox[n]
         /\ log'[Len(log) + 1] = NewEvent(req)
         /\ outbox'[Len(log) + 1] = FALSE
<1>1. log \in Seq(Event) /\ outbox \in Seq(BOOLEAN) /\ Len(outbox) = Len(log)
  BY DEF TypeOK, OutboxSound
<1>2. NewEvent(req) \in Event
  BY DEF CanPersist, IsValidSchema, Request, Event, NewEvent
<1>3. log' = Append(log, NewEvent(req)) /\ outbox' = Append(outbox, FALSE)
  BY DEF Persist, NewEvent
<1> QED
  BY <1>1, <1>2, <1>3

LEMMA PersistExtendsVersions ==
  ASSUME TypeOK, OutboxSound, NEW req \in Request, CanPersist(req), Persist(req),
         NEW i \in Intents
  PROVE  Versions(i)' = IF i = req.intent THEN Versions(i) \cup {req.expected}
                        ELSE Versions(i)
<1> DEFINE last == Len(log) + 1
<1>1. /\ DOMAIN log' = DOMAIN log \cup {last}
      /\ \A n \in DOMAIN log : log'[n] = log[n]
      /\ log'[last].intent = req.intent /\ log'[last].version = req.expected
  <2>1. DOMAIN log' = 1..last /\ DOMAIN log = 1..Len(log) /\ Len(log) \in Nat
    BY PersistAppends, LogDomain
  <2>2. DOMAIN log' = DOMAIN log \cup {last}
    BY <2>1
  <2>3. \A n \in DOMAIN log : log'[n] = log[n]
    BY PersistAppends
  <2>4. log'[last] = NewEvent(req)
    BY PersistAppends
  <2> QED
    BY <2>2, <2>3, <2>4 DEF NewEvent
<1> HIDE DEF last
<1>2. CASE i = req.intent
  <2>1. { m \in DOMAIN log' : log'[m].intent = i }
          = { m \in DOMAIN log : log[m].intent = i } \cup {last}
    BY <1>1, <1>2
  <2> QED
    BY <1>1, <1>2, <2>1 DEF Versions
<1>3. CASE i # req.intent
  <2>1. { m \in DOMAIN log' : log'[m].intent = i }
          = { m \in DOMAIN log : log[m].intent = i }
    BY <1>1, <1>3
  <2> QED
    BY <1>1, <1>3, <2>1 DEF Versions
<1> QED
  BY <1>2, <1>3

\* The causal version lock: a persisted event extends its intent's history by
\* exactly one version.
LEMMA PersistKeepsVersions ==
  ASSUME TypeOK, CausalVersions, OutboxSound,
         NEW req \in Request, CanPersist(req), Persist(req)
  PROVE  CausalVersions'
<1>0. Len(log) \in Nat /\ Len(log') = Len(log) + 1 /\ DOMAIN log = 1..Len(log)
      /\ DOMAIN log' = 1..Len(log) + 1
  BY PersistAppends, LogDomain
<1>kept. \A m \in DOMAIN log : log'[m] = log[m]
  BY PersistAppends
<1>last. log'[Len(log) + 1] = NewEvent(req)
  BY PersistAppends
<1>1. PICK n \in 0..Len(log) : Versions(req.intent) = 1..n
  BY DEF CausalVersions, VersionsAreAnInterval, Request
<1>2. req.expected = n + 1
  BY <1>0, <1>1, CurrentVersionIsLength DEF CanPersist
<1>3. VersionsAreAnInterval'
  <2> SUFFICES ASSUME NEW i \in Intents
               PROVE  \E k \in 0..Len(log') : Versions(i)' = 1..k
    BY DEF VersionsAreAnInterval
  <2>1. CASE i = req.intent
    <3>1. Versions(i)' = 1..n \cup {n + 1}
      BY <1>1, <1>2, <2>1, PersistExtendsVersions
    <3>2. 1..n \cup {n + 1} = 1..(n + 1)
      BY <1>0, <1>1
    <3> QED
      BY <1>0, <1>1, <3>1, <3>2
  <2>2. CASE i # req.intent
    <3>1. Versions(i)' = Versions(i)
      BY <2>2, PersistExtendsVersions
    <3> QED
      BY <1>0, <3>1 DEF CausalVersions, VersionsAreAnInterval
  <2> QED
    BY <2>1, <2>2
<1>4. VersionsIncrease'
  <2> SUFFICES ASSUME NEW k \in DOMAIN log', NEW m \in DOMAIN log', k < m,
                      log'[k].intent = log'[m].intent
               PROVE  log'[k].version < log'[m].version
    BY DEF VersionsIncrease
  <2>1. k \in DOMAIN log /\ log'[k] = log[k]
    <3>1. k \in DOMAIN log
      BY <1>0
    <3> QED
      BY <3>1, <1>kept
  <2>2. CASE m \in DOMAIN log
    <3>1. log'[m] = log[m]
      BY <2>2, <1>kept
    <3> QED
      BY <2>1, <2>2, <3>1 DEF CausalVersions, VersionsIncrease
  <2>3. CASE m \notin DOMAIN log
    <3>1. m = Len(log) + 1
      BY <1>0, <2>3
    <3>2. log'[m].intent = req.intent /\ log'[m].version = n + 1
      BY <3>1, <1>2, <1>last DEF NewEvent
    <3>3. log[k].version \in Versions(req.intent)
      BY <2>1, <3>2 DEF Versions
    <3>4. log[k].version \in 1..n
      BY <1>1, <3>3
    <3> QED
      BY <1>1, <2>1, <3>2, <3>4
  <2> QED
    BY <2>2, <2>3
<1> QED
  BY <1>3, <1>4 DEF CausalVersions

LEMMA PersistKeepsOutbox ==
  ASSUME TypeOK, OutboxSound, PublisherSound,
         NEW req \in Request, CanPersist(req), Persist(req),
         UNCHANGED <<committed, marking, batch>>
  PROVE  OutboxSound' /\ PublisherSound'
<1>dom. Len(log) \in Nat /\ DOMAIN log = 1..Len(log)
  BY LogDomain
<1>grown. DOMAIN log' = 1..Len(log) + 1
  BY PersistAppends
<1>kept. \A n \in DOMAIN log : log'[n] = log[n]
  BY PersistAppends
<1>flags. \A n \in DOMAIN log : outbox'[n] <=> outbox[n]
  BY PersistAppends
<1>last. outbox'[Len(log) + 1] = FALSE
  BY PersistAppends
<1>1. DOMAIN log \subseteq DOMAIN log' /\ \A n \in DOMAIN log : log'[n] = log[n]
  BY <1>dom, <1>grown, <1>kept
<1>2. \A n \in DOMAIN log : InStream(n) => InStream(n)'
  BY <1>1 DEF InStream, StreamMessage
<1>3. DOMAIN outbox' = DOMAIN log'
  BY PersistAppends
<1>4. \A n \in DOMAIN outbox' : outbox'[n] => InStream(n)'
  <2> SUFFICES ASSUME NEW n \in DOMAIN outbox', outbox'[n]
               PROVE  InStream(n)'
    OBVIOUS
  <2>1. n \in 1..Len(log) + 1 /\ n # Len(log) + 1
    BY <1>3, <1>grown, <1>last
  <2>2. n \in DOMAIN log
    BY <1>dom, <2>1
  <2>3. n \in DOMAIN outbox /\ outbox[n]
    BY <1>flags, <2>2 DEF OutboxSound
  <2> QED
    BY <1>2, <2>3, <2>2 DEF OutboxSound
<1>5. (\A k \in DOMAIN committed :
         /\ committed[k].gv \in DOMAIN log
         /\ committed[k] = StreamMessage(committed[k].gv))'
  BY <1>1 DEF OutboxSound, StreamMessage
<1> QED
  BY <1>1, <1>2, <1>3, <1>4, <1>5 DEF OutboxSound, PublisherSound

-----------------------------------------------------------------------------
(* The inductive invariant.                                                *)

LEMMA RequestsAreTyped ==
  /\ Requests \subseteq Request
  /\ \A i \in Intents : CreatedRequest(i) \in Request
<1>1. MaxClientEvents \in Nat /\ Schemas \subseteq Nat
  BY RegistryAssumption
<1>2. 0..(MaxClientEvents + 1) \subseteq Nat
  BY <1>1
<1>3. Requests \subseteq Request
  BY <1>1, <1>2 DEF Requests, Request
<1>4. \A i \in Intents : CreatedRequest(i) \in Request
  <2>1. "CREATED" \in Catalogue
    BY DEF Catalogue
  <2>2. 1 \in Nat
    OBVIOUS
  <2> QED
    BY <2>1, <2>2, Zenon DEF Request, CreatedRequest
<1> QED
  BY <1>3, <1>4

LEMMA PersistKeepsIInv ==
  ASSUME IInv, NEW req \in Request, CanPersist(req), Persist(req),
         UNCHANGED <<committed, marking, batch, pending, regUp, regCrashes, consuming>>,
         pendCur' \in 0..Len(pending), rejected' \in SUBSET DOMAIN pending
  PROVE  IInv'
<1>1. TypeOK /\ CausalVersions /\ OutboxSound /\ PublisherSound
  BY DEF IInv
<1>2. log' \in Seq(Event)
  BY <1>1, PersistAppends
<1>3. outbox' \in Seq(BOOLEAN)
  BY <1>1, PersistAppends
<1>4. TypeOK'
  BY <1>1, <1>2, <1>3 DEF TypeOK
<1>5. CausalVersions'
  BY <1>1, PersistKeepsVersions
<1>6. OutboxSound' /\ PublisherSound'
  BY <1>1, PersistKeepsOutbox
<1> QED
  BY <1>4, <1>5, <1>6 DEF IInv

\* What does not write the store keeps the versions.
LEMMA QuietStoreKeepsVersions ==
  ASSUME CausalVersions, UNCHANGED log
  PROVE  CausalVersions'
BY DEF CausalVersions, VersionsAreAnInterval, VersionsIncrease, Versions

LEMMA QuietKeepsIInv ==
  ASSUME IInv, UNCHANGED <<log, outbox, committed>>, TypeOK', PublisherSound'
  PROVE  IInv'
<1>1. CausalVersions'
  BY QuietStoreKeepsVersions DEF IInv
<1>2. OutboxSound'
  BY DEF IInv, OutboxSound, InStream, StreamMessage
<1> QED
  BY <1>1, <1>2 DEF IInv

LEMMA QuietPublisher ==
  ASSUME PublisherSound, UNCHANGED <<log, committed>>,
         marking' \in {0, marking}, batch' \subseteq batch
  PROVE  PublisherSound'
BY DEF PublisherSound, InStream, StreamMessage

LEMMA InitIInv ==
  ASSUME Init
  PROVE  IInv
<1>1. TypeOK
  <2>1. /\ log = <<>> /\ outbox = <<>> /\ committed = <<>> /\ pending = <<>>
        /\ Len(pending) = 0 /\ pendCur = 0 /\ marking = 0 /\ regCrashes = 0
        /\ batch = {} /\ rejected = {} /\ regUp = FALSE /\ consuming = FALSE
    BY DEF Init
  <2>2. log \in Seq(Event) /\ outbox \in Seq(BOOLEAN)
    BY <2>1
  <2>3. committed \in Seq(Message) /\ pending \in Seq(Request)
    BY <2>1
  <2>4. regUp \in BOOLEAN /\ consuming \in BOOLEAN
    BY <2>1
  <2>5. /\ pendCur \in 0..Len(pending) /\ marking \in Nat /\ regCrashes \in Nat
        /\ batch \in SUBSET Nat /\ rejected \in SUBSET DOMAIN pending
    BY <2>1
  <2> QED
    BY <2>2, <2>3, <2>4, <2>5 DEF TypeOK
<1>2. CausalVersions
  <2>1. \A i \in Intents : Versions(i) = 1..0
    BY DEF Init, Versions
  <2>2. Len(log) = 0 /\ DOMAIN log = {}
    BY DEF Init
  <2> QED
    BY <2>1, <2>2 DEF CausalVersions, VersionsAreAnInterval, VersionsIncrease
<1>3. OutboxSound /\ PublisherSound
  BY DEF Init, OutboxSound, PublisherSound
<1> QED
  BY <1>1, <1>2, <1>3 DEF IInv

LEMMA ProcessKeepsIInv ==
  ASSUME IInv, NEW k \in DOMAIN pending, Process(k),
         UNCHANGED <<pubVars, procVars, pending, consuming>>,
         pendCur' \in 0..Len(pending)
  PROVE  IInv'
<1>1. pending[k] \in Request /\ rejected \in SUBSET DOMAIN pending
  BY DEF IInv, TypeOK
<1>2. CASE CanPersist(pending[k]) /\ Persist(pending[k]) /\ UNCHANGED rejected
  BY <1>1, <1>2, PersistKeepsIInv DEF pubVars, procVars
<1>3. CASE rejected' = rejected \cup {k} /\ UNCHANGED storeVars
  <2>1. TypeOK'
    BY <1>1, <1>3 DEF IInv, TypeOK, storeVars, pubVars, procVars
  <2>2. PublisherSound'
    BY <1>3, QuietPublisher DEF IInv, storeVars, pubVars
  <2> QED
    BY <1>3, <2>1, <2>2, QuietKeepsIInv DEF storeVars, pubVars
<1> QED
  BY <1>2, <1>3 DEF Process

LEMMA PollKeepsIInv ==
  ASSUME IInv, PollOutbox
  PROVE  IInv'
<1>1. DOMAIN outbox = DOMAIN log /\ DOMAIN log \subseteq Nat
  BY LogDomain DEF IInv, OutboxSound
<1>2. batch' \subseteq DOMAIN log
  BY <1>1 DEF PollOutbox, Unpublished
<1>3. TypeOK'
  BY <1>1, <1>2 DEF IInv, TypeOK, PollOutbox, storeVars, consVars, procVars
<1>4. PublisherSound'
  BY <1>2 DEF IInv, PublisherSound, PollOutbox, storeVars
<1> QED
  BY <1>3, <1>4, QuietKeepsIInv DEF PollOutbox, storeVars

\* A publish, acknowledged or not, adds to the stream what the log holds.
LEMMA StreamGrows ==
  ASSUME IInv, NEW n \in batch, UNCHANGED storeVars,
         committed' = Append(committed, StreamMessage(n))
  PROVE  /\ committed' \in Seq(Message)
         /\ CausalVersions' /\ OutboxSound' /\ InStream(n)'
         /\ \A m \in DOMAIN log : InStream(m) => InStream(m)'
<1>1. n \in DOMAIN log /\ DOMAIN log = 1..Len(log) /\ Len(log) \in Nat
  BY LogDomain DEF IInv, PublisherSound
<1>2. log \in Seq(Event) /\ committed \in Seq(Message)
  BY DEF IInv, TypeOK
<1>3. StreamMessage(n) \in Message
  BY <1>1, <1>2 DEF Message, StreamMessage
<1>4. /\ committed' \in Seq(Message)
      /\ DOMAIN committed' = 1..Len(committed) + 1 /\ Len(committed) \in Nat
      /\ DOMAIN committed = 1..Len(committed)
      /\ \A k \in DOMAIN committed : committed'[k] = committed[k]
      /\ committed'[Len(committed) + 1] = StreamMessage(n)
  BY <1>2, <1>3
<1>5. log' = log /\ outbox' = outbox
  BY DEF storeVars
<1>6. \A m : StreamMessage(m)' = StreamMessage(m)
  BY <1>5 DEF StreamMessage
<1>7. InStream(n)'
  BY <1>4, <1>6 DEF InStream
<1>8. ASSUME NEW m \in DOMAIN log, InStream(m)
      PROVE  InStream(m)'
  <2>1. PICK k \in DOMAIN committed : committed[k] = StreamMessage(m)
    BY <1>8 DEF InStream
  <2>2. k \in DOMAIN committed' /\ committed'[k] = StreamMessage(m)'
    BY <1>4, <1>6, <2>1
  <2> QED
    BY <2>2 DEF InStream
<1>9. \A k \in DOMAIN committed' :
        /\ committed'[k].gv \in DOMAIN log'
        /\ committed'[k] = [gv |-> committed'[k].gv, event |-> log[committed'[k].gv]]
  <2> SUFFICES ASSUME NEW k \in DOMAIN committed'
               PROVE  /\ committed'[k].gv \in DOMAIN log'
                      /\ committed'[k] = [gv |-> committed'[k].gv, event |-> log[committed'[k].gv]]
    OBVIOUS
  <2>1. CASE k \in DOMAIN committed
    <3>1. committed'[k] = committed[k]
      BY <1>4, <2>1
    <3>2. committed[k].gv \in DOMAIN log /\ committed[k] = StreamMessage(committed[k].gv)
      BY <2>1 DEF IInv, OutboxSound
    <3> QED
      BY <1>5, <3>1, <3>2 DEF StreamMessage
  <2>2. CASE k \notin DOMAIN committed
    <3>1. k = Len(committed) + 1
      BY <1>4, <2>2
    <3>2. committed'[k] = StreamMessage(n) /\ StreamMessage(n).gv = n
      BY <1>4, <3>1 DEF StreamMessage
    <3> QED
      BY <1>1, <1>5, <3>2 DEF StreamMessage
  <2> QED
    BY <2>1, <2>2
<1>10. OutboxSound'
  <2>1. \A m \in DOMAIN outbox' : outbox'[m] => InStream(m)'
    BY <1>5, <1>8 DEF IInv, OutboxSound
  <2> QED
    BY <1>5, <1>9, <2>1 DEF IInv, OutboxSound, StreamMessage
<1>11. CausalVersions'
  BY <1>5, QuietStoreKeepsVersions DEF IInv
<1> QED
  BY <1>4, <1>7, <1>8, <1>10, <1>11

LEMMA PublishAckedKeepsIInv ==
  ASSUME IInv, NEW n, PublishAcked(n)
  PROVE  IInv'
<1>1. n \in batch /\ n \in DOMAIN log /\ UNCHANGED storeVars
  BY DEF PublishAcked, NextToPublish, IInv, PublisherSound
<1>2. committed' = Append(committed, StreamMessage(n))
  BY DEF PublishAcked
<1>3. committed' \in Seq(Message) /\ InStream(n)'
  BY <1>1, <1>2, StreamGrows
<1>4. CausalVersions' /\ OutboxSound'
  BY <1>1, <1>2, StreamGrows
<1>5. n \in Nat
  BY <1>1, LogDomain DEF IInv
<1>6. TypeOK'
  BY <1>3, <1>5 DEF IInv, TypeOK, PublishAcked, storeVars, consVars, procVars
<1>7. PublisherSound'
  BY <1>1, <1>3 DEF IInv, PublisherSound, PublishAcked, storeVars
<1> QED
  BY <1>4, <1>6, <1>7 DEF IInv

LEMMA PublishUnackedKeepsIInv ==
  ASSUME IInv, NEW n, PublishUnacked(n)
  PROVE  IInv'
<1>1. n \in batch /\ marking' = 0 /\ batch' \subseteq batch /\ UNCHANGED storeVars
  BY DEF PublishUnacked, NextToPublish
<1>2. PublisherSound'
  BY <1>1 DEF IInv, PublisherSound, storeVars
<1>3. CASE UNCHANGED committed
  <2>1. TypeOK'
    BY <1>1, <1>3 DEF IInv, TypeOK, PublishUnacked, storeVars, consVars, procVars
  <2> QED
    BY <1>1, <1>2, <1>3, <2>1, QuietKeepsIInv DEF storeVars
<1>4. CASE committed' = Append(committed, StreamMessage(n))
  <2>1. committed' \in Seq(Message)
    BY <1>1, <1>4, StreamGrows
  <2>2. CausalVersions' /\ OutboxSound'
    BY <1>1, <1>4, StreamGrows
  <2>3. TypeOK'
    BY <1>1, <2>1 DEF IInv, TypeOK, PublishUnacked, storeVars, consVars, procVars
  <2> QED
    BY <1>2, <2>2, <2>3 DEF IInv
<1> QED
  BY <1>3, <1>4 DEF PublishUnacked

LEMMA MarkKeepsIInv ==
  ASSUME IInv, MarkPublished
  PROVE  IInv'
<1>1. marking \in DOMAIN outbox /\ InStream(marking) /\ outbox \in Seq(BOOLEAN)
  BY DEF IInv, TypeOK, OutboxSound, PublisherSound, MarkPublished
<1>2. log' = log /\ committed' = committed /\ outbox' = [outbox EXCEPT ![marking] = TRUE]
  BY DEF MarkPublished
<1>3. outbox' \in Seq(BOOLEAN) /\ DOMAIN outbox' = DOMAIN outbox
  BY <1>1, <1>2
<1>4. \A m : InStream(m)' <=> InStream(m)
  BY <1>2 DEF InStream, StreamMessage
<1>5. OutboxSound'
  <2>1. \A m \in DOMAIN outbox' : outbox'[m] => InStream(m)'
    BY <1>1, <1>2, <1>3, <1>4 DEF IInv, OutboxSound
  <2> QED
    BY <1>2, <1>3, <2>1 DEF IInv, OutboxSound, StreamMessage
<1>6. TypeOK'
  BY <1>3 DEF IInv, TypeOK, MarkPublished, consVars, procVars
<1>7. PublisherSound'
  BY <1>2 DEF IInv, PublisherSound, MarkPublished
<1> QED
  BY <1>2, <1>5, <1>6, <1>7, QuietStoreKeepsVersions DEF IInv

LEMMA NextIInv ==
  ASSUME IInv, [Next]_vars
  PROVE  IInv'
<1>t. pendCur \in 0..Len(pending) /\ Len(pending) \in Nat /\ rejected \in SUBSET DOMAIN pending
      /\ DOMAIN pending = 1..Len(pending)
  BY DEF IInv, TypeOK
<1>1. ASSUME NEW i \in Intents, RegisterIntent(i)
      PROVE  IInv'
  <2>1. CreatedRequest(i) \in Request
    BY RequestsAreTyped
  <2>2. pendCur' = pendCur /\ rejected' = rejected
    BY <1>1 DEF RegisterIntent, consVars
  <2>3. UNCHANGED <<committed, marking, batch, pending, regUp, regCrashes, consuming>>
    BY <1>1 DEF RegisterIntent, pubVars, consVars, procVars
  <2>4. CanPersist(CreatedRequest(i)) /\ Persist(CreatedRequest(i))
    BY <1>1 DEF RegisterIntent
  <2> QED
    BY <1>t, <2>1, <2>2, <2>3, <2>4, PersistKeepsIInv
<1>2. ASSUME NEW req \in Requests, AppendIntentEvent(req)
      PROVE  IInv'
  <2>1. req \in Request
    BY RequestsAreTyped
  <2>2. pendCur' = pendCur /\ rejected' = rejected
    BY <1>2 DEF AppendIntentEvent, consVars
  <2>3. UNCHANGED <<committed, marking, batch, pending, regUp, regCrashes, consuming>>
    BY <1>2 DEF AppendIntentEvent, pubVars, consVars, procVars
  <2>4. CanPersist(req) /\ Persist(req)
    BY <1>2 DEF AppendIntentEvent
  <2> QED
    BY <1>t, <2>1, <2>2, <2>3, <2>4, PersistKeepsIInv
<1>3. CASE ConsumePending
  <2>1. pendCur + 1 \in DOMAIN pending /\ pendCur' \in 0..Len(pending)
    BY <1>3, <1>t DEF ConsumePending
  <2> QED
    BY <1>3, <2>1, ProcessKeepsIInv DEF ConsumePending
<1>4. ASSUME NEW k \in DOMAIN pending, RedeliverPending(k)
      PROVE  IInv'
  BY <1>4, <1>t, ProcessKeepsIInv DEF RedeliverPending
<1>5. CASE PollOutbox
  BY <1>5, PollKeepsIInv
<1>6. ASSUME NEW n, PublishAcked(n) \/ PublishUnacked(n)
      PROVE  IInv'
  BY <1>6, PublishAckedKeepsIInv, PublishUnackedKeepsIInv
<1>7. CASE MarkPublished
  BY <1>7, MarkKeepsIInv
<1>8. CASE MarkFails
  <2>1. TypeOK'
    BY <1>8 DEF IInv, TypeOK, MarkFails, storeVars, consVars, procVars
  <2>2. PublisherSound'
    BY <1>8, QuietPublisher DEF IInv, MarkFails, storeVars
  <2> QED
    BY <1>8, <2>1, <2>2, QuietKeepsIInv DEF MarkFails, storeVars
<1>9. CASE CrashRegistry
  <2>1. /\ UNCHANGED <<log, outbox, committed, pending, rejected>>
        /\ regUp' = FALSE /\ consuming' = FALSE /\ regCrashes' = regCrashes + 1
        /\ batch' = {} /\ marking' = 0 /\ pendCur' = 0
    BY <1>9 DEF CrashRegistry, storeVars
  <2>3. pendCur' \in 0..Len(pending') /\ regCrashes' \in Nat
    BY <1>t, <2>1 DEF IInv, TypeOK
  <2>4. TypeOK'
    BY <2>1, <2>3 DEF IInv, TypeOK
  <2>2. PublisherSound'
    BY <2>1, QuietPublisher DEF IInv
  <2> QED
    BY <2>1, <2>2, <2>4, QuietKeepsIInv
<1>10. CASE StartRegistry
  <2>0. regUp' \in BOOLEAN /\ consuming' \in BOOLEAN
    BY <1>10, Zenon DEF StartRegistry
  <2>1. TypeOK'
    BY <1>10, <2>0 DEF IInv, TypeOK, StartRegistry, storeVars, pubVars
  <2>2. PublisherSound'
    BY <1>10, QuietPublisher DEF IInv, StartRegistry, storeVars, pubVars
  <2> QED
    BY <1>10, <2>1, <2>2, QuietKeepsIInv DEF StartRegistry, storeVars, pubVars
<1>11. ASSUME NEW req \in Requests, OthersPublishPending(req)
       PROVE  IInv'
  <2>1. req \in Request
    BY RequestsAreTyped
  <2>2. pending' = Append(pending, req) /\ pending \in Seq(Request)
    BY <1>11 DEF IInv, TypeOK, OthersPublishPending
  <2>3. pending' \in Seq(Request) /\ Len(pending') = Len(pending) + 1
        /\ DOMAIN pending \subseteq DOMAIN pending'
    BY <2>1, <2>2
  <2>4. pendCur' \in 0..Len(pending') /\ rejected' \in SUBSET DOMAIN pending'
    BY <1>11, <1>t, <2>3 DEF OthersPublishPending, consVars
  <2>5. TypeOK'
    BY <1>11, <2>3, <2>4
       DEF IInv, TypeOK, OthersPublishPending, storeVars, pubVars, consVars, procVars
  <2>6. PublisherSound'
    BY <1>11, QuietPublisher DEF IInv, OthersPublishPending, storeVars, pubVars
  <2> QED
    BY <1>11, <2>5, <2>6, QuietKeepsIInv DEF OthersPublishPending, storeVars, pubVars
<1>12. CASE UNCHANGED vars
  <2>1. TypeOK'
    BY <1>12 DEF IInv, TypeOK, vars, storeVars, pubVars, consVars, procVars
  <2>2. PublisherSound'
    BY <1>12, QuietPublisher DEF IInv, vars, storeVars, pubVars
  <2> QED
    BY <1>12, <2>1, <2>2, QuietKeepsIInv DEF vars, storeVars, pubVars
<1> QED
  BY <1>1, <1>2, <1>3, <1>4, <1>5, <1>6, <1>7, <1>8, <1>9, <1>10, <1>11, <1>12
     DEF Next, RegistrySteps, Clients, Consumer, Publisher

THEOREM InductiveInvariant == Spec => []IInv
<1>1. Init => IInv
  BY InitIInv
<1>2. IInv /\ [Next]_vars => IInv'
  BY NextIInv
<1> QED
  BY <1>1, <1>2, PTL DEF Spec

\* The variables keep their types.
THEOREM TypeCorrect == Spec => []TypeOK
<1>1. IInv => TypeOK
  BY DEF IInv
<1> QED
  BY <1>1, InductiveInvariant, PTL

\* The causal version lock (persist_event_tx): with any number of callers,
\* commands, replays and crashes, each intent's versions are 1..n in the order
\* of the log.
THEOREM VersionLock == Spec => []CausalVersions
<1>1. IInv => CausalVersions
  BY DEF IInv
<1> QED
  BY <1>1, InductiveInvariant, PTL

\* The transactional outbox: what is marked published is in the stream, and the
\* stream holds committed events only, whatever publish, mark or process fails.
THEOREM TransactionalOutbox == Spec => []OutboxSound
<1>1. IInv => OutboxSound
  BY DEF IInv
<1> QED
  BY <1>1, InductiveInvariant, PTL

-----------------------------------------------------------------------------
(* The order of the stream.                                                *)

\* What the publisher still holds is preceded by what it holds or has sent:
\* StreamInOrder is not inductive without it.
Seen(g) == \E j \in DOMAIN committed : committed[j].gv = g

BatchInOrder == \A n \in batch : \A g \in 1..(n - 1) : g \in batch \/ Seen(g)

OrderInv == StreamInOrder /\ BatchInOrder

LEMMA QuietKeepsOrder ==
  ASSUME OrderInv, UNCHANGED committed, batch' \in {batch, {}}
  PROVE  OrderInv'
BY DEF OrderInv, StreamInOrder, BatchInOrder, Seen

\* A poll takes a prefix of the unpublished rows: whatever precedes one of its
\* rows is in the batch or was published before.
LEMMA PollKeepsOrder ==
  ASSUME IInv, OrderInv, PollOutbox
  PROVE  OrderInv'
<1> DEFINE Before(n) == { m \in Unpublished : m < n }
<1>1. UNCHANGED committed /\ batch' = { n \in Unpublished : Cardinality(Before(n)) < BatchLimit }
  BY DEF PollOutbox
<1>2. DOMAIN outbox = 1..Len(log) /\ Len(log) \in Nat
  BY LogDomain DEF IInv, OutboxSound
<1>3. Unpublished \subseteq 1..Len(log) /\ IsFiniteSet(1..Len(log))
  BY <1>2, FS_Interval DEF Unpublished
<1>4. ASSUME NEW n \in batch', NEW g \in 1..(n - 1), ~Seen(g)
      PROVE  g \in batch'
  <2>1. n \in Unpublished /\ n \in 1..Len(log) /\ Cardinality(Before(n)) < BatchLimit
    BY <1>1, <1>3
  <2>2. g \in DOMAIN outbox /\ g \in Nat /\ g < n
    BY <1>2, <2>1
  <2>3. ~outbox[g]
    BY <1>4, <2>2 DEF IInv, OutboxSound, InStream, StreamMessage, Seen
  <2>4. g \in Unpublished
    BY <2>2, <2>3 DEF Unpublished
  <2>5. Before(g) \subseteq Before(n)
    <3> SUFFICES ASSUME NEW m \in Unpublished, m < g
                 PROVE  m < n
      OBVIOUS
    <3>1. m \in Nat /\ n \in Nat
      BY <1>3, <2>1
    <3> QED
      BY <2>2, <3>1
  <2>6. IsFiniteSet(Before(n))
    <3>1. Before(n) \subseteq 1..Len(log)
      BY <1>3
    <3> QED
      BY <1>3, <3>1, FS_Subset
  <2>7. Cardinality(Before(g)) <= Cardinality(Before(n))
    BY <2>5, <2>6, FS_Subset
  <2>8. Cardinality(Before(n)) \in Nat /\ Cardinality(Before(g)) \in Nat
    <3>1. IsFiniteSet(Before(g))
      BY <2>5, <2>6, FS_Subset
    <3> QED
      BY <2>6, <3>1, FS_CardinalityType
  <2>9. Cardinality(Before(g)) < BatchLimit
    BY <2>1, <2>7, <2>8, RegistryAssumption
  <2> QED
    BY <1>1, <2>4, <2>9
<1> HIDE DEF Before
<1>5. \A g : Seen(g)' <=> Seen(g)
  BY <1>1 DEF Seen
<1>6. BatchInOrder'
  BY <1>4, <1>5 DEF BatchInOrder
<1>7. StreamInOrder'
  BY <1>1 DEF OrderInv, StreamInOrder
<1> QED
  BY <1>6, <1>7 DEF OrderInv

\* The publisher sends the lowest row it holds.
LEMMA PublishKeepsOrder ==
  ASSUME IInv, OrderInv, NEW n, PublishAcked(n)
  PROVE  OrderInv'
<1>1. n \in batch /\ (\A m \in batch : n <= m) /\ batch' = batch \ {n}
  BY DEF PublishAcked, NextToPublish
<1>2. batch \subseteq Nat /\ committed \in Seq(Message)
  BY DEF IInv, TypeOK
<1>3. n \in DOMAIN log /\ log \in Seq(Event)
  BY <1>1 DEF IInv, TypeOK, PublisherSound
<1>4. StreamMessage(n) \in Message /\ StreamMessage(n).gv = n
  BY <1>3 DEF StreamMessage, Message
<1>5. committed' = Append(committed, StreamMessage(n))
  BY DEF PublishAcked
<1>6. /\ Len(committed) \in Nat /\ DOMAIN committed = 1..Len(committed)
      /\ DOMAIN committed' = 1..Len(committed) + 1
      /\ \A k \in DOMAIN committed : committed'[k] = committed[k]
      /\ committed'[Len(committed) + 1].gv = n
  BY <1>2, <1>4, <1>5
<1>7. ASSUME NEW g \in 1..(n - 1)
      PROVE  Seen(g)
  <2>1. g \notin batch
    BY <1>1, <1>2
  <2> QED
    BY <1>1, <2>1 DEF OrderInv, BatchInOrder
<1>8. StreamInOrder'
  <2> SUFFICES ASSUME NEW k \in DOMAIN committed', NEW g \in 1..(committed'[k].gv - 1)
               PROVE  \E j \in 1..(k - 1) : committed'[j].gv = g
    BY DEF StreamInOrder
  <2>1. CASE k \in DOMAIN committed
    <3>1. g \in 1..(committed[k].gv - 1)
      BY <1>6, <2>1
    <3>2. PICK j \in 1..(k - 1) : committed[j].gv = g
      BY <2>1, <3>1 DEF OrderInv, StreamInOrder
    <3>3. j \in DOMAIN committed
      BY <1>6, <2>1
    <3> QED
      BY <1>6, <3>2, <3>3
  <2>2. CASE k \notin DOMAIN committed
    <3>1. k = Len(committed) + 1
      BY <1>6, <2>2
    <3>2. g \in 1..(n - 1)
      BY <1>6, <3>1
    <3>3. PICK j \in DOMAIN committed : committed[j].gv = g
      BY <1>7, <3>2 DEF Seen
    <3>4. committed'[j].gv = g /\ j \in 1..(k - 1)
      BY <1>6, <3>1, <3>3
    <3> QED
      BY <3>4
  <2> QED
    BY <2>1, <2>2
<1>9. Seen(n)' /\ \A g : Seen(g) => Seen(g)'
  BY <1>6 DEF Seen
<1>10. BatchInOrder'
  BY <1>1, <1>9 DEF OrderInv, BatchInOrder
<1> QED
  BY <1>8, <1>10 DEF OrderInv

LEMMA InitOrder == Init => OrderInv
BY DEF Init, OrderInv, StreamInOrder, BatchInOrder

LEMMA NextOrder ==
  ASSUME "nats" \notin Faults, IInv, OrderInv, [Next]_vars
  PROVE  OrderInv'
<1>1. CASE PollOutbox
  BY <1>1, PollKeepsOrder
<1>2. ASSUME NEW n, PublishAcked(n)
      PROVE  OrderInv'
  BY <1>2, PublishKeepsOrder
<1>3. ~\E n : PublishUnacked(n)
  BY DEF PublishUnacked
<1>4. CASE Clients
  <2>1. UNCHANGED pubVars
    BY <1>4 DEF Clients, RegisterIntent, AppendIntentEvent
  <2> QED
    BY <2>1, QuietKeepsOrder DEF pubVars
<1>5. CASE Consumer
  <2>1. UNCHANGED pubVars
    BY <1>5 DEF Consumer, ConsumePending, RedeliverPending
  <2> QED
    BY <2>1, QuietKeepsOrder DEF pubVars
<1>6. CASE MarkPublished \/ MarkFails \/ CrashRegistry
  <2>1. UNCHANGED committed /\ batch' \in {batch, {}}
    BY <1>6 DEF MarkPublished, MarkFails, CrashRegistry
  <2> QED
    BY <2>1, QuietKeepsOrder
<1>7. CASE StartRegistry \/ UNCHANGED vars
           \/ \E req \in Requests : OthersPublishPending(req)
  <2>1. UNCHANGED pubVars
    BY <1>7 DEF StartRegistry, vars, OthersPublishPending
  <2> QED
    BY <2>1, QuietKeepsOrder DEF pubVars
<1> QED
  BY <1>1, <1>2, <1>3, <1>4, <1>5, <1>6, <1>7
     DEF Next, RegistrySteps, Publisher

\* While every publish is acknowledged the stream is in the order of the log: a
\* subscriber that skips versions it has seen, as the OMS does, skips no event.
THEOREM OrderedStream ==
  ASSUME "nats" \notin Faults
  PROVE  Spec => []StreamInOrder
<1>1. IInv /\ OrderInv /\ [Next]_vars => OrderInv'
  BY NextOrder
<1>2. OrderInv => StreamInOrder
  BY DEF OrderInv
<1> QED
  BY <1>1, <1>2, InitOrder, InductiveInvariant, PTL DEF Spec

-----------------------------------------------------------------------------
(* The registry implements EventLog.                                       *)

HistoryOf(i) == [v \in 1..CurrentVersion(i) |-> TypeAt(i, v)]

History == [i \in Intents |-> HistoryOf(i)]

Announced == { <<committed[k].event.intent, committed[k].event.version>> :
                 k \in DOMAIN committed }

\* Each version of an intent has one row, whose type the history shows.
Rows ==
  \A n \in DOMAIN log : \A i, v :
    log[n].intent = i /\ log[n].version = v => TypeAt(i, v) = log[n].type

\* The version of an intent counts its rows.
Counted ==
  \A i \in Intents : CurrentVersion(i) \in Nat /\ Versions(i) = 1..CurrentVersion(i)

LEMMA LogRow ==
  ASSUME TypeOK, NEW n \in DOMAIN log
  PROVE  /\ n \in Nat /\ log[n].intent \in Intents /\ log[n].type \in Catalogue
         /\ log[n].version \in Nat
<1>1. DOMAIN log = 1..Len(log) /\ Len(log) \in Nat
  BY LogDomain
<1>2. n \in Nat
  BY <1>1
<1>3. log[n] \in Event
  BY <1>1, ElementOfSeq DEF TypeOK
<1> QED
  BY <1>2, <1>3 DEF Event

LEMMA RowsAndVersions == IInv => Rows /\ Counted
<1> SUFFICES ASSUME TypeOK, CausalVersions
             PROVE  Rows /\ Counted
  BY DEF IInv
<1>1. ASSUME NEW n \in DOMAIN log
      PROVE  TypeAt(log[n].intent, log[n].version) = log[n].type
  <2> DEFINE Row(m) == log[m].intent = log[n].intent /\ log[m].version = log[n].version
  <2>1. ASSUME NEW m \in DOMAIN log, Row(m)
        PROVE  m = n
    <3>1. m \in Nat /\ n \in Nat /\ log[m].version \in Nat /\ log[n].version \in Nat
      BY LogRow
    <3>2. ~(m < n) /\ ~(n < m)
      BY <2>1, <3>1 DEF CausalVersions, VersionsIncrease
    <3> QED
      BY <3>1, <3>2
  <2>2. (CHOOSE m \in DOMAIN log : Row(m)) = n
    BY <2>1
  <2> QED
    BY <2>2 DEF TypeAt
<1>2. ASSUME NEW i \in Intents
      PROVE  CurrentVersion(i) \in Nat /\ Versions(i) = 1..CurrentVersion(i)
  <2>1. PICK k \in 0..Len(log) : Versions(i) = 1..k
    BY DEF CausalVersions, VersionsAreAnInterval
  <2>2. k \in Nat
    BY <2>1, LogDomain
  <2>3. CurrentVersion(i) = k
    BY <2>1, <2>2, CurrentVersionIsLength
  <2> QED
    BY <2>1, <2>2, <2>3
<1> QED
  BY <1>1, <1>2 DEF Rows, Counted

LEMMA HistoryIsASequence ==
  ASSUME IInv, NEW i \in Intents
  PROVE  /\ HistoryOf(i) \in Seq(Catalogue) /\ Len(HistoryOf(i)) = CurrentVersion(i)
         /\ \A v \in 1..CurrentVersion(i) :
              \E n \in DOMAIN log : log[n].intent = i /\ log[n].version = v
<1>1. CurrentVersion(i) \in Nat /\ Versions(i) = 1..CurrentVersion(i) /\ Rows
  BY RowsAndVersions DEF Counted
<1>2. ASSUME NEW v \in 1..CurrentVersion(i)
      PROVE  /\ TypeAt(i, v) \in Catalogue
             /\ \E n \in DOMAIN log : log[n].intent = i /\ log[n].version = v
  <2>1. v \in Versions(i)
    BY <1>1
  <2>2. PICK n \in DOMAIN log : log[n].intent = i /\ log[n].version = v
    BY <2>1 DEF Versions
  <2>3. log[n].type \in Catalogue
    BY LogRow DEF IInv
  <2> QED
    BY <1>1, <2>2, <2>3 DEF Rows
<1>3. HistoryOf(i) \in [1..CurrentVersion(i) -> Catalogue]
  BY <1>2 DEF HistoryOf
<1> HIDE DEF HistoryOf
<1>4. HistoryOf(i) \in Seq(Catalogue)
  BY <1>1, <1>3, SeqDef
<1>5. DOMAIN HistoryOf(i) = 1..CurrentVersion(i)
  BY <1>3
<1>6. Len(HistoryOf(i)) = CurrentVersion(i)
  BY <1>1, <1>4, <1>5, LenProperties
<1> QED
  BY <1>2, <1>4, <1>6

\* One transaction is one Commit of the event log.
LEMMA PersistCommits ==
  ASSUME IInv, IInv', NEW req \in Request, CanPersist(req), Persist(req)
  PROVE  History' = [History EXCEPT ![req.intent] = Append(@, req.type)]
<1>0. PICK c \in Nat : c = CurrentVersion(req.intent)
  BY RowsAndVersions DEF Request, Counted
<1>1. /\ TypeOK /\ CausalVersions /\ OutboxSound
      /\ req.intent \in Intents /\ req.type \in Catalogue /\ req.expected = c + 1
  BY <1>0 DEF IInv, Request, CanPersist, IsValidSchema
<1>2. Rows /\ Counted /\ Rows' /\ Counted'
  BY RowsAndVersions, PTL
<1>3. \A n \in DOMAIN log : n \in DOMAIN log' /\ log'[n] = log[n]
  <2>1. Len(log) \in Nat /\ DOMAIN log = 1..Len(log) /\ DOMAIN log' = 1..Len(log) + 1
    BY <1>1, LogDomain, PersistAppends
  <2>2. \A n \in DOMAIN log : log'[n] = log[n]
    BY <1>1, PersistAppends
  <2> QED
    BY <2>1, <2>2
<1>4. /\ Len(log) + 1 \in DOMAIN log'
      /\ log'[Len(log) + 1] = NewEvent(req)
  <2>1. Len(log) \in Nat /\ DOMAIN log' = 1..Len(log) + 1
    BY <1>1, LogDomain, PersistAppends
  <2>2. Len(log) + 1 \in DOMAIN log'
    BY <2>1
  <2>3. log'[Len(log) + 1] = NewEvent(req)
    BY <1>1, PersistAppends
  <2> QED
    BY <2>2, <2>3
<1>5. ASSUME NEW i \in Intents, NEW v \in 1..CurrentVersion(i)
      PROVE  TypeAt(i, v)' = TypeAt(i, v)
  <2>1. PICK n \in DOMAIN log : log[n].intent = i /\ log[n].version = v
    BY <1>1, HistoryIsASequence
  <2>2. TypeAt(i, v) = log[n].type
    BY <1>2, <2>1 DEF Rows
  <2>3. log'[n].intent = i /\ log'[n].version = v /\ log'[n].type = log[n].type
    BY <1>3, <2>1
  <2>4. TypeAt(i, v)' = log'[n].type
    BY <1>2, <1>3, <2>1, <2>3 DEF Rows
  <2> QED
    BY <2>2, <2>3, <2>4
<1>6. TypeAt(req.intent, c + 1)' = req.type
  <2> DEFINE last == Len(log) + 1
  <2>1. last \in DOMAIN log' /\ log'[last].intent = req.intent
        /\ log'[last].version = c + 1 /\ log'[last].type = req.type
    BY <1>1, <1>4 DEF NewEvent
  <2> HIDE DEF last
  <2> QED
    BY <1>2, <2>1 DEF Rows
<1>7. ASSUME NEW i \in Intents
      PROVE  CurrentVersion(i)' = IF i = req.intent THEN c + 1 ELSE CurrentVersion(i)
  <2>1. Versions(i)' = IF i = req.intent THEN Versions(i) \cup {c + 1} ELSE Versions(i)
    BY <1>1, PersistExtendsVersions
  <2>2. /\ CurrentVersion(i) \in Nat /\ Versions(i) = 1..CurrentVersion(i)
        /\ CurrentVersion(i)' \in Nat /\ Versions(i)' = 1..CurrentVersion(i)'
    BY <1>2 DEF Counted
  <2>3. \A m, n \in Nat : 1..m = 1..n => m = n
    <3> SUFFICES ASSUME NEW m \in Nat, NEW n \in Nat, 1..m = 1..n, m < n
                 PROVE  FALSE
      OBVIOUS
    <3>1. n \in 1..n /\ n \notin 1..m
      OBVIOUS
    <3> QED
      BY <3>1
  <2>4. CASE i = req.intent
    <3>1. Versions(i)' = 1..(c + 1) /\ c + 1 \in Nat
      BY <1>0, <2>1, <2>2, <2>4
    <3> QED
      BY <2>2, <2>3, <2>4, <3>1
  <2>5. CASE i # req.intent
    BY <2>1, <2>2, <2>3, <2>5
  <2> QED
    BY <2>4, <2>5
<1>8. ASSUME NEW i \in Intents
      PROVE  History'[i] = IF i = req.intent THEN Append(History[i], req.type) ELSE History[i]
  <2>1. History[i] = HistoryOf(i) /\ History'[i] = HistoryOf(i)'
    BY DEF History
  <2>2. CASE i = req.intent
    <3>1. /\ HistoryOf(i) \in Seq(Catalogue) /\ Len(HistoryOf(i)) = c /\ c \in Nat
          /\ HistoryOf(i) = [v \in 1..c |-> TypeAt(i, v)]
      BY <1>0, <1>1, <1>2, <2>2, HistoryIsASequence DEF HistoryOf, Counted
    <3>2. HistoryOf(i)' = [v \in 1..(c + 1) |-> TypeAt(i, v)']
      BY <1>7, <2>2 DEF HistoryOf
    <3>3. /\ \A v \in 1..c : TypeAt(i, v)' = TypeAt(i, v)
          /\ TypeAt(i, c + 1)' = req.type
      BY <1>0, <1>5, <1>6, <2>2
    <3> DEFINE h == HistoryOf(i)
               a == Append(h, req.type)
    <3>4. a \in Seq(Catalogue) /\ Len(a) = c + 1 /\ a[c + 1] = req.type
          /\ \A v \in 1..c : a[v] = h[v]
      BY <1>1, <3>1, AppendProperties
    <3> HIDE DEF a, h
    <3>5. DOMAIN a = 1..(c + 1) /\ a = [v \in 1..(c + 1) |-> a[v]]
      BY <3>4, LenProperties
    <3>6. \A v \in 1..(c + 1) : v \in 1..c \/ v = c + 1
      BY <3>1
    <3>7. \A v \in 1..c : h[v] = TypeAt(i, v)
      BY <3>1 DEF h
    <3>8. \A v \in 1..(c + 1) : a[v] = TypeAt(i, v)'
      BY <3>3, <3>4, <3>6, <3>7
    <3> QED
      BY <2>1, <2>2, <3>2, <3>5, <3>8 DEF a, h
  <2>3. CASE i # req.intent
    <3>1. HistoryOf(i)' = [v \in 1..CurrentVersion(i) |-> TypeAt(i, v)']
      BY <1>7, <2>3 DEF HistoryOf
    <3> QED
      BY <1>5, <2>1, <2>3, <3>1 DEF HistoryOf
  <2> QED
    BY <2>2, <2>3
<1> QED
  BY <1>8 DEF History

LEMMA QuietHistory ==
  ASSUME UNCHANGED log
  PROVE  UNCHANGED History
<1>1. \A i : CurrentVersion(i)' = CurrentVersion(i)
  BY DEF CurrentVersion, Versions
<1>2. \A i, v : TypeAt(i, v)' = TypeAt(i, v)
  BY DEF TypeAt
<1> QED
  BY <1>1, <1>2 DEF History, HistoryOf

LEMMA QuietStream ==
  ASSUME UNCHANGED committed
  PROVE  UNCHANGED Announced
BY DEF Announced

\* A publish is one Announce of the event log: the row is one of its history.
LEMMA PublishAnnounces ==
  ASSUME IInv, NEW n \in batch, UNCHANGED log,
         committed' = Append(committed, StreamMessage(n))
  PROVE  \E i \in Intents : \E v \in DOMAIN History[i] :
           Announced' = Announced \cup {<<i, v>>}
<1> DEFINE i == log[n].intent
           v == log[n].version
<1>1. n \in DOMAIN log /\ i \in Intents
  BY LogRow DEF IInv, PublisherSound
<1>2. v \in Versions(i)
  BY <1>1 DEF Versions
<1>3. v \in 1..CurrentVersion(i)
  BY <1>1, <1>2, RowsAndVersions DEF Counted
<1>4. DOMAIN History[i] = 1..CurrentVersion(i)
  BY <1>1 DEF History, HistoryOf
<1>5. StreamMessage(n) \in Message /\ StreamMessage(n).event = log[n]
  <2>1. log[n] \in Event /\ n \in Nat
    BY <1>1, LogRow, LogDomain, ElementOfSeq DEF IInv, TypeOK
  <2> QED
    BY <2>1 DEF StreamMessage, Message
<1>6. /\ Len(committed) \in Nat /\ DOMAIN committed = 1..Len(committed)
      /\ DOMAIN committed' = 1..(Len(committed) + 1)
      /\ \A k \in 1..Len(committed) : committed'[k] = committed[k]
      /\ committed'[Len(committed) + 1].event = log[n]
  <2>1. committed \in Seq(Message)
    BY DEF IInv, TypeOK
  <2> QED
    BY <1>5, <2>1
<1>7. Announced' = Announced \cup {<<i, v>>}
  <2> DEFINE c == Len(committed)
             Pair(k) == <<committed'[k].event.intent, committed'[k].event.version>>
  <2>1. 1..(c + 1) = 1..c \cup {c + 1}
    BY <1>6
  <2>2. Announced' = { Pair(k) : k \in 1..(c + 1) }
    BY <1>6 DEF Announced
  <2>3. Announced = { Pair(k) : k \in 1..c }
    BY <1>6 DEF Announced
  <2>4. Pair(c + 1) = <<i, v>>
    BY <1>6
  <2> HIDE DEF Pair, c, i, v
  <2> QED
    BY <2>1, <2>2, <2>3, <2>4
<1> QED
  BY <1>1, <1>3, <1>4, <1>7

\* Every step of the registry is a step of the event log or leaves it as it is.
LEMMA StepImplements ==
  ASSUME IInv, IInv', [Next]_vars
  PROVE  [Abstract!Next]_<<History, Announced>>
<1> USE DEF Abstract!Next, Abstract!Commit, Abstract!Announce
<1>p. ASSUME NEW req \in Request, CanPersist(req), Persist(req), UNCHANGED committed
      PROVE  Abstract!Next
  <2>1. req.intent \in Intents /\ req.type \in Catalogue
    BY <1>p DEF Request, CanPersist, IsValidSchema
  <2>2. History' = [History EXCEPT ![req.intent] = Append(@, req.type)]
    BY <1>p, PersistCommits
  <2>3. Abstract!Commit(req.intent)
    BY <1>p, <2>1, <2>2, QuietStream DEF History, HistoryOf, Announced
  <2> QED
    BY <2>1, <2>3
<1>q. ASSUME UNCHANGED <<log, committed>>
      PROVE  UNCHANGED <<History, Announced>>
  BY <1>q, QuietHistory, QuietStream
<1>a. ASSUME NEW n \in batch, UNCHANGED log, committed' = Append(committed, StreamMessage(n))
      PROVE  Abstract!Next
  <2>1. PICK i \in Intents : \E v \in DOMAIN History[i] :
                               Announced' = Announced \cup {<<i, v>>}
    BY <1>a, PublishAnnounces
  <2>2. UNCHANGED History
    BY <1>a, QuietHistory
  <2>3. Abstract!Announce(i)
    BY <2>1, <2>2 DEF History, HistoryOf, Announced
  <2> QED
    BY <2>3
<1>1. ASSUME NEW i \in Intents, RegisterIntent(i)
      PROVE  Abstract!Next
  BY <1>1, <1>p, RequestsAreTyped DEF RegisterIntent, pubVars
<1>2. ASSUME NEW req \in Requests, AppendIntentEvent(req)
      PROVE  Abstract!Next
  BY <1>2, <1>p, RequestsAreTyped DEF AppendIntentEvent, pubVars
<1>3. ASSUME NEW k \in DOMAIN pending, Process(k), UNCHANGED committed
      PROVE  [Abstract!Next]_<<History, Announced>>
  <2>1. pending[k] \in Request
    BY ElementOfSeq, LenProperties DEF IInv, TypeOK
  <2> QED
    BY <1>3, <2>1, <1>p, <1>q DEF Process, storeVars
<1>4. CASE ConsumePending
  <2>1. pendCur + 1 \in DOMAIN pending
    BY <1>4, LenProperties DEF ConsumePending, IInv, TypeOK
  <2> QED
    BY <1>3, <1>4, <2>1 DEF ConsumePending, pubVars
<1>5. ASSUME NEW k \in DOMAIN pending, RedeliverPending(k)
      PROVE  [Abstract!Next]_<<History, Announced>>
  BY <1>3, <1>5 DEF RedeliverPending, pubVars
<1>6. ASSUME NEW n \in DOMAIN log, PublishAcked(n)
      PROVE  Abstract!Next
  BY <1>6, <1>a DEF PublishAcked, NextToPublish, storeVars
<1>7. ASSUME NEW n \in DOMAIN log, PublishUnacked(n)
      PROVE  [Abstract!Next]_<<History, Announced>>
  BY <1>7, <1>a, <1>q DEF PublishUnacked, NextToPublish, storeVars
<1>8. CASE PollOutbox \/ MarkPublished \/ MarkFails \/ CrashRegistry \/ StartRegistry
           \/ UNCHANGED vars \/ \E req \in Requests : OthersPublishPending(req)
  <2>1. UNCHANGED <<log, committed>>
    BY <1>8 DEF PollOutbox, MarkPublished, MarkFails, CrashRegistry, StartRegistry,
                OthersPublishPending, vars, storeVars, pubVars
  <2> QED
    BY <1>q, <2>1
<1> QED
  BY <1>1, <1>2, <1>4, <1>5, <1>6, <1>7, <1>8
     DEF Next, RegistrySteps, Clients, Consumer, Publisher

\* The registry implements the append-only event log its clients and subscribers
\* are promised: one commit a transaction, one announcement a publish, and
\* nothing else, whatever fails, is replayed or crashes in between.
THEOREM Refinement == Spec => ImplementsEventLog
<1>1. Init => Abstract!Init
  <2> SUFFICES ASSUME Init
               PROVE  /\ History = [i \in Intents |-> <<>>]
                      /\ Announced = {}
    BY DEF Abstract!Init, History, HistoryOf, Announced
  <2>1. IInv
    BY InitIInv
  <2>2. ASSUME NEW i \in Intents
        PROVE  HistoryOf(i) = <<>>
    <3>1. Versions(i) = {} /\ CurrentVersion(i) = 0
      BY DEF Init, Versions, CurrentVersion
    <3>2. HistoryOf(i) \in Seq(Catalogue) /\ Len(HistoryOf(i)) = 0
      BY <2>1, <3>1, HistoryIsASequence
    <3> QED
      BY <3>2, EmptySeq
  <2> QED
    BY <2>2 DEF History, Announced, Init
<1>2. IInv /\ IInv' /\ [Next]_vars => [Abstract!Next]_<<History, Announced>>
  BY StepImplements
<1> QED
  BY <1>1, <1>2, InductiveInvariant, PTL
     DEF Spec, ImplementsEventLog, Abstract!Spec, History, HistoryOf, Announced

=============================================================================
