------------------------- MODULE ExecutionSpineProofs -------------------------
(***************************************************************************)
(* The two processes together, for every value of the constants: what the  *)
(* OMS projects is a replay of the registry's log, and what its commands   *)
(* put into that log.  The registry's own invariant is proved in           *)
(* IntentRegistryProofs and instantiated here.                             *)
(***************************************************************************)
EXTENDS ExecutionSpine, FiniteSetTheorems, SequenceTheorems, TLAPS

RegP == INSTANCE IntentRegistryProofs

LEMMA RegistryConstants == RegP!RegistryAssumption
BY SpineAssumption DEF RegP!RegistryAssumption, MaxPending

-----------------------------------------------------------------------------
(* The registry's steps, and what they do to the log and the stream.       *)

LEMMA SameCardinality == \A S : Reg!Cardinality(S) = RegP!Cardinality(S)
BY DEF Reg!Cardinality, RegP!Cardinality

LEMMA SamePoll == Reg!PollOutbox => RegP!PollOutbox
BY SameCardinality
   DEF Reg!PollOutbox, RegP!PollOutbox, Reg!Unpublished, RegP!Unpublished, Reg!storeVars,
       RegP!storeVars, Reg!consVars, RegP!consVars, Reg!procVars, RegP!procVars

\* The steps composed here are those the registry's proofs are about.
LEMMA SameSteps == Reg!RegistrySteps => RegP!RegistrySteps
BY SamePoll
   DEF Reg!RegistrySteps, RegP!RegistrySteps, Reg!Clients, RegP!Clients, Reg!Consumer,
       RegP!Consumer, Reg!Publisher, RegP!Publisher, Reg!CrashRegistry, RegP!CrashRegistry,
       Reg!StartRegistry, RegP!StartRegistry, Reg!RegisterIntent, RegP!RegisterIntent,
       Reg!AppendIntentEvent, RegP!AppendIntentEvent, Reg!ConsumePending, RegP!ConsumePending,
       Reg!RedeliverPending, RegP!RedeliverPending, Reg!PublishAcked, RegP!PublishAcked,
       Reg!PublishUnacked, RegP!PublishUnacked, Reg!MarkPublished, RegP!MarkPublished,
       Reg!MarkFails, RegP!MarkFails, Reg!Process, RegP!Process, Reg!CanPersist,
       RegP!CanPersist, Reg!Persist, RegP!Persist, Reg!IsValidSchema, RegP!IsValidSchema,
       Reg!Catalogue, RegP!Catalogue, Reg!CurrentVersion, RegP!CurrentVersion,
       Reg!Versions, RegP!Versions, Reg!NextToPublish, RegP!NextToPublish,
       Reg!StreamMessage, RegP!StreamMessage, Reg!CreatedRequest, RegP!CreatedRequest,
       Reg!Requests, RegP!Requests, Reg!storeVars, RegP!storeVars, Reg!pubVars,
       RegP!pubVars, Reg!consVars, RegP!consVars, Reg!procVars, RegP!procVars

LEMMA SameInit == Reg!Init => RegP!Init
BY DEF Reg!Init, RegP!Init

\* The types of log and stream that the registry keeps.
LEMMA StoreTypes ==
  ASSUME RegP!IInv
  PROVE  /\ log \in Seq(RegP!Event) /\ Len(log) \in Nat /\ DOMAIN log = 1..Len(log)
         /\ committed \in Seq(RegP!Message) /\ Len(committed) \in Nat
         /\ DOMAIN committed = 1..Len(committed)
         /\ pending \in Seq(RegP!Request) /\ Len(pending) \in Nat
         /\ DOMAIN pending = 1..Len(pending)
         /\ \A n \in DOMAIN log : log[n] \in RegP!Event
         /\ \A k \in DOMAIN committed :
              /\ committed[k].gv \in 1..Len(log) /\ committed[k].event = log[committed[k].gv]
              /\ committed[k].event \in RegP!Event
<1>1. log \in Seq(RegP!Event) /\ committed \in Seq(RegP!Message) /\ pending \in Seq(RegP!Request)
  BY DEF RegP!IInv, RegP!TypeOK
<1>2. /\ Len(log) \in Nat /\ DOMAIN log = 1..Len(log)
      /\ Len(committed) \in Nat /\ DOMAIN committed = 1..Len(committed)
      /\ Len(pending) \in Nat /\ DOMAIN pending = 1..Len(pending)
      /\ \A n \in DOMAIN log : log[n] \in RegP!Event
  BY <1>1
<1>3. ASSUME NEW k \in DOMAIN committed
      PROVE  /\ committed[k].gv \in 1..Len(log) /\ committed[k].event = log[committed[k].gv]
             /\ committed[k].event \in RegP!Event
  BY <1>2, <1>3 DEF RegP!IInv, RegP!OutboxSound, RegP!StreamMessage
<1> QED
  BY <1>1, <1>2, <1>3

\* An event is appended on behalf of a caller or of a command.
LEMMA LogStep ==
  ASSUME RegP!IInv, RegP!RegistrySteps
  PROVE  /\ pending' = pending
         /\ \/ UNCHANGED log
            \/ \E req \in RegP!Request :
                 /\ log' = Append(log, RegP!NewEvent(req)) /\ RegP!NewEvent(req) \in RegP!Event
                 /\ \/ req.type \in RequestTypes \cup {"CREATED"}
                    \/ \E k \in DOMAIN pending : req = pending[k]
<1> DEFINE Appended(req) ==
      /\ req \in RegP!Request
      /\ log' = Append(log, RegP!NewEvent(req)) /\ RegP!NewEvent(req) \in RegP!Event
<1>1. ASSUME NEW req \in RegP!Request, RegP!CanPersist(req), RegP!Persist(req)
      PROVE  Appended(req)
  BY <1>1 DEF RegP!CanPersist, RegP!Persist, RegP!NewEvent, RegP!IsValidSchema, RegP!Request,
             RegP!Event
<1>2. \A k \in DOMAIN pending : pending[k] \in RegP!Request
  BY StoreTypes
<1> HIDE DEF Appended
<1>3. ASSUME NEW i \in Intents, RegP!RegisterIntent(i)
      PROVE  pending' = pending /\ Appended(RegP!CreatedRequest(i))
             /\ RegP!CreatedRequest(i).type = "CREATED"
  <2>1. RegP!CreatedRequest(i) \in RegP!Request /\ RegP!CreatedRequest(i).type = "CREATED"
    BY DEF RegP!CreatedRequest, RegP!Request, RegP!Catalogue
  <2> QED
    BY <1>1, <1>3, <2>1 DEF RegP!RegisterIntent
<1>4. ASSUME NEW req \in RegP!Requests, RegP!AppendIntentEvent(req)
      PROVE  pending' = pending /\ Appended(req) /\ req.type \in RequestTypes
  <2>1. req \in RegP!Request /\ req.type \in RequestTypes
    BY RegP!RequestsAreTyped, RegistryConstants DEF RegP!Requests
  <2> QED
    BY <1>1, <1>4, <2>1 DEF RegP!AppendIntentEvent
<1>5. ASSUME NEW k \in DOMAIN pending, RegP!Process(k)
      PROVE  UNCHANGED log \/ Appended(pending[k])
  BY <1>1, <1>2, <1>5 DEF RegP!Process, RegP!storeVars
<1>6. CASE RegP!Clients
  BY <1>3, <1>4, <1>6 DEF RegP!Clients, Appended
<1>7. CASE RegP!Consumer
  <2>1. pending' = pending
    BY <1>7 DEF RegP!Consumer, RegP!ConsumePending, RegP!RedeliverPending
  <2>2. PICK k \in DOMAIN pending : RegP!Process(k)
    <3>1. CASE RegP!ConsumePending
      <4>1. pendCur + 1 \in DOMAIN pending
        BY <3>1, StoreTypes DEF RegP!ConsumePending, RegP!IInv, RegP!TypeOK
      <4> QED
        BY <3>1, <4>1 DEF RegP!ConsumePending
    <3> QED
      BY <1>7, <3>1 DEF RegP!Consumer, RegP!RedeliverPending
  <2> QED
    BY <1>5, <2>1, <2>2 DEF Appended
<1>8. CASE RegP!Publisher \/ RegP!CrashRegistry \/ RegP!StartRegistry
  BY <1>8 DEF RegP!Publisher, RegP!PollOutbox, RegP!PublishAcked, RegP!PublishUnacked,
             RegP!MarkPublished, RegP!MarkFails, RegP!CrashRegistry, RegP!StartRegistry,
             RegP!storeVars
<1> QED
  BY <1>6, <1>7, <1>8 DEF RegP!RegistrySteps

\* What the stream gains is a row of the log.
LEMMA StreamStep ==
  ASSUME RegP!IInv, RegP!RegistrySteps
  PROVE  \/ UNCHANGED committed
         \/ \E n \in DOMAIN log : committed' = Append(committed, RegP!StreamMessage(n))
<1>1. CASE RegP!Clients \/ RegP!Consumer \/ RegP!CrashRegistry \/ RegP!StartRegistry
  BY <1>1 DEF RegP!Clients, RegP!Consumer, RegP!RegisterIntent, RegP!AppendIntentEvent,
             RegP!ConsumePending, RegP!RedeliverPending, RegP!CrashRegistry,
             RegP!StartRegistry, RegP!pubVars
<1>2. CASE RegP!Publisher
  BY <1>2 DEF RegP!Publisher, RegP!PollOutbox, RegP!PublishAcked, RegP!PublishUnacked,
             RegP!MarkPublished, RegP!MarkFails
<1> QED
  BY <1>1, <1>2 DEF RegP!RegistrySteps

\* What is in the log and in the stream stays where it is.
LEMMA StoreGrows ==
  ASSUME RegP!IInv, RegP!RegistrySteps
  PROVE  /\ Len(log') \in Nat /\ Len(log') >= Len(log) /\ DOMAIN log' = 1..Len(log')
         /\ \A n \in 1..Len(log) : log'[n] = log[n]
         /\ Len(committed') \in Nat /\ Len(committed') >= Len(committed)
         /\ DOMAIN committed' = 1..Len(committed')
         /\ \A k \in 1..Len(committed) : committed'[k] = committed[k]
<1>1. /\ Len(log') \in Nat /\ Len(log') >= Len(log) /\ DOMAIN log' = 1..Len(log')
      /\ \A n \in 1..Len(log) : log'[n] = log[n]
  <2>1. CASE UNCHANGED log
    BY <2>1, StoreTypes
  <2>2. ASSUME NEW e \in RegP!Event, log' = Append(log, e)
        PROVE  /\ Len(log') \in Nat /\ Len(log') >= Len(log) /\ DOMAIN log' = 1..Len(log')
               /\ \A n \in 1..Len(log) : log'[n] = log[n]
    BY <2>2, StoreTypes
  <2> QED
    BY <2>1, <2>2, LogStep
<1>2. /\ Len(committed') \in Nat /\ Len(committed') >= Len(committed)
      /\ DOMAIN committed' = 1..Len(committed')
      /\ \A k \in 1..Len(committed) : committed'[k] = committed[k]
  <2>1. CASE UNCHANGED committed
    BY <2>1, StoreTypes
  <2>2. ASSUME NEW n \in DOMAIN log, committed' = Append(committed, RegP!StreamMessage(n))
        PROVE  /\ Len(committed') \in Nat /\ Len(committed') >= Len(committed)
               /\ DOMAIN committed' = 1..Len(committed')
               /\ \A k \in 1..Len(committed) : committed'[k] = committed[k]
    <3>1. RegP!StreamMessage(n) \in RegP!Message
      BY StoreTypes DEF RegP!StreamMessage, RegP!Message
    <3> QED
      BY <2>2, <3>1, StoreTypes
  <2> QED
    BY <2>1, <2>2, StreamStep
<1> QED
  BY <1>1, <1>2

-----------------------------------------------------------------------------
(* What the OMS holds of the stream.                                       *)

\* Messages handed out, acknowledged, pulled and being handled.
StreamOK ==
  /\ cursor \in 0..Len(committed) /\ acked \subseteq 1..cursor /\ current \in 0..cursor
  /\ buffer \in Seq(Nat) /\ \A p \in 1..Len(buffer) : buffer[p] \in 1..cursor
  /\ pc = "ack" => current # 0

BaseInv == RegP!IInv /\ StreamOK

\* What an OMS step appends to the pending stream: the command of a CREATED.
LEMMA PendingStep ==
  ASSUME RegP!IInv, StreamOK, Oms!OmsSteps
  PROVE  \/ UNCHANGED pending
         \/ \E k \in DOMAIN committed :
              /\ committed[k].event.type = "CREATED"
              /\ pending' = Append(pending, Oms!AckCommand(committed[k].event))
<1>1. CASE Oms!HandleNew
  <2>1. Head(buffer) \in DOMAIN committed
    <3>1. buffer # <<>> /\ 1 \in 1..Len(buffer) /\ Head(buffer) = buffer[1]
      BY <1>1 DEF Oms!HandleNew, StreamOK
    <3> QED
      BY <3>1, StoreTypes DEF StreamOK
  <2> QED
    BY <1>1, <2>1 DEF Oms!HandleNew, Oms!Emit
<1>2. CASE Oms!SaveSnapshot
  BY <1>2 DEF Oms!SaveSnapshot, Oms!Truncate, Oms!WriteFile, Oms!CreateFails
<1>3. CASE Oms!Booting
  BY <1>3 DEF Oms!Booting, Oms!LoadSnapshot, Oms!Hydrate, Oms!Verify, Oms!Attach
<1> QED
  BY <1>1, <1>2, <1>3
     DEF Oms!OmsSteps, Oms!StartOms, Oms!BootFails, Oms!Deliver, Oms!Redeliver, Oms!Handling,
         Oms!SkipOld, Oms!AckMessage, Oms!CrashOms

\* The head of what was pulled is taken off.
LEMMA HeadTaken ==
  ASSUME StreamOK, buffer # <<>>, current' = Head(buffer), buffer' = Tail(buffer)
  PROVE  /\ Head(buffer) = buffer[1] /\ Head(buffer) \in 1..cursor
         /\ buffer' \in Seq(Nat) /\ Len(buffer) \in Nat /\ Len(buffer') = Len(buffer) - 1
         /\ 1 \in 1..Len(buffer)
         /\ \A p \in 1..Len(buffer') : p + 1 \in 1..Len(buffer) /\ buffer'[p] = buffer[p + 1]
BY DEF StreamOK

\* A message is put at the end of what was pulled.
LEMMA TailAdded ==
  ASSUME StreamOK, NEW k \in Nat, buffer' = Append(buffer, k)
  PROVE  /\ buffer' \in Seq(Nat) /\ Len(buffer) \in Nat /\ Len(buffer') = Len(buffer) + 1
         /\ buffer'[Len(buffer) + 1] = k
         /\ \A p \in 1..Len(buffer) : buffer'[p] = buffer[p]
BY DEF StreamOK

LEMMA OmsKeepsStream ==
  ASSUME RegP!IInv, StreamOK, Oms!OmsSteps, UNCHANGED committed
  PROVE  StreamOK'
<1>1. cursor \in Nat /\ Len(committed) \in Nat
  BY StoreTypes DEF StreamOK
<1>2. CASE Oms!Deliver
  <2>1. cursor' = cursor + 1 /\ cursor < Len(committed) /\ acked' = acked /\ current' = current
        /\ buffer' = Append(buffer, cursor + 1) /\ pc' = pc
    BY <1>2 DEF Oms!Deliver
  <2>2. cursor + 1 \in Nat
    BY <1>1
  <2>3. /\ buffer' \in Seq(Nat) /\ Len(buffer) \in Nat /\ Len(buffer') = Len(buffer) + 1
        /\ buffer'[Len(buffer) + 1] = cursor + 1
        /\ \A p \in 1..Len(buffer) : buffer'[p] = buffer[p]
    BY <2>1, <2>2, TailAdded
  <2>4. \A p \in 1..Len(buffer') : buffer'[p] \in 1..cursor'
    BY <1>1, <2>1, <2>3 DEF StreamOK
  <2> QED
    BY <1>1, <2>1, <2>3, <2>4 DEF StreamOK
<1>3. ASSUME NEW k, Oms!Redeliver(k) PROVE StreamOK'
  <2>1. k \in 1..cursor /\ buffer' = Append(buffer, k) /\ k \in Nat
        /\ UNCHANGED <<cursor, acked, current, pc>>
    BY <1>3 DEF Oms!Redeliver, Oms!serverVars
  <2>2. /\ buffer' \in Seq(Nat) /\ Len(buffer) \in Nat /\ Len(buffer') = Len(buffer) + 1
        /\ buffer'[Len(buffer) + 1] = k
        /\ \A p \in 1..Len(buffer) : buffer'[p] = buffer[p]
    BY <2>1, TailAdded
  <2>3. \A p \in 1..Len(buffer') : buffer'[p] \in 1..cursor'
    BY <1>1, <2>1, <2>2 DEF StreamOK
  <2> QED
    BY <2>1, <2>2, <2>3 DEF StreamOK
<1>4. CASE Oms!HandleNew \/ Oms!SkipOld
  <2>1. /\ buffer # <<>> /\ current' = Head(buffer) /\ buffer' = Tail(buffer)
        /\ UNCHANGED <<cursor, acked>>
    BY <1>4 DEF Oms!HandleNew, Oms!SkipOld, Oms!serverVars
  <2> QED
    BY <2>1, HeadTaken DEF StreamOK
<1>5. CASE Oms!AckMessage
  <2>1. acked' \subseteq acked \cup {current} /\ current' = 0 /\ UNCHANGED <<cursor, buffer>>
        /\ current # 0 /\ pc' # "ack"
    BY <1>5 DEF Oms!AckMessage, Oms!Goto, StreamOK
  <2> QED
    BY <2>1 DEF StreamOK
<1>6. CASE Oms!CrashOms
  BY <1>6 DEF Oms!CrashOms, Oms!serverVars, Oms!Goto, StreamOK
<1>7. CASE Oms!Booting \/ Oms!SaveSnapshot \/ Oms!StartOms \/ Oms!BootFails
  <2>1. UNCHANGED <<cursor, acked, buffer, current>> /\ pc' # "ack"
    BY <1>7 DEF Oms!Goto, Oms!Booting, Oms!SaveSnapshot, Oms!StartOms, Oms!BootFails,
               Oms!LoadSnapshot,
               Oms!Hydrate, Oms!Verify, Oms!Attach, Oms!Truncate, Oms!WriteFile,
               Oms!CreateFails, Oms!serverVars, Oms!clientVars
  <2> QED
    BY <2>1 DEF StreamOK
<1> QED
  BY <1>2, <1>3, <1>4, <1>5, <1>6, <1>7 DEF Oms!OmsSteps, Oms!Handling

\* A command is a request of the registry's.
LEMMA CommandIsRequest ==
  ASSUME NEW event \in RegP!Event
  PROVE  /\ Oms!AckCommand(event) \in RegP!Request
         /\ Oms!AckCommand(event).intent = event.intent
         /\ Oms!AckCommand(event).expected = event.version + 1
<1>1. event.intent \in Intents /\ event.version + 1 \in Nat
  BY DEF RegP!Event
<1> QED
  BY <1>1 DEF Oms!AckCommand, RegP!Request, RegP!Catalogue

LEMMA PendingGrows ==
  ASSUME RegP!IInv, NEW k \in DOMAIN committed,
         pending' = Append(pending, Oms!AckCommand(committed[k].event))
  PROVE  /\ pending' \in Seq(RegP!Request) /\ Len(pending') = Len(pending) + 1
         /\ DOMAIN pending' = 1..(Len(pending) + 1)
         /\ \A j \in 1..Len(pending) : pending'[j] = pending[j]
         /\ pending'[Len(pending) + 1] = Oms!AckCommand(committed[k].event)
<1>1. committed[k].event \in RegP!Event
  BY StoreTypes
<1>2. PICK cmd \in RegP!Request : cmd = Oms!AckCommand(committed[k].event)
  BY <1>1, CommandIsRequest
<1>3. pending' = Append(pending, cmd) /\ pending \in Seq(RegP!Request)
  BY <1>2, StoreTypes
<1> QED
  BY <1>2, <1>3

\* The OMS touches nothing of the registry but the pending stream.
LEMMA OmsKeepsRegistry ==
  ASSUME BaseInv, OmsStep
  PROVE  RegP!IInv'
<1>1. UNCHANGED <<log, outbox, regUp, consuming, batch, marking, committed, pendCur,
                  rejected, regCrashes>>
  BY DEF OmsStep, regOwn
<1>2. /\ pending' \in Seq(RegP!Request) /\ Len(pending') \in Nat /\ Len(pending') >= Len(pending)
      /\ DOMAIN pending \subseteq DOMAIN pending'
  <2>1. CASE UNCHANGED pending
    BY <2>1, StoreTypes DEF BaseInv
  <2>2. ASSUME NEW k \in DOMAIN committed,
               pending' = Append(pending, Oms!AckCommand(committed[k].event))
        PROVE  /\ pending' \in Seq(RegP!Request) /\ Len(pending') \in Nat
               /\ Len(pending') >= Len(pending) /\ DOMAIN pending \subseteq DOMAIN pending'
    BY <2>2, PendingGrows, StoreTypes DEF BaseInv
  <2> QED
    BY <2>1, <2>2, PendingStep DEF BaseInv, OmsStep
<1>3. RegP!TypeOK'
  BY <1>1, <1>2, StoreTypes DEF BaseInv, RegP!IInv, RegP!TypeOK
<1>4. RegP!PublisherSound'
  BY <1>1 DEF BaseInv, RegP!IInv, RegP!PublisherSound, RegP!InStream, RegP!StreamMessage
<1> QED
  BY <1>1, <1>3, <1>4, RegP!QuietKeepsIInv, RegistryConstants DEF BaseInv

LEMMA BaseInit == Init => BaseInv
<1> SUFFICES ASSUME Init PROVE BaseInv
  OBVIOUS
<1>1. RegP!IInv
  BY SameInit, RegP!InitIInv, RegistryConstants DEF Init
<1>2. StreamOK
  BY DEF Init, Reg!Init, Oms!OmsInit, StreamOK
<1> QED
  BY <1>1, <1>2 DEF BaseInv

\* Every step is the registry's, the OMS's or none.
LEMMA SpineSteps ==
  ASSUME [Next]_vars
  PROVE  \/ RegP!RegistrySteps /\ UNCHANGED omsOwn
         \/ Oms!OmsSteps /\ UNCHANGED regOwn /\ OmsStep
         \/ UNCHANGED vars
BY SameSteps DEF Next, RegistryStep, OmsStep

LEMMA BaseStep == BaseInv /\ [Next]_vars => BaseInv'
<1> SUFFICES ASSUME BaseInv, [Next]_vars PROVE BaseInv'
  OBVIOUS
<1>1. CASE RegP!RegistrySteps /\ UNCHANGED omsOwn
  <2>1. RegP!IInv'
    BY <1>1, RegP!NextIInv, RegistryConstants DEF BaseInv, RegP!Next
  <2>2. StreamOK'
    BY <1>1, StoreGrows, StoreTypes DEF BaseInv, StreamOK, omsOwn
  <2> QED
    BY <2>1, <2>2 DEF BaseInv
<1>2. CASE Oms!OmsSteps /\ UNCHANGED regOwn /\ OmsStep
  BY <1>2, OmsKeepsRegistry, OmsKeepsStream DEF BaseInv, regOwn
<1>3. CASE UNCHANGED vars
  <2>1. UNCHANGED RegP!vars /\ UNCHANGED <<committed, cursor, acked, current, buffer, pc>>
    BY <1>3 DEF vars, regOwn, omsOwn, RegP!vars, RegP!storeVars, RegP!pubVars, RegP!consVars,
               RegP!procVars
  <2>2. RegP!IInv'
    BY <2>1, RegP!NextIInv, RegistryConstants DEF BaseInv
  <2> QED
    BY <2>1, <2>2 DEF BaseInv, StreamOK
<1> QED
  BY <1>1, <1>2, <1>3, SpineSteps

LEMMA BaseInvariant == Spec => []BaseInv
BY BaseInit, BaseStep, PTL DEF Spec

-----------------------------------------------------------------------------
(* The commands of the OMS in the log.                                     *)

\* A command answers a CREATED that is in the log.
Asked(req) ==
  \E m \in DOMAIN log : /\ log[m].type = "CREATED" /\ log[m].intent = req.intent
                        /\ log[m].version + 1 = req.expected

\* The commands wait in the pending stream before they reach the log, and may
\* reach it more than once; AckFollowsCreated says nothing of them.
AckInv ==
  /\ \A k \in DOMAIN pending : Asked(pending[k])
  /\ \A n \in DOMAIN log : log[n].type = "ORDER_ACK" =>
       \E m \in 1..(n - 1) : /\ log[m].intent = log[n].intent /\ log[m].type = "CREATED"
                             /\ log[m].version + 1 = log[n].version

LEMMA AckInit == Init => AckInv
<1> SUFFICES ASSUME Init PROVE AckInv
  OBVIOUS
<1>1. DOMAIN log = {} /\ DOMAIN pending = {}
  BY DEF Init, Reg!Init
<1> QED
  BY <1>1 DEF AckInv

LEMMA AckRegistryStep ==
  ASSUME "ORDER_ACK" \notin RequestTypes, BaseInv, AckInv, RegP!RegistrySteps
  PROVE  AckInv'
<1>1. pending' = pending /\ RegP!IInv
  BY LogStep DEF BaseInv
<1>2. /\ Len(log) \in Nat /\ DOMAIN log = 1..Len(log) /\ DOMAIN log' = 1..Len(log')
      /\ Len(log') \in Nat /\ Len(log') >= Len(log) /\ \A n \in 1..Len(log) : log'[n] = log[n]
  BY <1>1, StoreTypes, StoreGrows
<1>3. \A k \in DOMAIN pending' : Asked(pending[k])'
  BY <1>1, <1>2 DEF AckInv, Asked
<1>4. ASSUME NEW n \in DOMAIN log', log'[n].type = "ORDER_ACK"
      PROVE  \E m \in 1..(n - 1) : /\ log'[m].intent = log'[n].intent
                                   /\ log'[m].type = "CREATED"
                                   /\ log'[m].version + 1 = log'[n].version
  <2>1. CASE n \in DOMAIN log
    <3>1. PICK m \in 1..(n - 1) : /\ log[m].intent = log[n].intent /\ log[m].type = "CREATED"
                                  /\ log[m].version + 1 = log[n].version
      BY <1>2, <1>4, <2>1 DEF AckInv
    <3>2. m \in 1..Len(log) /\ n \in 1..Len(log)
      BY <1>2, <2>1
    <3> QED
      BY <1>2, <3>1, <3>2
  <2>2. CASE n \notin DOMAIN log
    <3>1. PICK req \in RegP!Request :
            /\ log' = Append(log, RegP!NewEvent(req)) /\ RegP!NewEvent(req) \in RegP!Event
            /\ \/ req.type \in RequestTypes \cup {"CREATED"}
               \/ \E k \in DOMAIN pending : req = pending[k]
      BY <1>1, <1>2, <1>4, <2>2, LogStep
    <3>2. n = Len(log) + 1 /\ log'[n] = RegP!NewEvent(req)
      BY <1>1, <1>2, <2>2, <3>1, StoreTypes
    <3>3. /\ req.type = "ORDER_ACK" /\ log'[n].intent = req.intent
          /\ log'[n].version = req.expected
      BY <1>4, <3>2 DEF RegP!NewEvent
    <3>4. Asked(req)
      BY <3>1, <3>3 DEF AckInv
    <3>5. PICK m \in DOMAIN log : /\ log[m].type = "CREATED" /\ log[m].intent = req.intent
                                  /\ log[m].version + 1 = req.expected
      BY <3>4 DEF Asked
    <3>6. m \in 1..(n - 1) /\ log'[m] = log[m]
      BY <1>2, <3>2, <3>5
    <3> QED
      BY <3>3, <3>5, <3>6
  <2> QED
    BY <2>1, <2>2
<1> QED
  BY <1>3, <1>4 DEF AckInv

LEMMA AckOmsStep ==
  ASSUME BaseInv, AckInv, Oms!OmsSteps, UNCHANGED regOwn
  PROVE  AckInv'
<1>1. log' = log /\ RegP!IInv
  BY DEF regOwn, BaseInv
<1>2. ASSUME NEW k \in DOMAIN committed, committed[k].event.type = "CREATED",
             pending' = Append(pending, Oms!AckCommand(committed[k].event))
      PROVE  \A j \in DOMAIN pending' : Asked(pending[j])'
  <2>1. /\ committed[k].event \in RegP!Event /\ committed[k].gv \in DOMAIN log
        /\ committed[k].event = log[committed[k].gv]
    BY <1>1, StoreTypes
  <2>2. Asked(Oms!AckCommand(committed[k].event))
    BY <1>2, <2>1, CommandIsRequest DEF Asked
  <2>3. /\ DOMAIN pending' = 1..(Len(pending) + 1) /\ DOMAIN pending = 1..Len(pending)
        /\ Len(pending) \in Nat
        /\ \A j \in 1..Len(pending) : pending'[j] = pending[j]
        /\ pending'[Len(pending) + 1] = Oms!AckCommand(committed[k].event)
    BY <1>1, <1>2, PendingGrows, StoreTypes
  <2>4. ASSUME NEW j \in DOMAIN pending' PROVE Asked(pending'[j])
    <3>1. CASE j \in 1..Len(pending)
      BY <2>3, <3>1 DEF AckInv
    <3>2. CASE j = Len(pending) + 1
      BY <2>2, <2>3, <3>2
    <3> QED
      BY <2>3, <3>1, <3>2
  <2> QED
    BY <1>1, <2>4 DEF Asked
<1>3. \A j \in DOMAIN pending' : Asked(pending[j])'
  <2>1. CASE UNCHANGED pending
    BY <1>1, <2>1 DEF AckInv, Asked
  <2> QED
    BY <1>2, <2>1, PendingStep DEF BaseInv
<1> QED
  BY <1>1, <1>3 DEF AckInv

\* The lock lets no version of an intent enter twice.
LEMMA AckIsOne == BaseInv /\ AckInv => AckFollowsCreated
<1> SUFFICES ASSUME BaseInv, AckInv PROVE AckFollowsCreated
  OBVIOUS
<1>1. ASSUME NEW m \in DOMAIN log, NEW n \in DOMAIN log,
             log[m].intent = log[n].intent, log[m].version = log[n].version
      PROVE  m = n
  <2>1. m \in Nat /\ n \in Nat /\ log[m].version \in Nat
    BY StoreTypes DEF BaseInv, RegP!Event
  <2>2. /\ m < n => log[m].version < log[n].version
        /\ n < m => log[n].version < log[m].version
    BY <1>1 DEF BaseInv, RegP!IInv, RegP!CausalVersions, RegP!VersionsIncrease
  <2> QED
    BY <1>1, <2>1, <2>2
<1> QED
  BY <1>1 DEF AckInv, AckFollowsCreated

\* The version lock of persist_event_tx absorbs every redelivery of the OMS's
\* loop and of pending_events_consumer: an ORDER_ACK is in the log only right
\* after a CREATED of its intent, and once, for any number of intents, crashes
\* and faults, as long as no caller sends an ORDER_ACK of its own.
THEOREM AckOnce ==
  ASSUME "ORDER_ACK" \notin RequestTypes
  PROVE  Spec => []AckFollowsCreated
<1>1. BaseInv /\ AckInv /\ [Next]_vars => AckInv'
  <2> SUFFICES ASSUME BaseInv, AckInv, [Next]_vars PROVE AckInv'
    OBVIOUS
  <2>1. CASE UNCHANGED vars
    BY <2>1 DEF vars, regOwn, AckInv, Asked
  <2> QED
    BY <2>1, SpineSteps, AckRegistryStep, AckOmsStep
<1> QED
  BY <1>1, AckInit, BaseInvariant, AckIsOne, PTL DEF Spec

-----------------------------------------------------------------------------
(* The replay of the log, and the recursion of hydrate_state.              *)

\* A set of naturals that is not empty has a least element.
LEMMA LeastNatural ==
  ASSUME NEW A \in SUBSET Nat, A # {}
  PROVE  \E m \in A : \A k \in A : m <= k
<1> DEFINE T == { 0..n : n \in A }
           R == StrictSubsetOrdering(Nat)
<1>1. IsWellFoundedOn(R, FiniteSubsetsOf(Nat))
  BY FS_StrictSubsetOrderingWellFounded
<1>2. T \subseteq FiniteSubsetsOf(Nat)
  <2> SUFFICES ASSUME NEW n \in A PROVE 0..n \in FiniteSubsetsOf(Nat)
    OBVIOUS
  <2>1. IsFiniteSet(0..n) /\ 0..n \subseteq Nat
    BY FS_Interval
  <2> QED
    BY <2>1 DEF FiniteSubsetsOf
<1>3. T # {}
  OBVIOUS
<1> HIDE DEF T, R
<1>4. PICK x \in T : \A y \in T : ~(<<y, x>> \in R)
  BY <1>1, <1>2, <1>3, WFMin
<1>5. PICK m \in A : x = 0..m
  BY DEF T
<1>6. \A k \in A : m <= k
  <2> SUFFICES ASSUME NEW k \in A, ~(m <= k) PROVE FALSE
    OBVIOUS
  <2>1. 0..k \in T
    BY DEF T
  <2>2. 0..k \subseteq 0..m /\ m \in 0..m /\ m \notin 0..k /\ 0..m \subseteq Nat /\ 0..k \subseteq Nat
    OBVIOUS
  <2>3. <<0..k, x>> \in R
    BY <1>5, <2>2 DEF R, StrictSubsetOrdering
  <2> QED
    BY <1>4, <2>1, <2>3
<1> QED
  BY <1>6


LEMMA LastOfIs ==
  ASSUME NEW S \in SUBSET Nat, NEW n \in S, \A m \in S : m <= n
  PROVE  LastOf(S) = n
<1>1. S # {} /\ (\A m \in S : m \in Nat) /\ n \in Nat
  OBVIOUS
<1>2. \A k \in S : (\A m \in S : m <= k) => k = n
  BY <1>1
<1>3. (CHOOSE k \in S : \A m \in S : m <= k) = n
  BY <1>2
<1> QED
  BY <1>1, <1>3 DEF LastOf

LEMMA LastOfBounded ==
  ASSUME NEW b \in Nat, NEW S \in SUBSET (1..b), S # {}
  PROVE  LastOf(S) \in S /\ \A m \in S : m <= LastOf(S)
<1> DEFINE U == { u \in Nat : \A a \in S : a <= u }
<1>1. b \in U /\ U \in SUBSET Nat
  OBVIOUS
<1>2. PICK n \in U : \A k \in U : n <= k
  BY <1>1, LeastNatural
<1>3. n \in Nat /\ \A a \in S : a \in Nat /\ a <= n
  OBVIOUS
<1>4. n \in S
  <2> SUFFICES ASSUME n \notin S PROVE FALSE
    OBVIOUS
  <2>1. PICK a0 \in S : TRUE
    OBVIOUS
  <2>2. \A a \in S : a <= n /\ a # n /\ a \in Nat
    BY <1>3
  <2>3. n - 1 \in Nat /\ (\A a \in S : a <= n - 1) /\ ~(n <= n - 1)
    BY <1>3, <2>1, <2>2
  <2>4. n - 1 \in U
    BY <2>3
  <2> QED
    BY <1>2, <2>3, <2>4
<1> HIDE DEF U
<1>5. LastOf(S) = n
  BY <1>3, <1>4, LastOfIs
<1> QED
  BY <1>3, <1>4, <1>5

\* Without a projected event between a and n the replays are the same.
LEMMA ReplaySame ==
  ASSUME NEW a \in Nat, NEW n \in Nat, a <= n, \A m \in (a + 1)..n : ~Projected(m)
  PROVE  ReplayOf(n) = ReplayOf(a)
<1>1. \A m : m \in 1..n /\ Projected(m) <=> m \in 1..a /\ Projected(m)
  OBVIOUS
<1>2. { m \in 1..n : Projected(m) } = { m \in 1..a : Projected(m) }
  BY <1>1
<1>3. \A i : { k \in 1..n : Projected(k) /\ log[k].intent = i }
               = { k \in 1..a : Projected(k) /\ log[k].intent = i }
  BY <1>1
<1> QED
  BY <1>2, <1>3 DEF ReplayOf

LEMMA ReplayOfNothing == ReplayOf(0) = Oms!EmptyState
<1>1. { m \in 1..0 : Projected(m) } = {}
  OBVIOUS
<1>2. \A i : { k \in 1..0 : Projected(k) /\ log[k].intent = i } = {}
  OBVIOUS
<1> QED
  BY <1>1, <1>2 DEF ReplayOf, LastOf, Oms!EmptyState

\* The replay of one event more is one Apply more.
LEMMA ReplayStep ==
  ASSUME RegP!IInv, NEW n \in 1..Len(log)
  PROVE  ReplayOf(n) = Oms!Apply(ReplayOf(n - 1), n, log[n])
<1>1. n \in Nat /\ n # 0 /\ n - 1 \in Nat /\ Len(log) \in Nat /\ log[n].intent \in Intents
  <2>1. Len(log) \in Nat /\ log[n] \in RegP!Event
    BY StoreTypes
  <2> QED
    BY <2>1 DEF RegP!Event
<1>2. CASE ~Projected(n)
  <2>1. \A m \in (n - 1 + 1)..n : ~Projected(m)
    BY <1>1, <1>2
  <2>2. ReplayOf(n) = ReplayOf(n - 1)
    BY <1>1, <2>1, ReplaySame
  <2> QED
    BY <1>2, <2>2 DEF Oms!Apply, Projected
<1>3. CASE Projected(n)
  <2> DEFINE All(k) == { m \in 1..k : Projected(m) }
             Of(k, i) == { m \in 1..k : Projected(m) /\ log[m].intent = i }
             Order(k, i) == IF LastOf(Of(k, i)) = 0 THEN "none"
                            ELSE Oms!StatusOf[log[LastOf(Of(k, i))].type]
  <2>1. LastOf(All(n)) = n
    <3>1. n \in All(n) /\ All(n) \in SUBSET Nat /\ \A m \in All(n) : m <= n
      BY <1>1, <1>3
    <3> QED
      BY <3>1, LastOfIs
  <2>2. LastOf(Of(n, log[n].intent)) = n
    <3>1. /\ n \in Of(n, log[n].intent) /\ Of(n, log[n].intent) \in SUBSET Nat
          /\ \A m \in Of(n, log[n].intent) : m <= n
      BY <1>1, <1>3
    <3> QED
      BY <3>1, LastOfIs
  <2>3. ASSUME NEW i \in Intents, i # log[n].intent
        PROVE  Of(n, i) = Of(n - 1, i)
    <3>1. \A m : m \in 1..n /\ log[m].intent = i <=> m \in 1..(n - 1) /\ log[m].intent = i
      BY <1>1, <2>3
    <3> QED
      BY <3>1
  <2>4. \A k : ReplayOf(k) = [last |-> LastOf(All(k)), orders |-> [i \in Intents |-> Order(k, i)]]
    BY DEF ReplayOf
  <2> HIDE DEF All, Of
  <2>5. \A i \in Intents :
          Order(n, i) = IF i = log[n].intent THEN Oms!StatusOf[log[n].type] ELSE Order(n - 1, i)
    BY <1>1, <2>2, <2>3
  <2> HIDE DEF Order
  <2>6. ReplayOf(n - 1).orders = [i \in Intents |-> Order(n - 1, i)]
    BY <2>4
  <2>7. [ReplayOf(n - 1).orders EXCEPT ![log[n].intent] = Oms!StatusOf[log[n].type]]
          = [i \in Intents |-> Order(n, i)]
    BY <1>1, <2>5, <2>6
  <2> QED
    BY <1>3, <2>1, <2>4, <2>7 DEF Oms!Apply, Projected
<1> QED
  BY <1>2, <1>3

\* A replay of n events is the replay up to the last projected one of them.
LEMMA ReplayIsReplay ==
  ASSUME RegP!IInv, NEW n \in 0..Len(log)
  PROVE  IsReplay(ReplayOf(n)) /\ ReplayOf(n).last \in 0..n
         /\ \A m \in 1..n : Projected(m) => m <= ReplayOf(n).last
<1> DEFINE S == { m \in 1..n : Projected(m) }
<1>1. n \in Nat /\ Len(log) \in Nat /\ ReplayOf(n).last = LastOf(S)
  BY StoreTypes DEF ReplayOf
<1>2. CASE S = {}
  <2>1. LastOf(S) = 0 /\ \A m \in 1..n : ~Projected(m)
    BY <1>2 DEF LastOf
  <2>2. ReplayOf(n) = ReplayOf(0)
    BY <1>1, <2>1, ReplaySame
  <2> QED
    BY <1>1, <2>1, <2>2 DEF IsReplay
<1>3. CASE S # {}
  <2>1. LastOf(S) \in 1..n /\ \A m \in S : m <= LastOf(S)
    <3>1. S \in SUBSET (1..n)
      OBVIOUS
    <3> QED
      BY <1>1, <1>3, <3>1, LastOfBounded
  <2>2. PICK l \in 1..n : l = LastOf(S)
    BY <2>1
  <2>3. \A m \in 1..n : Projected(m) => m <= l
    BY <2>1, <2>2
  <2>4. \A m \in (l + 1)..n : ~Projected(m)
    BY <1>1, <2>3
  <2>5. ReplayOf(n) = ReplayOf(l)
    BY <1>1, <2>4, ReplaySame
  <2> QED
    BY <1>1, <2>2, <2>3, <2>5 DEF IsReplay
<1> QED
  BY <1>2, <1>3

\* The function that Hydrated defines by recursion.
IsRoll(s, a, f) ==
  f = [n \in a..Oms!GetMaxVersion |-> IF n = a THEN s ELSE Oms!Apply(f[n - 1], n, log[n])]

LEMMA HydratedIsRoll ==
  \A s, a : Oms!Hydrated(s, a) =
    IF Oms!SinceVersion(a) = {} THEN s ELSE (CHOOSE f : IsRoll(s, a, f))[Oms!GetMaxVersion]
BY DEF Oms!Hydrated, IsRoll

LEMMA RollUnfolds ==
  ASSUME NEW s, NEW a, NEW f, IsRoll(s, a, f)
  PROVE  /\ f = [n \in a..Oms!GetMaxVersion |-> f[n]]
         /\ \A n \in a..Oms!GetMaxVersion :
              f[n] = IF n = a THEN s ELSE Oms!Apply(f[n - 1], n, log[n])
<1> DEFINE g == [n \in a..Oms!GetMaxVersion |->
                   IF n = a THEN s ELSE Oms!Apply(f[n - 1], n, log[n])]
<1>1. f = g
  BY DEF IsRoll
<1>2. \A n \in a..Oms!GetMaxVersion :
        g[n] = IF n = a THEN s ELSE Oms!Apply(f[n - 1], n, log[n])
  OBVIOUS
<1>3. g = [n \in a..Oms!GetMaxVersion |-> g[n]]
  OBVIOUS
<1> HIDE DEF g
<1> QED
  BY <1>1, <1>2, <1>3

\* The recursion has one solution.
LEMMA RollUnique ==
  ASSUME NEW s, NEW a \in Nat, NEW f, NEW g, IsRoll(s, a, f), IsRoll(s, a, g),
         Oms!GetMaxVersion \in Nat
  PROVE  f = g
<1> DEFINE A == { n \in Nat : n \in a..Oms!GetMaxVersion /\ f[n] # g[n] }
<1>1. A = {}
  <2> SUFFICES ASSUME A # {} PROVE FALSE
    OBVIOUS
  <2> A \in SUBSET Nat
    OBVIOUS
  <2>1. PICK m \in A : \A k \in A : m <= k
    BY LeastNatural
  <2>2. m \in Nat /\ m \in a..Oms!GetMaxVersion /\ f[m] # g[m]
    OBVIOUS
  <2>3. m # a
    BY <2>2, RollUnfolds
  <2>4. m - 1 \in Nat /\ m - 1 \in a..Oms!GetMaxVersion /\ ~(m <= m - 1)
    BY <2>2, <2>3
  <2>5. f[m - 1] = g[m - 1]
    BY <2>1, <2>4
  <2> QED
    BY <2>2, <2>3, <2>5, RollUnfolds
<1>2. \A n \in a..Oms!GetMaxVersion : f[n] = g[n]
  <2>1. a..Oms!GetMaxVersion \subseteq Nat
    OBVIOUS
  <2> QED
    BY <1>1, <2>1
<1>3. /\ f = [n \in a..Oms!GetMaxVersion |-> f[n]]
      /\ g = [n \in a..Oms!GetMaxVersion |-> g[n]]
  BY RollUnfolds
<1>4. [n \in a..Oms!GetMaxVersion |-> f[n]] = [n \in a..Oms!GetMaxVersion |-> g[n]]
  BY <1>2
<1> QED
  BY <1>3, <1>4

\* Hydration from the replay of a events is the replay of the whole log.
LEMMA HydratedIsReplay ==
  ASSUME RegP!IInv, NEW a \in 0..Len(log)
  PROVE  Oms!Hydrated(ReplayOf(a), a) = ReplayOf(Len(log))
<1>0. Len(log) \in Nat /\ DOMAIN log = 1..Len(log)
  BY StoreTypes
<1>1. /\ Len(log) \in Nat /\ DOMAIN log = 1..Len(log) /\ a \in Nat /\ a <= Len(log)
      /\ Oms!GetMaxVersion = Len(log)
  BY <1>0 DEF Oms!GetMaxVersion
<1>2. CASE Oms!SinceVersion(a) = {}
  <2>1. a = Len(log)
    <3> SUFFICES ASSUME a # Len(log) PROVE FALSE
      OBVIOUS
    <3>1. PICK l \in Nat : l = Len(log)
      BY <1>1
    <3>2. a \in Nat /\ a <= l /\ a # l
      BY <1>1, <3>1
    <3>3. l \in 1..l /\ l > a
      BY <3>2
    <3> QED
      BY <1>1, <1>2, <3>1, <3>3 DEF Oms!SinceVersion
  <2> QED
    BY <1>2, <2>1, HydratedIsRoll
<1>3. CASE Oms!SinceVersion(a) # {}
  <2> DEFINE g == [n \in a..Len(log) |-> ReplayOf(n)]
  <2>1. ASSUME NEW n \in a..Len(log)
        PROVE  g[n] = IF n = a THEN ReplayOf(a) ELSE Oms!Apply(g[n - 1], n, log[n])
    <3>1. CASE n = a
      BY <3>1
    <3>2. CASE n # a
      <4>1. n \in 1..Len(log) /\ n - 1 \in a..Len(log)
        BY <1>1, <3>2
      <4> QED
        BY <3>2, <4>1, ReplayStep
    <3> QED
      BY <3>1, <3>2
  <2>2. g = [n \in a..Len(log) |-> g[n]] /\ g[Len(log)] = ReplayOf(Len(log))
    BY <1>1
  <2> HIDE DEF g
  <2>3. g = [n \in a..Len(log) |-> IF n = a THEN ReplayOf(a) ELSE Oms!Apply(g[n - 1], n, log[n])]
    BY <2>1, <2>2, Zenon
  <2>4. IsRoll(ReplayOf(a), a, g)
    BY <1>1, <2>3 DEF IsRoll
  <2>5. (CHOOSE f : IsRoll(ReplayOf(a), a, f)) = g
    <3>1. IsRoll(ReplayOf(a), a, CHOOSE f : IsRoll(ReplayOf(a), a, f))
      BY <2>4
    <3> QED
      BY <1>1, <2>4, <3>1, RollUnique
  <2> QED
    BY <1>1, <1>3, <2>2, <2>5, HydratedIsRoll
<1> QED
  BY <1>2, <1>3

-----------------------------------------------------------------------------
(* While no publish fails, the state in memory is a replay.                *)

\* Once hydrated, a message handed out is covered by the state, or waits in
\* the buffer behind lower ones only.
Ready == pc \in {"verify", "bootsave", "bootwrite", "attach", "recv", "ack", "save", "write"}

Covered(k) == committed[k].event.type \in Oms!ProjectedTypes => committed[k].gv <= st.last

InBuffer(k) == \E p \in 1..Len(buffer) : buffer[p] = k

Held(k) ==
  /\ InBuffer(k) \/ Covered(k)
  /\ k \in acked \/ k = current => Covered(k)
  /\ ~Covered(k) => \A p, q \in 1..Len(buffer) : p < q /\ buffer[q] = k => buffer[p] < k

HeldOK == \A k \in 1..cursor : Held(k)

\* Redelivered messages break the order of the buffer, but only covered ones.
ProjInv ==
  /\ IsReplay(st) /\ (snap.kind = "valid" => IsReplay(snap.state))
  /\ Ready => HeldOK

SpineInv == BaseInv /\ RegP!OrderInv /\ ProjInv

\* What has been replayed stays one when the log grows.
LEMMA ReplayKept ==
  ASSUME RegP!IInv, NEW n \in 0..Len(log), Len(log') \in Nat, Len(log') >= Len(log),
         \A m \in 1..Len(log) : log'[m] = log[m]
  PROVE  ReplayOf(n)' = ReplayOf(n)
<1>1. n \in Nat /\ \A m \in 1..n : log'[m] = log[m] /\ (Projected(m)' <=> Projected(m))
  <2>1. Len(log) \in Nat
    BY StoreTypes
  <2>2. n \in Nat /\ \A m \in 1..n : m \in 1..Len(log)
    BY <2>1
  <2> QED
    BY <2>2 DEF Projected
<1>2. { m \in 1..n : Projected(m)' } = { m \in 1..n : Projected(m) }
  BY <1>1
<1>3. ASSUME NEW i
      PROVE  { k \in 1..n : Projected(k)' /\ log'[k].intent = i }
               = { k \in 1..n : Projected(k) /\ log[k].intent = i }
  BY <1>1
<1>4. ASSUME NEW i, NEW m, m = LastOf({ k \in 1..n : Projected(k) /\ log[k].intent = i }),
             m # 0
      PROVE  log'[m] = log[m]
  <2> DEFINE S == { k \in 1..n : Projected(k) /\ log[k].intent = i }
  <2>1. S # {}
    BY <1>4 DEF LastOf
  <2>2. m \in S
    BY <1>1, <1>4, <2>1, LastOfBounded
  <2> QED
    BY <1>1, <2>2
<1> DEFINE Row(i) == LastOf({ k \in 1..n : Projected(k) /\ log[k].intent = i })
           Later(i) == LastOf({ k \in 1..n : Projected(k)' /\ log'[k].intent = i })
<1>5. ReplayOf(n) =
        [last   |-> LastOf({ m \in 1..n : Projected(m) }),
         orders |-> [i \in Intents |-> IF Row(i) = 0 THEN "none"
                                       ELSE Oms!StatusOf[log[Row(i)].type]]]
  BY DEF ReplayOf
<1>6. ReplayOf(n)' =
        [last   |-> LastOf({ m \in 1..n : Projected(m)' }),
         orders |-> [i \in Intents |-> IF Later(i) = 0 THEN "none"
                                       ELSE Oms!StatusOf[log'[Later(i)].type]]]
  BY DEF ReplayOf
<1>7. \A i : Later(i) = Row(i)
  BY <1>3
<1>8. \A i : Row(i) # 0 => log'[Row(i)] = log[Row(i)]
  BY <1>4
<1> HIDE DEF Row, Later
<1> QED
  BY <1>2, <1>5, <1>6, <1>7, <1>8

LEMMA IsReplayKept ==
  ASSUME RegP!IInv, NEW s, IsReplay(s), Len(log') \in Nat, Len(log') >= Len(log),
         \A m \in 1..Len(log) : log'[m] = log[m]
  PROVE  IsReplay(s)'
<1>1. Len(log) \in Nat /\ s.last \in 0..Len(log) /\ s = ReplayOf(s.last)
  BY StoreTypes DEF IsReplay
<1>2. PICK n \in 0..Len(log) : n = s.last
  BY <1>1
<1>3. ReplayOf(n)' = ReplayOf(n)
  BY ReplayKept
<1>4. n \in 0..Len(log')
  BY <1>1
<1>5. ReplayOf(s.last)' = ReplayOf(n)'
  BY <1>2
<1> QED
  BY <1>1, <1>2, <1>3, <1>4, <1>5 DEF IsReplay

LEMMA EmptyIsReplay ==
  ASSUME RegP!IInv
  PROVE  IsReplay(Oms!EmptyState)
<1>1. Len(log) \in Nat /\ Oms!EmptyState.last = 0
  BY StoreTypes DEF Oms!EmptyState
<1> QED
  BY <1>1, ReplayOfNothing DEF IsReplay

LEMMA RegistryKeepsProj ==
  ASSUME SpineInv, RegP!RegistrySteps, UNCHANGED omsOwn
  PROVE  ProjInv'
<1>1. RegP!IInv /\ StreamOK
  BY DEF SpineInv, BaseInv
<1>2. UNCHANGED <<pc, st, snap, cursor, acked, buffer, current>>
  BY DEF omsOwn
<1>3. /\ Len(log') \in Nat /\ Len(log') >= Len(log) /\ \A n \in 1..Len(log) : log'[n] = log[n]
      /\ \A k \in 1..Len(committed) : committed'[k] = committed[k]
  BY <1>1, StoreGrows
<1>4. PICK s : s = st
  OBVIOUS
<1>5. PICK f : f = snap.state
  OBVIOUS
<1>6. IsReplay(s)' /\ (snap.kind = "valid" => IsReplay(f)')
  BY <1>1, <1>3, <1>4, <1>5, IsReplayKept DEF SpineInv, ProjInv
<1>7. IsReplay(st)' /\ (snap.kind = "valid" => IsReplay(snap.state)')
  BY <1>2, <1>4, <1>5, <1>6 DEF IsReplay
<1>8. ASSUME NEW k \in 1..cursor PROVE Covered(k)' <=> Covered(k)
  <2>1. committed'[k] = committed[k]
    BY <1>1, <1>3, StoreTypes DEF StreamOK
  <2> QED
    BY <1>2, <2>1 DEF Covered
<1>9. Ready' => HeldOK'
  BY <1>2, <1>8 DEF SpineInv, ProjInv, Ready, HeldOK, Held, InBuffer
<1> QED
  BY <1>2, <1>7, <1>9 DEF ProjInv

\* A full replay covers all the stream.
LEMMA FullReplayHolds ==
  ASSUME RegP!IInv, StreamOK, st' = ReplayOf(Len(log)),
         UNCHANGED <<committed, cursor, acked, buffer, current>>
  PROVE  HeldOK'
<1>1. Len(log) \in Nat /\ Len(log) \in 0..Len(log) /\ Len(committed) \in Nat
  BY StoreTypes
<1>2. /\ \A m \in 1..Len(log) : Projected(m) => m <= ReplayOf(Len(log)).last
  BY <1>1, ReplayIsReplay
<1>3. ASSUME NEW k \in 1..cursor PROVE Covered(k)'
  <2>1. k \in DOMAIN committed
    BY StoreTypes DEF StreamOK
  <2>2. committed[k].gv \in 1..Len(log) /\ committed[k].event = log[committed[k].gv]
    BY <2>1, StoreTypes
  <2> QED
    BY <1>2, <2>2 DEF Covered, Projected
<1> QED
  BY <1>3 DEF HeldOK, Held

\* The head of the buffer is handled: it is covered, and what was, stays so.
LEMMA HeadHandled ==
  ASSUME StreamOK, HeldOK, buffer # <<>>, current' = Head(buffer), buffer' = Tail(buffer),
         UNCHANGED <<cursor, acked>>, \A k \in 1..cursor : Covered(k) => Covered(k)',
         NEW h \in 1..cursor, h = Head(buffer), Covered(h)'
  PROVE  HeldOK'
<1>1. /\ Head(buffer) = buffer[1] /\ Head(buffer) \in 1..cursor
      /\ Len(buffer) \in Nat /\ Len(buffer') = Len(buffer) - 1 /\ 1 \in 1..Len(buffer)
      /\ \A p \in 1..Len(buffer') : p + 1 \in 1..Len(buffer) /\ buffer'[p] = buffer[p + 1]
  BY HeadTaken
<1>3. ASSUME NEW k \in 1..cursor PROVE Held(k)'
  <2>1. Held(k)
    BY DEF HeldOK
  <2>2. k = h => Covered(k)'
    OBVIOUS
  <2>3. InBuffer(k)' \/ Covered(k)'
    <3>1. CASE Covered(k) \/ k = h
      BY <2>2, <3>1
    <3>2. CASE ~Covered(k) /\ k # h
      <4>1. PICK p \in 1..Len(buffer) : buffer[p] = k
        BY <2>1, <3>2 DEF Held, InBuffer
      <4>2. p # 1
        BY <1>1, <3>2, <4>1
      <4>3. p - 1 \in 1..Len(buffer') /\ (p - 1) + 1 = p
        BY <1>1, <4>2
      <4>4. buffer'[p - 1] = k
        BY <1>1, <4>1, <4>3
      <4> QED
        BY <4>3, <4>4 DEF InBuffer
    <3> QED
      BY <3>1, <3>2
  <2>4. k \in acked' \/ k = current' => Covered(k)'
    BY <2>1, <2>2 DEF Held
  <2>5. ASSUME ~Covered(k)', NEW p \in 1..Len(buffer'), NEW q \in 1..Len(buffer'),
               p < q, buffer'[q] = k
        PROVE  buffer'[p] < k
    <3>1. ~Covered(k)
      BY <2>5
    <3>2. p + 1 \in 1..Len(buffer) /\ q + 1 \in 1..Len(buffer) /\ p + 1 < q + 1
      BY <1>1, <2>5
    <3>3. buffer'[p] = buffer[p + 1] /\ buffer[q + 1] = k
      BY <1>1, <2>5
    <3> QED
      BY <2>1, <3>1, <3>2, <3>3 DEF Held
  <2> QED
    BY <2>3, <2>4, <2>5 DEF Held
<1> QED
  BY <1>3 DEF HeldOK

\* A new message is the next event: all before it are covered.
LEMMA HandleNewHolds ==
  ASSUME SpineInv, Oms!HandleNew, UNCHANGED <<log, committed>>
  PROVE  IsReplay(st') /\ HeldOK'
<1>1. RegP!IInv /\ StreamOK /\ HeldOK /\ IsReplay(st) /\ RegP!StreamInOrder
  BY DEF SpineInv, BaseInv, ProjInv, Ready, RegP!OrderInv, Oms!HandleNew
<1>2. /\ buffer # <<>> /\ current' = Head(buffer) /\ buffer' = Tail(buffer)
      /\ UNCHANGED <<cursor, acked>>
  BY DEF Oms!HandleNew, Oms!serverVars
<1>3. PICK h \in 1..cursor : h = Head(buffer) /\ h = buffer[1] /\ 1 \in 1..Len(buffer)
  BY <1>1, <1>2, HeadTaken
<1>4. /\ h \in DOMAIN committed /\ h \in Nat /\ Len(log) \in Nat
      /\ committed[h].gv \in 1..Len(log) /\ committed[h].event = log[committed[h].gv]
  <2>1. cursor \in 0..Len(committed) /\ Len(committed) \in Nat
    BY <1>1, StoreTypes DEF StreamOK
  <2>2. h \in DOMAIN committed /\ h \in Nat
    BY <1>1, <2>1, StoreTypes
  <2> QED
    BY <1>1, <2>2, StoreTypes
<1>5. PICK gv \in 1..Len(log) : gv = committed[h].gv
  BY <1>4
<1>6. PICK a \in 0..Len(log) : a = st.last /\ st = ReplayOf(a)
  BY <1>1 DEF IsReplay
<1>7. gv > a /\ st' = Oms!Apply(st, gv, log[gv])
  BY <1>3, <1>4, <1>5, <1>6 DEF Oms!HandleNew, Oms!IsNew
<1>8. ASSUME NEW j \in 1..(h - 1) PROVE Covered(j)
  <2>1. j \in 1..cursor /\ j < h
    BY <1>1, <1>4 DEF StreamOK
  <2>2. Held(j)
    BY <1>1, <2>1 DEF HeldOK
  <2> SUFFICES ASSUME ~Covered(j) PROVE FALSE
    OBVIOUS
  <2>3. PICK p \in 1..Len(buffer) : buffer[p] = j
    BY <2>2 DEF Held, InBuffer
  <2>4. 1 < p
    BY <1>3, <2>1, <2>3
  <2>5. buffer[1] < j
    BY <1>3, <2>2, <2>3, <2>4 DEF Held
  <2> QED
    BY <1>3, <1>4, <2>1, <2>5
<1>9. \A m \in (a + 1)..(gv - 1) : ~Projected(m)
  <2> SUFFICES ASSUME NEW m \in (a + 1)..(gv - 1), Projected(m) PROVE FALSE
    OBVIOUS
  <2>1. m \in 1..(gv - 1) /\ m \in Nat /\ m > a
    BY <1>4
  <2>2. PICK j \in 1..(h - 1) : committed[j].gv = m
    BY <1>1, <1>4, <1>5, <2>1 DEF RegP!StreamInOrder
  <2>3. j \in DOMAIN committed
    BY <1>1, <1>4, StoreTypes
  <2>4. committed[j].event.type \in Oms!ProjectedTypes
    BY <1>1, <2>2, <2>3, StoreTypes DEF Projected
  <2>5. m <= a
    BY <1>6, <1>8, <2>2, <2>4 DEF Covered
  <2> QED
    BY <2>1, <2>5
<1>10. ReplayOf(gv - 1) = ReplayOf(a)
  <2>1. a \in Nat /\ gv - 1 \in Nat /\ a <= gv - 1
    BY <1>4, <1>7
  <2> QED
    BY <1>9, <2>1, ReplaySame
<1>11. st' = ReplayOf(gv)
  BY <1>1, <1>6, <1>7, <1>10, ReplayStep
<1>12. IsReplay(st')
  <2>1. gv \in 0..Len(log)
    BY <1>4
  <2> QED
    BY <1>1, <1>11, <2>1, ReplayIsReplay
<1>13. st'.last >= st.last /\ (log[gv].type \in Oms!ProjectedTypes => st'.last = gv)
  <2>1. CASE log[gv].type \in Oms!ProjectedTypes
    BY <1>4, <1>6, <1>7, <2>1 DEF Oms!Apply
  <2>2. CASE log[gv].type \notin Oms!ProjectedTypes
    BY <1>4, <1>6, <1>7, <2>2 DEF Oms!Apply
  <2> QED
    BY <2>1, <2>2
<1>14. ASSUME NEW k \in 1..cursor, Covered(k) PROVE Covered(k)'
  <2>1. committed[k].gv \in Nat /\ committed'[k] = committed[k]
    BY <1>1, StoreTypes DEF StreamOK
  <2>2. st.last \in Nat /\ st'.last \in Nat
    BY <1>1, <1>4, <1>12 DEF IsReplay
  <2> QED
    BY <1>13, <1>14, <2>1, <2>2 DEF Covered
<1>15. Covered(h)'
  <2>1. committed'[h] = committed[h] /\ committed[h].gv = gv /\ committed[h].event = log[gv]
    BY <1>4, <1>5
  <2> QED
    BY <1>4, <1>13, <2>1 DEF Covered
<1> QED
  BY <1>1, <1>2, <1>3, <1>12, <1>14, <1>15, HeadHandled

-----------------------------------------------------------------------------
(* The steps of the OMS keep the projection.                               *)

\* A state that is a replay, and a file that holds one if it can be read.
LEMMA ProjFrom ==
  ASSUME NEW s, st' = s, IsReplay(s), NEW f, snap' = f, f.kind = "valid" => IsReplay(f.state),
         RegP!IInv, UNCHANGED log, Ready' => HeldOK'
  PROVE  ProjInv'
<1>1. ASSUME NEW x, IsReplay(x) PROVE IsReplay(x)'
  BY <1>1, IsReplayKept, StoreTypes
<1>2. IsReplay(s)' /\ (f.kind = "valid" => IsReplay(f.state)')
  BY <1>1
<1> QED
  BY <1>2 DEF ProjInv, IsReplay

LEMMA HeldKept ==
  ASSUME HeldOK, UNCHANGED <<st, committed, cursor, acked, buffer, current>>
  PROVE  HeldOK'
BY DEF HeldOK, Held, InBuffer, Covered

LEMMA BootKeepsProj ==
  ASSUME SpineInv, UNCHANGED <<log, committed>>,
         Oms!StartOms \/ Oms!Booting \/ Oms!BootFails \/ Oms!CrashOms
  PROVE  ProjInv'
<1>1. RegP!IInv /\ StreamOK /\ IsReplay(st) /\ (snap.kind = "valid" => IsReplay(snap.state))
      /\ (Ready => HeldOK)
  BY DEF SpineInv, BaseInv, ProjInv
<1>2. Len(log) \in Nat /\ Len(log) \in 0..Len(log) /\ 0 \in 0..Len(log)
  BY <1>1, StoreTypes
<1>3. IsReplay(Oms!EmptyState) /\ IsReplay(ReplayOf(Len(log)))
  BY <1>1, <1>2, EmptyIsReplay, ReplayIsReplay
<1>4. CASE Oms!StartOms
  <2>1. UNCHANGED <<st, snap>> /\ ~Ready'
    BY <1>4 DEF Oms!StartOms, Oms!Goto, Ready
  <2> QED
    BY <1>1, <2>1, ProjFrom
<1>5. CASE Oms!LoadSnapshot
  <2>1. st' = (IF Oms!SnapshotAccepted THEN snap.state ELSE Oms!EmptyState)
        /\ UNCHANGED snap /\ ~Ready'
    BY <1>5 DEF Oms!LoadSnapshot, Oms!Goto, Ready
  <2>2. \E s : st' = s /\ IsReplay(s)
    BY <1>1, <1>3, <2>1 DEF Oms!SnapshotAccepted
  <2> QED
    BY <1>1, <2>1, <2>2, ProjFrom
<1>6. CASE Oms!Hydrate \/ Oms!Verify
  <2>1. st' = ReplayOf(Len(log))
    <3>1. CASE Oms!Hydrate
      <4>1. st.last \in 0..Len(log) /\ st = ReplayOf(st.last)
        BY <1>1 DEF IsReplay
      <4>2. Oms!Hydrated(st, st.last) = ReplayOf(Len(log))
        BY <1>1, <4>1, HydratedIsReplay
      <4> QED
        BY <3>1, <4>2 DEF Oms!Hydrate
    <3>2. CASE Oms!Verify
      <4>1. Oms!Replayed = ReplayOf(Len(log))
        BY <1>1, <1>2, HydratedIsReplay, ReplayOfNothing DEF Oms!Replayed
      <4> QED
        BY <3>2, <4>1 DEF Oms!Verify
    <3> QED
      BY <1>6, <3>1, <3>2
  <2>2. UNCHANGED <<cursor, acked, buffer, current>>
        /\ (snap' = snap \/ snap' = [kind |-> "none", state |-> Oms!EmptyState])
    BY <1>6 DEF Oms!Hydrate, Oms!Verify, Oms!serverVars, Oms!clientVars
  <2>3. HeldOK'
    BY <1>1, <2>1, <2>2, FullReplayHolds
  <2>4. \E f : snap' = f /\ (f.kind = "valid" => IsReplay(f.state))
    BY <1>1, <2>2
  <2>5. PICK s : s = ReplayOf(Len(log))
    OBVIOUS
  <2>6. PICK f : snap' = f /\ (f.kind = "valid" => IsReplay(f.state))
    BY <2>4
  <2>7. st' = s /\ IsReplay(s)
    BY <1>3, <2>1, <2>5
  <2> QED
    BY <1>1, <2>3, <2>6, <2>7, ProjFrom
<1>7. CASE Oms!Attach
  <2>1. UNCHANGED <<st, snap, cursor, acked, buffer, current>> /\ Ready
    BY <1>7 DEF Oms!Attach, Oms!serverVars, Oms!clientVars, Ready
  <2>2. HeldOK'
    BY <1>1, <2>1, HeldKept
  <2> QED
    BY <1>1, <2>1, <2>2, ProjFrom
<1>8. CASE Oms!BootFails \/ Oms!CrashOms
  <2>1. st' = Oms!EmptyState /\ UNCHANGED snap /\ ~Ready'
    BY <1>8 DEF Oms!BootFails, Oms!CrashOms, Oms!Goto, Ready
  <2> QED
    BY <1>1, <1>3, <2>1, ProjFrom
<1> QED
  BY <1>4, <1>5, <1>6, <1>7, <1>8 DEF Oms!Booting

LEMMA SaveKeepsProj ==
  ASSUME SpineInv, UNCHANGED <<log, committed>>, Oms!SaveSnapshot
  PROVE  ProjInv'
<1>1. RegP!IInv /\ StreamOK /\ IsReplay(st) /\ (snap.kind = "valid" => IsReplay(snap.state))
      /\ (Ready => HeldOK)
  BY DEF SpineInv, BaseInv, ProjInv
<1>2. UNCHANGED <<st, cursor, acked, buffer, current>> /\ Ready
  BY DEF Oms!SaveSnapshot, Oms!Truncate, Oms!WriteFile, Oms!CreateFails, Oms!serverVars,
         Oms!clientVars, Ready
<1>3. \/ snap' = snap \/ snap' = [kind |-> "corrupt", state |-> Oms!EmptyState]
      \/ snap' = [kind |-> "valid", state |-> st]
  BY DEF Oms!SaveSnapshot, Oms!Truncate, Oms!WriteFile, Oms!CreateFails
<1>4. \E f : snap' = f /\ (f.kind = "valid" => IsReplay(f.state))
  BY <1>1, <1>3
<1>5. HeldOK'
  BY <1>1, <1>2, HeldKept
<1> QED
  BY <1>1, <1>2, <1>4, <1>5, ProjFrom

\* A new message waits behind lower ones; one handed out again is covered.
LEMMA DeliveryKeepsProj ==
  ASSUME SpineInv, UNCHANGED <<log, committed>>,
         Oms!Deliver \/ \E k \in DOMAIN committed : Oms!Redeliver(k)
  PROVE  ProjInv'
<1>1. RegP!IInv /\ StreamOK /\ IsReplay(st) /\ (snap.kind = "valid" => IsReplay(snap.state))
      /\ (Ready => HeldOK) /\ cursor \in Nat
  BY StoreTypes DEF SpineInv, BaseInv, ProjInv, StreamOK
<1>2. UNCHANGED <<st, snap, acked, current>> /\ HeldOK
  BY <1>1 DEF Oms!Deliver, Oms!Redeliver, Oms!serverVars, Oms!Running, Ready
<1>3. \A k \in 1..cursor : Covered(k)' <=> Covered(k)
  BY <1>2 DEF Covered
<1>4. CASE Oms!Deliver
  <2>1. cursor' = cursor + 1 /\ buffer' = Append(buffer, cursor + 1) /\ cursor + 1 \in Nat
    BY <1>1, <1>4 DEF Oms!Deliver
  <2>2. /\ buffer' \in Seq(Nat) /\ Len(buffer) \in Nat /\ Len(buffer') = Len(buffer) + 1
        /\ buffer'[Len(buffer) + 1] = cursor + 1
        /\ \A p \in 1..Len(buffer) : buffer'[p] = buffer[p] /\ buffer[p] \in 1..cursor
    BY <1>1, <2>1, TailAdded DEF StreamOK
  <2>3. ASSUME NEW k \in 1..cursor PROVE Held(k)'
    <3>1. Held(k)
      BY <1>2 DEF HeldOK
    <3>2. InBuffer(k) => InBuffer(k)'
      BY <2>2 DEF InBuffer
    <3>3. ASSUME ~Covered(k), NEW p \in 1..Len(buffer'), NEW q \in 1..Len(buffer'), p < q,
                 buffer'[q] = k
          PROVE  buffer'[p] < k
      <4>1. q # Len(buffer) + 1
        BY <1>1, <2>2, <3>3
      <4>2. p \in 1..Len(buffer) /\ q \in 1..Len(buffer)
        BY <2>2, <3>3, <4>1
      <4> QED
        BY <2>2, <3>1, <3>3, <4>2 DEF Held
    <3> QED
      BY <1>2, <1>3, <3>1, <3>2, <3>3 DEF Held
  <2>4. PICK k \in Nat : k = cursor + 1
    BY <2>1
  <2>5. Held(k)'
    <3>1. InBuffer(k)'
      <4>1. Len(buffer) + 1 \in 1..Len(buffer')
        BY <2>2
      <4> QED
        BY <2>2, <2>4, <4>1 DEF InBuffer
    <3>2. k \notin acked' /\ k # current'
      BY <1>1, <1>2, <2>4 DEF StreamOK
    <3>3. ASSUME NEW p \in 1..Len(buffer'), NEW q \in 1..Len(buffer'), p < q PROVE buffer'[p] < k
      <4>1. p \in 1..Len(buffer)
        BY <2>2, <3>3
      <4> QED
        BY <1>1, <2>2, <2>4, <4>1
    <3> QED
      BY <3>1, <3>2, <3>3 DEF Held
  <2>6. ASSUME NEW j \in 1..cursor' PROVE Held(j)'
    <3>1. j \in 1..cursor \/ j = k
      BY <1>1, <2>1, <2>4
    <3> QED
      BY <2>3, <2>5, <3>1
  <2>7. HeldOK'
    BY <2>6 DEF HeldOK
  <2> QED
    BY <1>1, <1>2, <2>7, ProjFrom
<1>5. ASSUME NEW k \in DOMAIN committed, Oms!Redeliver(k) PROVE ProjInv'
  <2>1. /\ k \in 1..cursor /\ k \in Nat /\ k \notin acked /\ k # current
        /\ \A p \in DOMAIN buffer : buffer[p] # k
        /\ buffer' = Append(buffer, k) /\ cursor' = cursor
    BY <1>5 DEF Oms!Redeliver, Oms!serverVars
  <2>2. /\ buffer' \in Seq(Nat) /\ Len(buffer) \in Nat /\ Len(buffer') = Len(buffer) + 1
        /\ buffer'[Len(buffer) + 1] = k /\ \A p \in 1..Len(buffer) : buffer'[p] = buffer[p]
        /\ DOMAIN buffer = 1..Len(buffer)
    BY <1>1, <2>1, TailAdded DEF StreamOK
  <2>3. Covered(k)
    <3>1. Held(k) /\ ~InBuffer(k)
      BY <1>2, <2>1, <2>2 DEF HeldOK, InBuffer
    <3> QED
      BY <3>1 DEF Held
  <2>4. ASSUME NEW j \in 1..cursor PROVE Held(j)'
    <3>1. Held(j)
      BY <1>2 DEF HeldOK
    <3>2. InBuffer(j) => InBuffer(j)'
      BY <2>2 DEF InBuffer
    <3>3. ASSUME ~Covered(j), NEW p \in 1..Len(buffer'), NEW q \in 1..Len(buffer'), p < q,
                 buffer'[q] = j
          PROVE  buffer'[p] < j
      <4>1. q # Len(buffer) + 1
        BY <2>2, <2>3, <3>3
      <4>2. p \in 1..Len(buffer) /\ q \in 1..Len(buffer)
        BY <2>2, <3>3, <4>1
      <4> QED
        BY <2>2, <3>1, <3>3, <4>2 DEF Held
    <3> QED
      BY <1>2, <1>3, <3>1, <3>2, <3>3 DEF Held
  <2>5. HeldOK'
    BY <2>1, <2>4 DEF HeldOK
  <2> QED
    BY <1>1, <1>2, <2>5, ProjFrom
<1> QED
  BY <1>4, <1>5

LEMMA LoopKeepsProj ==
  ASSUME SpineInv, UNCHANGED <<log, committed>>, Oms!Handling
  PROVE  ProjInv'
<1>1. RegP!IInv /\ StreamOK /\ IsReplay(st) /\ (snap.kind = "valid" => IsReplay(snap.state))
      /\ (Ready => HeldOK)
  BY DEF SpineInv, BaseInv, ProjInv
<1>2. UNCHANGED <<snap, cursor>> /\ HeldOK
  BY <1>1 DEF Oms!Handling, Oms!HandleNew, Oms!SkipOld, Oms!AckMessage, Oms!serverVars, Ready
<1>3. CASE Oms!HandleNew
  <2>1. IsReplay(st') /\ HeldOK'
    BY <1>3, HandleNewHolds
  <2>2. PICK s : s = st'
    OBVIOUS
  <2> QED
    BY <1>1, <1>2, <2>1, <2>2, ProjFrom
<1>4. CASE Oms!SkipOld
  <2>1. /\ buffer # <<>> /\ current' = Head(buffer) /\ buffer' = Tail(buffer)
        /\ UNCHANGED <<st, acked>> /\ ~Oms!IsNew(Head(buffer))
    BY <1>4 DEF Oms!SkipOld, Oms!serverVars
  <2>2. PICK h \in 1..cursor : h = Head(buffer)
    BY <1>1, <2>1, HeadTaken
  <2>3. committed[h].gv \in Nat /\ st.last \in Nat
    <3>1. cursor \in 0..Len(committed) /\ Len(committed) \in Nat /\ Len(log) \in Nat
      BY <1>1, StoreTypes DEF StreamOK
    <3>2. h \in DOMAIN committed
      BY <1>1, <3>1, StoreTypes
    <3>3. committed[h].gv \in 1..Len(log)
      BY <1>1, <3>2, StoreTypes
    <3>4. committed[h].gv \in Nat
      BY <3>1, <3>3
    <3>5. st.last \in Nat
      BY <1>1, <3>1 DEF IsReplay
    <3> QED
      BY <3>4, <3>5
  <2>4. Covered(h)'
    BY <2>1, <2>2, <2>3 DEF Covered, Oms!IsNew
  <2>5. \A k \in 1..cursor : Covered(k) => Covered(k)'
    BY <2>1 DEF Covered
  <2>6. HeldOK'
    BY <1>1, <1>2, <2>1, <2>2, <2>4, <2>5, HeadHandled
  <2> QED
    BY <1>1, <1>2, <2>1, <2>6, ProjFrom
<1>5. CASE Oms!AckMessage
  <2>1. /\ acked' \subseteq acked \cup {current} /\ current' = 0 /\ UNCHANGED <<st, buffer>>
        /\ current # 0
    BY <1>1, <1>5 DEF Oms!AckMessage, StreamOK
  <2>2. ASSUME NEW k \in 1..cursor PROVE Held(k)'
    <3>1. Held(k) /\ (Covered(k)' <=> Covered(k)) /\ (InBuffer(k)' <=> InBuffer(k)) /\ k # 0
      BY <1>1, <1>2, <2>1 DEF HeldOK, Covered, InBuffer, StreamOK
    <3> QED
      BY <2>1, <3>1 DEF Held
  <2>3. HeldOK'
    BY <1>2, <2>2 DEF HeldOK
  <2> QED
    BY <1>1, <1>2, <2>1, <2>3, ProjFrom
<1> QED
  BY <1>3, <1>4, <1>5 DEF Oms!Handling

LEMMA SpineInit == Init => SpineInv
<1> SUFFICES ASSUME Init PROVE SpineInv
  OBVIOUS
<1>1. BaseInv /\ RegP!OrderInv
  BY BaseInit, SameInit, RegP!InitOrder, RegistryConstants DEF Init
<1>2. IsReplay(Oms!EmptyState)
  BY <1>1, EmptyIsReplay DEF BaseInv
<1>3. st = Oms!EmptyState /\ snap.kind = "none" /\ pc = "down"
  BY DEF Init, Oms!OmsInit
<1> QED
  BY <1>1, <1>2, <1>3 DEF SpineInv, ProjInv, Ready

LEMMA SpineStep ==
  ASSUME "nats" \notin Faults, SpineInv, [Next]_vars
  PROVE  SpineInv'
<1>1. BaseInv'
  BY BaseStep DEF SpineInv
<1>2. CASE RegP!RegistrySteps /\ UNCHANGED omsOwn
  <2>1. RegP!OrderInv'
    BY <1>2, RegP!NextOrder, RegistryConstants DEF SpineInv, BaseInv, RegP!Next
  <2> QED
    BY <1>1, <1>2, <2>1, RegistryKeepsProj DEF SpineInv
<1>3. CASE Oms!OmsSteps /\ UNCHANGED regOwn
  <2>1. UNCHANGED <<log, committed, batch>>
    BY <1>3 DEF regOwn
  <2>2. RegP!OrderInv'
    BY <2>1, RegP!QuietKeepsOrder, RegistryConstants DEF SpineInv
  <2>3. ProjInv'
    BY <1>3, <2>1, BootKeepsProj, SaveKeepsProj, DeliveryKeepsProj, LoopKeepsProj
       DEF Oms!OmsSteps
  <2> QED
    BY <1>1, <2>2, <2>3 DEF SpineInv
<1>4. CASE UNCHANGED vars
  <2>1. UNCHANGED <<log, committed, batch, pc, st, snap, cursor, acked, buffer, current>>
    BY <1>4 DEF vars, regOwn, omsOwn
  <2>2. RegP!OrderInv'
    BY <2>1, RegP!QuietKeepsOrder, RegistryConstants DEF SpineInv
  <2>3. Ready' => HeldOK'
    BY <2>1, HeldKept DEF SpineInv, ProjInv, Ready
  <2>4. ProjInv'
    BY <2>1, <2>3, ProjFrom DEF SpineInv, BaseInv, ProjInv
  <2> QED
    BY <1>1, <2>2, <2>4 DEF SpineInv
<1> QED
  BY <1>2, <1>3, <1>4, SpineSteps

\* While no publish fails, what the OMS has in memory and in a readable file is
\* a full replay of a prefix of the log: apply_event, hydrate_state, the version
\* check of the loop and save_snapshot, through crashes, lost and torn files and
\* redeliveries.  Failed publishes reorder the stream, and then it does not hold.
THEOREM ProjectionReplays ==
  ASSUME "nats" \notin Faults
  PROVE  Spec => []ProjectionIsReplay
<1>1. SpineInv => ProjectionIsReplay
  BY DEF SpineInv, ProjInv, ProjectionIsReplay
<1>2. SpineInv /\ [Next]_vars => SpineInv'
  BY SpineStep
<1> QED
  BY <1>1, <1>2, SpineInit, PTL DEF Spec

\* While no publish fails, an OMS that runs has applied every event that it has
\* acknowledged: the ack goes out before the snapshot is saved, and what is lost
\* with the memory comes back by hydration.
THEOREM AckedAreProjected ==
  ASSUME "nats" \notin Faults
  PROVE  Spec => []AckedIsProjected
<1>1. SpineInv => AckedIsProjected
  <2> SUFFICES ASSUME SpineInv, Oms!Running, NEW k \in acked PROVE Covered(k)
    BY DEF AckedIsProjected, Covered
  <2> QED
    BY DEF SpineInv, BaseInv, StreamOK, ProjInv, Ready, Oms!Running, HeldOK, Held
<1>2. SpineInv /\ [Next]_vars => SpineInv'
  BY SpineStep
<1> QED
  BY <1>1, <1>2, SpineInit, PTL DEF Spec

-----------------------------------------------------------------------------
(* The deep integrity mode, whatever fails.                                *)

\* A boot that did not take a snapshot hydrates from nothing.
Fresh == pc = "hydrate" /\ ~boot.loaded => st = Oms!EmptyState

LEMMA FreshStep == Fresh /\ [Next]_vars => Fresh'
<1> SUFFICES ASSUME Fresh, [Next]_vars PROVE Fresh'
  OBVIOUS
<1>1. CASE UNCHANGED <<pc, boot, st>>
  BY <1>1 DEF Fresh
<1>2. CASE Oms!OmsSteps
  <2>1. CASE Oms!LoadSnapshot
    BY <2>1 DEF Oms!LoadSnapshot, Fresh
  <2>2. CASE Oms!Deliver \/ \E k \in DOMAIN committed : Oms!Redeliver(k)
    BY <1>1, <2>2 DEF Oms!Deliver, Oms!Redeliver
  <2>3. CASE Oms!SaveSnapshot
    BY <2>3 DEF Oms!SaveSnapshot, Oms!Truncate, Oms!WriteFile, Oms!CreateFails, Oms!Goto, Fresh
  <2>4. CASE Oms!Hydrate \/ Oms!Verify \/ Oms!Attach \/ Oms!StartOms \/ Oms!BootFails
    BY <2>4 DEF Oms!Hydrate, Oms!Verify, Oms!Attach, Oms!StartOms, Oms!BootFails, Oms!Goto, Fresh
  <2>5. CASE Oms!Handling \/ Oms!CrashOms
    BY <2>5 DEF Oms!Handling, Oms!HandleNew, Oms!SkipOld, Oms!AckMessage, Oms!CrashOms,
                Oms!Goto, Fresh
  <2> QED
    BY <1>2, <2>1, <2>2, <2>3, <2>4, <2>5 DEF Oms!OmsSteps, Oms!Booting
<1> QED
  BY <1>1, <1>2, SpineSteps DEF vars, omsOwn

\* The step out of the boot sequence in that mode: hydrate with no snapshot, or
\* the second replay.
LEMMA VerifiedStep ==
  ASSUME VerifyIntegrity = TRUE, BaseInv, Fresh, Next,
         pc \in {"hydrate", "verify"}, pc' \in {"bootsave", "attach"}
  PROVE  IsReplay(st')
<1>1. RegP!IInv /\ Len(log) \in Nat /\ Len(log) \in 0..Len(log) /\ 0 \in 0..Len(log)
  BY StoreTypes DEF BaseInv
<1>2. IsReplay(ReplayOf(Len(log))) /\ Oms!Replayed = ReplayOf(Len(log))
  BY <1>1, ReplayIsReplay, HydratedIsReplay, ReplayOfNothing DEF Oms!Replayed
<1>3. Oms!OmsSteps
  BY SpineSteps DEF omsOwn, vars
<1>4. Oms!Hydrate \/ Oms!Verify
  <2>1. ~Oms!Deliver /\ ~\E k \in DOMAIN committed : Oms!Redeliver(k)
    BY DEF Oms!Deliver, Oms!Redeliver, Oms!Running
  <2>2. ~Oms!SaveSnapshot
    BY DEF Oms!SaveSnapshot, Oms!Truncate, Oms!WriteFile, Oms!CreateFails
  <2> QED
    BY <1>3, <2>1, <2>2
       DEF Oms!OmsSteps, Oms!Booting, Oms!StartOms, Oms!LoadSnapshot, Oms!Attach, Oms!BootFails,
           Oms!Handling, Oms!HandleNew, Oms!SkipOld, Oms!AckMessage, Oms!CrashOms, Oms!Goto
<1>5. CASE Oms!Hydrate
  <2>1. ~boot.loaded
    BY <1>5 DEF Oms!Hydrate, Oms!Goto
  <2>2. st = Oms!EmptyState /\ st.last = 0
    BY <1>5, <2>1 DEF Fresh, Oms!Hydrate, Oms!EmptyState
  <2>3. st' = Oms!Replayed
    BY <1>5, <2>2 DEF Oms!Hydrate, Oms!Replayed
  <2> QED
    BY <1>2, <2>3
<1>6. CASE Oms!Verify
  BY <1>2, <1>6 DEF Oms!Verify
<1> QED
  BY <1>4, <1>5, <1>6

\* With --verify-integrity, and whatever fails, the state with which the OMS
\* leaves its boot sequence is a replay of the log.
THEOREM VerifiedReplays ==
  ASSUME VerifyIntegrity = TRUE
  PROVE  Spec => VerifiedIsReplay
<1>1. Init => Fresh
  BY DEF Init, Oms!OmsInit, Fresh
<1>2. BaseInv /\ Fresh /\ [Next]_vars =>
        [(pc \in {"hydrate", "verify"} /\ pc' \in {"bootsave", "attach"}) => IsReplay(st')]_vars
  BY VerifiedStep
<1> QED
  BY <1>1, <1>2, FreshStep, BaseInvariant, PTL DEF Spec, VerifiedIsReplay


-----------------------------------------------------------------------------
(* Types.  What hydrate_state makes of a state that failed publishes left   *)
(* with a gap is no replay, but it is a state.                              *)

LEMMA ApplyTypes ==
  ASSUME NEW s \in OmsState, NEW gv \in Nat, NEW e, e.intent \in Intents
  PROVE  Oms!Apply(s, gv, e) \in OmsState
<1>1. e.type \in Oms!ProjectedTypes => Oms!StatusOf[e.type] \in Oms!Statuses
  BY DEF Oms!Statuses
<1> QED
  BY <1>1 DEF Oms!Apply, OmsState

LEMMA EmptyTypes == Oms!EmptyState \in OmsState
BY DEF Oms!EmptyState, OmsState, Oms!Statuses

\* The recursion of hydrate_state has a solution, and its values keep what one
\* Apply after another keeps: Good[n] are the states allowed after n events.
LEMMA RollExists ==
  ASSUME RegP!IInv, NEW Good, NEW s, NEW a \in Nat, s \in Good[a], a <= Len(log),
         \A n \in 1..Len(log) : \A x \in Good[n - 1] : Oms!Apply(x, n, log[n]) \in Good[n]
  PROVE  \E f : IsRoll(s, a, f) /\ f[Len(log)] \in Good[Len(log)]
<1> DEFINE Roll(f, n) ==
      /\ f = [k \in a..n |-> IF k = a THEN s ELSE Oms!Apply(f[k - 1], k, log[k])]
      /\ \A k \in a..n : f[k] \in Good[k]
           A == { n \in Nat : a <= n /\ n <= Len(log) /\ ~\E f : Roll(f, n) }
<1>1. Len(log) \in Nat /\ Oms!GetMaxVersion = Len(log)
  BY StoreTypes DEF Oms!GetMaxVersion
<1>2. A = {}
  <2> SUFFICES ASSUME A # {} PROVE FALSE
    OBVIOUS
  <2> A \in SUBSET Nat
    OBVIOUS
  <2>1. PICK m \in A : \A k \in A : m <= k
    BY LeastNatural
  <2>2. m \in Nat /\ a <= m /\ m <= Len(log) /\ ~\E f : Roll(f, m)
    OBVIOUS
  <2>3. CASE m = a
    <3> DEFINE g == [k \in a..m |-> s]
    <3>1. \A k \in a..m : k = a
      BY <2>3
    <3>2. g = [k \in a..m |-> IF k = a THEN s ELSE Oms!Apply(g[k - 1], k, log[k])]
      BY <3>1
    <3>3. \A k \in a..m : g[k] \in Good[k]
      BY <3>1
    <3> HIDE DEF g
    <3>4. Roll(g, m)
      BY <3>2, <3>3
    <3> QED
      BY <2>2, <3>4
  <2>4. CASE m # a
    <3>1. m - 1 \in Nat /\ a <= m - 1 /\ m - 1 <= Len(log) /\ ~(m <= m - 1)
      BY <1>1, <2>2, <2>4
    <3>2. m - 1 \notin A
      BY <2>1, <3>1
    <3>3. PICK f : Roll(f, m - 1)
      BY <3>1, <3>2
    <3> DEFINE h == [k \in a..(m - 1) |-> IF k = a THEN s ELSE Oms!Apply(f[k - 1], k, log[k])]
               g == [k \in a..m |-> IF k = m THEN Oms!Apply(f[m - 1], m, log[m]) ELSE f[k]]
    <3>4. \A k \in a..(m - 1) : f[k] = IF k = a THEN s ELSE Oms!Apply(f[k - 1], k, log[k])
      <4>1. f = h /\ \A k \in a..(m - 1) :
                       h[k] = IF k = a THEN s ELSE Oms!Apply(f[k - 1], k, log[k])
        BY <3>3
      <4> HIDE DEF h
      <4> QED
        BY <4>1
    <3>5. ASSUME NEW k \in a..m
          PROVE  g[k] = IF k = a THEN s ELSE Oms!Apply(g[k - 1], k, log[k])
      <4>1. k \in a..(m - 1) \/ k = m
        BY <2>2
      <4>2. k # a => k - 1 \in a..m /\ k - 1 # m /\ g[k - 1] = f[k - 1]
        BY <2>2
      <4> QED
        BY <2>4, <3>4, <4>1, <4>2
    <3>6. ASSUME NEW k \in a..m PROVE g[k] \in Good[k]
      <4>1. Oms!Apply(f[m - 1], m, log[m]) \in Good[m]
        <5>1. m \in 1..Len(log) /\ m - 1 \in a..(m - 1)
          BY <1>1, <2>2, <3>1
        <5> QED
          BY <3>3, <5>1
      <4>2. k \in a..(m - 1) \/ k = m
        BY <2>2
      <4> QED
        BY <3>3, <4>1, <4>2
    <3>7. g = [k \in a..m |-> g[k]]
      OBVIOUS
    <3> HIDE DEF g
    <3>8. Roll(g, m)
      <4>1. g = [k \in a..m |-> IF k = a THEN s ELSE Oms!Apply(g[k - 1], k, log[k])]
        BY <3>5, <3>7, Zenon
      <4> QED
        BY <3>6, <4>1
    <3> QED
      BY <2>2, <3>8
  <2> QED
    BY <2>3, <2>4
<1>3. PICK f : Roll(f, Len(log))
  BY <1>1, <1>2
<1>4. Len(log) \in a..Len(log)
  BY <1>1
<1> QED
  BY <1>1, <1>3, <1>4 DEF IsRoll

LEMMA HydratedKeeps ==
  ASSUME RegP!IInv, NEW Good, NEW s, NEW a \in Nat, s \in Good[a],
         \A n \in 1..Len(log) : \A x \in Good[n - 1] : Oms!Apply(x, n, log[n]) \in Good[n]
  PROVE  \/ Oms!Hydrated(s, a) = s
         \/ Oms!Hydrated(s, a) \in Good[Len(log)]
<1>1. Len(log) \in Nat /\ Oms!GetMaxVersion = Len(log) /\ DOMAIN log = 1..Len(log)
  BY StoreTypes DEF Oms!GetMaxVersion
<1>2. CASE Oms!SinceVersion(a) = {}
  BY <1>2, HydratedIsRoll
<1>3. CASE Oms!SinceVersion(a) # {}
  <2>1. PICK m \in DOMAIN log : m > a
    BY <1>3 DEF Oms!SinceVersion
  <2>2. a <= Len(log)
    BY <1>1, <2>1
  <2>3. PICK f : IsRoll(s, a, f) /\ f[Len(log)] \in Good[Len(log)]
    BY <2>2, RollExists
  <2>4. (CHOOSE g : IsRoll(s, a, g)) = f
    <3>1. IsRoll(s, a, CHOOSE g : IsRoll(s, a, g))
      BY <2>3
    <3> QED
      BY <1>1, <2>3, <3>1, RollUnique
  <2> QED
    BY <1>1, <1>3, <2>3, <2>4, HydratedIsRoll
<1> QED
  BY <1>2, <1>3

LEMMA HydratedTypes ==
  ASSUME RegP!IInv, NEW s \in OmsState, NEW a \in Nat
  PROVE  Oms!Hydrated(s, a) \in OmsState
<1> DEFINE Good == [n \in Nat |-> OmsState]
<1>1. Len(log) \in Nat /\ \A n \in 1..Len(log) : log[n].intent \in Intents
  BY StoreTypes DEF RegP!Event
<1>2. ASSUME NEW n \in 1..Len(log), NEW x \in Good[n - 1]
      PROVE  Oms!Apply(x, n, log[n]) \in Good[n]
  <2>1. n \in Nat /\ n - 1 \in Nat
    BY <1>1
  <2> QED
    BY <1>1, <2>1, ApplyTypes
<1>3. s \in Good[a] /\ Good[Len(log)] = OmsState
  BY <1>1
<1> HIDE DEF Good
<1> QED
  BY <1>2, <1>3, HydratedKeeps

\* The OMS's part of the type invariant that StreamOK does not imply.
OmsTypes ==
  /\ pc \in {"down", "load", "hydrate", "verify", "bootsave", "bootwrite",
             "attach", "recv", "ack", "save", "write"}
  /\ st \in OmsState
  /\ boot \in [loaded : BOOLEAN, hydrated : BOOLEAN]
  /\ since \in Nat /\ omsCrashes \in Nat
  /\ snap \in [kind : {"none", "corrupt", "valid"}, state : OmsState]

LEMMA OmsTypesStep ==
  ASSUME BaseInv, OmsTypes, Oms!OmsSteps
  PROVE  OmsTypes'
<1>1. RegP!IInv /\ StreamOK
  BY DEF BaseInv
<1>2. CASE Oms!StartOms \/ Oms!Attach
  BY <1>2 DEF Oms!StartOms, Oms!Attach, Oms!Goto, OmsTypes
<1>3. CASE Oms!LoadSnapshot
  <2>1. st' \in OmsState
    BY <1>3, EmptyTypes DEF Oms!LoadSnapshot, OmsTypes
  <2>2. boot' \in [loaded : BOOLEAN, hydrated : BOOLEAN]
    BY <1>3 DEF Oms!LoadSnapshot, Oms!SnapshotAccepted
  <2> QED
    BY <1>3, <2>1, <2>2 DEF Oms!LoadSnapshot, Oms!Goto, OmsTypes
<1>4. CASE Oms!Hydrate
  <2>1. st' \in OmsState
    <3>1. st \in OmsState /\ st.last \in Nat
      BY DEF OmsTypes, OmsState
    <3> QED
      BY <1>1, <1>4, <3>1, HydratedTypes DEF Oms!Hydrate
  <2>2. boot' \in [loaded : BOOLEAN, hydrated : BOOLEAN]
    BY <1>4 DEF Oms!Hydrate, OmsTypes
  <2>3. pc' \in {"verify", "bootsave", "attach"}
    BY <1>4 DEF Oms!Hydrate, Oms!Goto
  <2> QED
    BY <1>4, <2>1, <2>2, <2>3 DEF Oms!Hydrate, OmsTypes
<1>5. CASE Oms!Verify
  <2>1. Oms!Replayed \in OmsState
    BY <1>1, EmptyTypes, HydratedTypes DEF Oms!Replayed
  <2>2. [kind |-> "none", state |-> Oms!EmptyState]
          \in [kind : {"none", "corrupt", "valid"}, state : OmsState]
    BY EmptyTypes
  <2>3. pc' \in {"bootsave", "attach"}
    BY <1>5 DEF Oms!Verify, Oms!Goto
  <2> HIDE DEF Oms!Replayed
  <2>4. st' \in OmsState /\ snap' \in [kind : {"none", "corrupt", "valid"}, state : OmsState]
    BY <1>5, <2>1, <2>2 DEF Oms!Verify, OmsTypes
  <2> QED
    BY <1>5, <2>3, <2>4 DEF Oms!Verify, OmsTypes
<1>6. CASE Oms!SaveSnapshot
  <2>1. /\ UNCHANGED <<st, boot, omsCrashes>> /\ since' \in {since, 0}
        /\ pc' \in {"bootwrite", "attach", "write", "recv"}
        /\ \/ snap' = snap \/ snap' = [kind |-> "corrupt", state |-> Oms!EmptyState]
           \/ snap' = [kind |-> "valid", state |-> st]
    BY <1>6 DEF Oms!SaveSnapshot, Oms!Truncate, Oms!WriteFile, Oms!CreateFails, Oms!Goto
  <2>2. snap' \in [kind : {"none", "corrupt", "valid"}, state : OmsState]
    BY <2>1, EmptyTypes DEF OmsTypes
  <2> QED
    BY <2>1, <2>2 DEF OmsTypes
<1>7. CASE Oms!Deliver \/ \E k \in DOMAIN committed : Oms!Redeliver(k)
  BY <1>7 DEF Oms!Deliver, Oms!Redeliver, OmsTypes
<1>8. CASE Oms!HandleNew
  <2>1. PICK h \in 1..cursor : h = Head(buffer)
    BY <1>1, <1>8, HeadTaken DEF Oms!HandleNew
  <2>2. committed[h].gv \in Nat /\ committed[h].event.intent \in Intents
    <3>1. cursor \in 0..Len(committed) /\ Len(committed) \in Nat /\ Len(log) \in Nat
      BY <1>1, StoreTypes DEF StreamOK
    <3>2. h \in DOMAIN committed
      BY <1>1, <3>1, StoreTypes
    <3>3. committed[h].gv \in 1..Len(log) /\ committed[h].event \in RegP!Event
      BY <1>1, <3>2, StoreTypes
    <3>4. committed[h].gv \in Nat
      BY <3>1, <3>3
    <3>5. committed[h].event.intent \in Intents
      BY <3>3 DEF RegP!Event
    <3> QED
      BY <3>4, <3>5
  <2>3. st' = Oms!Apply(st, committed[h].gv, committed[h].event)
    BY <1>8, <2>1 DEF Oms!HandleNew
  <2>4. st' \in OmsState
    BY <2>2, <2>3, ApplyTypes DEF OmsTypes
  <2>5. since' \in Nat /\ pc' = "ack" /\ UNCHANGED <<boot, snap, omsCrashes>>
    BY <1>8 DEF Oms!HandleNew, Oms!Goto, OmsTypes
  <2> QED
    BY <2>4, <2>5 DEF OmsTypes
<1>9. CASE Oms!SkipOld \/ Oms!AckMessage
  BY <1>9 DEF Oms!SkipOld, Oms!AckMessage, Oms!Goto, OmsTypes
<1>10. CASE Oms!BootFails \/ Oms!CrashOms
  <2>1. /\ pc' = "down" /\ st' = Oms!EmptyState /\ boot' = [loaded |-> FALSE, hydrated |-> FALSE]
        /\ since' \in {since, 0} /\ omsCrashes' \in {omsCrashes, omsCrashes + 1}
        /\ snap' = snap
    BY <1>10 DEF Oms!BootFails, Oms!CrashOms, Oms!Goto
  <2>2. st' \in OmsState /\ boot' \in [loaded : BOOLEAN, hydrated : BOOLEAN]
    BY <2>1, EmptyTypes
  <2> QED
    BY <2>1, <2>2 DEF OmsTypes
<1> QED
  BY <1>2, <1>3, <1>4, <1>5, <1>6, <1>7, <1>8, <1>9, <1>10
     DEF Oms!OmsSteps, Oms!Booting, Oms!Handling

\* The types of both processes, whatever fails and however often: also the
\* state that hydrate_state rolls forward from a snapshot with a gap.
THEOREM TypeCorrect == Spec => []TypeOK
<1>1. Init => OmsTypes
  BY EmptyTypes DEF Init, Oms!OmsInit, OmsTypes
<1>2. BaseInv /\ OmsTypes /\ [Next]_vars => OmsTypes'
  <2> SUFFICES ASSUME BaseInv, OmsTypes, [Next]_vars PROVE OmsTypes'
    OBVIOUS
  <2>1. CASE UNCHANGED omsOwn
    BY <2>1 DEF omsOwn, OmsTypes
  <2> QED
    BY <2>1, SpineSteps, OmsTypesStep DEF vars
<1>3. BaseInv /\ OmsTypes => TypeOK
  <2> SUFFICES ASSUME BaseInv, OmsTypes PROVE TypeOK
    OBVIOUS
  <2>1. Reg!TypeOK
    BY DEF BaseInv, RegP!IInv, RegP!TypeOK, Reg!TypeOK, RegP!Event, Reg!Event, RegP!Message,
           Reg!Message, RegP!Request, Reg!Request, RegP!Catalogue, Reg!Catalogue
  <2>2. buffer \in Seq(1..cursor)
    <3>1. Len(buffer) \in Nat /\ buffer = [p \in 1..Len(buffer) |-> buffer[p]]
          /\ \A p \in 1..Len(buffer) : buffer[p] \in 1..cursor
      BY LenProperties DEF BaseInv, StreamOK
    <3>2. buffer \in [1..Len(buffer) -> 1..cursor]
      BY <3>1
    <3>3. buffer \in UNION { [1..n -> 1..cursor] : n \in Nat }
      BY <3>1, <3>2
    <3> QED
      BY <3>3, SeqDef, Zenon
  <2> QED
    BY <2>1, <2>2 DEF TypeOK, OmsTypes, BaseInv, StreamOK
<1> QED
  BY <1>1, <1>2, <1>3, BaseInvariant, PTL DEF Spec

-----------------------------------------------------------------------------
(* Nothing is invented, whatever fails.                                    *)

\* One event more adds a status that this event names.
LEMMA ApplyNamed ==
  ASSUME RegP!IInv, NEW s \in OmsState, NEW n \in 1..Len(log), Named(s, n)
  PROVE  Oms!Apply(s, n, log[n]) \in OmsState /\ Named(Oms!Apply(s, n, log[n]), n)
<1>1. n \in Nat /\ log[n].intent \in Intents /\ s.last \in Nat /\ s.last <= n
      /\ s.orders \in [Intents -> Oms!Statuses]
  <2>1. Len(log) \in Nat /\ log[n] \in RegP!Event
    BY StoreTypes
  <2> QED
    BY <2>1 DEF RegP!Event, OmsState, Named
<1>2. CASE ~Projected(n)
  BY <1>2 DEF Oms!Apply, Projected
<1>3. CASE Projected(n)
  <2>1. PICK orders : orders = [s.orders EXCEPT ![log[n].intent] = Oms!StatusOf[log[n].type]]
    OBVIOUS
  <2>2. Oms!Apply(s, n, log[n]) = [last |-> n, orders |-> orders]
    BY <1>3, <2>1 DEF Oms!Apply, Projected
  <2>3. ASSUME NEW i \in Intents, orders[i] # "none"
        PROVE  \E m \in 1..n : /\ Projected(m) /\ log[m].intent = i
                               /\ orders[i] = Oms!StatusOf[log[m].type]
    <3>1. CASE i = log[n].intent
      BY <1>1, <1>3, <2>1, <3>1
    <3>2. CASE i # log[n].intent
      <4>1. orders[i] = s.orders[i]
        BY <1>1, <2>1, <3>2
      <4>2. PICK m \in 1..s.last : /\ Projected(m) /\ log[m].intent = i
                                   /\ s.orders[i] = Oms!StatusOf[log[m].type]
        BY <2>3, <4>1 DEF Named
      <4>3. m \in 1..n
        BY <1>1
      <4> QED
        BY <4>1, <4>2, <4>3
    <3> QED
      BY <3>1, <3>2
  <2>4. Named([last |-> n, orders |-> orders], n)
    BY <1>1, <2>3 DEF Named
  <2> QED
    BY <1>1, <2>2, <2>4, ApplyTypes
<1> QED
  BY <1>2, <1>3

\* Named states stay so under a larger bound.
LEMMA NamedBelow ==
  ASSUME NEW s \in OmsState, NEW m \in Nat, NEW n \in Nat, Named(s, m), s.last <= n
  PROVE  Named(s, n)
BY DEF Named

LEMMA HydratedNamed ==
  ASSUME RegP!IInv, NEW s \in OmsState, Named(s, Len(log)), NEW a, a = s.last
  PROVE  Named(Oms!Hydrated(s, a), Len(log))
<1> DEFINE Good == [n \in Nat |-> { x \in OmsState : Named(x, n) }]
<1>1. Len(log) \in Nat /\ a \in Nat /\ Named(s, a)
  BY StoreTypes DEF OmsState, Named
<1>2. ASSUME NEW n \in 1..Len(log), NEW x \in Good[n - 1]
      PROVE  Oms!Apply(x, n, log[n]) \in Good[n]
  <2>1. n \in Nat /\ n - 1 \in Nat
    BY <1>1
  <2>2. x \in OmsState /\ Named(x, n - 1)
    BY <2>1
  <2>3. x.last \in Nat /\ x.last <= n
    BY <2>1, <2>2 DEF Named, OmsState
  <2>4. Named(x, n)
    BY <2>1, <2>2, <2>3, NamedBelow
  <2> QED
    BY <2>1, <2>2, <2>4, ApplyNamed
<1>3. s \in Good[a]
  BY <1>1
<1>4. \A x \in Good[Len(log)] : Named(x, Len(log))
  BY <1>1
<1> HIDE DEF Good
<1> QED
  BY <1>1, <1>2, <1>3, <1>4, HydratedKeeps

LEMMA EmptyNamed ==
  ASSUME RegP!IInv
  PROVE  Named(Oms!EmptyState, Len(log))
BY StoreTypes DEF Named, Oms!EmptyState

NamedInv == OmsTypes /\ ProjectionIsNamed

\* The log grows at its end only.
LEMMA NamedRegistryStep ==
  ASSUME BaseInv, NamedInv, RegP!RegistrySteps, UNCHANGED omsOwn
  PROVE  ProjectionIsNamed'
<1>1. /\ Len(log) \in Nat /\ Len(log') \in Nat /\ Len(log') >= Len(log)
      /\ \A n \in 1..Len(log) : log'[n] = log[n]
  BY StoreGrows, StoreTypes DEF BaseInv
<1>2. ASSUME NEW s \in OmsState, Named(s, Len(log)) PROVE Named(s, Len(log))'
  <2>1. s.last \in Nat /\ s.last <= Len(log) /\ s.last <= Len(log')
    BY <1>1, <1>2 DEF OmsState, Named
  <2>2. \A m \in 1..s.last : log'[m] = log[m] /\ (Projected(m)' <=> Projected(m))
    BY <1>1, <2>1 DEF Projected
  <2> QED
    BY <1>2, <2>1, <2>2 DEF Named
<1>3. PICK s \in OmsState : s = st
  BY DEF NamedInv, OmsTypes
<1>4. PICK f \in OmsState : f = snap.state
  BY DEF NamedInv, OmsTypes
<1>5. Named(s, Len(log))' /\ Named(f, Len(log))'
  BY <1>2, <1>3, <1>4 DEF NamedInv, ProjectionIsNamed
<1> QED
  BY <1>3, <1>4, <1>5 DEF ProjectionIsNamed, omsOwn, Named

LEMMA NamedOmsStep ==
  ASSUME BaseInv, NamedInv, Oms!OmsSteps, UNCHANGED <<log, committed>>
  PROVE  Named(st', Len(log)) /\ Named(snap'.state, Len(log))
<1>1. RegP!IInv /\ StreamOK /\ st \in OmsState /\ snap.state \in OmsState
  BY DEF BaseInv, NamedInv, OmsTypes
<1>2. Named(st, Len(log)) /\ Named(snap.state, Len(log)) /\ Named(Oms!EmptyState, Len(log))
  BY <1>1, EmptyNamed DEF NamedInv, ProjectionIsNamed
<1>3. CASE Oms!StartOms \/ Oms!LoadSnapshot \/ Oms!Attach \/ Oms!BootFails \/ Oms!CrashOms
  BY <1>2, <1>3
     DEF Oms!StartOms, Oms!LoadSnapshot, Oms!Attach, Oms!BootFails, Oms!CrashOms
<1>4. CASE Oms!Hydrate
  <2>1. Named(Oms!Hydrated(st, st.last), Len(log))
    BY <1>1, <1>2, HydratedNamed
  <2> QED
    BY <1>2, <1>4, <2>1 DEF Oms!Hydrate
<1>5. CASE Oms!Verify
  <2>1. Oms!EmptyState.last = 0
    BY DEF Oms!EmptyState
  <2>2. Named(Oms!Hydrated(Oms!EmptyState, 0), Len(log))
    BY <1>1, <1>2, <2>1, EmptyTypes, HydratedNamed
  <2>3. (st' = st \/ st' = Oms!Hydrated(Oms!EmptyState, 0))
        /\ (snap' = snap \/ snap'.state = Oms!EmptyState)
    BY <1>5 DEF Oms!Verify, Oms!Replayed
  <2> QED
    BY <1>2, <2>2, <2>3
<1>6. CASE Oms!SaveSnapshot
  <2>1. /\ st' = st
        /\ snap' = snap \/ snap'.state = Oms!EmptyState \/ snap'.state = st
    BY <1>6 DEF Oms!SaveSnapshot, Oms!Truncate, Oms!WriteFile, Oms!CreateFails
  <2> QED
    BY <1>2, <2>1
<1>7. CASE \/ Oms!Deliver \/ Oms!SkipOld \/ Oms!AckMessage
           \/ \E k \in DOMAIN committed : Oms!Redeliver(k)
  BY <1>2, <1>7 DEF Oms!Deliver, Oms!Redeliver, Oms!SkipOld, Oms!AckMessage
<1>8. CASE Oms!HandleNew
  <2>1. PICK h \in 1..cursor : h = Head(buffer)
    BY <1>1, <1>8, HeadTaken DEF Oms!HandleNew
  <2>2. PICK gv \in 1..Len(log) : gv = committed[h].gv /\ committed[h].event = log[gv]
    <3>1. cursor \in 0..Len(committed) /\ Len(committed) \in Nat
      BY <1>1, StoreTypes DEF StreamOK
    <3>2. h \in DOMAIN committed
      BY <1>1, <3>1, StoreTypes
    <3> QED
      BY <1>1, <3>2, StoreTypes
  <2>3. st' = Oms!Apply(st, gv, log[gv]) /\ gv > st.last /\ snap' = snap
    BY <1>8, <2>1, <2>2 DEF Oms!HandleNew, Oms!IsNew
  <2>4. Len(log) \in Nat /\ gv \in Nat /\ st.last \in Nat /\ gv <= Len(log)
    BY <1>1, StoreTypes DEF OmsState
  <2>5. st.last <= gv
    BY <2>3, <2>4
  <2>6. Named(st, gv)
    BY <1>1, <1>2, <2>4, <2>5, NamedBelow
  <2>7. PICK s : s = Oms!Apply(st, gv, log[gv])
    OBVIOUS
  <2>8. s \in OmsState /\ Named(s, gv)
    BY <1>1, <2>6, <2>7, ApplyNamed
  <2>9. s.last \in Nat /\ s.last <= Len(log)
    BY <2>4, <2>8 DEF Named, OmsState
  <2>10. Named(s, Len(log))
    BY <2>4, <2>8, <2>9, NamedBelow
  <2> QED
    BY <1>2, <2>3, <2>7, <2>10
<1> QED
  BY <1>3, <1>4, <1>5, <1>6, <1>7, <1>8 DEF Oms!OmsSteps, Oms!Booting, Oms!Handling

\* Whatever fails and however often, the OMS never runs ahead of the log, and
\* gives no order a status but one that an event of its intent gave it.
THEOREM NothingInvented == Spec => []ProjectionIsNamed
<1>1. Init => NamedInv
  <2> SUFFICES ASSUME Init PROVE NamedInv
    OBVIOUS
  <2>1. OmsTypes
    BY EmptyTypes DEF Init, Oms!OmsInit, OmsTypes
  <2>2. Named(Oms!EmptyState, Len(log))
    BY BaseInit, EmptyNamed DEF BaseInv
  <2> QED
    BY <2>1, <2>2 DEF Init, Oms!OmsInit, NamedInv, ProjectionIsNamed
<1>2. BaseInv /\ NamedInv /\ [Next]_vars => NamedInv'
  <2> SUFFICES ASSUME BaseInv, NamedInv, [Next]_vars PROVE NamedInv'
    OBVIOUS
  <2>1. CASE RegP!RegistrySteps /\ UNCHANGED omsOwn
    BY <2>1, NamedRegistryStep DEF NamedInv, OmsTypes, omsOwn
  <2>2. CASE Oms!OmsSteps /\ UNCHANGED regOwn
    <3>1. UNCHANGED <<log, committed>>
      BY <2>2 DEF regOwn
    <3>2. Named(st', Len(log)) /\ Named(snap'.state, Len(log))
      BY <2>2, <3>1, NamedOmsStep
    <3>3. ProjectionIsNamed'
      BY <3>1, <3>2 DEF ProjectionIsNamed, Named, Projected
    <3> QED
      BY <2>2, <3>3, OmsTypesStep DEF NamedInv
  <2>3. CASE UNCHANGED vars
    BY <2>3 DEF vars, regOwn, omsOwn, NamedInv, OmsTypes, ProjectionIsNamed, Named, Projected
  <2> QED
    BY <2>1, <2>2, <2>3, SpineSteps
<1>3. NamedInv => ProjectionIsNamed
  BY DEF NamedInv
<1> QED
  BY <1>1, <1>2, <1>3, BaseInvariant, PTL DEF Spec
===============================================================================
