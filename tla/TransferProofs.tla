--------------------------- MODULE TransferProofs ----------------------------
(***************************************************************************)
(* For every number of rows, requests and calls, and whatever fails: what  *)
(* a cursor stages can be resolved, rows are delivered exactly once, and   *)
(* every transfer is acknowledged.                                         *)
(***************************************************************************)
EXTENDS BoundaryTransfers, SequenceTheorems, TLAPS

-----------------------------------------------------------------------------
\* Types.

BatchRecords == [start : Nat, next : Nat, staged : BOOLEAN]

ResourceRecords ==
    [resource : Nat, dataset : Handles \cup {NoHandle}, next : Nat, staged : BatchRecords]

RequestRecords ==
    [operation : Operations, id : Nat, handle : Handles \cup {NoHandle}, of : Nat]

ResponseRecords ==
    [kind : {"success", "error", "transfer_audit"}, operation : Operations, id : Nat,
     handle : Handles \cup {NoHandle}, resource : Nat, batch : BatchRecords]

PortTyped == toWorker \in Seq(RequestRecords) /\ toClient \in Seq(ResponseRecords)

ReadTyped ==
    /\ granted \subseteq [handle : Handles, resource : Nat]
    /\ read \in [phase : {"none", "requested", "transferred"} \cup Resolutions,
                 operation : BinaryOperations \cup {"none"}, id : Nat, received : BOOLEAN,
                 batch : BatchRecords, resource : Nat, resolution : Nat]

-----------------------------------------------------------------------------
\* The inductive invariant. That a batch is never resolved on another cursor than
\* the one that staged it needs handles that are not issued twice while a batch
\* remembers one, and requests and answers that are told apart by their ids. That
\* rows are delivered once needs that a resource has one cursor, that what the
\* client holds of a transfer is what the runtime remembers of it, and that at
\* most one commit is on its way, for the read it belongs to.

AdapterSound ==
    /\ issued \in [Kinds -> Nat] /\ created \in Nat
    /\ \A h \in DOMAIN adapter :
           /\ h \in Handles /\ h.n <= issued[h.kind]
           /\ adapter[h] \in ResourceRecords /\ adapter[h].resource <= created
           /\ adapter[h].staged # NoBatch => adapter[h].staged.start = adapter[h].next
    /\ \A g, h \in DOMAIN adapter : adapter[g].resource = adapter[h].resource => g = h

PendingSound ==
    \A id \in DOMAIN pending :
        /\ pending[id] \in [cursor : Handles, start : Nat, next : Nat, resource : Nat]
        /\ pending[id].cursor.kind = "cursor" /\ pending[id].cursor.n <= issued["cursor"]
        /\ pending[id].cursor \in DOMAIN adapter =>
               adapter[pending[id].cursor].resource = pending[id].resource

StagedKnown ==
    \A h \in DOMAIN adapter : h.kind = "cursor" /\ adapter[h].staged # NoBatch =>
        \E id \in DOMAIN pending :
            /\ pending[id].cursor = h
            /\ Batch(pending[id].start, pending[id].next) = adapter[h].staged

\* A request has an id of its own, and its answers are posted when it is handled.
IdsFresh ==
    /\ nextRequestId \in Nat \ {0}
    /\ \A id \in DOMAIN pending : id \in Nat /\ id < nextRequestId
    /\ \A n \in DOMAIN toWorker :
           /\ 0 < toWorker[n].id /\ toWorker[n].id < nextRequestId
           /\ toWorker[n].id \notin DOMAIN pending
    /\ \A m, n \in DOMAIN toWorker : toWorker[m].id = toWorker[n].id => m = n
    /\ \A n \in DOMAIN toClient :
           /\ 0 < toClient[n].id /\ toClient[n].id < nextRequestId
           /\ \A m \in DOMAIN toWorker : toWorker[m].id # toClient[n].id

RequestsKnown ==
    \A n \in DOMAIN toWorker :
        /\ toWorker[n].operation = "read_packet_batch" => toWorker[n].handle.kind = "cursor"
        /\ toWorker[n].operation = "commit_packet_batch" =>
               /\ read.phase = "commit_packet_batch"
               /\ toWorker[n].id = read.resolution /\ toWorker[n].of = read.id
        /\ read.phase = "commit_packet_batch" /\ toWorker[n].id = read.resolution =>
               toWorker[n].operation = "commit_packet_batch"

\* What the client holds, or is on its way to it, is what the runtime remembers.
Remembered(table, id, batch, resource) ==
    id \in DOMAIN table =>
        batch = Batch(table[id].start, table[id].next) /\ resource = table[id].resource

TransferKnown ==
    /\ read.id < nextRequestId /\ read.resolution < nextRequestId /\ read.resource <= created
    /\ read.phase \in {"transferred", "commit_packet_batch"} => read.received
    /\ read.received =>
           /\ Remembered(pending, read.id, read.batch, read.resource)
           /\ \A n \in DOMAIN toWorker : toWorker[n].id # read.id
    /\ \A n \in DOMAIN toClient :
           /\ toClient[n].resource <= created
           /\ toClient[n].kind = "success" =>
                  Remembered(pending, toClient[n].id, toClient[n].batch, toClient[n].resource)

\* The answer a commit waits for is not taken for that of another call.
AnswersKnown ==
    /\ \A id \in calls : id \in Nat /\ id < nextRequestId
    /\ read.phase = "commit_packet_batch" =>
           /\ read.resolution \notin calls
           /\ \A n \in DOMAIN toClient :
                  toClient[n].id = read.resolution => toClient[n].operation = "commit_packet_batch"

Cursors == {h \in DOMAIN adapter : h.kind = "cursor"}

Even(h) == adapter[h].next = RowsTaken(adapter[h].resource)

Committed ==
    \E n \in DOMAIN toClient : toClient[n].id = read.resolution /\ toClient[n].kind = "success"

Refused ==
    \E n \in DOMAIN toClient : toClient[n].id = read.resolution /\ toClient[n].kind # "success"

\* A cursor is ahead only while the answer to the commit that moved it is on its way.
RowsEven ==
    /\ DOMAIN taken \subseteq 0..created
    /\ \A h \in Cursors :
           \/ Even(h)
           \/ /\ read.phase = "commit_packet_batch" /\ read.resource = adapter[h].resource
              /\ read.batch = Batch(RowsTaken(adapter[h].resource), adapter[h].next)
              /\ Committed
    /\ read.phase = "commit_packet_batch" =>
           /\ Committed => \A h \in Cursors :
                  adapter[h].resource = read.resource => adapter[h].next = read.batch.next
           /\ Refused => \A h \in Cursors : Even(h)

Sound ==
    /\ PortTyped /\ ReadTyped
    /\ AdapterSound /\ PendingSound /\ StagedKnown
    /\ IdsFresh /\ RequestsKnown /\ TransferKnown /\ AnswersKnown
    /\ RowsEven

-----------------------------------------------------------------------------
\* Tables and queues.

\* What is left of a table is what it was.
LEMMA WithoutTable ==
    ASSUME NEW table, NEW gone
    PROVE  /\ DOMAIN Without(table, gone) = DOMAIN table \ gone
           /\ \A k \in DOMAIN table \ gone : Without(table, gone)[k] = table[k]
  BY DEF Without, Restrict

\* What is posted comes last and changes nothing before it.
LEMMA Posted ==
    ASSUME NEW S, NEW s \in Seq(S), NEW m \in S, NEW t, t = Append(s, m)
    PROVE  /\ t \in Seq(S)
           /\ \A n \in DOMAIN s : n \in DOMAIN t /\ t[n] = s[n]
           /\ \A n \in DOMAIN t : n \in DOMAIN s \/ t[n] = m
           /\ \E n \in DOMAIN t : t[n] = m
<1>1. /\ t \in Seq(S) /\ Len(t) = Len(s) + 1 /\ Len(s) \in Nat
      /\ \A n \in 1..Len(s) : t[n] = s[n]
      /\ t[Len(s) + 1] = m
  OBVIOUS
<1>2. DOMAIN s = 1..Len(s) /\ DOMAIN t = 1..Len(s) + 1
  BY <1>1
<1> QED BY <1>1, <1>2

\* The same of two messages.
LEMMA PostedTwice ==
    ASSUME NEW S, NEW s \in Seq(S), NEW a \in S, NEW b \in S, NEW t, t = s \o <<a, b>>
    PROVE  /\ t \in Seq(S)
           /\ \A n \in DOMAIN s : n \in DOMAIN t /\ t[n] = s[n]
           /\ \A n \in DOMAIN t : n \in DOMAIN s \/ t[n] \in {a, b}
<1>1. /\ <<a, b>> \in Seq(S) /\ Len(<<a, b>>) = 2
      /\ <<a, b>>[1] = a /\ <<a, b>>[2] = b /\ Len(s) \in Nat
  OBVIOUS
<1>2. /\ t \in Seq(S) /\ Len(t) = Len(s) + 2
      /\ \A n \in 1..Len(s) + 2 : t[n] = IF n <= Len(s) THEN s[n] ELSE <<a, b>>[n - Len(s)]
  BY <1>1
<1>3. DOMAIN s = 1..Len(s) /\ DOMAIN t = 1..Len(s) + 2
  BY <1>1, <1>2
<1> QED BY <1>1, <1>2, <1>3

\* What is taken comes first, and the rest moves up.
LEMMA Taken ==
    ASSUME NEW S, NEW s \in Seq(S), s # <<>>
    PROVE  /\ 1 \in DOMAIN s /\ s[1] = Head(s) /\ Head(s) \in S
           /\ Tail(s) \in Seq(S)
           /\ \A n \in DOMAIN Tail(s) :
                  n + 1 \in DOMAIN s /\ n + 1 # 1 /\ Tail(s)[n] = s[n + 1]
           /\ \A n \in DOMAIN s : n = 1 \/ \E k \in DOMAIN Tail(s) : Tail(s)[k] = s[n]
<1>1. Len(s) \in Nat \ {0} /\ DOMAIN s = 1..Len(s)
  OBVIOUS
<1>2. /\ Tail(s) \in Seq(S) /\ Len(Tail(s)) = Len(s) - 1
      /\ \A n \in 1..Len(s) - 1 : Tail(s)[n] = s[n + 1]
  BY <1>1
<1>3. DOMAIN Tail(s) = 1..Len(s) - 1
  BY <1>1, <1>2
<1>4. ASSUME NEW n \in DOMAIN s, n # 1
      PROVE  \E k \in DOMAIN Tail(s) : Tail(s)[k] = s[n]
  <2>1. n - 1 \in DOMAIN Tail(s) /\ Tail(s)[n - 1] = s[n]
    BY <1>1, <1>2, <1>3, <1>4
  <2> QED BY <2>1
<1> QED BY <1>1, <1>2, <1>3, <1>4

\* Nothing is live, pending or on its way.
LEMMA InitSound == Init => Sound
<1> SUFFICES ASSUME Init PROVE Sound
  OBVIOUS
<1>1. PortTyped /\ ReadTyped
  BY DEF Init, RuntimeInit, PortTyped, ReadTyped, NoRead, NoBatch, BatchRecords, Resolutions
<1>2. AdapterSound
  BY DEF Init, RuntimeInit, AdapterSound, Nothing, NothingIssued
<1>3. PendingSound /\ StagedKnown
  BY DEF Init, RuntimeInit, PendingSound, StagedKnown, Nothing
<1>4. toWorker = <<>> /\ toClient = <<>> /\ DOMAIN toWorker = {} /\ DOMAIN toClient = {}
  BY DEF Init
<1>5. IdsFresh /\ RequestsKnown
  BY <1>4 DEF Init, RuntimeInit, IdsFresh, RequestsKnown, Nothing
<1>6. TransferKnown
  BY <1>4 DEF Init, RuntimeInit, TransferKnown, Nothing, NoRead, Remembered
<1>7. AnswersKnown
  BY DEF Init, AnswersKnown, NoRead
<1>8. RowsEven
  BY DEF Init, RuntimeInit, RowsEven, Nothing, NoRead, Cursors
<1> QED BY <1>1, <1>2, <1>3, <1>5, <1>6, <1>7, <1>8 DEF Sound

-----------------------------------------------------------------------------
\* The runtime handles a request.

Responds(r) ==
    /\ toClient' \in Seq(ResponseRecords)
    /\ \A n \in DOMAIN toClient : n \in DOMAIN toClient' /\ toClient'[n] = toClient[n]
    /\ \A n \in DOMAIN toClient' :
           \/ n \in DOMAIN toClient
           \/ /\ toClient'[n].id = r.id /\ toClient'[n].operation = r.operation
              /\ toClient'[n].resource <= created'
              /\ toClient'[n].kind = "success" =>
                     Remembered(pending', toClient'[n].id, toClient'[n].batch, toClient'[n].resource)

Takes(r) ==
    /\ toWorker # <<>> /\ r = Head(toWorker) /\ toWorker' = Tail(toWorker)
    /\ UNCHANGED clientVars

\* A request that is handled has an id that neither an answer nor a batch has.
LEMMA TakesFresh ==
    ASSUME Sound, NEW r, Takes(r)
    PROVE  /\ r \in RequestRecords /\ 1 \in DOMAIN toWorker /\ r = toWorker[1]
           /\ r.id \in Nat /\ r.id # 0 /\ r.id < nextRequestId /\ r.id \notin DOMAIN pending
           /\ \A n \in DOMAIN toClient : toClient[n].id # r.id
           /\ toWorker' \in Seq(RequestRecords)
           /\ \A n \in DOMAIN toWorker' :
                  n + 1 \in DOMAIN toWorker /\ n + 1 # 1 /\ toWorker'[n] = toWorker[n + 1]
<1>1. toWorker \in Seq(RequestRecords)
  BY DEF Sound, PortTyped
<1>2. /\ r \in RequestRecords /\ 1 \in DOMAIN toWorker /\ r = toWorker[1]
      /\ toWorker' \in Seq(RequestRecords)
      /\ \A n \in DOMAIN toWorker' :
             n + 1 \in DOMAIN toWorker /\ n + 1 # 1 /\ toWorker'[n] = toWorker[n + 1]
  BY <1>1, Taken DEF Takes
<1> QED BY <1>2 DEF Sound, IdsFresh, RequestRecords

\* What keeps the invariant of the requests and of the client's read.
LEMMA HandledKnown ==
    ASSUME Sound, NEW r, Takes(r), Responds(r), created' \in Nat, created <= created',
           \A id \in DOMAIN pending' :
               id = r.id \/ (id \in DOMAIN pending /\ pending'[id] = pending[id])
    PROVE  /\ PortTyped' /\ ReadTyped'
           /\ IdsFresh' /\ RequestsKnown' /\ TransferKnown' /\ AnswersKnown'
<1>1. UNCHANGED <<nextRequestId, read, granted, calls>>
  BY DEF Takes, clientVars
<1>2. PortTyped'
  BY TakesFresh DEF PortTyped, Responds
<1>3. ReadTyped'
  BY <1>1 DEF Sound, ReadTyped
<1>4. IdsFresh'
  <2>1. \A n \in DOMAIN toWorker' :
            /\ 0 < toWorker'[n].id /\ toWorker'[n].id < nextRequestId
            /\ toWorker'[n].id # r.id /\ toWorker'[n].id \notin DOMAIN pending
    BY TakesFresh DEF Sound, IdsFresh
  <2>2. \A m, n \in DOMAIN toWorker' : toWorker'[m].id = toWorker'[n].id => m = n
    <3> SUFFICES ASSUME NEW m \in DOMAIN toWorker', NEW n \in DOMAIN toWorker',
                        toWorker'[m].id = toWorker'[n].id
                 PROVE  m = n
      OBVIOUS
    <3>1. m + 1 = n + 1
      BY TakesFresh DEF Sound, IdsFresh
    <3>2. m \in Nat /\ n \in Nat
      BY TakesFresh
    <3> QED BY <3>1, <3>2
  <2>3. \A n \in DOMAIN toClient' :
            /\ 0 < toClient'[n].id /\ toClient'[n].id < nextRequestId
            /\ \A m \in DOMAIN toWorker' : toWorker'[m].id # toClient'[n].id
    BY <2>1, TakesFresh DEF Sound, IdsFresh, Responds
  <2>4. \A id \in DOMAIN pending' : id \in Nat /\ id < nextRequestId
    BY TakesFresh DEF Sound, IdsFresh
  <2>5. \A n \in DOMAIN toWorker' : toWorker'[n].id \notin DOMAIN pending'
    BY <2>1
  <2> QED BY <1>1, <2>1, <2>2, <2>3, <2>4, <2>5 DEF Sound, IdsFresh
<1>5. RequestsKnown'
  BY <1>1, TakesFresh DEF Sound, RequestsKnown
<1>6. TransferKnown'
  <2>1. read.id \in Nat /\ read.resource \in Nat /\ created \in Nat
    BY DEF Sound, ReadTyped, AdapterSound
  <2>2. read.received => read.id # r.id
    BY TakesFresh DEF Sound, TransferKnown
  <2>3. read.received => Remembered(pending', read.id, read.batch, read.resource)
    BY <1>1, <2>2 DEF Sound, TransferKnown, Remembered
  <2>4. \A n \in DOMAIN toWorker' : read.received => toWorker'[n].id # read.id
    BY TakesFresh DEF Sound, TransferKnown
  <2>5. \A n \in DOMAIN toClient' :
            /\ toClient'[n].resource <= created'
            /\ toClient'[n].kind = "success" =>
                   Remembered(pending', toClient'[n].id, toClient'[n].batch, toClient'[n].resource)
    <3> SUFFICES ASSUME NEW n \in DOMAIN toClient', n \in DOMAIN toClient
                 PROVE  /\ toClient'[n].resource <= created'
                        /\ toClient'[n].kind = "success" =>
                               Remembered(pending', toClient'[n].id, toClient'[n].batch,
                                          toClient'[n].resource)
      BY DEF Responds
    <3>1. toClient'[n] = toClient[n] /\ toClient[n] \in ResponseRecords /\ toClient[n].id # r.id
      BY TakesFresh DEF Responds, Sound, PortTyped
    <3>2. toClient[n].resource \in Nat
      BY <3>1 DEF ResponseRecords
    <3>3. toClient'[n].resource <= created'
      BY <2>1, <3>1, <3>2 DEF Sound, TransferKnown
    <3> QED BY <3>1, <3>3 DEF Sound, TransferKnown, Remembered
  <2> QED BY <1>1, <2>1, <2>3, <2>4, <2>5 DEF Sound, TransferKnown
<1>7. AnswersKnown'
  <2>1. read.phase = "commit_packet_batch" /\ r.id = read.resolution
            => r.operation = "commit_packet_batch"
    BY TakesFresh DEF Sound, RequestsKnown
  <2> QED BY <1>1, <2>1 DEF Sound, AnswersKnown, Responds
<1> QED BY <1>2, <1>3, <1>4, <1>5, <1>6, <1>7

\* What keeps the rows even: cursors stay where they are or begin with no rows
\* taken, and a commit that does not succeed moves none.
LEMMA HandledEven ==
    ASSUME Sound, NEW r, Takes(r), Responds(r), created' \in Nat, created <= created',
           \A h \in Cursors' :
               \/ /\ h \in Cursors
                  /\ adapter'[h].resource = adapter[h].resource
                  /\ adapter'[h].next = adapter[h].next
               \/ created < adapter'[h].resource /\ adapter'[h].next = 0,
           r.operation = "commit_packet_batch" =>
               \A n \in DOMAIN toClient' :
                   n \in DOMAIN toClient \/ toClient'[n].kind # "success"
    PROVE  RowsEven'
<1>1. UNCHANGED <<read, taken>>
  BY DEF Takes, clientVars
<1>2. created \in Nat /\ read.resource \in Nat /\ read.resource <= created
  BY DEF Sound, AdapterSound, ReadTyped, TransferKnown
<1>3. DOMAIN taken \subseteq 0..created
  BY DEF Sound, RowsEven
<1>4. \A h \in Cursors' : h \notin Cursors => Even(h)' /\ adapter'[h].resource # read.resource
  <2> SUFFICES ASSUME NEW h \in Cursors', h \notin Cursors
               PROVE  Even(h)' /\ adapter'[h].resource # read.resource
    OBVIOUS
  <2>1. created < adapter'[h].resource /\ adapter'[h].next = 0
    OBVIOUS
  <2>2. adapter'[h].resource \notin 0..created
    BY <1>2, <2>1
  <2> QED BY <1>1, <1>2, <1>3, <2>1, <2>2 DEF Even, RowsTaken
<1>5. \A h \in Cursors' :
          (h \in Cursors /\ Even(h)) \/ created < adapter'[h].resource => Even(h)'
  <2> SUFFICES ASSUME NEW h \in Cursors'
               PROVE  (h \in Cursors /\ Even(h)) \/ created < adapter'[h].resource => Even(h)'
    OBVIOUS
  <2>1. CASE created < adapter'[h].resource /\ adapter'[h].next = 0
    <3>1. adapter'[h].resource \notin 0..created
      BY <1>2, <2>1
    <3> QED BY <1>1, <1>3, <2>1, <3>1 DEF Even, RowsTaken
  <2>2. CASE /\ h \in Cursors
             /\ adapter'[h].resource = adapter[h].resource
             /\ adapter'[h].next = adapter[h].next
    <3>1. adapter[h].resource <= created /\ adapter[h].resource \in Nat
      BY <2>2 DEF Sound, AdapterSound, Cursors, ResourceRecords
    <3> QED BY <1>1, <1>2, <2>2, <3>1 DEF Even, RowsTaken
  <2> QED BY <2>1, <2>2
<1>6. CASE read.phase = "commit_packet_batch" /\ r.id = read.resolution
  <2>1. r.operation = "commit_packet_batch"
    BY <1>6, TakesFresh DEF Sound, RequestsKnown
  <2>2. \A n \in DOMAIN toClient : toClient[n].id # read.resolution
    BY <1>6, TakesFresh
  <2>3. ~Committed /\ ~Committed'
    BY <1>1, <2>1, <2>2 DEF Committed, Responds
  <2>4. \A h \in Cursors : Even(h)
    BY <2>3 DEF Sound, RowsEven
  <2>5. \A h \in Cursors' : Even(h)'
    BY <1>5, <2>4
  <2> QED BY <1>1, <1>2, <1>3, <2>3, <2>5 DEF RowsEven
<1>7. CASE read.phase = "commit_packet_batch" /\ r.id # read.resolution
  <2>1. (Committed' <=> Committed) /\ (Refused' <=> Refused)
    BY <1>1, <1>7 DEF Committed, Refused, Responds
  <2>2. \A h \in Cursors' :
            \/ Even(h)'
            \/ /\ read.resource = adapter'[h].resource
               /\ read.batch = Batch(RowsTaken(adapter'[h].resource), adapter'[h].next)
               /\ Committed'
    BY <1>4, <1>5, <2>1 DEF Sound, RowsEven
  <2>3. Committed' =>
            \A h \in Cursors' : adapter'[h].resource = read.resource
                                    => adapter'[h].next = read.batch.next
    <3>1. Committed' =>
              \A h \in Cursors : adapter[h].resource = read.resource
                                     => adapter[h].next = read.batch.next
      BY <1>7, <2>1 DEF Sound, RowsEven
    <3>2. \A h \in Cursors' : adapter'[h].resource = read.resource =>
              /\ h \in Cursors /\ adapter[h].resource = read.resource
              /\ adapter'[h].next = adapter[h].next
      <4> SUFFICES ASSUME NEW h \in Cursors', adapter'[h].resource = read.resource
                   PROVE  ~(created < adapter'[h].resource)
        OBVIOUS
      <4> QED BY <1>2
    <3> QED BY <3>1, <3>2
  <2>4. Refused' => \A h \in Cursors' : Even(h)'
    BY <1>4, <1>5, <1>7, <2>1 DEF Sound, RowsEven
  <2>5. \A x : RowsTaken(x)' = RowsTaken(x)
    BY <1>1 DEF RowsTaken
  <2>6. DOMAIN taken' \subseteq 0..created'
    BY <1>1, <1>2, <1>3
  <2> QED BY <1>1, <1>7, <2>2, <2>3, <2>4, <2>5, <2>6 DEF RowsEven
<1>8. CASE read.phase # "commit_packet_batch"
  <2>1. \A h \in Cursors : Even(h)
    BY <1>8 DEF Sound, RowsEven
  <2> QED BY <1>1, <1>2, <1>3, <1>5, <1>8, <2>1 DEF RowsEven
<1> QED BY <1>6, <1>7, <1>8

\* Resources may go, with what is remembered of them.
LEMMA LosesSound ==
    ASSUME Sound, UNCHANGED <<issued, created>>,
           \A h \in DOMAIN adapter' : h \in DOMAIN adapter /\ adapter'[h] = adapter[h],
           \A id \in DOMAIN pending' : id \in DOMAIN pending /\ pending'[id] = pending[id]
    PROVE  AdapterSound' /\ PendingSound'
  BY DEF Sound, AdapterSound, PendingSound

\* An answer without a value.
LEMMA AnswersRespond ==
    ASSUME Sound, NEW r, Takes(r), NEW kind \in {"success", "error"},
           toClient' = Append(toClient, Answer(kind, r)), created' \in Nat,
           r.id \notin DOMAIN pending'
    PROVE  /\ Responds(r)
           /\ \A n \in DOMAIN toClient' : n \in DOMAIN toClient \/ toClient'[n].kind = kind
<1> DEFINE m == Answer(kind, r)
<1>1. /\ m = [kind |-> kind, operation |-> r.operation, id |-> r.id, handle |-> NoHandle,
              resource |-> 0, batch |-> NoBatch]
  BY DEF Answer, Response
<1>2. m \in ResponseRecords
  BY <1>1, TakesFresh DEF ResponseRecords, RequestRecords, BatchRecords, NoBatch
<1>3. /\ toClient' \in Seq(ResponseRecords)
      /\ \A n \in DOMAIN toClient : n \in DOMAIN toClient' /\ toClient'[n] = toClient[n]
      /\ \A n \in DOMAIN toClient' : n \in DOMAIN toClient \/ toClient'[n] = m
  <2> HIDE DEF m
  <2> QED BY <1>2, Posted DEF Sound, PortTyped, m
<1> QED BY <1>1, <1>3 DEF Responds, Remembered

\* What a cursor stages stays remembered, unless its cursor goes or stages nothing.
LEMMA StagedStays ==
    ASSUME StagedKnown,
           \A h \in DOMAIN adapter' : h.kind = "cursor" /\ adapter'[h].staged # NoBatch =>
               h \in DOMAIN adapter /\ adapter'[h].staged = adapter[h].staged,
           \A id \in DOMAIN pending :
               \/ id \in DOMAIN pending' /\ pending'[id] = pending[id]
               \/ pending[id].cursor \notin DOMAIN adapter'
               \/ adapter'[pending[id].cursor].staged = NoBatch
    PROVE  StagedKnown'
<1> SUFFICES ASSUME NEW h \in DOMAIN adapter', h.kind = "cursor", adapter'[h].staged # NoBatch
             PROVE  \E id \in DOMAIN pending' :
                        /\ pending'[id].cursor = h
                        /\ Batch(pending'[id].start, pending'[id].next) = adapter'[h].staged
  BY DEF StagedKnown, Batch
<1>1. PICK id \in DOMAIN pending : /\ pending[id].cursor = h
                                  /\ Batch(pending[id].start, pending[id].next) = adapter[h].staged
  BY DEF StagedKnown
<1>2. id \in DOMAIN pending' /\ pending'[id] = pending[id]
  BY <1>1
<1> QED BY <1>1, <1>2

\* A request that only answers, and by which nothing but resources and what is
\* remembered of them may go.
LEMMA LosesHandled ==
    ASSUME Sound, NEW r, Takes(r), NEW kind \in {"success", "error"},
           toClient' = Append(toClient, Answer(kind, r)), UNCHANGED <<issued, created>>,
           \A h \in DOMAIN adapter' : h \in DOMAIN adapter /\ adapter'[h] = adapter[h],
           \A id \in DOMAIN pending' : id \in DOMAIN pending /\ pending'[id] = pending[id],
           StagedKnown',
           r.operation = "commit_packet_batch" => kind = "error"
    PROVE  Sound'
<1>1. created \in Nat /\ created' \in Nat /\ created <= created'
  BY DEF Sound, AdapterSound
<1>2. r.id \notin DOMAIN pending'
  BY TakesFresh
<1>3. /\ Responds(r)
      /\ \A n \in DOMAIN toClient' : n \in DOMAIN toClient \/ toClient'[n].kind = kind
  BY <1>1, <1>2, AnswersRespond
<1>4. RowsEven'
  BY <1>1, <1>3, HandledEven DEF Cursors
<1>5. PortTyped' /\ ReadTyped' /\ IdsFresh' /\ RequestsKnown' /\ TransferKnown' /\ AnswersKnown'
  BY <1>1, <1>3, HandledKnown
<1> QED BY <1>4, <1>5, LosesSound DEF Sound

\* A request that is refused changes nothing.
LEMMA RefusesSound ==
    ASSUME Sound, NEW r, Takes(r), Refuses(r)
    PROVE  Sound'
<1>1. /\ adapter' = adapter /\ UNCHANGED <<issued, created>>
      /\ toClient' = Append(toClient, Answer("error", r))
      /\ pending' = Without(pending, {r.id})
  BY TakesFresh DEF Refuses, Fails
<1>2. /\ DOMAIN Without(pending, {r.id}) = DOMAIN pending \ {r.id}
      /\ \A id \in DOMAIN pending \ {r.id} : Without(pending, {r.id})[id] = pending[id]
  BY WithoutTable
<1>3. \A id \in DOMAIN pending : id \in DOMAIN pending' /\ pending'[id] = pending[id]
  BY <1>1, <1>2, TakesFresh
<1>4. \A id \in DOMAIN pending' : id \in DOMAIN pending /\ pending'[id] = pending[id]
  BY <1>1, <1>2
<1>5. StagedKnown'
  BY <1>1, <1>3, StagedStays DEF Sound
<1> QED BY <1>1, <1>4, <1>5, LosesHandled

\* A new resource has a handle that no resource and no batch has had.
LEMMA IssuesSound ==
    ASSUME Sound, NEW r, Takes(r), NEW kind \in Kinds, NEW dataset \in Handles \cup {NoHandle},
           NEW consumed, Issues(r, kind, dataset, consumed), r.operation # "commit_packet_batch"
    PROVE  Sound'
<1> DEFINE h == NewHandle(kind)
           value == Resource(dataset)
           m == Response("success", r, h, created + 1, NoBatch)
           rest == Without(adapter, consumed)
<1>1. /\ adapter' = With(rest, h, value)
      /\ issued' = [issued EXCEPT ![kind] = @ + 1] /\ created' = created + 1
      /\ toClient' = Append(toClient, m) /\ pending' = pending
  BY DEF Issues
<1>2. issued \in [Kinds -> Nat] /\ created \in Nat
  BY DEF Sound, AdapterSound
<1>3. h \in Handles /\ h.kind = kind /\ h.n = issued[kind] + 1
  BY <1>2 DEF NewHandle, Handles
<1>4. /\ value \in ResourceRecords /\ value.resource = created + 1 /\ value.next = 0
      /\ value.staged = NoBatch
  BY <1>2 DEF Resource, ResourceRecords, BatchRecords, NoBatch
<1>5. /\ m \in ResponseRecords /\ m.id = r.id /\ m.operation = r.operation
      /\ m.resource = created + 1 /\ m.kind = "success"
  BY <1>2, <1>3, TakesFresh
     DEF Response, ResponseRecords, RequestRecords, BatchRecords, NoBatch
<1> HIDE DEF h, value, m
<1>6. /\ DOMAIN rest = DOMAIN adapter \ consumed
      /\ \A g \in DOMAIN adapter \ consumed : rest[g] = adapter[g]
  BY WithoutTable
<1>7. h \notin DOMAIN adapter
  BY <1>2, <1>3 DEF Sound, AdapterSound
<1>8. /\ DOMAIN adapter' = (DOMAIN adapter \ consumed) \cup {h}
      /\ adapter'[h] = value
      /\ \A g \in DOMAIN adapter' : g # h => g \in DOMAIN adapter /\ adapter'[g] = adapter[g]
  <2> HIDE DEF rest
  <2>1. /\ DOMAIN With(rest, h, value) = DOMAIN rest \cup {h}
        /\ With(rest, h, value)[h] = value
        /\ \A k \in DOMAIN rest : k # h => With(rest, h, value)[k] = rest[k]
    BY DEF With
  <2> QED BY <1>1, <1>6, <2>1
<1>9. /\ issued' \in [Kinds -> Nat] /\ issued'[kind] = issued[kind] + 1
      /\ \A k \in Kinds : issued[k] <= issued'[k] /\ issued[k] \in Nat /\ issued'[k] \in Nat
      /\ created' \in Nat /\ created <= created'
  BY <1>1, <1>2
<1>10. AdapterSound'
  <2>1. \A g \in DOMAIN adapter' :
            /\ g \in Handles /\ g.n <= issued'[g.kind]
            /\ adapter'[g] \in ResourceRecords /\ adapter'[g].resource <= created'
            /\ adapter'[g].staged # NoBatch => adapter'[g].staged.start = adapter'[g].next
    <3> SUFFICES ASSUME NEW g \in DOMAIN adapter'
                 PROVE  /\ g \in Handles /\ g.n <= issued'[g.kind]
                        /\ adapter'[g] \in ResourceRecords /\ adapter'[g].resource <= created'
                        /\ adapter'[g].staged # NoBatch
                               => adapter'[g].staged.start = adapter'[g].next
      OBVIOUS
    <3>1. CASE g = h
      BY <1>1, <1>2, <1>3, <1>4, <1>8, <1>9, <3>1
    <3>2. CASE g # h
      <4>1. /\ g \in DOMAIN adapter /\ adapter'[g] = adapter[g] /\ g \in Handles
            /\ g.kind \in Kinds /\ g.n \in Nat
            /\ adapter[g] \in ResourceRecords /\ adapter[g].resource \in Nat
        BY <1>8, <3>2 DEF Sound, AdapterSound, Handles, ResourceRecords
      <4>2. g.n <= issued[g.kind] /\ adapter[g].resource <= created
            /\ (adapter[g].staged # NoBatch => adapter[g].staged.start = adapter[g].next)
        BY <4>1 DEF Sound, AdapterSound
      <4>3. g.n <= issued'[g.kind] /\ adapter[g].resource <= created'
        BY <1>2, <1>9, <4>1, <4>2
      <4> QED BY <4>1, <4>2, <4>3
    <3> QED BY <3>1, <3>2
  <2>2. \A g \in DOMAIN adapter' : g # h =>
            g \in DOMAIN adapter /\ adapter'[g].resource = adapter[g].resource
            /\ adapter'[g].resource # created + 1
    BY <1>2, <1>8 DEF Sound, AdapterSound, ResourceRecords
  <2>3. \A f, g \in DOMAIN adapter' : adapter'[f].resource = adapter'[g].resource => f = g
    BY <1>4, <1>8, <2>2 DEF Sound, AdapterSound
  <2> QED BY <1>9, <2>1, <2>3 DEF AdapterSound
<1>11. PendingSound'
  <2> SUFFICES ASSUME NEW id \in DOMAIN pending
               PROVE  /\ pending[id] \in [cursor : Handles, start : Nat, next : Nat, resource : Nat]
                      /\ pending[id].cursor.kind = "cursor"
                      /\ pending[id].cursor.n <= issued'["cursor"]
                      /\ pending[id].cursor \in DOMAIN adapter' =>
                             adapter'[pending[id].cursor].resource = pending[id].resource
    BY <1>1 DEF PendingSound
  <2>1. /\ pending[id] \in [cursor : Handles, start : Nat, next : Nat, resource : Nat]
        /\ pending[id].cursor.kind = "cursor" /\ pending[id].cursor.n <= issued["cursor"]
        /\ pending[id].cursor \in DOMAIN adapter =>
               adapter[pending[id].cursor].resource = pending[id].resource
    BY DEF Sound, PendingSound
  <2>2. pending[id].cursor.n \in Nat /\ "cursor" \in Kinds
    BY <2>1 DEF Handles, Kinds
  <2>3. pending[id].cursor # h
    BY <1>2, <1>3, <2>1, <2>2
  <2>4. pending[id].cursor.n <= issued'["cursor"]
    BY <1>2, <1>9, <2>1, <2>2
  <2> QED BY <1>8, <2>1, <2>3, <2>4
<1>12. StagedKnown'
  BY <1>1, <1>4, <1>8, StagedStays DEF Sound
<1>13. Responds(r)
  <2>1. /\ toClient' \in Seq(ResponseRecords)
        /\ \A n \in DOMAIN toClient : n \in DOMAIN toClient' /\ toClient'[n] = toClient[n]
        /\ \A n \in DOMAIN toClient' : n \in DOMAIN toClient \/ toClient'[n] = m
    BY <1>1, <1>5, Posted DEF Sound, PortTyped
  <2>2. r.id \notin DOMAIN pending'
    BY <1>1, TakesFresh
  <2>3. m.resource <= created'
    BY <1>1, <1>2, <1>5
  <2> QED BY <1>5, <2>1, <2>2, <2>3 DEF Responds, Remembered
<1>14. RowsEven'
  <2>1. \A g \in Cursors' :
            \/ /\ g \in Cursors
               /\ adapter'[g].resource = adapter[g].resource
               /\ adapter'[g].next = adapter[g].next
            \/ created < adapter'[g].resource /\ adapter'[g].next = 0
    BY <1>2, <1>4, <1>8 DEF Cursors
  <2> QED BY <1>9, <1>13, <2>1, HandledEven
<1>15. PortTyped' /\ ReadTyped' /\ IdsFresh' /\ RequestsKnown' /\ TransferKnown' /\ AnswersKnown'
  BY <1>1, <1>9, <1>13, HandledKnown
<1> QED BY <1>10, <1>11, <1>12, <1>14, <1>15 DEF Sound

\* What a failed request leaves, when it staged no batch.
LEMMA FailsPlain ==
    ASSUME NEW r, NEW table, NEW batches, Fails(r, table, batches), r.id \notin DOMAIN batches
    PROVE  /\ adapter' = table /\ toClient' = Append(toClient, Answer("error", r))
           /\ DOMAIN pending' = DOMAIN batches
           /\ \A id \in DOMAIN batches : pending'[id] = batches[id]
<1>1. /\ DOMAIN Without(batches, {r.id}) = DOMAIN batches
      /\ \A id \in DOMAIN batches : Without(batches, {r.id})[id] = batches[id]
  BY DEF Without, Restrict
<1> QED BY <1>1 DEF Fails

\* An import that ends takes only itself.
LEMMA StepImportSound ==
    ASSUME Sound, NEW r, Takes(r), StepImport(r), r.operation = "step_import"
    PROVE  Sound'
<1>1. CASE Issues(r, "dataset", NoHandle, {r.handle})
  BY <1>1, IssuesSound DEF Kinds
<1>2. CASE Succeeds(r) /\ UNCHANGED <<adapter, issued, outstanding, pending, created>>
  <2>1. StagedKnown'
    BY <1>2, StagedStays DEF Sound
  <2> QED BY <1>2, <2>1, LosesHandled DEF Succeeds
<1>3. CASE Fails(r, Without(adapter, {r.handle}), pending)
           /\ UNCHANGED <<issued, outstanding, created>>
  <2>1. /\ adapter' = Without(adapter, {r.handle})
        /\ toClient' = Append(toClient, Answer("error", r))
        /\ DOMAIN pending' = DOMAIN pending
        /\ \A id \in DOMAIN pending : pending'[id] = pending[id]
    BY <1>3, TakesFresh, FailsPlain
  <2>2. \A h \in DOMAIN adapter' : h \in DOMAIN adapter /\ adapter'[h] = adapter[h]
    BY <2>1 DEF Without, Restrict
  <2>3. StagedKnown'
    BY <2>1, <2>2, StagedStays DEF Sound
  <2> QED BY <1>3, <2>1, <2>2, <2>3, LosesHandled
<1> QED BY <1>1, <1>2, <1>3, RefusesSound DEF StepImport

\* What is disposed goes with its cursors, and what was staged on them.
LEMMA DisposedLoses ==
    ASSUME NEW table, NEW h
    PROVE  /\ \A g \in DOMAIN Disposed(table, h) :
                  g \in DOMAIN table /\ g # h /\ Disposed(table, h)[g] = table[g]
  BY DEF Disposed, Without, Restrict

LEMMA DisposeSound ==
    ASSUME Sound, NEW r, Takes(r), Dispose(r), r.operation # "commit_packet_batch"
    PROVE  Sound'
<1>1. \A h \in DOMAIN adapter' : h \in DOMAIN adapter /\ adapter'[h] = adapter[h]
  BY DisposedLoses DEF Dispose
<1>2. StagedKnown'
  BY <1>1, StagedStays DEF Sound, Dispose
<1> QED BY <1>1, <1>2, LosesHandled DEF Dispose, Succeeds

\* After a shutdown nothing is staged, and nothing pending can be resolved on a
\* cursor that a new adapter issues under an old handle.
LEMMA ShutdownSound ==
    ASSUME Sound, NEW r, Takes(r), Shutdown(r), r.operation = "shutdown"
    PROVE  Sound'
<1>1. /\ DOMAIN adapter' = {} /\ DOMAIN pending' = {} /\ created' = created
      /\ toClient' = Append(toClient, Answer("success", r)) /\ issued' = NothingIssued
  BY DEF Shutdown, Nothing, Succeeds
<1>2. created \in Nat
  BY DEF Sound, AdapterSound
<1>3. issued' \in [Kinds -> Nat]
  BY <1>1 DEF NothingIssued
<1>4. AdapterSound' /\ PendingSound' /\ StagedKnown'
  BY <1>1, <1>2, <1>3 DEF AdapterSound, PendingSound, StagedKnown
<1>5. Responds(r)
  BY <1>1, <1>2, AnswersRespond
<1>6. RowsEven'
  BY <1>1, <1>2, <1>5, HandledEven DEF Cursors
<1>7. PortTyped' /\ ReadTyped' /\ IdsFresh' /\ RequestsKnown' /\ TransferKnown' /\ AnswersKnown'
  BY <1>1, <1>2, <1>5, HandledKnown
<1> QED BY <1>4, <1>6, <1>7 DEF Sound

\* The value of a binary response and its audit.
LEMMA TransfersRespond ==
    ASSUME Sound, NEW r, Takes(r), NEW batch \in BatchRecords, Transfers(r, batch),
           r.handle \in DOMAIN adapter,
           Remembered(pending', r.id, batch, adapter[r.handle].resource)
    PROVE  Responds(r)
<1> DEFINE resource == adapter[r.handle].resource
           value == Response("success", r, r.handle, resource, batch)
           audit == Answer("transfer_audit", r)
<1>1. toClient' = toClient \o <<value, audit>> /\ created' = created
  BY DEF Transfers
<1>2. /\ created \in Nat /\ resource \in Nat /\ resource <= created
      /\ r.handle \in Handles
  BY DEF Sound, AdapterSound, ResourceRecords
<1>3. /\ value \in ResponseRecords /\ value.id = r.id /\ value.operation = r.operation
      /\ value.batch = batch /\ value.resource = resource
  BY <1>2, TakesFresh DEF Response, ResponseRecords, RequestRecords
<1>4. /\ audit \in ResponseRecords /\ audit.id = r.id /\ audit.operation = r.operation
      /\ audit.resource = 0 /\ audit.kind = "transfer_audit"
  BY TakesFresh DEF Answer, Response, ResponseRecords, RequestRecords, BatchRecords, NoBatch
<1> HIDE DEF value, audit
<1>5. /\ toClient' \in Seq(ResponseRecords)
      /\ \A n \in DOMAIN toClient : n \in DOMAIN toClient' /\ toClient'[n] = toClient[n]
      /\ \A n \in DOMAIN toClient' : n \in DOMAIN toClient \/ toClient'[n] \in {value, audit}
  BY <1>1, <1>3, <1>4, PostedTwice DEF Sound, PortTyped
<1> HIDE DEF resource
<1> QED BY <1>1, <1>2, <1>3, <1>4, <1>5 DEF Responds, resource

\* A resolution moves one cursor, and it stages nothing any more.
LEMMA ResolvedTable ==
    ASSUME NEW table, NEW batch, NEW next \in Nat,
           batch.cursor \in DOMAIN table, table[batch.cursor] \in ResourceRecords
    PROVE  /\ DOMAIN Resolved(table, batch, next) = DOMAIN table
           /\ \A h \in DOMAIN table : h # batch.cursor => Resolved(table, batch, next)[h] = table[h]
           /\ Resolved(table, batch, next)[batch.cursor]
                  = [resource |-> table[batch.cursor].resource,
                     dataset |-> table[batch.cursor].dataset, next |-> next, staged |-> NoBatch]
           /\ Resolved(table, batch, next)[batch.cursor] \in ResourceRecords
<1> DEFINE c == batch.cursor
           moved == [table EXCEPT ![c].next = next]
           resolved == [moved EXCEPT ![c].staged = NoBatch]
<1>1. Resolved(table, batch, next) = resolved
  BY DEF Resolved
<1>2. DOMAIN moved = DOMAIN table /\ moved[c] = [table[c] EXCEPT !.next = next]
      /\ \A h \in DOMAIN table : h # c => moved[h] = table[h]
  OBVIOUS
<1>3. moved[c] = [resource |-> table[c].resource, dataset |-> table[c].dataset,
                  next |-> next, staged |-> table[c].staged]
  BY <1>2 DEF ResourceRecords
<1> HIDE DEF moved
<1>4. /\ DOMAIN resolved = DOMAIN table /\ resolved[c] = [moved[c] EXCEPT !.staged = NoBatch]
      /\ \A h \in DOMAIN table : h # c => resolved[h] = table[h]
  BY <1>2
<1>5. resolved[c] = [resource |-> table[c].resource, dataset |-> table[c].dataset,
                     next |-> next, staged |-> NoBatch]
  BY <1>3, <1>4
<1>6. resolved[c] \in ResourceRecords
  <2>1. table[c].resource \in Nat /\ table[c].dataset \in Handles \cup {NoHandle}
    BY DEF ResourceRecords
  <2>2. NoBatch \in BatchRecords
    BY DEF BatchRecords, NoBatch
  <2> QED BY <1>5, <2>1, <2>2 DEF ResourceRecords
<1> HIDE DEF resolved
<1> QED BY <1>1, <1>4, <1>5, <1>6

\* A batch is staged and remembered together, and sent with its audit; one that
\* cannot be sent is taken back, and one that is invalid takes its cursor away.
LEMMA ReadPacketBatchSound ==
    ASSUME Sound, NEW r, Takes(r), ReadPacketBatch(r), r.operation = "read_packet_batch"
    PROVE  Sound'
<1> SUFFICES ASSUME ~Refuses(r) PROVE Sound'
  BY RefusesSound
<1>0. PICK next \in Offered(adapter[r.handle]) :
          /\ r.handle \in DOMAIN adapter /\ adapter[r.handle].staged = NoBatch
          /\ LET start   == adapter[r.handle].next
                 table   == [adapter EXCEPT ![r.handle].staged = Batch(start, next)]
                 batches == With(pending, r.id,
                                 [cursor |-> r.handle, start |-> start, next |-> next,
                                  resource |-> adapter[r.handle].resource])
             IN  \/ /\ adapter' = table /\ pending' = batches
                    /\ Transfers(r, Batch(start, next))
                 \/ DropsCorruptCursor(r, table)
                 \/ /\ Fails(r, table, batches)
                    /\ UNCHANGED <<issued, outstanding, created>>
  BY DEF ReadPacketBatch
<1> DEFINE c == r.handle
           start == adapter[c].next
           table == [adapter EXCEPT ![c].staged = Batch(start, next)]
           entry == [cursor |-> c, start |-> start, next |-> next, resource |-> adapter[c].resource]
           batches == With(pending, r.id, entry)
<1>1. /\ c \in Handles /\ c.kind = "cursor" /\ c.n <= issued["cursor"]
      /\ adapter[c] \in ResourceRecords /\ adapter[c].resource <= created
      /\ start \in Nat /\ adapter[c].resource \in Nat /\ created \in Nat
      /\ issued \in [Kinds -> Nat]
  BY <1>0, TakesFresh DEF Sound, AdapterSound, RequestsKnown, ResourceRecords
<1>2. next \in Nat
  BY <1>0, <1>1, BoundsAssumption DEF Offered
<1>3. Batch(start, next) \in BatchRecords /\ Batch(start, next).start = start
  BY <1>1, <1>2 DEF Batch, BatchRecords
<1>4. /\ DOMAIN table = DOMAIN adapter
      /\ table[c].staged = Batch(start, next) /\ table[c].next = start
      /\ table[c].resource = adapter[c].resource /\ table[c].dataset = adapter[c].dataset
      /\ table[c] \in ResourceRecords
      /\ \A h \in DOMAIN table : h # c => table[h] = adapter[h]
  BY <1>0, <1>1, <1>3 DEF ResourceRecords
<1>5. /\ entry \in [cursor : Handles, start : Nat, next : Nat, resource : Nat]
      /\ entry.cursor = c /\ entry.start = start /\ entry.next = next
      /\ entry.resource = adapter[c].resource
  BY <1>1, <1>2
<1>6. /\ DOMAIN batches = DOMAIN pending \cup {r.id} /\ batches[r.id] = entry
      /\ \A id \in DOMAIN pending : batches[id] = pending[id]
  BY TakesFresh DEF With
<1> HIDE DEF c, start, table, entry, batches
<1>7. CASE adapter' = table /\ pending' = batches /\ Transfers(r, Batch(start, next))
  <2>1. UNCHANGED <<issued, created>>
    BY <1>7 DEF Transfers
  <2>5. Remembered(pending', r.id, Batch(start, next), adapter[c].resource)
    BY <1>5, <1>6, <1>7 DEF Remembered
  <2>6. Responds(r)
    BY <1>0, <1>1, <1>3, <1>7, <2>5, TransfersRespond DEF c
  <2>7. AdapterSound'
    <3>1. \A h \in DOMAIN adapter' :
              /\ h \in Handles /\ h.n <= issued'[h.kind]
              /\ adapter'[h] \in ResourceRecords /\ adapter'[h].resource <= created'
              /\ adapter'[h].staged # NoBatch => adapter'[h].staged.start = adapter'[h].next
      BY <1>1, <1>3, <1>4, <1>7, <2>1 DEF Sound, AdapterSound
    <3>2. \A g, h \in DOMAIN adapter' : adapter'[g].resource = adapter'[h].resource => g = h
      BY <1>4, <1>7 DEF Sound, AdapterSound, c
    <3> QED BY <1>1, <2>1, <3>1, <3>2 DEF AdapterSound
  <2>8. PendingSound'
    <3>1. \A h \in DOMAIN adapter' : h \in DOMAIN adapter
                                     /\ adapter'[h].resource = adapter[h].resource
      BY <1>4, <1>7
    <3>2. \A id \in DOMAIN pending :
              /\ pending[id] \in [cursor : Handles, start : Nat, next : Nat, resource : Nat]
              /\ pending[id].cursor.kind = "cursor" /\ pending[id].cursor.n <= issued["cursor"]
              /\ pending[id].cursor \in DOMAIN adapter =>
                     adapter[pending[id].cursor].resource = pending[id].resource
      BY DEF Sound, PendingSound
    <3> SUFFICES ASSUME NEW id \in DOMAIN pending'
                 PROVE  /\ pending'[id] \in [cursor : Handles, start : Nat, next : Nat, resource : Nat]
                        /\ pending'[id].cursor.kind = "cursor"
                        /\ pending'[id].cursor.n <= issued'["cursor"]
                        /\ pending'[id].cursor \in DOMAIN adapter' =>
                               adapter'[pending'[id].cursor].resource = pending'[id].resource
      BY DEF PendingSound
    <3>3. CASE id \in DOMAIN pending
      BY <1>6, <1>7, <2>1, <3>1, <3>2, <3>3
    <3>4. CASE id = r.id
      <4>1. pending'[id] = entry
        BY <1>6, <1>7, <3>4
      <4> QED BY <1>1, <1>5, <2>1, <3>1, <4>1 DEF c
    <3> QED BY <1>6, <1>7, <3>3, <3>4
  <2>9. StagedKnown'
    <3> SUFFICES ASSUME NEW h \in DOMAIN adapter', h.kind = "cursor", adapter'[h].staged # NoBatch
                 PROVE  \E id \in DOMAIN pending' :
                            /\ pending'[id].cursor = h
                            /\ Batch(pending'[id].start, pending'[id].next) = adapter'[h].staged
      BY DEF StagedKnown, Batch
    <3>1. CASE h = c
      BY <1>4, <1>5, <1>6, <1>7, <3>1
    <3>2. CASE h # c
      <4>1. PICK id \in DOMAIN pending :
                /\ pending[id].cursor = h
                /\ Batch(pending[id].start, pending[id].next) = adapter[h].staged
        BY <1>4, <1>7, <3>2 DEF Sound, StagedKnown
      <4> QED BY <1>4, <1>6, <1>7, <3>2, <4>1
    <3> QED BY <3>1, <3>2
  <2>10. RowsEven'
    <3>1. \A h \in Cursors' : /\ h \in Cursors
                              /\ adapter'[h].resource = adapter[h].resource
                              /\ adapter'[h].next = adapter[h].next
      BY <1>4, <1>7 DEF Cursors, start
    <3> QED BY <1>1, <2>1, <2>6, <3>1, HandledEven
  <2>11. PortTyped' /\ ReadTyped' /\ IdsFresh' /\ RequestsKnown' /\ TransferKnown' /\ AnswersKnown'
    BY <1>1, <1>6, <1>7, <2>1, <2>6, HandledKnown
  <2> QED BY <2>7, <2>8, <2>9, <2>10, <2>11 DEF Sound
<1>8. CASE DropsCorruptCursor(r, table)
  <2>1. /\ adapter' = Disposed(table, c) /\ UNCHANGED <<issued, created>>
        /\ toClient' = Append(toClient, Answer("error", r))
        /\ DOMAIN pending' = DOMAIN pending
        /\ \A id \in DOMAIN pending : pending'[id] = pending[id]
    BY <1>8, TakesFresh, FailsPlain DEF DropsCorruptCursor, c
  <2>2. \A h \in DOMAIN adapter' : h \in DOMAIN adapter /\ adapter'[h] = adapter[h]
    BY <1>4, <2>1, DisposedLoses
  <2>3. StagedKnown'
    BY <2>1, <2>2, StagedStays DEF Sound
  <2> QED BY <2>1, <2>2, <2>3, LosesHandled
<1>9. CASE Fails(r, table, batches) /\ UNCHANGED <<issued, outstanding, created>>
  <2>1. Resolvable(table, batches[r.id])
    BY <1>0, <1>4, <1>5, <1>6 DEF Resolvable, c
  <2>2. /\ adapter' = Resolved(table, batches[r.id], start)
        /\ pending' = Without(batches, {r.id})
        /\ toClient' = Append(toClient, Answer("error", r))
    BY <1>5, <1>6, <1>9, <2>1 DEF Fails
  <2>3. \A h \in DOMAIN adapter' : h \in DOMAIN adapter /\ adapter'[h] = adapter[h]
    <3>1. batches[r.id].cursor = c /\ c \in DOMAIN table
      BY <1>0, <1>4, <1>5, <1>6 DEF c
    <3>2. /\ DOMAIN adapter' = DOMAIN table /\ \A h \in DOMAIN table : h # c => adapter'[h] = table[h]
          /\ adapter'[c] = [resource |-> table[c].resource, dataset |-> table[c].dataset,
                            next |-> start, staged |-> NoBatch]
      BY <1>1, <1>4, <2>2, <3>1, ResolvedTable
    <3>3. adapter[c] = [resource |-> adapter[c].resource, dataset |-> adapter[c].dataset,
                        next |-> start, staged |-> NoBatch]
      BY <1>0, <1>1 DEF ResourceRecords, c, start
    <3> QED BY <1>4, <3>2, <3>3
  <2>4. /\ DOMAIN pending' = DOMAIN pending
        /\ \A id \in DOMAIN pending : pending'[id] = pending[id]
    <3>1. /\ DOMAIN Without(batches, {r.id}) = DOMAIN batches \ {r.id}
          /\ \A id \in DOMAIN batches \ {r.id} : Without(batches, {r.id})[id] = batches[id]
      BY DEF Without, Restrict
    <3>2. r.id \notin DOMAIN pending
      BY TakesFresh
    <3> QED BY <1>6, <2>2, <3>1, <3>2
  <2>5. StagedKnown'
    BY <2>3, <2>4, StagedStays DEF Sound
  <2> QED BY <1>9, <2>2, <2>3, <2>4, <2>5, LosesHandled
<1> QED BY <1>0, <1>7, <1>8, <1>9 DEF c, start, table, entry, batches

\* Evidence is sent like a batch, and staged nowhere.
LEMMA ReadEvidenceSound ==
    ASSUME Sound, NEW r, Takes(r), ReadEvidence(r), r.operation = "read_evidence"
    PROVE  Sound'
<1>1. CASE /\ r.handle \in DOMAIN adapter /\ Transfers(r, NoBatch)
           /\ UNCHANGED <<adapter, pending>>
  <2>1. UNCHANGED <<adapter, pending, issued, created>> /\ created \in Nat
    BY <1>1 DEF Transfers, Sound, AdapterSound
  <2>2. NoBatch \in BatchRecords
    BY DEF NoBatch, BatchRecords
  <2>3. Remembered(pending', r.id, NoBatch, adapter[r.handle].resource)
    BY <2>1, TakesFresh DEF Remembered
  <2>4. Responds(r)
    BY <1>1, <2>2, <2>3, TransfersRespond
  <2>5. AdapterSound' /\ PendingSound'
    BY <2>1, LosesSound
  <2>6. StagedKnown'
    BY <2>1 DEF Sound, StagedKnown
  <2>7. RowsEven'
    BY <2>1, <2>4, HandledEven DEF Cursors
  <2>8. PortTyped' /\ ReadTyped' /\ IdsFresh' /\ RequestsKnown' /\ TransferKnown' /\ AnswersKnown'
    BY <2>1, <2>4, HandledKnown
  <2> QED BY <2>5, <2>6, <2>7, <2>8 DEF Sound
<1> QED BY <1>1, RefusesSound DEF ReadEvidence

\* A commit moves its cursor on, and its answer is on the way to the client that
\* holds the rows; a batch that is discarded leaves its cursor where it was.
LEMMA ResolvesSound ==
    ASSUME Sound, NEW r, Takes(r), r.of \in DOMAIN pending,
           NEW batch, batch = pending[r.of], Resolvable(adapter, batch),
           r.operation \in Resolutions,
           adapter' = Resolved(adapter, batch,
                               IF r.operation = "commit_packet_batch" THEN batch.next ELSE batch.start),
           pending' = Without(pending, {r.of}), Succeeds(r), UNCHANGED <<issued, created>>
    PROVE  Sound'
<1> DEFINE c == batch.cursor
           next == IF r.operation = "commit_packet_batch" THEN batch.next ELSE batch.start
<1>1. /\ c \in DOMAIN adapter /\ adapter[c].staged = Batch(batch.start, batch.next)
      /\ adapter[c].resource = batch.resource
      /\ c.kind = "cursor" /\ batch.start \in Nat /\ batch.next \in Nat
      /\ adapter[c] \in ResourceRecords /\ created \in Nat
  BY DEF Sound, PendingSound, AdapterSound, Resolvable
<1>2. next \in Nat
  BY <1>1
<1>3. adapter[c].next = batch.start
  BY <1>1 DEF Sound, AdapterSound, Batch, NoBatch
<1> HIDE DEF next
<1>4. /\ DOMAIN adapter' = DOMAIN adapter
      /\ \A h \in DOMAIN adapter : h # c => adapter'[h] = adapter[h]
      /\ adapter'[c].next = next /\ adapter'[c].staged = NoBatch
      /\ adapter'[c].resource = adapter[c].resource
      /\ adapter'[c] \in ResourceRecords
  <2>1. adapter' = Resolved(adapter, batch, next)
    BY DEF next
  <2>2. /\ DOMAIN adapter' = DOMAIN adapter
        /\ \A h \in DOMAIN adapter : h # c => adapter'[h] = adapter[h]
        /\ adapter'[c] = [resource |-> adapter[c].resource, dataset |-> adapter[c].dataset,
                          next |-> next, staged |-> NoBatch]
        /\ adapter'[c] \in ResourceRecords
    BY <1>1, <1>2, <2>1, ResolvedTable
  <2> QED BY <2>2
<1>5. /\ DOMAIN pending' = DOMAIN pending \ {r.of}
      /\ \A id \in DOMAIN pending \ {r.of} : pending'[id] = pending[id]
  BY DEF Without, Restrict
<1>6. AdapterSound'
  <2>1. \A h \in DOMAIN adapter' :
            /\ h \in Handles /\ h.n <= issued'[h.kind]
            /\ adapter'[h] \in ResourceRecords /\ adapter'[h].resource <= created'
            /\ adapter'[h].staged # NoBatch => adapter'[h].staged.start = adapter'[h].next
    BY <1>4 DEF Sound, AdapterSound
  <2>2. \A g, h \in DOMAIN adapter' : adapter'[g].resource = adapter'[h].resource => g = h
    BY <1>4 DEF Sound, AdapterSound
  <2> QED BY <2>1, <2>2 DEF Sound, AdapterSound
<1>7. PendingSound'
  <2>1. \A h \in DOMAIN adapter' : h \in DOMAIN adapter /\ adapter'[h].resource = adapter[h].resource
    BY <1>4
  <2>2. \A id \in DOMAIN pending' : id \in DOMAIN pending /\ pending'[id] = pending[id]
    BY <1>5
  <2> SUFFICES ASSUME NEW id \in DOMAIN pending'
               PROVE  /\ pending'[id] \in [cursor : Handles, start : Nat, next : Nat, resource : Nat]
                      /\ pending'[id].cursor.kind = "cursor"
                      /\ pending'[id].cursor.n <= issued'["cursor"]
                      /\ pending'[id].cursor \in DOMAIN adapter' =>
                             adapter'[pending'[id].cursor].resource = pending'[id].resource
    BY DEF PendingSound
  <2>3. /\ pending[id] \in [cursor : Handles, start : Nat, next : Nat, resource : Nat]
        /\ pending[id].cursor.kind = "cursor" /\ pending[id].cursor.n <= issued["cursor"]
        /\ pending[id].cursor \in DOMAIN adapter =>
               adapter[pending[id].cursor].resource = pending[id].resource
    BY <2>2 DEF Sound, PendingSound
  <2>4. pending'[id] = pending[id] /\ issued' = issued
    BY <2>2
  <2>5. pending[id].cursor \in DOMAIN adapter' =>
            adapter'[pending[id].cursor].resource = pending[id].resource
    BY <2>1, <2>3
  <2> QED BY <2>3, <2>4, <2>5
<1>8. StagedKnown'
  BY <1>4, <1>5, StagedStays DEF Sound
<1>9. r.id \notin DOMAIN pending'
  BY <1>5, TakesFresh
<1>10. /\ Responds(r)
       /\ \A n \in DOMAIN toClient' : n \in DOMAIN toClient \/ toClient'[n].kind = "success"
  BY <1>1, <1>9, AnswersRespond DEF Succeeds
<1>11. PortTyped' /\ ReadTyped' /\ IdsFresh' /\ RequestsKnown' /\ TransferKnown' /\ AnswersKnown'
  BY <1>1, <1>5, <1>10, HandledKnown
<1>12. CASE r.operation # "commit_packet_batch"
  <2>1. \A h \in Cursors' : /\ h \in Cursors
                            /\ adapter'[h].resource = adapter[h].resource
                            /\ adapter'[h].next = adapter[h].next
    BY <1>3, <1>4, <1>12 DEF Cursors, next
  <2>2. RowsEven'
    BY <1>1, <1>10, <1>12, <2>1, HandledEven
  <2> QED BY <1>6, <1>7, <1>8, <1>11, <2>2 DEF Sound
<1>13. CASE r.operation = "commit_packet_batch"
  <2>1. /\ read.phase = "commit_packet_batch" /\ r.id = read.resolution /\ r.of = read.id
        /\ read.received /\ UNCHANGED <<read, taken>>
    BY <1>13, TakesFresh DEF Sound, RequestsKnown, TransferKnown, Takes, clientVars
  <2>2. read.batch = Batch(batch.start, batch.next) /\ read.resource = adapter[c].resource
    BY <1>1, <2>1 DEF Sound, TransferKnown, Remembered
  <2>3. ~Committed /\ ~Refused
    BY <2>1, TakesFresh DEF Committed, Refused
  <2>4. \A h \in Cursors : Even(h)
    BY <2>3 DEF Sound, RowsEven
  <2>5. ~Refused'
    BY <1>10, <2>1, TakesFresh DEF Refused, Responds
  <2>6. Committed'
    <3> DEFINE m == Answer("success", r)
    <3>1. m \in ResponseRecords /\ m.id = r.id /\ m.kind = "success"
      BY TakesFresh DEF Answer, Response, ResponseRecords, RequestRecords, BatchRecords, NoBatch
    <3> HIDE DEF m
    <3>2. \E n \in DOMAIN toClient' : toClient'[n] = m
      BY <3>1, Posted DEF Sound, PortTyped, Succeeds, m
    <3> QED BY <2>1, <3>1, <3>2 DEF Committed
  <2>7. RowsTaken(adapter[c].resource) = batch.start
    BY <1>1, <1>3, <2>4 DEF Cursors, Even
  <2>8. \A h \in Cursors' : h # c => Even(h)' /\ adapter'[h].resource # read.resource
    BY <1>1, <1>4, <2>1, <2>2, <2>4 DEF Cursors, Even, RowsTaken, Sound, AdapterSound
  <2>9. /\ adapter'[c].resource = read.resource /\ adapter'[c].next = batch.next
        /\ RowsTaken(adapter[c].resource)' = batch.start
    <3>1. next = batch.next
      BY <1>13 DEF next
    <3>2. adapter'[c].resource = read.resource /\ adapter'[c].next = batch.next
      BY <1>4, <2>2, <3>1
    <3>3. \A x : (IF x \in DOMAIN taken' THEN taken'[x] ELSE 0) = RowsTaken(x)
      BY <2>1 DEF RowsTaken
    <3> QED BY <1>4, <2>7, <3>2, <3>3 DEF RowsTaken
  <2>10. read.batch.next = batch.next
    BY <2>2 DEF Batch
  <2>11. DOMAIN taken' \subseteq 0..created'
    BY <2>1 DEF Sound, RowsEven
  <2>12. \A h \in Cursors' :
             \/ Even(h)'
             \/ /\ read'.resource = adapter'[h].resource
                /\ read'.batch = Batch(RowsTaken(adapter[h].resource)', adapter'[h].next)
    <3> SUFFICES ASSUME NEW h \in Cursors', h = c
                 PROVE  /\ read'.resource = adapter'[h].resource
                        /\ read'.batch = Batch(RowsTaken(adapter[h].resource)', adapter'[h].next)
      BY <2>8
    <3> QED BY <2>1, <2>2, <2>9
  <2>13. \A h \in Cursors' : adapter'[h].resource = read.resource => adapter'[h].next = read.batch.next
    BY <2>8, <2>9, <2>10
  <2>14. RowsEven'
    BY <2>1, <2>5, <2>6, <2>11, <2>12, <2>13 DEF RowsEven
  <2> QED BY <1>6, <1>7, <1>8, <1>11, <2>14 DEF Sound
<1> QED BY <1>12, <1>13

\* A batch that cannot be resolved is forgotten, and its cursor with it.
LEMMA ResolvePacketBatchSound ==
    ASSUME Sound, NEW r, Takes(r), ResolvePacketBatch(r), r.operation \in Resolutions
    PROVE  Sound'
<1>1. CASE r.of \in DOMAIN pending /\ Resolvable(adapter, pending[r.of])
  <2>1. ~(/\ r.of \in DOMAIN pending /\ ~Resolvable(adapter, pending[r.of])) /\ r.of \in DOMAIN pending
    BY <1>1
  <2>2. /\ adapter' = Resolved(adapter, pending[r.of],
                               IF r.operation = "commit_packet_batch" THEN pending[r.of].next
                                                                      ELSE pending[r.of].start)
        /\ pending' = Without(pending, {r.of})
        /\ Succeeds(r) /\ UNCHANGED <<issued, created>>
    BY <2>1 DEF ResolvePacketBatch
  <2> QED BY <1>1, <2>2, ResolvesSound
<1>2. CASE r.of \in DOMAIN pending /\ ~Resolvable(adapter, pending[r.of])
  <2> DEFINE c == pending[r.of].cursor
             rest == Without(pending, {r.of})
  <2>1. /\ Fails(r, Disposed(adapter, c), rest) /\ UNCHANGED <<issued, created>>
    BY <1>2 DEF ResolvePacketBatch
  <2>2. /\ DOMAIN rest = DOMAIN pending \ {r.of}
        /\ \A id \in DOMAIN pending \ {r.of} : rest[id] = pending[id]
    BY DEF Without, Restrict
  <2> HIDE DEF rest
  <2>3. /\ adapter' = Disposed(adapter, c) /\ toClient' = Append(toClient, Answer("error", r))
        /\ DOMAIN pending' = DOMAIN rest
        /\ \A id \in DOMAIN rest : pending'[id] = rest[id]
    BY <2>1, <2>2, TakesFresh, FailsPlain
  <2>4. \A h \in DOMAIN adapter' : h \in DOMAIN adapter /\ h # c /\ adapter'[h] = adapter[h]
    BY <2>3, DisposedLoses
  <2>5. StagedKnown'
    BY <2>2, <2>3, <2>4, StagedStays DEF Sound
  <2>6. \A id \in DOMAIN pending' : id \in DOMAIN pending /\ pending'[id] = pending[id]
    BY <2>2, <2>3
  <2> QED BY <2>1, <2>3, <2>4, <2>5, <2>6, LosesHandled
<1>3. CASE r.of \notin DOMAIN pending
  BY <1>3, RefusesSound DEF ResolvePacketBatch
<1> QED BY <1>1, <1>2, <1>3

\* An acknowledgement ends a transfer that nothing remembers any more.
LEMMA AckTransferSound ==
    ASSUME Sound, NEW r, Takes(r), AckTransfer(r), r.operation = "ack_transfer"
    PROVE  Sound'
<1>1. CASE Succeeds(r) /\ UNCHANGED <<adapter, issued, pending, created>>
  <2>1. StagedKnown'
    BY <1>1 DEF Sound, StagedKnown
  <2> QED BY <1>1, <2>1, LosesHandled DEF Succeeds
<1> QED BY <1>1, RefusesSound DEF AckTransfer

\* Every request keeps the invariant.
LEMMA HandleSound == Sound /\ Handle => Sound'
<1> SUFFICES ASSUME Sound, Handle PROVE Sound'
  OBVIOUS
<1>1. PICK r : Takes(r) /\ Dispatch(r)
  BY DEF Handle, HandleRequest, Takes
<1>2. CASE r.operation = "begin_import" /\ BeginImport(r)
  BY <1>1, <1>2, IssuesSound, RefusesSound DEF BeginImport, Kinds
<1>3. CASE r.operation = "step_import" /\ StepImport(r)
  BY <1>1, <1>3, StepImportSound
<1>4. CASE r.operation = "open_packet_cursor" /\ OpenPacketCursor(r)
  <2>1. CASE r.handle \in DOMAIN adapter /\ Issues(r, "cursor", r.handle, {})
    <3>1. r.handle \in Handles
      BY <2>1 DEF Sound, AdapterSound
    <3> QED BY <1>1, <1>4, <2>1, <3>1, IssuesSound DEF Kinds
  <2> QED BY <1>1, <1>4, <2>1, RefusesSound DEF OpenPacketCursor
<1>5. CASE r.operation \in {"dispose", "cancel_import"} /\ Dispose(r)
  BY <1>1, <1>5, DisposeSound
<1>6. CASE r.operation = "shutdown" /\ Shutdown(r)
  BY <1>1, <1>6, ShutdownSound
<1>7. CASE r.operation = "read_packet_batch" /\ ReadPacketBatch(r)
  BY <1>1, <1>7, ReadPacketBatchSound
<1>8. CASE r.operation = "read_evidence" /\ ReadEvidence(r)
  BY <1>1, <1>8, ReadEvidenceSound
<1>9. CASE r.operation \in Resolutions /\ ResolvePacketBatch(r)
  BY <1>1, <1>9, ResolvePacketBatchSound
<1>10. CASE r.operation = "ack_transfer" /\ AckTransfer(r)
  BY <1>1, <1>10, AckTransferSound
<1> QED BY <1>1, <1>2, <1>3, <1>4, <1>5, <1>6, <1>7, <1>8, <1>9, <1>10 DEF Dispatch

-----------------------------------------------------------------------------
\* The client posts and receives.

\* What is received was posted, and nothing else arrives.
Receives ==
    /\ toClient' \in Seq(ResponseRecords)
    /\ \A n \in DOMAIN toClient' : \E m \in DOMAIN toClient : toClient'[n] = toClient[m]

\* At most one request is posted, under the next id.
Sending(new) == Posts(new) \/ UNCHANGED <<toWorker, nextRequestId>>

\* A step of the client leaves the runtime alone.
LEMMA RuntimeStays ==
    ASSUME Sound, UNCHANGED <<adapter, issued, pending, created>>
    PROVE  AdapterSound' /\ PendingSound' /\ StagedKnown'
  BY DEF Sound, AdapterSound, PendingSound, StagedKnown

\* What is received comes first, and the rest moves up.
LEMMA HeadReceived ==
    ASSUME Sound, toClient # <<>>, toClient' = Tail(toClient)
    PROVE  /\ Receives /\ 1 \in DOMAIN toClient /\ Head(toClient) = toClient[1]
           /\ Head(toClient) \in ResponseRecords
           /\ \A n \in DOMAIN toClient : n = 1 \/ \E k \in DOMAIN toClient' : toClient'[k] = toClient[n]
<1>1. toClient \in Seq(ResponseRecords)
  BY DEF Sound, PortTyped
<1>2. /\ 1 \in DOMAIN toClient /\ toClient[1] = Head(toClient)
      /\ Head(toClient) \in ResponseRecords /\ toClient' \in Seq(ResponseRecords)
      /\ \A n \in DOMAIN toClient' : n + 1 \in DOMAIN toClient /\ toClient'[n] = toClient[n + 1]
      /\ \A n \in DOMAIN toClient : n = 1 \/ \E k \in DOMAIN toClient' : toClient'[k] = toClient[n]
  BY <1>1, Taken
<1> QED BY <1>2 DEF Receives

\* What is posted has an id of its own, and what was posted stays.
LEMMA SendingPosts ==
    ASSUME Sound, NEW new \in RequestRecords, new.id = nextRequestId, Sending(new)
    PROVE  /\ toWorker' \in Seq(RequestRecords)
           /\ nextRequestId' \in Nat \ {0} /\ nextRequestId <= nextRequestId'
           /\ \A n \in DOMAIN toWorker' :
                  \/ n \in DOMAIN toWorker /\ toWorker'[n] = toWorker[n]
                  \/ toWorker'[n] = new /\ nextRequestId < nextRequestId'
           /\ \A m, n \in DOMAIN toWorker' : toWorker'[m].id = toWorker'[n].id => m = n
<1>1. CASE Posts(new)
  <2>1. toWorker \in Seq(RequestRecords) /\ nextRequestId \in Nat \ {0}
    BY DEF Sound, PortTyped, IdsFresh
  <2>2. /\ Len(toWorker) \in Nat /\ DOMAIN toWorker = 1..Len(toWorker)
        /\ toWorker' \in Seq(RequestRecords) /\ DOMAIN toWorker' = 1..Len(toWorker) + 1
        /\ \A n \in 1..Len(toWorker) : toWorker'[n] = toWorker[n]
        /\ toWorker'[Len(toWorker) + 1] = new
    BY <1>1, <2>1 DEF Posts
  <2>3. \A n \in DOMAIN toWorker' :
            \/ n \in DOMAIN toWorker /\ toWorker'[n] = toWorker[n]
            \/ n = Len(toWorker) + 1 /\ toWorker'[n] = new
    BY <2>2
  <2>4. \A n \in DOMAIN toWorker : toWorker[n].id # nextRequestId
    BY <2>1 DEF Sound, IdsFresh
  <2>5. \A m, n \in DOMAIN toWorker' : toWorker'[m].id = toWorker'[n].id => m = n
    BY <2>3, <2>4 DEF Sound, IdsFresh
  <2> QED BY <1>1, <2>1, <2>2, <2>3, <2>5 DEF Posts
<1>2. CASE UNCHANGED <<toWorker, nextRequestId>>
  BY <1>2 DEF Sound, PortTyped, IdsFresh
<1> QED BY <1>1, <1>2 DEF Sending

\* The ids stay apart.
LEMMA ClientFresh ==
    ASSUME Sound, NEW new \in RequestRecords, new.id = nextRequestId, Sending(new),
           Receives, UNCHANGED pending
    PROVE  PortTyped' /\ IdsFresh'
<1>1. PortTyped'
  BY SendingPosts DEF Receives, PortTyped
<1>2. nextRequestId \in Nat \ {0}
  BY DEF Sound, IdsFresh
<1>3. \A id \in DOMAIN pending' : id \in Nat /\ id < nextRequestId'
  BY <1>2, SendingPosts DEF Sound, IdsFresh
<1>4. \A n \in DOMAIN toWorker' :
          /\ 0 < toWorker'[n].id /\ toWorker'[n].id < nextRequestId'
          /\ toWorker'[n].id \notin DOMAIN pending'
  <2> SUFFICES ASSUME NEW n \in DOMAIN toWorker'
               PROVE  /\ 0 < toWorker'[n].id /\ toWorker'[n].id < nextRequestId'
                      /\ toWorker'[n].id \notin DOMAIN pending'
    OBVIOUS
  <2>1. nextRequestId' \in Nat /\ nextRequestId <= nextRequestId'
    BY SendingPosts
  <2>2. CASE n \in DOMAIN toWorker /\ toWorker'[n] = toWorker[n]
    <3>1. toWorker[n] \in RequestRecords
      BY <2>2 DEF Sound, PortTyped
    <3>2. toWorker[n].id \in Nat
      BY <3>1 DEF RequestRecords
    <3> QED BY <1>2, <2>1, <2>2, <3>2 DEF Sound, IdsFresh
  <2>3. CASE toWorker'[n] = new /\ nextRequestId < nextRequestId'
    <3>1. nextRequestId \notin DOMAIN pending
      BY <1>2 DEF Sound, IdsFresh
    <3> QED BY <1>2, <2>3, <3>1
  <2> QED BY <2>2, <2>3, SendingPosts
<1>5. \A n \in DOMAIN toClient' :
          /\ 0 < toClient'[n].id /\ toClient'[n].id < nextRequestId'
          /\ \A m \in DOMAIN toWorker' : toWorker'[m].id # toClient'[n].id
  <2> SUFFICES ASSUME NEW k \in DOMAIN toClient
               PROVE  /\ 0 < toClient[k].id /\ toClient[k].id < nextRequestId'
                      /\ \A m \in DOMAIN toWorker' : toWorker'[m].id # toClient[k].id
    BY DEF Receives
  <2>1. toClient[k] \in ResponseRecords
    BY DEF Sound, PortTyped
  <2>2. toClient[k].id \in Nat /\ 0 < toClient[k].id /\ toClient[k].id < nextRequestId
    BY <2>1 DEF Sound, IdsFresh, ResponseRecords
  <2>3. nextRequestId' \in Nat /\ nextRequestId <= nextRequestId'
    BY SendingPosts
  <2>4. \A m \in DOMAIN toWorker' : toWorker'[m].id # toClient[k].id
    BY <1>2, <2>2, SendingPosts DEF Sound, IdsFresh
  <2> QED BY <1>2, <2>2, <2>3, <2>4
<1> QED BY <1>1, <1>3, <1>4, <1>5, SendingPosts DEF IdsFresh

\* The ids and the resource of the read are numbers, in range.
LEMMA ReadIsNumbered ==
    ASSUME Sound
    PROVE  /\ nextRequestId \in Nat \ {0} /\ created \in Nat
           /\ read.id \in Nat /\ read.id < nextRequestId
           /\ read.resolution \in Nat /\ read.resolution < nextRequestId
           /\ read.resource \in Nat /\ read.resource <= created
           /\ read.received \in BOOLEAN /\ read.batch \in BatchRecords
  BY DEF Sound, IdsFresh, AdapterSound, ReadTyped, TransferKnown

\* What arrives was remembered when it was sent.
LEMMA ReceivesKnown ==
    ASSUME Sound, Receives, UNCHANGED <<pending, created>>
    PROVE  \A n \in DOMAIN toClient' :
               /\ toClient'[n].resource <= created'
               /\ toClient'[n].kind = "success" =>
                      Remembered(pending', toClient'[n].id, toClient'[n].batch, toClient'[n].resource)
  BY DEF Sound, TransferKnown, Receives

\* A call, other than those of the binary read, is told apart from it by its id.
LEMMA SendsSound ==
    ASSUME Sound, NEW operation \in Operations \ (Resolutions \cup {"read_packet_batch"}),
           NEW handle \in Handles \cup {NoHandle}, Sends(operation, handle)
    PROVE  Sound'
<1> DEFINE new == Request(operation, nextRequestId, handle, 0)
<1>1. /\ Posts(new) /\ calls' = calls \cup {nextRequestId}
      /\ UNCHANGED <<toClient, adapter, issued, pending, created, read, granted, taken>>
      /\ nextRequestId' = nextRequestId + 1
  BY DEF Sends, Posts
<1>2. /\ new \in RequestRecords /\ new.id = nextRequestId /\ new.operation = operation
  BY ReadIsNumbered DEF Request, RequestRecords
<1> HIDE DEF new
<1>3. Sending(new) /\ Receives
  BY <1>1 DEF Sending, Receives, Sound, PortTyped
<1>4. PortTyped' /\ IdsFresh'
  BY <1>1, <1>2, <1>3, ClientFresh
<1>5. ReadTyped'
  BY <1>1 DEF Sound, ReadTyped
<1>6. AdapterSound' /\ PendingSound' /\ StagedKnown'
  BY <1>1, RuntimeStays
<1>7. \A n \in DOMAIN toWorker' :
          (n \in DOMAIN toWorker /\ toWorker'[n] = toWorker[n]) \/ toWorker'[n] = new
  BY <1>2, <1>3, SendingPosts
<1>8. RequestsKnown'
  BY <1>1, <1>2, <1>7, ReadIsNumbered DEF Sound, RequestsKnown, Resolutions
<1>9. TransferKnown'
  <2>1. \A n \in DOMAIN toWorker' : read.received => toWorker'[n].id # read.id
    BY <1>2, <1>7, ReadIsNumbered DEF Sound, TransferKnown
  <2>2. read.id < nextRequestId' /\ read.resolution < nextRequestId'
    BY <1>1, ReadIsNumbered
  <2> QED BY <1>1, <2>1, <2>2 DEF Sound, TransferKnown
<1>10. AnswersKnown'
  BY <1>1, ReadIsNumbered DEF Sound, AnswersKnown
<1>11. RowsEven'
  BY <1>1 DEF Sound, RowsEven, Cursors, Even, RowsTaken, Committed, Refused
<1> QED BY <1>4, <1>5, <1>6, <1>8, <1>9, <1>10, <1>11 DEF Sound

\* A binary read begins when none is under way.
LEMMA ReadBinarySound ==
    ASSUME Sound, NEW operation \in BinaryOperations, NEW handle \in Handles,
           operation = "read_packet_batch" => handle.kind = "cursor", ReadBinary(operation, handle)
    PROVE  Sound'
<1> DEFINE new == Request(operation, nextRequestId, handle, 0)
<1>1. /\ Posts(new) /\ nextRequestId' = nextRequestId + 1 /\ read = NoRead
      /\ read' = [phase |-> "requested", operation |-> operation, id |-> nextRequestId,
                  received |-> FALSE, batch |-> NoBatch, resource |-> 0, resolution |-> 0]
      /\ UNCHANGED <<toClient, adapter, issued, pending, created, calls, granted, taken>>
  BY DEF ReadBinary, Posts, NoRead
<1>2. /\ new \in RequestRecords /\ new.id = nextRequestId /\ new.operation = operation
      /\ new.handle = handle
  BY ReadIsNumbered DEF Request, RequestRecords, Operations
<1> HIDE DEF new
<1>3. Sending(new) /\ Receives
  BY <1>1 DEF Sending, Receives, Sound, PortTyped
<1>4. PortTyped' /\ IdsFresh'
  BY <1>1, <1>2, <1>3, ClientFresh
<1>5. ReadTyped'
  <2>1. NoBatch \in BatchRecords
    BY DEF NoBatch, BatchRecords
  <2> QED BY <1>1, <2>1, ReadIsNumbered DEF Sound, ReadTyped
<1>6. AdapterSound' /\ PendingSound' /\ StagedKnown'
  BY <1>1, RuntimeStays
<1>7. \A n \in DOMAIN toWorker' :
          (n \in DOMAIN toWorker /\ toWorker'[n] = toWorker[n]) \/ toWorker'[n] = new
  BY <1>2, <1>3, SendingPosts
<1>8. RequestsKnown'
  BY <1>1, <1>2, <1>7 DEF Sound, RequestsKnown, BinaryOperations, NoRead
<1>9. TransferKnown'
  BY <1>1, <1>3, ReceivesKnown, ReadIsNumbered DEF TransferKnown
<1>10. AnswersKnown'
  BY <1>1, ReadIsNumbered DEF Sound, AnswersKnown
<1>11. \A h \in Cursors : Even(h)
  BY <1>1 DEF Sound, RowsEven, NoRead
<1>12. RowsEven'
  BY <1>1, <1>11 DEF Sound, RowsEven, Cursors, Even, RowsTaken
<1> QED BY <1>4, <1>5, <1>6, <1>8, <1>9, <1>10, <1>12 DEF Sound

\* An answer that no commit waits for leaves the read where it is.
LEMMA ReceivesOther ==
    ASSUME Sound, toClient # <<>>, toClient' = Tail(toClient),
           UNCHANGED <<toWorker, nextRequestId, read, taken, adapter, issued, pending, created>>,
           granted' \subseteq [handle : Handles, resource : Nat], calls' \subseteq calls,
           read.phase = "commit_packet_batch" => Head(toClient).id # read.resolution
    PROVE  Sound'
<1>1. Receives
  BY HeadReceived
<1>2. PortTyped' /\ IdsFresh'
  BY <1>1 DEF Sound, PortTyped, IdsFresh, Receives
<1>3. ReadTyped'
  BY DEF Sound, ReadTyped
<1>4. AdapterSound' /\ PendingSound' /\ StagedKnown'
  BY RuntimeStays
<1>5. RequestsKnown'
  BY DEF Sound, RequestsKnown
<1>6. TransferKnown'
  BY <1>1, ReceivesKnown DEF Sound, TransferKnown
<1>7. AnswersKnown'
  BY <1>1 DEF Sound, AnswersKnown, Receives
<1>8. read.phase = "commit_packet_batch" =>
          (Committed' => Committed) /\ (Refused' => Refused)
  BY <1>1 DEF Committed, Refused, Receives
<1>9. ASSUME read.phase = "commit_packet_batch", Committed
      PROVE  Committed'
  <2>1. PICK n \in DOMAIN toClient : toClient[n].id = read.resolution /\ toClient[n].kind = "success"
    BY <1>9 DEF Committed
  <2>2. n # 1
    BY <1>9, <2>1, HeadReceived
  <2>3. PICK k \in DOMAIN toClient' : toClient'[k] = toClient[n]
    BY <2>2, HeadReceived
  <2> QED BY <2>1, <2>3 DEF Committed
<1>10. RowsEven'
  BY <1>8, <1>9 DEF Sound, RowsEven, Cursors, Even, RowsTaken
<1> QED BY <1>2, <1>3, <1>4, <1>5, <1>6, <1>7, <1>10 DEF Sound

\* The value tells what the runtime remembers under its id.
LEMMA ReceiveValueSound ==
    ASSUME Sound, toClient # <<>>, toClient' = Tail(toClient), ReceiveValue(Head(toClient)),
           UNCHANGED <<adapter, issued, pending, created>>
    PROVE  Sound'
<1> DEFINE m == Head(toClient)
<1>1. /\ Receives /\ m \in ResponseRecords /\ 1 \in DOMAIN toClient /\ m = toClient[1]
  BY HeadReceived
<1>2. /\ m.kind = "success" /\ m.id = read.id /\ read.phase = "requested"
      /\ read' = [read EXCEPT !.phase = "transferred", !.received = TRUE,
                              !.batch = m.batch, !.resource = m.resource]
      /\ UNCHANGED <<toWorker, nextRequestId, calls, granted, taken>>
  BY DEF ReceiveValue
<1>3. m.batch \in BatchRecords /\ m.resource \in Nat
  BY <1>1 DEF ResponseRecords
<1>4. /\ Remembered(pending, m.id, m.batch, m.resource) /\ m.resource <= created
      /\ \A n \in DOMAIN toWorker : toWorker[n].id # m.id
  BY <1>1, <1>2 DEF Sound, TransferKnown, IdsFresh
<1> HIDE DEF m
<1>5. /\ read'.phase = "transferred" /\ read'.received /\ read'.batch = m.batch
      /\ read'.resource = m.resource /\ read'.id = read.id /\ read'.resolution = read.resolution
  BY <1>2 DEF Sound, ReadTyped
<1>6. ReadTyped'
  BY <1>2, <1>3 DEF Sound, ReadTyped
<1>7. PortTyped' /\ IdsFresh'
  BY <1>1, <1>2 DEF Sound, PortTyped, IdsFresh, Receives
<1>8. AdapterSound' /\ PendingSound' /\ StagedKnown'
  BY RuntimeStays
<1>9. RequestsKnown'
  BY <1>2, <1>5 DEF Sound, RequestsKnown
<1>10. TransferKnown'
  BY <1>1, <1>2, <1>4, <1>5, ReceivesKnown, ReadIsNumbered DEF TransferKnown
<1>11. AnswersKnown'
  BY <1>2, <1>5 DEF Sound, AnswersKnown
<1>12. RowsEven'
  BY <1>2, <1>5 DEF Sound, RowsEven, Cursors, Even, RowsTaken
<1> QED BY <1>6, <1>7, <1>8, <1>9, <1>10, <1>11, <1>12 DEF Sound

\* A resolution is about the read, and no answer to it can have come before.
LEMMA ResolveReadSound ==
    ASSUME Sound, NEW operation \in Resolutions, ResolveRead(operation),
           read.phase \in {"requested", "transferred"},
           operation = "commit_packet_batch" => read.phase = "transferred",
           toClient # <<>>, toClient' = Tail(toClient),
           UNCHANGED <<calls, granted, taken, adapter, issued, pending, created>>
    PROVE  Sound'
<1> DEFINE new == Request(operation, nextRequestId, NoHandle, read.id)
<1>1. /\ Posts(new) /\ nextRequestId' = nextRequestId + 1
      /\ read' = [read EXCEPT !.phase = operation, !.resolution = nextRequestId]
  BY DEF ResolveRead, Posts
<1>2. /\ new \in RequestRecords /\ new.id = nextRequestId /\ new.operation = operation
      /\ new.of = read.id
  BY ReadIsNumbered DEF Request, RequestRecords, Operations
<1> HIDE DEF new
<1>3. Sending(new) /\ Receives
  BY <1>1, HeadReceived DEF Sending
<1>4. PortTyped' /\ IdsFresh'
  BY <1>2, <1>3, ClientFresh
<1>5. /\ read'.phase = operation /\ read'.resolution = nextRequestId /\ read'.id = read.id
      /\ read'.received = read.received /\ read'.batch = read.batch
      /\ read'.resource = read.resource
  BY <1>1 DEF Sound, ReadTyped
<1>6. ReadTyped'
  BY <1>1, ReadIsNumbered DEF Sound, ReadTyped
<1>7. AdapterSound' /\ PendingSound' /\ StagedKnown'
  BY RuntimeStays
<1>8. \A n \in DOMAIN toWorker' :
          (n \in DOMAIN toWorker /\ toWorker'[n] = toWorker[n]) \/ toWorker'[n] = new
  BY <1>2, <1>3, SendingPosts
<1>9. RequestsKnown'
  <2>1. \A n \in DOMAIN toWorker : /\ toWorker[n].operation # "commit_packet_batch"
                                   /\ toWorker[n].id # nextRequestId
                                   /\ toWorker[n].operation = "read_packet_batch"
                                          => toWorker[n].handle.kind = "cursor"
    BY ReadIsNumbered DEF Sound, RequestsKnown, IdsFresh
  <2> QED BY <1>2, <1>5, <1>8, <2>1 DEF RequestsKnown, Resolutions
<1>10. TransferKnown'
  <2>1. \A n \in DOMAIN toWorker' : read.received => toWorker'[n].id # read.id
    BY <1>2, <1>8, ReadIsNumbered DEF Sound, TransferKnown
  <2>2. read'.id < nextRequestId' /\ read'.resolution < nextRequestId'
    BY <1>1, <1>5, ReadIsNumbered
  <2>3. read'.phase \in {"transferred", "commit_packet_batch"} => read'.received
    BY <1>5 DEF Sound, TransferKnown, Resolutions
  <2>4. read'.received => Remembered(pending', read'.id, read'.batch, read'.resource)
    BY <1>5 DEF Sound, TransferKnown
  <2> QED BY <1>3, <1>5, <2>1, <2>2, <2>3, <2>4, ReceivesKnown, ReadIsNumbered DEF TransferKnown
<1>11. \A n \in DOMAIN toClient' : toClient'[n].id # nextRequestId
  BY <1>3, ReadIsNumbered DEF Sound, IdsFresh, Receives
<1>12. AnswersKnown'
  BY <1>1, <1>5, <1>11, ReadIsNumbered DEF Sound, AnswersKnown
<1>13. ~Committed' /\ ~Refused'
  BY <1>5, <1>11 DEF Committed, Refused
<1>14. \A h \in Cursors : Even(h)
  BY DEF Sound, RowsEven
<1>15. RowsEven'
  BY <1>13, <1>14 DEF Sound, RowsEven, Cursors, Even, RowsTaken
<1> QED BY <1>4, <1>6, <1>7, <1>9, <1>10, <1>12, <1>15 DEF Sound

\* A read ends with the rows the application has, and no commit under way.
LEMMA FinishReadSound ==
    ASSUME Sound, FinishRead(read.received), toClient # <<>>, toClient' = Tail(toClient),
           UNCHANGED <<calls, granted, adapter, issued, pending, created>>,
           \A n \in DOMAIN toWorker : toWorker[n].operation # "commit_packet_batch",
           \A h \in Cursors : adapter[h].next = (IF adapter[h].resource \in DOMAIN taken'
                                                 THEN taken'[adapter[h].resource] ELSE 0),
           DOMAIN taken' \subseteq 0..created
    PROVE  Sound'
<1> DEFINE new == Request("ack_transfer", nextRequestId, NoHandle, read.id)
<1>1. read' = NoRead /\ Sending(new)
  BY DEF FinishRead, Sending
<1>2. new \in RequestRecords /\ new.id = nextRequestId /\ new.operation = "ack_transfer"
  BY ReadIsNumbered DEF Request, RequestRecords, Operations
<1> HIDE DEF new
<1>3. Receives
  BY HeadReceived
<1>4. PortTyped' /\ IdsFresh'
  BY <1>1, <1>2, <1>3, ClientFresh
<1>5. ReadTyped'
  BY <1>1 DEF Sound, ReadTyped, NoRead, NoBatch, BatchRecords
<1>6. AdapterSound' /\ PendingSound' /\ StagedKnown'
  BY RuntimeStays
<1>7. /\ nextRequestId' \in Nat \ {0} /\ nextRequestId <= nextRequestId'
      /\ \A n \in DOMAIN toWorker' :
             (n \in DOMAIN toWorker /\ toWorker'[n] = toWorker[n]) \/ toWorker'[n] = new
  BY <1>1, <1>2, SendingPosts
<1>8. RequestsKnown'
  BY <1>1, <1>2, <1>7 DEF Sound, RequestsKnown, NoRead
<1>9. TransferKnown'
  BY <1>1, <1>3, <1>7, ReceivesKnown, ReadIsNumbered DEF TransferKnown, NoRead
<1>10. AnswersKnown'
  <2>1. \A id \in calls : id \in Nat /\ id < nextRequestId'
    BY <1>7, ReadIsNumbered DEF Sound, AnswersKnown
  <2> QED BY <1>1, <2>1 DEF AnswersKnown, NoRead
<1>11. RowsEven'
  BY <1>1 DEF RowsEven, Cursors, Even, RowsTaken, NoRead
<1> QED BY <1>4, <1>5, <1>6, <1>8, <1>9, <1>10, <1>11 DEF Sound

\* The audit and the failure of a read come before anything is committed.
LEMMA ReceiveEarlySound ==
    ASSUME Sound, toClient # <<>>, toClient' = Tail(toClient),
           ReceiveAudit(Head(toClient)) \/ ReceiveReadError(Head(toClient)),
           UNCHANGED <<adapter, issued, pending, created>>
    PROVE  Sound'
<1>1. UNCHANGED <<calls, granted, taken>> /\ read.phase \in {"requested", "transferred"}
  BY DEF ReceiveAudit, ReceiveReadError
<1>2. ASSUME NEW operation \in Resolutions, ResolveRead(operation),
             operation = "commit_packet_batch" => read.phase = "transferred"
      PROVE  Sound'
  BY <1>1, <1>2, ResolveReadSound
<1>3. CASE FinishRead(read.received)
  <2>1. \A n \in DOMAIN toWorker : toWorker[n].operation # "commit_packet_batch"
    BY <1>1 DEF Sound, RequestsKnown
  <2>2. \A h \in Cursors : Even(h)
    BY <1>1 DEF Sound, RowsEven
  <2>3. DOMAIN taken' \subseteq 0..created
    BY <1>1 DEF Sound, RowsEven
  <2> QED BY <1>1, <1>3, <2>1, <2>2, <2>3, FinishReadSound DEF Even, RowsTaken
<1> QED BY <1>2, <1>3 DEF ReceiveAudit, ReceiveReadError, Resolutions

\* The rows of a committed batch are those its cursor has passed; a refused commit
\* moved no cursor, and a discarded batch none.
LEMMA ReceiveResolutionSound ==
    ASSUME Sound, toClient # <<>>, toClient' = Tail(toClient),
           ReceiveResolution(Head(toClient)), UNCHANGED <<adapter, issued, pending, created>>
    PROVE  Sound'
<1> DEFINE m == Head(toClient)
<1>1. /\ m.id = read.resolution /\ Delivers(m) /\ FinishRead(read.received)
      /\ UNCHANGED <<calls, granted>>
  BY DEF ReceiveResolution
<1>2. 1 \in DOMAIN toClient /\ m = toClient[1]
  BY HeadReceived
<1> HIDE DEF m
<1>3. \A n \in DOMAIN toWorker : toWorker[n].operation # "commit_packet_batch"
  BY <1>1, <1>2 DEF Sound, RequestsKnown, IdsFresh
<1>4. CASE read.phase = "commit_packet_batch" /\ m.kind = "success"
  <2>1. Committed
    BY <1>1, <1>2, <1>4 DEF Committed
  <2>2. /\ DOMAIN taken' = DOMAIN taken \cup {read.resource}
        /\ taken'[read.resource] = read.batch.next
        /\ \A x \in DOMAIN taken : x # read.resource => taken'[x] = taken[x]
    BY <1>1, <1>4 DEF Delivers, With
  <2>3. DOMAIN taken' \subseteq 0..created
    BY <2>2, ReadIsNumbered DEF Sound, RowsEven
  <2>4. \A h \in Cursors :
            IF adapter[h].resource = read.resource THEN adapter[h].next = read.batch.next
                                                   ELSE Even(h)
    BY <1>4, <2>1 DEF Sound, RowsEven
  <2>5. \A h \in Cursors : adapter[h].next = (IF adapter[h].resource \in DOMAIN taken'
                                              THEN taken'[adapter[h].resource] ELSE 0)
    BY <2>2, <2>4 DEF Even, RowsTaken
  <2> QED BY <1>1, <1>3, <2>3, <2>5, FinishReadSound
<1>5. CASE ~(read.phase = "commit_packet_batch" /\ m.kind = "success")
  <2>1. taken' = taken
    BY <1>1, <1>5 DEF Delivers
  <2>2. read.phase = "commit_packet_batch" => Refused
    BY <1>1, <1>2, <1>5 DEF Refused
  <2>3. \A h \in Cursors : Even(h)
    BY <2>2 DEF Sound, RowsEven
  <2>4. DOMAIN taken' \subseteq 0..created
    BY <2>1 DEF Sound, RowsEven
  <2> QED BY <1>1, <1>3, <2>1, <2>3, <2>4, FinishReadSound DEF Even, RowsTaken
<1> QED BY <1>4, <1>5

\* What arrives settles a call, tells of the read, or is not waited for.
LEMMA ReceiveSound == Sound /\ Receive => Sound'
<1> SUFFICES ASSUME Sound, Receive PROVE Sound'
  OBVIOUS
<1> DEFINE m == Head(toClient)
<1>1. /\ toClient # <<>> /\ toClient' = Tail(toClient)
      /\ UNCHANGED <<adapter, issued, pending, created>>
  BY DEF Receive
<1>2. m \in ResponseRecords /\ 1 \in DOMAIN toClient /\ m = toClient[1]
  BY <1>1, HeadReceived
<1>3. CASE ReceiveValue(m)
  BY <1>1, <1>3, ReceiveValueSound
<1>4. CASE ReceiveAudit(m) \/ ReceiveReadError(m)
  BY <1>1, <1>4, ReceiveEarlySound
<1>5. CASE ReceiveResolution(m)
  BY <1>1, <1>5, ReceiveResolutionSound
<1>6. CASE ReceiveResponse(m)
  <2> HIDE DEF m
  <2>1. granted' \subseteq [handle : Handles, resource : Nat]
    BY <1>2, <1>6 DEF ReceiveResponse, Sound, ReadTyped, ResponseRecords
  <2>2. read.phase = "commit_packet_batch" => m.id # read.resolution
    BY <1>6 DEF ReceiveResponse, Sound, AnswersKnown
  <2>3. calls' \subseteq calls /\ UNCHANGED <<toWorker, nextRequestId, read, taken>>
    BY <1>6 DEF ReceiveResponse
  <2> QED BY <1>1, <2>1, <2>2, <2>3, ReceivesOther DEF m
<1>7. CASE ReceiveUnawaited(m)
  <2> HIDE DEF m
  <2>1. UNCHANGED <<toWorker, nextRequestId, read, taken, granted, calls>>
    BY <1>7 DEF ReceiveUnawaited, clientVars
  <2>2. read.phase = "commit_packet_batch" => m.id # read.resolution
    BY <1>2, <1>7 DEF ReceiveUnawaited, Sound, AnswersKnown
  <2>3. granted' \subseteq [handle : Handles, resource : Nat]
    BY <2>1 DEF Sound, ReadTyped
  <2> QED BY <1>1, <2>1, <2>2, <2>3, ReceivesOther DEF m
<1> QED BY <1>3, <1>4, <1>5, <1>6, <1>7 DEF Receive

\* The application calls with handles it was given.
LEMMA CallSound == Sound /\ Call => Sound'
<1> SUFFICES ASSUME Sound, Call PROVE Sound'
  OBVIOUS
<1>1. \A kind \in Kinds : Given(kind) \subseteq Handles
  BY DEF Given, Sound, ReadTyped
<1>2. PICK operation \in Operations \ (Resolutions \cup {"read_packet_batch"}),
           handle \in Handles \cup {NoHandle} : Sends(operation, handle)
  BY <1>1 DEF Call, Operations, BinaryOperations, Resolutions, Kinds
<1> QED BY <1>2, SendsSound

\* A batch is read with a handle to a cursor.
LEMMA ReadSound == Sound /\ Read => Sound'
<1> SUFFICES ASSUME Sound, Read PROVE Sound'
  OBVIOUS
<1>1. \A kind \in Kinds : \A h \in Given(kind) : h \in Handles /\ h.kind = kind
  BY DEF Given, Sound, ReadTyped
<1>2. CASE \E h \in Given("cursor") : ReadBinary("read_packet_batch", h)
  BY <1>1, <1>2, ReadBinarySound DEF Kinds, BinaryOperations
<1>3. CASE \E h \in Given("dataset") : ReadBinary("read_evidence", h)
  BY <1>1, <1>3, ReadBinarySound DEF Kinds, BinaryOperations
<1> QED BY <1>2, <1>3 DEF Read

\* Every step keeps the invariant.
LEMMA NextSound == Sound /\ [Next]_vars => Sound'
<1> SUFFICES ASSUME Sound, [Next]_vars PROVE Sound'
  OBVIOUS
<1>1. CASE Call
  BY <1>1, CallSound
<1>2. CASE Read
  BY <1>2, ReadSound
<1>3. CASE Handle
  BY <1>3, HandleSound
<1>4. CASE Receive
  BY <1>4, ReceiveSound
<1>5. CASE UNCHANGED vars
  <2>1. /\ UNCHANGED <<toWorker, toClient, adapter, issued, pending, created>>
        /\ UNCHANGED <<nextRequestId, calls, read, granted, taken>>
    BY <1>5 DEF vars, runtimeVars, clientVars
  <2>2. PortTyped' /\ ReadTyped' /\ IdsFresh' /\ RequestsKnown'
    BY <2>1 DEF Sound, PortTyped, ReadTyped, IdsFresh, RequestsKnown
  <2>3. AdapterSound' /\ PendingSound' /\ StagedKnown'
    BY <2>1, RuntimeStays
  <2>4. TransferKnown' /\ AnswersKnown'
    BY <2>1 DEF Sound, TransferKnown, AnswersKnown, Remembered
  <2>5. RowsEven'
    BY <2>1 DEF Sound, RowsEven, Cursors, Even, RowsTaken, Committed, Refused
  <2> QED BY <2>2, <2>3, <2>4, <2>5 DEF Sound
<1> QED BY <1>1, <1>2, <1>3, <1>4, <1>5 DEF Next

-----------------------------------------------------------------------------
\* The invariant holds of every behaviour.
THEOREM SoundInvariant == Spec => []Sound
<1> QED BY InitSound, NextSound, PTL DEF Spec

\* A batch that a cursor stages is one the runtime remembers, for the resource and
\* the range of that very cursor, whatever fails, is disposed or is shut down.
THEOREM BatchesAreResolvable == Spec => []StagedBatchesAreResolvable
<1>1. Sound => StagedBatchesAreResolvable
  BY DEF Sound, StagedKnown, PendingSound, StagedBatchesAreResolvable
<1> QED BY <1>1, SoundInvariant, PTL

\* The application has the rows its cursor has passed, except while the answer to
\* the commit that moved the cursor is on its way.
THEOREM RowsOnce == Spec => []RowsAreDeliveredOnce
<1>1. Sound => RowsAreDeliveredOnce
  BY DEF Sound, RowsEven, Cursors, Even, RowsAreDeliveredOnce
<1> QED BY <1>1, SoundInvariant, PTL

-----------------------------------------------------------------------------
\* The transfers outstanding. That each is acknowledged needs that the one being
\* read has been answered with a value, that an acknowledgement is about a batch
\* already resolved, and that a binary read is the last request of its kind.

IsAck(r) == r.operation = "ack_transfer"
IsBinary(r) == r.operation \in BinaryOperations

AcksKnown ==
    /\ \A n \in DOMAIN toWorker : IsAck(toWorker[n]) =>
           /\ toWorker[n].of < nextRequestId /\ toWorker[n].of \notin DOMAIN pending
           /\ \A m \in DOMAIN toWorker : toWorker[m].id # toWorker[n].of
    /\ \A m, n \in DOMAIN toWorker : IsAck(toWorker[m]) /\ IsBinary(toWorker[n]) => m < n

ReadKnown ==
    /\ read.operation = "read_evidence" => read.id \notin DOMAIN pending
    /\ read.resolution # 0 => read.phase \in Resolutions
    /\ \A n \in DOMAIN toWorker :
           /\ IsBinary(toWorker[n]) => read.phase = "requested" /\ toWorker[n].id = read.id
           /\ toWorker[n].id = read.id => toWorker[n].operation = read.operation
           /\ read.resolution # 0 => toWorker[n].id # read.id
           /\ read.resolution # 0 /\ toWorker[n].id = read.resolution =>
                  toWorker[n].operation \in Resolutions /\ toWorker[n].of = read.id
    /\ \A n \in DOMAIN toClient :
           read.resolution # 0 /\ toClient[n].id = read.resolution => read.id \notin DOMAIN pending

OutstandingKnown ==
    \A id \in outstanding :
        /\ id \in Nat \ {0} /\ id < nextRequestId
        /\ \A n \in DOMAIN toWorker : toWorker[n].id # id
        /\ id = read.id \/ \E n \in DOMAIN toWorker : IsAck(toWorker[n]) /\ toWorker[n].of = id
        /\ id = read.id /\ read.phase \in Resolutions => read.received
        /\ \A n \in DOMAIN toClient : toClient[n].id = id => toClient[n].kind # "error"

Acknowledged == AcksKnown /\ ReadKnown /\ OutstandingKnown

\* What the runtime may do to the transfers when it handles a request.
Settles(r) ==
    /\ \A n \in DOMAIN toClient' :
           (n \in DOMAIN toClient /\ toClient'[n] = toClient[n]) \/ toClient'[n].id = r.id
    /\ \A id \in DOMAIN pending' :
           id \in DOMAIN pending \/ (id = r.id /\ r.operation = "read_packet_batch")
    /\ r.operation \in Resolutions => r.of \notin DOMAIN pending'
    /\ \A id \in outstanding' :
           \/ id \in outstanding /\ ~(IsAck(r) /\ id = r.of)
           \/ /\ id = r.id /\ IsBinary(r)
              /\ \A n \in DOMAIN toClient' : toClient'[n].id = id => toClient'[n].kind # "error"

\* A request that settles what it should keeps every transfer acknowledged.
LEMMA SettlesAcknowledged ==
    ASSUME Sound, Acknowledged, NEW r, Takes(r), Settles(r)
    PROVE  Acknowledged'
<1>1. UNCHANGED <<nextRequestId, read>>
  BY DEF Takes, clientVars
<1>2. /\ r \in RequestRecords /\ 1 \in DOMAIN toWorker /\ r = toWorker[1]
      /\ r.id \in Nat /\ r.id # 0 /\ r.id < nextRequestId
      /\ \A n \in DOMAIN toClient : toClient[n].id # r.id
      /\ \A n \in DOMAIN toWorker' :
             n + 1 \in DOMAIN toWorker /\ n + 1 # 1 /\ toWorker'[n] = toWorker[n + 1]
  BY TakesFresh
<1>3. \A n \in DOMAIN toWorker : n = 1 \/ \E k \in DOMAIN toWorker' : toWorker'[k] = toWorker[n]
  BY Taken DEF Takes, Sound, PortTyped
<1>4. \A n \in DOMAIN toWorker' : toWorker'[n].id # r.id
  BY <1>2 DEF Sound, IdsFresh
<1>5. AcksKnown'
  <2>1. ASSUME NEW n \in DOMAIN toWorker', IsAck(toWorker'[n])
        PROVE  /\ toWorker'[n].of < nextRequestId /\ toWorker'[n].of \notin DOMAIN pending'
               /\ \A m \in DOMAIN toWorker' : toWorker'[m].id # toWorker'[n].of
    BY <1>2, <2>1 DEF Acknowledged, AcksKnown, Settles
  <2>2. ASSUME NEW m \in DOMAIN toWorker', NEW n \in DOMAIN toWorker',
               IsAck(toWorker'[m]), IsBinary(toWorker'[n])
        PROVE  m < n
    <3>1. m + 1 < n + 1
      BY <1>2, <2>2 DEF Acknowledged, AcksKnown
    <3>2. toWorker' \in Seq(RequestRecords)
      BY TakesFresh
    <3>3. m \in Nat /\ n \in Nat
      BY <3>2
    <3> QED BY <3>1, <3>3
  <2> QED BY <1>1, <2>1, <2>2 DEF AcksKnown, IsAck, IsBinary
<1>6. ReadKnown'
  <2>1. read.operation = "read_evidence" => read.id \notin DOMAIN pending'
    BY <1>2 DEF Acknowledged, ReadKnown, Settles
  <2>2. \A n \in DOMAIN toWorker' :
            /\ IsBinary(toWorker'[n]) => read.phase = "requested" /\ toWorker'[n].id = read.id
            /\ toWorker'[n].id = read.id => toWorker'[n].operation = read.operation
            /\ read.resolution # 0 => toWorker'[n].id # read.id
            /\ read.resolution # 0 /\ toWorker'[n].id = read.resolution =>
                   toWorker'[n].operation \in Resolutions /\ toWorker'[n].of = read.id
    BY <1>2 DEF Acknowledged, ReadKnown
  <2>3. ASSUME NEW n \in DOMAIN toClient', read.resolution # 0, toClient'[n].id = read.resolution
        PROVE  read.id \notin DOMAIN pending'
    <3>1. r.id # read.id
      BY <1>2, <2>3 DEF Acknowledged, ReadKnown
    <3>2. CASE r.id = read.resolution
      BY <1>2, <2>3, <3>2 DEF Acknowledged, ReadKnown, Settles
    <3>3. CASE r.id # read.resolution
      BY <2>3, <3>1, <3>3 DEF Acknowledged, ReadKnown, Settles
    <3> QED BY <3>2, <3>3
  <2> QED BY <1>1, <2>1, <2>2, <2>3 DEF Acknowledged, ReadKnown, IsBinary
<1>7. OutstandingKnown'
  <2> SUFFICES ASSUME NEW id \in outstanding'
               PROVE  /\ id \in Nat \ {0} /\ id < nextRequestId
                      /\ \A n \in DOMAIN toWorker' : toWorker'[n].id # id
                      /\ \/ id = read.id
                         \/ \E n \in DOMAIN toWorker' : IsAck(toWorker'[n]) /\ toWorker'[n].of = id
                      /\ id = read.id /\ read.phase \in Resolutions => read.received
                      /\ \A n \in DOMAIN toClient' :
                             toClient'[n].id = id => toClient'[n].kind # "error"
    BY <1>1 DEF OutstandingKnown, IsAck
  <2>1. CASE id \in outstanding /\ ~(IsAck(r) /\ id = r.of)
    <3>1. /\ id \in Nat \ {0} /\ id < nextRequestId /\ id # r.id
          /\ id = read.id /\ read.phase \in Resolutions => read.received
          /\ \A n \in DOMAIN toWorker' : toWorker'[n].id # id
      BY <1>2, <2>1 DEF Acknowledged, OutstandingKnown
    <3>2. \/ id = read.id
          \/ \E n \in DOMAIN toWorker' : IsAck(toWorker'[n]) /\ toWorker'[n].of = id
      BY <1>2, <1>3, <2>1 DEF Acknowledged, OutstandingKnown
    <3>3. \A n \in DOMAIN toClient' : toClient'[n].id = id => toClient'[n].kind # "error"
      BY <2>1, <3>1 DEF Acknowledged, OutstandingKnown, Settles
    <3> QED BY <3>1, <3>2, <3>3
  <2>2. CASE /\ id = r.id /\ IsBinary(r)
             /\ \A n \in DOMAIN toClient' : toClient'[n].id = id => toClient'[n].kind # "error"
    <3>1. read.phase = "requested" /\ id = read.id
      BY <1>2, <2>2 DEF Acknowledged, ReadKnown
    <3> QED BY <1>2, <1>4, <2>2, <3>1 DEF Resolutions
  <2> QED BY <2>1, <2>2 DEF Settles
<1> QED BY <1>5, <1>6, <1>7 DEF Acknowledged

\* A request that is answered once and sends no bytes settles what it should.
LEMMA AnsweredSettles ==
    ASSUME Sound, NEW r, Takes(r), NEW m, m.id = r.id, toClient' = Append(toClient, m),
           DOMAIN pending' \subseteq DOMAIN pending, outstanding' \subseteq outstanding,
           r.operation \in Resolutions => r.of \notin DOMAIN pending',
           IsAck(r) => r.of \notin outstanding'
    PROVE  Settles(r)
<1>1. toClient \in Seq(ResponseRecords)
  BY DEF Sound, PortTyped
<1>2. /\ Len(toClient) \in Nat /\ DOMAIN toClient = 1..Len(toClient)
      /\ DOMAIN toClient' = 1..Len(toClient) + 1
      /\ \A n \in 1..Len(toClient) : toClient'[n] = toClient[n]
      /\ toClient'[Len(toClient) + 1] = m
  BY <1>1
<1>3. \A n \in DOMAIN toClient' :
          (n \in DOMAIN toClient /\ toClient'[n] = toClient[n]) \/ toClient'[n].id = r.id
  BY <1>2
<1> QED BY <1>3 DEF Settles

\* A failure forgets at most what was staged under its own id.
LEMMA FailsSettles ==
    ASSUME Sound, NEW r, Takes(r), NEW table, NEW batches, Fails(r, table, batches),
           DOMAIN batches \ {r.id} \subseteq DOMAIN pending, UNCHANGED outstanding,
           r.operation \in Resolutions => r.of \notin DOMAIN batches,
           IsAck(r) => r.of \notin outstanding
    PROVE  Settles(r)
<1>1. DOMAIN pending' = DOMAIN batches \ {r.id}
  BY WithoutTable DEF Fails
<1>2. Answer("error", r).id = r.id /\ toClient' = Append(toClient, Answer("error", r))
  BY DEF Answer, Response, Fails
<1> QED BY <1>1, <1>2, AnsweredSettles

\* Bytes that are sent are outstanding under the id of the read that asked for them.
LEMMA TransfersSettles ==
    ASSUME Sound, NEW r, Takes(r), NEW batch, Transfers(r, batch), IsBinary(r),
           \A id \in DOMAIN pending' :
               id \in DOMAIN pending \/ (id = r.id /\ r.operation = "read_packet_batch")
    PROVE  Settles(r)
<1> DEFINE value == Response("success", r, r.handle, adapter[r.handle].resource, batch)
           audit == Answer("transfer_audit", r)
<1>1. /\ toClient' = toClient \o <<value, audit>> /\ outstanding' = outstanding \cup {r.id}
  BY DEF Transfers
<1>2. /\ value.id = r.id /\ value.kind = "success" /\ audit.id = r.id /\ audit.kind = "transfer_audit"
  BY DEF Response, Answer
<1> HIDE DEF value, audit
<1>3. toClient \in Seq(ResponseRecords)
  BY DEF Sound, PortTyped
<1>4. /\ <<value, audit>>[1] = value /\ <<value, audit>>[2] = audit
      /\ Len(toClient) \in Nat /\ DOMAIN toClient = 1..Len(toClient)
      /\ DOMAIN toClient' = 1..Len(toClient) + 2
      /\ \A n \in 1..Len(toClient) + 2 :
             toClient'[n] = IF n <= Len(toClient) THEN toClient[n]
                                                  ELSE <<value, audit>>[n - Len(toClient)]
  <2>1. /\ <<value, audit>> \in Seq({value, audit}) /\ Len(<<value, audit>>) = 2
        /\ <<value, audit>>[1] = value /\ <<value, audit>>[2] = audit
    OBVIOUS
  <2> QED BY <1>1, <1>3, <2>1
<1>5. \A n \in DOMAIN toClient' :
          \/ n \in DOMAIN toClient /\ toClient'[n] = toClient[n]
          \/ toClient'[n] = value \/ toClient'[n] = audit
  BY <1>4
<1>6. \A n \in DOMAIN toClient' : toClient'[n].id = r.id => toClient'[n].kind # "error"
  BY <1>2, <1>5, TakesFresh
<1> QED BY <1>1, <1>2, <1>5, <1>6 DEF Settles, IsBinary, BinaryOperations, Resolutions, IsAck

\* A refusal settles what it should: a resolution that names no batch is refused,
\* and an acknowledgement never is.
LEMMA RefusesSettles ==
    ASSUME Sound, NEW r, Takes(r), Refuses(r), ~IsAck(r),
           r.operation \in Resolutions => r.of \notin DOMAIN pending
    PROVE  Settles(r)
  BY FailsSettles DEF Refuses

\* Every request settles what it should.
LEMMA HandleAcknowledged == Sound /\ Acknowledged /\ Handle => Acknowledged'
<1> SUFFICES ASSUME Sound, Acknowledged, Handle PROVE Acknowledged'
  OBVIOUS
<1>1. PICK r : Takes(r) /\ Dispatch(r)
  BY DEF Handle, HandleRequest, Takes
<1> SUFFICES Settles(r)
  BY <1>1, SettlesAcknowledged
<1>2. ASSUME NEW kind, NEW dataset, NEW consumed, Issues(r, kind, dataset, consumed),
             r.operation \notin Resolutions, ~IsAck(r)
      PROVE  Settles(r)
  <2>1. UNCHANGED <<outstanding, pending>>
    BY <1>2 DEF Issues
  <2>2. PICK m : toClient' = Append(toClient, m) /\ m.id = r.id
    BY <1>2 DEF Issues, Response
  <2> QED BY <1>1, <1>2, <2>1, <2>2, AnsweredSettles
<1>3. ASSUME Succeeds(r), DOMAIN pending' \subseteq DOMAIN pending,
             outstanding' \subseteq outstanding,
             r.operation \in Resolutions => r.of \notin DOMAIN pending',
             IsAck(r) => r.of \notin outstanding'
      PROVE  Settles(r)
  <2>1. PICK m : toClient' = Append(toClient, m) /\ m.id = r.id
    BY <1>3 DEF Succeeds, Answer, Response
  <2> QED BY <1>1, <1>3, <2>1, AnsweredSettles
<1>4. CASE r.operation = "begin_import" /\ BeginImport(r)
  BY <1>1, <1>2, <1>4, RefusesSettles DEF BeginImport, Resolutions, IsAck
<1>5. CASE r.operation = "step_import" /\ StepImport(r)
  <2>1. r.operation \notin Resolutions /\ ~IsAck(r)
    BY <1>5 DEF Resolutions, IsAck
  <2>2. ASSUME Fails(r, Without(adapter, {r.handle}), pending), UNCHANGED outstanding
        PROVE  Settles(r)
    BY <1>1, <2>1, <2>2, FailsSettles
  <2> QED BY <1>1, <1>2, <1>3, <1>5, <2>1, <2>2, RefusesSettles DEF StepImport
<1>6. CASE r.operation = "open_packet_cursor" /\ OpenPacketCursor(r)
  BY <1>1, <1>2, <1>6, RefusesSettles DEF OpenPacketCursor, Resolutions, IsAck
<1>7. CASE r.operation \in {"dispose", "cancel_import"} /\ Dispose(r)
  BY <1>3, <1>7 DEF Dispose, Resolutions, IsAck
<1>8. CASE r.operation = "shutdown" /\ Shutdown(r)
  BY <1>3, <1>8 DEF Shutdown, Nothing, Resolutions, IsAck
<1>9. CASE r.operation = "read_packet_batch" /\ ReadPacketBatch(r)
  <2>1. r.operation \notin Resolutions /\ ~IsAck(r) /\ IsBinary(r)
    BY <1>9 DEF Resolutions, IsAck, IsBinary, BinaryOperations
  <2>2. ASSUME NEW entry, NEW table,
               Fails(r, table, With(pending, r.id, entry)), UNCHANGED outstanding
        PROVE  Settles(r)
    <3>1. DOMAIN With(pending, r.id, entry) \ {r.id} \subseteq DOMAIN pending
      BY DEF With
    <3> QED BY <1>1, <2>1, <2>2, <3>1, FailsSettles
  <2>3. ASSUME NEW table, DropsCorruptCursor(r, table)
        PROVE  Settles(r)
    BY <1>1, <2>1, <2>3, FailsSettles DEF DropsCorruptCursor
  <2>4. ASSUME NEW entry, NEW batch, pending' = With(pending, r.id, entry), Transfers(r, batch)
        PROVE  Settles(r)
    <3>1. DOMAIN pending' = DOMAIN pending \cup {r.id}
      BY <2>4 DEF With
    <3> QED BY <1>1, <1>9, <2>1, <2>4, <3>1, TransfersSettles
  <2>5. CASE ~Refuses(r)
    <3> DEFINE start == adapter[r.handle].next
               entry(next) == [cursor |-> r.handle, start |-> start, next |-> next,
                               resource |-> adapter[r.handle].resource]
               table(next) == [adapter EXCEPT ![r.handle].staged = Batch(start, next)]
    <3>1. PICK next \in Offered(adapter[r.handle]) :
              \/ pending' = With(pending, r.id, entry(next)) /\ Transfers(r, Batch(start, next))
              \/ DropsCorruptCursor(r, table(next))
              \/ Fails(r, table(next), With(pending, r.id, entry(next))) /\ UNCHANGED outstanding
      BY <1>9, <2>5 DEF ReadPacketBatch
    <3> HIDE DEF start, entry, table
    <3> QED BY <2>2, <2>3, <2>4, <3>1
  <2> QED BY <1>1, <2>1, <2>5, RefusesSettles
<1>10. CASE r.operation = "read_evidence" /\ ReadEvidence(r)
  <2>1. r.operation \notin Resolutions /\ ~IsAck(r) /\ IsBinary(r)
    BY <1>10 DEF Resolutions, IsAck, IsBinary, BinaryOperations
  <2> QED BY <1>1, <1>10, <2>1, TransfersSettles, RefusesSettles DEF ReadEvidence
<1>11. CASE r.operation \in Resolutions /\ ResolvePacketBatch(r)
  <2>1. /\ r.of \notin DOMAIN Without(pending, {r.of})
        /\ DOMAIN Without(pending, {r.of}) \subseteq DOMAIN pending
    BY DEF Without, Restrict
  <2>2. ASSUME NEW table, Fails(r, table, Without(pending, {r.of})), UNCHANGED outstanding
        PROVE  Settles(r)
    BY <1>1, <1>11, <2>1, <2>2, FailsSettles DEF Resolutions, IsAck
  <2> QED BY <1>1, <1>3, <1>11, <2>1, <2>2, RefusesSettles
            DEF ResolvePacketBatch, Resolutions, IsAck
<1>12. CASE r.operation = "ack_transfer" /\ AckTransfer(r)
  <2>1. r = toWorker[1] /\ 1 \in DOMAIN toWorker /\ IsAck(r)
    BY <1>1, <1>12, TakesFresh DEF IsAck
  <2>2. r.of \notin DOMAIN pending
    BY <2>1 DEF Acknowledged, AcksKnown
  <2> QED BY <1>3, <1>12, <2>2 DEF AckTransfer, Resolutions
<1> QED BY <1>1, <1>4, <1>5, <1>6, <1>7, <1>8, <1>9, <1>10, <1>11, <1>12 DEF Dispatch

-----------------------------------------------------------------------------
\* The client's steps and the transfers.

\* What is posted comes after everything posted before.
LEMMA PostedLast ==
    ASSUME Sound, NEW new, Posts(new)
    PROVE  /\ \A n \in DOMAIN toWorker : n \in DOMAIN toWorker' /\ toWorker'[n] = toWorker[n]
           /\ \E k \in DOMAIN toWorker' :
                  /\ toWorker'[k] = new /\ k \notin DOMAIN toWorker
                  /\ \A n \in DOMAIN toWorker' :
                         n = k \/ (n \in DOMAIN toWorker /\ n < k /\ toWorker'[n] = toWorker[n])
<1>1. toWorker \in Seq(RequestRecords)
  BY DEF Sound, PortTyped
<1>2. /\ Len(toWorker) \in Nat /\ DOMAIN toWorker = 1..Len(toWorker)
      /\ DOMAIN toWorker' = 1..Len(toWorker) + 1
      /\ \A n \in 1..Len(toWorker) : toWorker'[n] = toWorker[n]
      /\ toWorker'[Len(toWorker) + 1] = new
  BY <1>1 DEF Posts
<1>3. \A n \in DOMAIN toWorker' :
          n = Len(toWorker) + 1
          \/ (n \in DOMAIN toWorker /\ n < Len(toWorker) + 1 /\ toWorker'[n] = toWorker[n])
  BY <1>2
<1> QED BY <1>2, <1>3

\* An acknowledgement is posted when no binary read is waiting to be handled, for a
\* batch that is not pending.
LEMMA SendingAcks ==
    ASSUME Sound, Acknowledged, NEW new, new.id = nextRequestId, Sending(new), UNCHANGED pending,
           Posts(new) /\ IsAck(new) =>
               /\ new.of \in Nat /\ new.of < nextRequestId /\ new.of \notin DOMAIN pending
               /\ \A n \in DOMAIN toWorker :
                      toWorker[n].id # new.of /\ ~IsBinary(toWorker[n])
    PROVE  AcksKnown'
<1>1. CASE UNCHANGED <<toWorker, nextRequestId>>
  BY <1>1 DEF Acknowledged, AcksKnown, IsAck, IsBinary
<1>2. CASE Posts(new)
  <2>1. nextRequestId \in Nat \ {0} /\ nextRequestId' = nextRequestId + 1
    BY <1>2 DEF Posts, Sound, IdsFresh
  <2>2. PICK k \in DOMAIN toWorker' :
            /\ toWorker'[k] = new /\ k \notin DOMAIN toWorker
            /\ \A n \in DOMAIN toWorker' :
                   n = k \/ (n \in DOMAIN toWorker /\ n < k /\ toWorker'[n] = toWorker[n])
    BY <1>2, PostedLast
  <2>3. \A n \in DOMAIN toWorker : toWorker[n].of \in Nat
    <3> SUFFICES ASSUME NEW n \in DOMAIN toWorker PROVE toWorker[n].of \in Nat
      OBVIOUS
    <3>1. toWorker[n] \in RequestRecords
      BY DEF Sound, PortTyped
    <3> QED BY <3>1 DEF RequestRecords
  <2>4. ASSUME NEW n \in DOMAIN toWorker', IsAck(toWorker'[n])
        PROVE  /\ toWorker'[n].of < nextRequestId' /\ toWorker'[n].of \notin DOMAIN pending
               /\ \A m \in DOMAIN toWorker' : toWorker'[m].id # toWorker'[n].of
    <3>1. /\ toWorker'[n].of \in Nat /\ toWorker'[n].of < nextRequestId
          /\ toWorker'[n].of \notin DOMAIN pending
          /\ \A m \in DOMAIN toWorker : toWorker[m].id # toWorker'[n].of
      BY <1>2, <2>2, <2>3, <2>4 DEF Acknowledged, AcksKnown
    <3> QED BY <2>1, <2>2, <3>1
  <2>5. ASSUME NEW m \in DOMAIN toWorker', NEW n \in DOMAIN toWorker',
               IsAck(toWorker'[m]), IsBinary(toWorker'[n])
        PROVE  m < n
    <3>1. ~(IsAck(new) /\ IsBinary(new))
      BY DEF IsAck, IsBinary, BinaryOperations
    <3> QED BY <1>2, <2>2, <2>5, <3>1 DEF Acknowledged, AcksKnown
  <2> QED BY <2>4, <2>5 DEF AcksKnown, IsAck, IsBinary
<1> QED BY <1>1, <1>2 DEF Sending

\* What is outstanding stays so, and what was acknowledged stays acknowledged.
LEMMA SendingOutstanding ==
    ASSUME Sound, Acknowledged, NEW new, new.id = nextRequestId, Sending(new),
           UNCHANGED outstanding,
           \A n \in DOMAIN toClient' : \E m \in DOMAIN toClient : toClient'[n] = toClient[m]
    PROVE  \A id \in outstanding' :
               /\ id \in Nat \ {0} /\ id < nextRequestId' /\ id < nextRequestId
               /\ \A n \in DOMAIN toWorker' : toWorker'[n].id # id
               /\ id = read.id
                  \/ \E n \in DOMAIN toWorker' : IsAck(toWorker'[n]) /\ toWorker'[n].of = id
               /\ \A n \in DOMAIN toClient' : toClient'[n].id = id => toClient'[n].kind # "error"
<1> SUFFICES ASSUME NEW id \in outstanding
             PROVE  /\ id \in Nat \ {0} /\ id < nextRequestId' /\ id < nextRequestId
                    /\ \A n \in DOMAIN toWorker' : toWorker'[n].id # id
                    /\ id = read.id
                       \/ \E n \in DOMAIN toWorker' : IsAck(toWorker'[n]) /\ toWorker'[n].of = id
                    /\ \A n \in DOMAIN toClient' :
                           toClient'[n].id = id => toClient'[n].kind # "error"
  OBVIOUS
<1>1. /\ id \in Nat \ {0} /\ id < nextRequestId
      /\ \A n \in DOMAIN toWorker : toWorker[n].id # id
      /\ id = read.id
         \/ \E n \in DOMAIN toWorker : IsAck(toWorker[n]) /\ toWorker[n].of = id
      /\ \A n \in DOMAIN toClient' : toClient'[n].id = id => toClient'[n].kind # "error"
  BY DEF Acknowledged, OutstandingKnown
<1>2. CASE UNCHANGED <<toWorker, nextRequestId>>
  BY <1>1, <1>2 DEF IsAck
<1>3. CASE Posts(new)
  <2>1. nextRequestId \in Nat \ {0} /\ nextRequestId' = nextRequestId + 1
    BY <1>3 DEF Posts, Sound, IdsFresh
  <2>2. \A n \in DOMAIN toWorker' : toWorker'[n].id # id
    BY <1>1, <1>3, <2>1, PostedLast
  <2> QED BY <1>1, <1>3, <2>1, <2>2, PostedLast
<1> QED BY <1>2, <1>3 DEF Sending

\* A call is no part of the binary read.
LEMMA SendsAcknowledged ==
    ASSUME Sound, Acknowledged,
           NEW operation \in Operations \ (Resolutions \cup BinaryOperations \cup {"ack_transfer"}),
           NEW handle, Sends(operation, handle)
    PROVE  Acknowledged'
<1> DEFINE new == Request(operation, nextRequestId, handle, 0)
<1>1. Posts(new) /\ UNCHANGED <<toClient, outstanding, pending, read>>
  BY DEF Sends
<1>2. /\ new.id = nextRequestId /\ new.operation = operation
      /\ ~IsAck(new) /\ ~IsBinary(new)
  BY DEF Request, IsAck, IsBinary
<1> HIDE DEF new
<1>3. AcksKnown'
  BY <1>1, <1>2, SendingAcks DEF Sending
<1>4. OutstandingKnown'
  BY <1>1, <1>2, SendingOutstanding DEF Sending, Acknowledged, OutstandingKnown, IsAck
<1>5. ReadKnown'
  <2>1. \A n \in DOMAIN toWorker' :
            (n \in DOMAIN toWorker /\ toWorker'[n] = toWorker[n]) \/ toWorker'[n] = new
    BY <1>1, PostedLast
  <2>2. new.id # read.id /\ new.id # read.resolution
    BY <1>2, ReadIsNumbered
  <2> QED BY <1>1, <1>2, <2>1, <2>2 DEF Acknowledged, ReadKnown, IsBinary
<1> QED BY <1>3, <1>4, <1>5 DEF Acknowledged

\* A binary read is asked for when none is under way.
LEMMA ReadBinaryAcknowledged ==
    ASSUME Sound, Acknowledged, NEW operation \in BinaryOperations, NEW handle,
           ReadBinary(operation, handle)
    PROVE  Acknowledged'
<1> DEFINE new == Request(operation, nextRequestId, handle, 0)
<1>1. /\ Posts(new) /\ UNCHANGED <<toClient, outstanding, pending>> /\ read = NoRead
      /\ read'.id = nextRequestId /\ read'.operation = operation
      /\ read'.phase = "requested" /\ read'.resolution = 0
  BY DEF ReadBinary, NoRead
<1>2. new.id = nextRequestId /\ new.operation = operation /\ ~IsAck(new)
  BY DEF Request, IsAck, BinaryOperations
<1> HIDE DEF new
<1>3. AcksKnown'
  BY <1>1, <1>2, SendingAcks DEF Sending
<1>4. nextRequestId \notin DOMAIN pending
  BY ReadIsNumbered DEF Sound, IdsFresh
<1>5. OutstandingKnown'
  <2>1. \A id \in outstanding : id # nextRequestId /\ id # 0
    BY ReadIsNumbered DEF Acknowledged, OutstandingKnown
  <2> QED BY <1>1, <1>2, <2>1, SendingOutstanding
          DEF Sending, OutstandingKnown, IsAck, NoRead, Resolutions
<1>6. ReadKnown'
  <2>1. \A n \in DOMAIN toWorker' :
            (n \in DOMAIN toWorker /\ toWorker'[n] = toWorker[n]) \/ toWorker'[n] = new
    BY <1>1, PostedLast
  <2>2. \A n \in DOMAIN toWorker : ~IsBinary(toWorker[n]) /\ toWorker[n].id # nextRequestId
    BY <1>1, ReadIsNumbered DEF Acknowledged, ReadKnown, NoRead, Sound, IdsFresh
  <2> QED BY <1>1, <1>2, <1>4, <2>1, <2>2 DEF ReadKnown, IsBinary
<1> QED BY <1>3, <1>5, <1>6 DEF Acknowledged

\* A message that is not about the read leaves its transfer as it is.
LEMMA ReceivesOtherAcknowledged ==
    ASSUME Sound, Acknowledged, toClient # <<>>, toClient' = Tail(toClient),
           UNCHANGED <<toWorker, nextRequestId, read, outstanding, pending>>
    PROVE  Acknowledged'
<1>1. \A n \in DOMAIN toClient' : \E m \in DOMAIN toClient : toClient'[n] = toClient[m]
  BY HeadReceived DEF Receives
<1> QED BY <1>1 DEF Acknowledged, AcksKnown, ReadKnown, OutstandingKnown, IsAck, IsBinary

\* The value is received, and so will be acknowledged.
LEMMA ReceiveValueAcknowledged ==
    ASSUME Sound, Acknowledged, toClient # <<>>, toClient' = Tail(toClient),
           ReceiveValue(Head(toClient)), UNCHANGED <<outstanding, pending>>
    PROVE  Acknowledged'
<1>1. \A n \in DOMAIN toClient' : \E m \in DOMAIN toClient : toClient'[n] = toClient[m]
  BY HeadReceived DEF Receives
<1>2. /\ UNCHANGED <<toWorker, nextRequestId>>
      /\ read.phase = "requested" /\ Head(toClient).id = read.id
      /\ read'.phase = "transferred" /\ read'.received
      /\ read'.id = read.id /\ read'.operation = read.operation
      /\ read'.resolution = read.resolution
  BY DEF ReceiveValue, Sound, ReadTyped
<1>3. \A n \in DOMAIN toWorker : toWorker[n].id # read.id
  BY <1>2, HeadReceived DEF Sound, IdsFresh
<1>4. read.resolution = 0
  BY <1>2 DEF Acknowledged, ReadKnown, Resolutions
<1>5. AcksKnown'
  BY <1>2 DEF Acknowledged, AcksKnown, IsAck, IsBinary
<1>6. ReadKnown'
  BY <1>2, <1>3, <1>4 DEF Acknowledged, ReadKnown, IsBinary
<1>7. OutstandingKnown'
  BY <1>1, <1>2 DEF Acknowledged, OutstandingKnown, IsAck, Resolutions
<1> QED BY <1>5, <1>6, <1>7 DEF Acknowledged

\* A resolution is asked for when the read has been answered; one that failed has
\* no transfer outstanding.
LEMMA ResolveReadAcknowledged ==
    ASSUME Sound, Acknowledged, NEW operation \in Resolutions, ResolveRead(operation),
           toClient # <<>>, toClient' = Tail(toClient), Head(toClient).id = read.id,
           Head(toClient).kind = "error" \/ read.received,
           UNCHANGED <<outstanding, pending>>
    PROVE  Acknowledged'
<1> DEFINE new == Request(operation, nextRequestId, NoHandle, read.id)
<1>1. \A n \in DOMAIN toClient' : \E m \in DOMAIN toClient : toClient'[n] = toClient[m]
  BY HeadReceived DEF Receives
<1>2. /\ Posts(new)
      /\ read'.phase = operation /\ read'.resolution = nextRequestId
      /\ read'.id = read.id /\ read'.operation = read.operation
      /\ read'.received = read.received
  BY DEF ResolveRead, Sound, ReadTyped
<1>3. /\ new.id = nextRequestId /\ new.operation = operation /\ new.of = read.id
      /\ ~IsAck(new) /\ ~IsBinary(new)
  BY DEF Request, IsAck, IsBinary, Resolutions, BinaryOperations
<1> HIDE DEF new
<1>4. \A n \in DOMAIN toWorker : toWorker[n].id # read.id
  BY HeadReceived DEF Sound, IdsFresh
<1>5. AcksKnown'
  BY <1>2, <1>3, SendingAcks DEF Sending
<1>6. ReadKnown'
  <2>1. \A n \in DOMAIN toWorker' :
            (n \in DOMAIN toWorker /\ toWorker'[n] = toWorker[n]) \/ toWorker'[n] = new
    BY <1>2, PostedLast
  <2>2. \A n \in DOMAIN toWorker : ~IsBinary(toWorker[n]) /\ toWorker[n].id # nextRequestId
    BY <1>4, ReadIsNumbered DEF Acknowledged, ReadKnown, Sound, IdsFresh
  <2>3. new.id # read.id
    BY <1>3, ReadIsNumbered
  <2>4. \A n \in DOMAIN toClient' : toClient'[n].id # nextRequestId
    BY <1>1, ReadIsNumbered DEF Sound, IdsFresh
  <2>5. read.operation = "read_evidence" => read.id \notin DOMAIN pending'
    BY DEF Acknowledged, ReadKnown
  <2> QED BY <1>2, <1>3, <1>4, <2>1, <2>2, <2>3, <2>4, <2>5 DEF ReadKnown, IsBinary
<1>7. OutstandingKnown'
  <2>1. read.received \/ read.id \notin outstanding
    BY HeadReceived DEF Acknowledged, OutstandingKnown
  <2> QED BY <1>1, <1>2, <1>3, <2>1, SendingOutstanding DEF Sending, OutstandingKnown, IsAck
<1> QED BY <1>5, <1>6, <1>7 DEF Acknowledged

\* What was received is acknowledged, and what was not is not outstanding.
LEMMA FinishReadAcknowledged ==
    ASSUME Sound, Acknowledged, FinishRead(read.received),
           toClient # <<>>, toClient' = Tail(toClient), UNCHANGED <<outstanding, pending>>,
           \A n \in DOMAIN toWorker : ~IsBinary(toWorker[n]),
           read.id \notin DOMAIN pending, read.received \/ read.id \notin outstanding
    PROVE  Acknowledged'
<1> DEFINE new == Request("ack_transfer", nextRequestId, NoHandle, read.id)
<1>1. \A n \in DOMAIN toClient' : \E m \in DOMAIN toClient : toClient'[n] = toClient[m]
  BY HeadReceived DEF Receives
<1>2. /\ read' = NoRead /\ Sending(new)
      /\ IF read.received THEN Posts(new) ELSE UNCHANGED <<toWorker, nextRequestId>>
  BY DEF FinishRead, Sending
<1>3. new.id = nextRequestId /\ new.of = read.id /\ IsAck(new) /\ ~IsBinary(new)
  BY DEF Request, IsAck, IsBinary, BinaryOperations
<1> HIDE DEF new
<1>4. read.received => \A n \in DOMAIN toWorker : toWorker[n].id # read.id
  BY DEF Sound, TransferKnown
<1>5. Posts(new) => nextRequestId' # nextRequestId
  BY ReadIsNumbered DEF Posts
<1>6. Posts(new) => read.received
  BY <1>2, <1>5
<1>7. AcksKnown'
  BY <1>2, <1>3, <1>4, <1>6, ReadIsNumbered, SendingAcks
<1>8. \A n \in DOMAIN toWorker' :
          (n \in DOMAIN toWorker /\ toWorker'[n] = toWorker[n]) \/ toWorker'[n] = new
  BY <1>2, PostedLast
<1>9. ReadKnown'
  <2>1. \A n \in DOMAIN toWorker' : ~IsBinary(toWorker'[n]) /\ toWorker'[n].id # 0
    BY <1>3, <1>8, ReadIsNumbered DEF Sound, IdsFresh
  <2> QED BY <1>2, <2>1 DEF ReadKnown, NoRead, IsBinary
<1>10. OutstandingKnown'
  <2>1. ASSUME NEW id \in outstanding, id = read.id
        PROVE  \E n \in DOMAIN toWorker' : IsAck(toWorker'[n]) /\ toWorker'[n].of = id
    BY <1>2, <1>3, <2>1, PostedLast
  <2> QED BY <1>1, <1>2, <1>3, <2>1, SendingOutstanding DEF OutstandingKnown, IsAck, NoRead
<1> QED BY <1>7, <1>9, <1>10 DEF Acknowledged

\* Whatever arrives, every transfer stays acknowledged.
LEMMA ReceiveAcknowledged == Sound /\ Acknowledged /\ Receive => Acknowledged'
<1> SUFFICES ASSUME Sound, Acknowledged, Receive PROVE Acknowledged'
  OBVIOUS
<1> DEFINE m == Head(toClient)
<1>1. /\ toClient # <<>> /\ toClient' = Tail(toClient) /\ UNCHANGED <<outstanding, pending>>
  BY DEF Receive
<1>2. m \in ResponseRecords /\ 1 \in DOMAIN toClient /\ m = toClient[1]
  BY <1>1, HeadReceived
<1>3. \A n \in DOMAIN toWorker : toWorker[n].id # m.id
  BY <1>2 DEF Sound, IdsFresh
<1>4. CASE ReceiveValue(m)
  BY <1>1, <1>4, ReceiveValueAcknowledged
<1>5. ASSUME m.id = read.id PROVE \A n \in DOMAIN toWorker : ~IsBinary(toWorker[n])
  BY <1>3, <1>5 DEF Acknowledged, ReadKnown
<1>6. CASE ReceiveAudit(m)
  <2>1. m.id = read.id /\ read.received
    BY <1>6 DEF ReceiveAudit, Sound, TransferKnown
  <2>2. CASE \E operation \in Resolutions : ResolveRead(operation)
    BY <1>1, <2>1, <2>2, ResolveReadAcknowledged
  <2>3. CASE read.operation = "read_evidence" /\ FinishRead(read.received)
    <3>1. read.id \notin DOMAIN pending
      BY <2>3 DEF Acknowledged, ReadKnown
    <3> QED BY <1>1, <1>5, <2>1, <2>3, <3>1, FinishReadAcknowledged
  <2> QED BY <1>6, <2>2, <2>3 DEF ReceiveAudit, Resolutions
<1>7. CASE ReceiveReadError(m)
  <2>1. m.id = read.id /\ m.kind = "error"
    BY <1>7 DEF ReceiveReadError
  <2>2. CASE \E operation \in Resolutions : ResolveRead(operation)
    BY <1>1, <2>1, <2>2, ResolveReadAcknowledged
  <2>3. CASE read.operation = "read_evidence" /\ FinishRead(read.received)
    <3>1. read.id \notin DOMAIN pending
      BY <2>3 DEF Acknowledged, ReadKnown
    <3>2. read.id \notin outstanding
      BY <1>2, <2>1 DEF Acknowledged, OutstandingKnown
    <3> QED BY <1>1, <1>5, <2>1, <2>3, <3>1, <3>2, FinishReadAcknowledged
  <2> QED BY <1>7, <2>2, <2>3 DEF ReceiveReadError, Resolutions
<1>8. CASE ReceiveResolution(m)
  <2>1. m.id = read.resolution /\ FinishRead(read.received)
    BY <1>8 DEF ReceiveResolution
  <2>2. read.resolution # 0
    BY <1>2, <2>1 DEF Sound, IdsFresh
  <2>3. read.phase \in Resolutions /\ read.id \notin DOMAIN pending
    BY <1>2, <2>1, <2>2 DEF Acknowledged, ReadKnown
  <2>4. \A n \in DOMAIN toWorker : ~IsBinary(toWorker[n])
    BY <2>3 DEF Acknowledged, ReadKnown, Resolutions
  <2>5. read.received \/ read.id \notin outstanding
    BY <2>3 DEF Acknowledged, OutstandingKnown
  <2> QED BY <1>1, <2>1, <2>3, <2>4, <2>5, FinishReadAcknowledged
<1>9. CASE ReceiveResponse(m) \/ ReceiveUnawaited(m)
  <2>1. UNCHANGED <<toWorker, nextRequestId, read>>
    BY <1>9 DEF ReceiveResponse, ReceiveUnawaited, clientVars
  <2> QED BY <1>1, <2>1, ReceivesOtherAcknowledged
<1> QED BY <1>4, <1>6, <1>7, <1>8, <1>9 DEF Receive

\* Every step keeps every transfer acknowledged.
LEMMA NextAcknowledged == Sound /\ Acknowledged /\ [Next]_vars => Acknowledged'
<1> SUFFICES ASSUME Sound, Acknowledged, [Next]_vars PROVE Acknowledged'
  OBVIOUS
<1>1. CASE Call
  <2>1. PICK operation \in Operations \ (Resolutions \cup BinaryOperations \cup {"ack_transfer"}) :
            \E handle : Sends(operation, handle)
    BY <1>1 DEF Call, Operations, BinaryOperations, Resolutions
  <2> QED BY <2>1, SendsAcknowledged
<1>2. CASE Read
  BY <1>2, ReadBinaryAcknowledged DEF Read, BinaryOperations
<1>3. CASE Handle
  BY <1>3, HandleAcknowledged
<1>4. CASE Receive
  BY <1>4, ReceiveAcknowledged
<1>5. CASE UNCHANGED vars
  BY <1>5 DEF vars, runtimeVars, clientVars, Acknowledged, AcksKnown, ReadKnown,
              OutstandingKnown, IsAck, IsBinary
<1> QED BY <1>1, <1>2, <1>3, <1>4, <1>5 DEF Next

\* Nothing is outstanding, and nothing on its way.
LEMMA InitAcknowledged == Init => Acknowledged
<1> SUFFICES ASSUME Init PROVE Acknowledged
  OBVIOUS
<1>1. /\ DOMAIN toWorker = {} /\ DOMAIN toClient = {} /\ outstanding = {}
      /\ read = NoRead /\ DOMAIN pending = {}
  BY DEF Init, RuntimeInit, Nothing
<1> QED BY <1>1 DEF Acknowledged, AcksKnown, ReadKnown, OutstandingKnown, NoRead

\* A transfer that is outstanding is being read or has an acknowledgement on its
\* way, which will not be refused; and a binary read finds none outstanding.
THEOREM EveryTransferAcknowledged == Spec => []TransfersAreAcknowledged
<1>1. Sound /\ Acknowledged => TransfersAreAcknowledged
  <2> SUFFICES ASSUME Sound, Acknowledged PROVE TransfersAreAcknowledged
    OBVIOUS
  <2>1. \A id \in outstanding :
            \/ read # NoRead /\ read.id = id
            \/ \E n \in DOMAIN toWorker :
                   toWorker[n].operation = "ack_transfer" /\ toWorker[n].of = id
    BY DEF Acknowledged, OutstandingKnown, IsAck, NoRead
  <2>2. ASSUME toWorker # <<>>
        PROVE  1 \in DOMAIN toWorker /\ Head(toWorker) = toWorker[1]
    BY <2>2, Taken DEF Sound, PortTyped
  <2>3. ASSUME toWorker # <<>>, Head(toWorker).operation = "ack_transfer"
        PROVE  Head(toWorker).of \notin DOMAIN pending
    BY <2>2, <2>3 DEF Acknowledged, AcksKnown, IsAck
  <2>4. ASSUME toWorker # <<>>, Head(toWorker).operation \in BinaryOperations
        PROVE  outstanding = {}
    <3>1. toWorker[1].id = read.id /\ IsBinary(toWorker[1]) /\ 1 \in DOMAIN toWorker
      BY <2>2, <2>4 DEF Acknowledged, ReadKnown, IsBinary
    <3>2. \A n \in DOMAIN toWorker : IsAck(toWorker[n]) => n < 1
      BY <3>1 DEF Acknowledged, AcksKnown
    <3>3. DOMAIN toWorker \subseteq Nat \ {0}
      BY DEF Sound, PortTyped
    <3>4. \A n \in DOMAIN toWorker : ~IsAck(toWorker[n])
      BY <3>2, <3>3
    <3> QED BY <3>1, <3>4 DEF Acknowledged, OutstandingKnown
  <2> QED BY <2>1, <2>3, <2>4 DEF TransfersAreAcknowledged
<1>2. Init => Sound /\ Acknowledged
  BY InitSound, InitAcknowledged
<1>3. Sound /\ Acknowledged /\ [Next]_vars => (Sound /\ Acknowledged)'
  BY NextSound, NextAcknowledged
<1> QED BY <1>1, <1>2, <1>3, PTL DEF Spec

=============================================================================
