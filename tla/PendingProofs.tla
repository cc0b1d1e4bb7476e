---------------------------- MODULE PendingProofs ----------------------------
(***************************************************************************)
(* A pending import is in exactly one place: its command is on the way,    *)
(* the worker runs it, or its terminal event is on the way back. Whatever  *)
(* fails, for every number of jobs, no import is lost or ends twice. The   *)
(* same of the queries: each is answered from the dataset it asked.        *)
(***************************************************************************)
EXTENDS IngestionProofs

-----------------------------------------------------------------------------
\* Counting in a queue.

At(s, S) == {n \in DOMAIN s : s[n] \in S}

\* The places of a sequence are finitely many.
LEMMA AtFinite ==
    ASSUME NEW R, NEW s \in Seq(R), NEW S
    PROVE  IsFiniteSet(At(s, S)) /\ Cardinality(At(s, S)) \in Nat
<1>1. DOMAIN s = 1..Len(s) /\ Len(s) \in Nat
  BY LenProperties
<1>2. IsFiniteSet(1..Len(s))
  BY <1>1, FS_Interval
<1>3. At(s, S) \in SUBSET (1..Len(s))
  BY <1>1 DEF At
<1>4. IsFiniteSet(At(s, S))
  BY <1>2, <1>3, FS_Subset
<1> QED BY <1>4, FS_CardinalityType

\* One more at the end.
LEMMA CountAppended ==
    ASSUME NEW R, NEW s \in Seq(R), NEW e \in R, NEW S
    PROVE  Cardinality(At(Append(s, e), S)) = Cardinality(At(s, S)) + (IF e \in S THEN 1 ELSE 0)
<1>1. DOMAIN s = 1..Len(s) /\ Len(s) \in Nat
  BY LenProperties
<1>2. /\ DOMAIN Append(s, e) = 1..(Len(s) + 1)
      /\ Append(s, e)[Len(s) + 1] = e
      /\ \A n \in 1..Len(s) : Append(s, e)[n] = s[n]
  BY <1>1
<1>3. IsFiniteSet(At(s, S)) /\ Cardinality(At(s, S)) \in Nat
  BY AtFinite
<1>4. Len(s) + 1 \notin At(s, S)
  BY <1>1 DEF At
<1>5. CASE e \in S
  <2>1. At(Append(s, e), S) = At(s, S) \cup {Len(s) + 1}
    BY <1>1, <1>2, <1>5 DEF At
  <2> QED BY <1>3, <1>4, <1>5, <2>1, FS_AddElement
<1>6. CASE e \notin S
  <2>1. At(Append(s, e), S) = At(s, S)
    BY <1>1, <1>2, <1>6 DEF At
  <2> QED BY <1>3, <1>6, <2>1
<1> QED BY <1>5, <1>6

\* The tail of a sequence is the sequence, one place further on.
LEMMA TailShifts ==
    ASSUME NEW R, NEW s \in Seq(R), s # <<>>
    PROVE  /\ Len(s) \in Nat /\ Len(s) > 0 /\ DOMAIN s = 1..Len(s)
           /\ DOMAIN Tail(s) = 1..(Len(s) - 1) /\ Tail(s) \in Seq(R)
           /\ \A n \in DOMAIN Tail(s) : n + 1 \in DOMAIN s /\ Tail(s)[n] = s[n + 1]
           /\ Head(s) = s[1]
<1>1. DOMAIN s = 1..Len(s) /\ Len(s) \in Nat /\ Len(s) > 0
  BY LenProperties, EmptySeq
<1>2. /\ DOMAIN Tail(s) = 1..(Len(s) - 1) /\ Tail(s) \in Seq(R)
      /\ \A n \in 1..(Len(s) - 1) : Tail(s)[n] = s[n + 1]
      /\ Head(s) = s[1]
  BY <1>1
<1> QED BY <1>1, <1>2

\* One less at the head.
LEMMA CountTaken ==
    ASSUME NEW R, NEW s \in Seq(R), s # <<>>, NEW S
    PROVE  Cardinality(At(s, S)) = Cardinality(At(Tail(s), S)) + (IF Head(s) \in S THEN 1 ELSE 0)
<1>1. DOMAIN s = 1..Len(s) /\ Len(s) \in Nat /\ Len(s) > 0
  BY TailShifts
<1>2. /\ DOMAIN Tail(s) = 1..(Len(s) - 1) /\ Tail(s) \in Seq(R)
      /\ \A n \in 1..(Len(s) - 1) : Tail(s)[n] = s[n + 1]
      /\ Head(s) = s[1]
  BY TailShifts
<1> DEFINE Later == At(s, S) \ {1}
           shift == [n \in At(Tail(s), S) |-> n + 1]
<1>3. shift \in Bijection(At(Tail(s), S), Later)
  <2>1. shift \in [At(Tail(s), S) -> Later]
    BY <1>1, <1>2 DEF At
  <2>2. \A a, b \in At(Tail(s), S) : shift[a] = shift[b] => a = b
    BY <1>1, <1>2 DEF At
  <2>3. \A n \in Later : \E m \in At(Tail(s), S) : shift[m] = n
    <3> SUFFICES ASSUME NEW n \in Later PROVE \E m \in At(Tail(s), S) : shift[m] = n
      OBVIOUS
    <3>1. n \in 2..Len(s) /\ s[n] \in S
      BY <1>1 DEF At
    <3>2. n - 1 \in 1..(Len(s) - 1) /\ (n - 1) + 1 = n
      BY <1>1, <3>1
    <3>3. n - 1 \in At(Tail(s), S)
      BY <1>2, <3>1, <3>2 DEF At
    <3> QED BY <3>2, <3>3
  <2> HIDE DEF Later, shift
  <2> QED BY <2>1, <2>2, <2>3 DEF Bijection, Injection, Surjection, IsInjective
<1>4. ExistsBijection(At(Tail(s), S), Later)
  BY <1>3 DEF ExistsBijection
<1>5. IsFiniteSet(At(Tail(s), S)) /\ Cardinality(At(Tail(s), S)) \in Nat
  BY <1>2, AtFinite
<1>6. IsFiniteSet(Later) /\ Cardinality(Later) = Cardinality(At(Tail(s), S))
  BY <1>4, <1>5, FS_Bijection
<1>7. IsFiniteSet(At(s, S)) /\ Cardinality(At(s, S)) \in Nat
  BY AtFinite
<1>8. 1 \in At(s, S) <=> Head(s) \in S
  BY <1>1, <1>2 DEF At
<1>9. Cardinality(Later) = IF 1 \in At(s, S) THEN Cardinality(At(s, S)) - 1
                          ELSE Cardinality(At(s, S))
  BY <1>7, FS_RemoveElement
<1> QED BY <1>5, <1>6, <1>7, <1>8, <1>9

-----------------------------------------------------------------------------
\* The three places of an import.

EndRecords(id) == {event \in EventRecords : event.id = id /\ event.type \in TerminalTypes}

Starts(id) == CommandsAbout("start_import", id)

Runs(id) == IF job.id = id /\ job.at # "closing" /\ worker = "running" THEN 1 ELSE 0

\* The start commands and the ends of a job are counted by their places.
LEMMA PlacesCount ==
    ASSUME PortTyped, NEW id
    PROVE  /\ Starts(id) = Cardinality(At(commands, {Command("start_import", id)}))
           /\ EndsOf(id) = Cardinality(At(events, EndRecords(id)))
           /\ Starts(id) \in Nat /\ EndsOf(id) \in Nat
<1>1. {n \in DOMAIN commands : commands[n] = Command("start_import", id)}
          = At(commands, {Command("start_import", id)})
  BY DEF At
<1>2. \A n \in DOMAIN events : events[n] \in EventRecords
  BY DEF PortTyped
<1>3. {n \in DOMAIN events : events[n].id = id /\ events[n].type \in TerminalTypes}
          = At(events, EndRecords(id))
  BY <1>2 DEF At, EndRecords
<1> QED BY <1>1, <1>3, AtFinite DEF Starts, CommandsAbout, EndsOf, PortTyped

\* A posted event adds one end when it is terminal for the job, and none else.
LEMMA EndsPosted ==
    ASSUME PortTyped, PortTyped', NEW id, NEW event \in EventRecords, events' = Posted(event)
    PROVE  EndsOf(id)' = EndsOf(id) + (IF event.id = id /\ event.type \in TerminalTypes THEN 1 ELSE 0)
<1>1. Cardinality(At(events', EndRecords(id)))
          = Cardinality(At(events, EndRecords(id))) + (IF event \in EndRecords(id) THEN 1 ELSE 0)
  BY CountAppended DEF PortTyped, Posted
<1>2. EndsOf(id)' = Cardinality(At(events', EndRecords(id)))
  <2>1. \A n \in DOMAIN events' : events'[n] \in EventRecords
    BY DEF PortTyped
  <2>2. {n \in DOMAIN events' : events'[n].id = id /\ events'[n].type \in TerminalTypes}
            = At(events', EndRecords(id))
    BY <2>1 DEF At, EndRecords
  <2> QED BY <2>2 DEF EndsOf
<1>3. event \in EndRecords(id) <=> event.id = id /\ event.type \in TerminalTypes
  BY DEF EndRecords
<1> QED BY <1>1, <1>2, <1>3, PlacesCount

\* An event that the client takes accounts for one end at most.
LEMMA EndsTaken ==
    ASSUME PortTyped, PortTyped', NEW id, events # <<>>, events' = Tail(events)
    PROVE  /\ EndsOf(id)' \in Nat
           /\ EndsOf(id) = EndsOf(id)' +
               (IF Head(events).id = id /\ Head(events).type \in TerminalTypes THEN 1 ELSE 0)
<1>1. Cardinality(At(events, EndRecords(id)))
          = Cardinality(At(events', EndRecords(id)))
                + (IF Head(events) \in EndRecords(id) THEN 1 ELSE 0)
  BY CountTaken DEF PortTyped
<1>2. EndsOf(id)' = Cardinality(At(events', EndRecords(id)))
  <2>1. \A n \in DOMAIN events' : events'[n] \in EventRecords
    BY DEF PortTyped
  <2>2. {n \in DOMAIN events' : events'[n].id = id /\ events'[n].type \in TerminalTypes}
            = At(events', EndRecords(id))
    BY <2>1 DEF At, EndRecords
  <2> QED BY <2>2 DEF EndsOf
<1>3. Head(events) \in EventRecords
  BY HeadTailProperties DEF PortTyped
<1>4. Head(events) \in EndRecords(id)
          <=> Head(events).id = id /\ Head(events).type \in TerminalTypes
  BY <1>3 DEF EndRecords
<1>5. Cardinality(At(events', EndRecords(id))) \in Nat
  BY AtFinite DEF PortTyped
<1> QED BY <1>1, <1>2, <1>4, <1>5, PlacesCount

\* A command that reaches a running worker adds one start at most.
LEMMA StartsSent ==
    ASSUME PortTyped, NEW id, NEW command \in CommandRecords, commands' = Sent(command)
    PROVE  Starts(id)' = Starts(id) +
               (IF worker = "running" /\ command = Command("start_import", id) THEN 1 ELSE 0)
<1>1. Starts(id)' = Cardinality(At(commands', {Command("start_import", id)}))
  <2>1. {n \in DOMAIN commands' : commands'[n] = Command("start_import", id)}
            = At(commands', {Command("start_import", id)})
    BY DEF At
  <2> QED BY <2>1 DEF Starts, CommandsAbout
<1>2. CASE worker = "running"
  <2>1. Cardinality(At(commands', {Command("start_import", id)}))
            = Cardinality(At(commands, {Command("start_import", id)}))
                + (IF command \in {Command("start_import", id)} THEN 1 ELSE 0)
    BY <1>2, CountAppended DEF PortTyped, Sent
  <2> QED BY <1>1, <1>2, <2>1, PlacesCount
<1>3. CASE worker # "running"
  <2>1. commands' = commands
    BY <1>3 DEF Sent
  <2> QED BY <1>1, <1>3, <2>1, PlacesCount
<1> QED BY <1>2, <1>3

\* A command that the worker takes accounts for one start at most.
LEMMA StartsTaken ==
    ASSUME PortTyped, NEW id, NEW type, Handles(type)
    PROVE  /\ Starts(id)' \in Nat
           /\ Starts(id) = Starts(id)' +
               (IF Head(commands) = Command("start_import", id) THEN 1 ELSE 0)
<1>1. Starts(id)' = Cardinality(At(commands', {Command("start_import", id)}))
  <2>1. {n \in DOMAIN commands' : commands'[n] = Command("start_import", id)}
            = At(commands', {Command("start_import", id)})
    BY DEF At
  <2> QED BY <2>1 DEF Starts, CommandsAbout
<1>2. Cardinality(At(commands, {Command("start_import", id)}))
          = Cardinality(At(commands', {Command("start_import", id)}))
              + (IF Head(commands) \in {Command("start_import", id)} THEN 1 ELSE 0)
  BY CountTaken DEF PortTyped, Handles
<1>3. commands' \in Seq(CommandRecords)
  BY HandledTyped
<1>4. Cardinality(At(commands', {Command("start_import", id)})) \in Nat
  BY <1>3, AtFinite
<1> QED BY <1>1, <1>2, <1>4, PlacesCount

\* A worker that closes drops every start on its way.
LEMMA StartsCleared ==
    ASSUME NEW id, commands' = <<>>
    PROVE  Starts(id)' = 0
<1>1. {n \in DOMAIN commands' : commands'[n] = Command("start_import", id)} = {}
  OBVIOUS
<1> QED BY <1>1, FS_EmptySet DEF Starts, CommandsAbout

-----------------------------------------------------------------------------
\* The inductive invariant. An import is posted under an id that is nowhere yet:
\* the client has told nobody of the ids from nextId on.

Plain(command) == command = Command("start_import", command.id)

Untaken ==
    /\ \A id \in imports : id < nextId
    /\ job.id < nextId
    /\ \A n \in DOMAIN commands : commands[n].type = "start_import" =>
           commands[n].id < nextId /\ Plain(commands[n])
    /\ \A n \in DOMAIN events : events[n].type \in TerminalTypes => events[n].id < nextId

Places(id) == Starts(id) + EndsOf(id) + Runs(id)

OnePlace(id) == Places(id) <= 1 /\ (worker = "running" => Places(id) = 1)

Pending == Untaken /\ \A id \in imports : OnePlace(id)

\* The property is the invariant's part about pending imports.
LEMMA PendingImplies == Pending => PendingImportIsSomewhere
  BY DEF Pending, OnePlace, Places, Starts, Runs, PendingImportIsSomewhere

\* No import is pending and no id is taken.
LEMMA InitPending == Init => Pending
<1> SUFFICES ASSUME Init PROVE Pending
  OBVIOUS
<1> USE DEF Init, WorkerInit, ClientInit
<1>1. \A n \in DOMAIN commands : commands[n].type = "initialize"
  BY DEF Command
<1>2. Untaken
  BY <1>1 DEF Untaken, NoJob
<1> QED BY <1>2 DEF Pending

-----------------------------------------------------------------------------
\* The four ways a step of the worker moves an import.

Harmless == {event \in EventRecords : event.type \notin TerminalTypes}

\* No import moves.
Stays ==
    /\ events' = events \/ \E event \in Harmless : events' = Posted(event)
    /\ commands' = commands \/ \E type \in CommandTypes \ {"start_import"} : Handles(type)
    /\ job'.id = job.id /\ (job'.at = "closing" <=> job.at = "closing")
    /\ worker' = worker

\* The job ends, and its terminal event is posted.
JobEnds ==
    /\ job.id # 0 /\ job.at # "closing" /\ worker = "running" /\ worker' = worker
    /\ job'.id = 0 \/ (job'.id = job.id /\ job'.at = "closing")
    /\ \E event \in EventRecords :
           event.id = job.id /\ event.type \in TerminalTypes /\ events' = Posted(event)
    /\ commands' = commands

\* The worker is gone.
WorkerEnds ==
    /\ worker' = "closed" /\ commands' = <<>>
    /\ job'.id \in {0, job.id}
    /\ events' = events \/ \E event \in Harmless : events' = Posted(event)

Moves == Stays \/ JobEnds \/ WorkerEnds \/ HandleStartImport

\* Ids the client has not given out stay nowhere while the worker takes what is
\* there and answers with ids that were given out.
LEMMA StaysUntaken ==
    ASSUME Typed, PortTyped', Untaken, UNCHANGED <<nextId, imports>>, job'.id \in {0, job.id},
           \/ commands' \in {commands, <<>>}
           \/ \E type \in CommandTypes : Handles(type),
           \/ events' = events
           \/ \E event \in EventRecords :
                  /\ events' = Posted(event)
                  /\ event.type \in TerminalTypes => event.id < nextId
    PROVE  Untaken'
<1>1. PortTyped /\ nextId \in Nat /\ nextId > 0
  BY BoundsAssumption DEF Typed, ClientTyped, ClientTypeOK
<1>2. job'.id < nextId'
  BY <1>1 DEF Untaken
<1>3. \A n \in DOMAIN commands' : \E m \in DOMAIN commands : commands'[n] = commands[m]
  <2>1. CASE commands' \in {commands, <<>>}
    BY <2>1
  <2>2. CASE \E type \in CommandTypes : Handles(type)
    BY <1>1, <2>2, TakenShifts
  <2> QED BY <2>1, <2>2
<1>4. \A n \in DOMAIN commands' : commands'[n].type = "start_import" =>
          commands'[n].id < nextId' /\ Plain(commands'[n])
  BY <1>3 DEF Untaken
<1>5. \A n \in DOMAIN events' : events'[n].type \in TerminalTypes => events'[n].id < nextId'
  <2>1. CASE events' = events
    BY <2>1 DEF Untaken
  <2>2. ASSUME NEW event \in EventRecords, events' = Posted(event),
               event.type \in TerminalTypes => event.id < nextId
        PROVE  \A n \in DOMAIN events' :
                   events'[n].type \in TerminalTypes => events'[n].id < nextId'
    <3>1. \A n \in DOMAIN events' : \/ n \in DOMAIN events /\ events'[n] = events[n]
                                    \/ events'[n] = event
      BY <1>1, <2>2 DEF PortTyped, Posted
    <3> QED BY <2>2, <3>1 DEF Untaken
  <2> QED BY <2>1, <2>2
<1> QED BY <1>2, <1>4, <1>5 DEF Untaken

\* An event that is not terminal ends nothing.
LEMMA HarmlessEnds ==
    ASSUME PortTyped, PortTyped', NEW id,
           events' = events \/ \E event \in Harmless : events' = Posted(event)
    PROVE  EndsOf(id)' = EndsOf(id)
<1>1. CASE events' = events
  BY <1>1 DEF EndsOf
<1>2. CASE \E event \in Harmless : events' = Posted(event)
  <2>1. PICK event \in EventRecords : event.type \notin TerminalTypes /\ events' = Posted(event)
    BY <1>2 DEF Harmless
  <2>2. EndsOf(id)' = EndsOf(id) + 0
    BY <2>1, EndsPosted
  <2>3. EndsOf(id) \in Nat
    BY PlacesCount
  <2> QED BY <2>2, <2>3
<1> QED BY <1>1, <1>2

\* A step of the worker that moves a job from one place to the next keeps every
\* import in exactly one.
LEMMA MovesPending ==
    ASSUME Typed, Typed', Pending, Moves, UNCHANGED <<nextId, imports>>
    PROVE  Pending'
<1>0. PortTyped /\ PortTyped' /\ Untaken /\ job.id \in Nat /\ nextId \in Nat
  BY BoundsAssumption DEF Typed, WorkerTyped, JobTyped, JobRecords, Pending, ClientTyped, ClientTypeOK
<1>1. \A id : Starts(id) \in Nat /\ EndsOf(id) \in Nat
  BY <1>0, PlacesCount
<1>2. CASE Stays
  <2>1. Untaken'
    BY <1>0, <1>2, StaysUntaken DEF Stays, Harmless
  <2>2. ASSUME NEW id \in imports PROVE OnePlace(id)'
    <3>1. EndsOf(id)' = EndsOf(id)
      BY <1>0, <1>2, HarmlessEnds DEF Stays
    <3>2. Starts(id)' = Starts(id)
      <4>1. CASE commands' = commands
        BY <4>1 DEF Starts, CommandsAbout
      <4>2. ASSUME NEW type \in CommandTypes \ {"start_import"}, Handles(type)
            PROVE  Starts(id)' = Starts(id)
        <5>1. Head(commands) # Command("start_import", id)
          BY <4>2 DEF Handles, Command
        <5> QED BY <1>0, <1>1, <4>2, <5>1, StartsTaken, PlacesCount
      <4> QED BY <1>2, <4>1, <4>2 DEF Stays
    <3>3. Runs(id)' = Runs(id) /\ worker' = worker
      BY <1>2 DEF Stays, Runs
    <3>4. Places(id)' = Places(id)
      BY <3>1, <3>2, <3>3 DEF Places
    <3> QED BY <3>3, <3>4 DEF Pending, OnePlace
  <2> QED BY <2>1, <2>2 DEF Pending
<1>3. CASE JobEnds
  <2>1. PICK event \in EventRecords :
            event.id = job.id /\ event.type \in TerminalTypes /\ events' = Posted(event)
    BY <1>3 DEF JobEnds
  <2>2. Untaken'
    <3>1. event.id < nextId
      BY <1>0, <2>1 DEF Untaken
    <3>2. job'.id \in {0, job.id} /\ commands' = commands
      BY <1>3 DEF JobEnds
    <3> QED BY <1>0, <2>1, <3>1, <3>2, StaysUntaken
  <2>3. ASSUME NEW id \in imports PROVE OnePlace(id)'
    <3>1. EndsOf(id)' = EndsOf(id) + (IF id = job.id THEN 1 ELSE 0)
      BY <1>0, <2>1, EndsPosted
    <3>2. Starts(id)' = Starts(id)
      BY <1>3 DEF JobEnds, Starts, CommandsAbout
    <3>3. Runs(id) = IF id = job.id THEN 1 ELSE 0
      BY <1>3 DEF JobEnds, Runs
    <3>4. Runs(id)' = 0
      <4>1. id # 0
        BY DEF Typed, ClientTyped, ClientTypeOK, Ids
      <4> QED BY <1>3, <4>1 DEF JobEnds, Runs
    <3>5. Places(id)' = Places(id)
      BY <1>1, <3>1, <3>2, <3>3, <3>4 DEF Places
    <3> QED BY <1>3, <3>5 DEF Pending, OnePlace, JobEnds
  <2> QED BY <2>2, <2>3 DEF Pending
<1>4. CASE WorkerEnds
  <2>1. Untaken'
    BY <1>0, <1>4, StaysUntaken DEF WorkerEnds, Harmless
  <2>2. ASSUME NEW id \in imports PROVE OnePlace(id)'
    <3>1. EndsOf(id)' = EndsOf(id)
      BY <1>0, <1>4, HarmlessEnds DEF WorkerEnds
    <3>2. Starts(id)' = 0 /\ Runs(id)' = 0
      BY <1>4, StartsCleared DEF WorkerEnds, Runs
    <3>3. EndsOf(id) <= 1
      BY <1>1 DEF Pending, OnePlace, Places, Runs
    <3> QED BY <1>1, <1>4, <3>1, <3>2, <3>3 DEF OnePlace, Places, WorkerEnds
  <2> QED BY <2>1, <2>2 DEF Pending
<1>5. CASE HandleStartImport
  <2> DEFINE started == Head(commands).id
  <2>1. /\ Handles("start_import") /\ worker' = worker /\ worker = "running"
    BY <1>5 DEF HandleStartImport, Handles, NewTurn
  <2>2. Head(commands) = Command("start_import", started) /\ started < nextId /\ started \in Ids
    BY <1>0, <2>1, TakenShifts DEF Untaken, Plain
  <2>3. \A id : Starts(id) = Starts(id)' + (IF id = started THEN 1 ELSE 0)
    <3> SUFFICES ASSUME NEW id
                 PROVE  Starts(id) = Starts(id)' + (IF id = started THEN 1 ELSE 0)
      OBVIOUS
    <3>1. Head(commands) = Command("start_import", id) <=> id = started
      BY <2>2 DEF Command
    <3> QED BY <1>0, <2>1, <3>1, StartsTaken
  <2>0. \A id : Starts(id)' \in Nat
    BY <1>0, <2>1, StartsTaken
  <2>4. CASE job.id # 0 \/ shuttingDown
    <3>1. events' = Posted(Event("import_error", started)) /\ job' = job
      BY <1>5, <2>4 DEF HandleStartImport
    <3>2. Event("import_error", started) \in EventRecords
      BY <2>2, EventTyped DEF Ids
    <3>3. Untaken'
      <4>1. Event("import_error", started).id = started
        BY DEF Event
      <4>2. "start_import" \in CommandTypes
        BY DEF CommandTypes
      <4> QED BY <1>0, <2>1, <2>2, <3>1, <3>2, <4>1, <4>2, StaysUntaken
    <3>4. ASSUME NEW id \in imports PROVE OnePlace(id)'
      <4>1. EndsOf(id)' = EndsOf(id) + (IF id = started THEN 1 ELSE 0)
        BY <1>0, <3>1, <3>2, EndsPosted DEF Event, TerminalTypes
      <4>2. Runs(id)' = Runs(id)
        BY <2>1, <3>1 DEF Runs
      <4>3. Places(id)' = Places(id)
        BY <1>1, <2>0, <2>3, <4>1, <4>2 DEF Places, Runs
      <4> QED BY <2>1, <4>3 DEF Pending, OnePlace
    <3> QED BY <3>3, <3>4 DEF Pending
  <2>5. CASE ~(job.id # 0 \/ shuttingDown)
    <3>1. events' = events /\ job' = [NoJob EXCEPT !.id = started, !.at = "starting"]
      BY <1>5, <2>5 DEF HandleStartImport
    <3>2. job'.id = started /\ job'.at = "starting"
      BY <3>1 DEF NoJob
    <3>3. Untaken'
      <4>1. \A n \in DOMAIN commands' : \E m \in DOMAIN commands : commands'[n] = commands[m]
        BY <1>0, <2>1, TakenShifts
      <4> QED BY <1>0, <2>2, <3>1, <3>2, <4>1 DEF Untaken
    <3>4. ASSUME NEW id \in imports PROVE OnePlace(id)'
      <4>1. EndsOf(id)' = EndsOf(id)
        BY <3>1 DEF EndsOf
      <4>2. Runs(id) = 0
        <5>1. id # 0
          BY DEF Typed, ClientTyped, ClientTypeOK, Ids
        <5> QED BY <2>5, <5>1 DEF Runs
      <4>3. Runs(id)' = IF id = started THEN 1 ELSE 0
        BY <2>1, <3>2 DEF Runs
      <4>4. Places(id)' = Places(id)
        BY <1>1, <2>0, <2>3, <4>1, <4>2, <4>3 DEF Places
      <4> QED BY <2>1, <4>4 DEF Pending, OnePlace
    <3> QED BY <3>3, <3>4 DEF Pending
  <2> QED BY <2>4, <2>5
<1> QED BY <1>2, <1>3, <1>4, <1>5 DEF Moves


-----------------------------------------------------------------------------
\* Every step of the worker is one of the four.

\* These events end no import.
LEMMA EventHarmless ==
    ASSUME NEW type \in {"cancelling", "command_error", "error", "initialized",
                         "dataset_disposed", "resource_stats", "shutdown_complete"},
           NEW id \in 0..MaxId
    PROVE  Event(type, id) \in Harmless
<1>1. Event(type, id) \in EventRecords
  BY EventTyped
<1> QED BY <1>1 DEF Harmless, Event, TerminalTypes

\* A start command moves the job from the queue into the worker, or to its error;
\* no other command moves one.
LEMMA HandleCommandMoves ==
    ASSUME Typed, HandleCommand
    PROVE  Moves
<1>0. PortTyped
  BY DEF Typed
<1>1. CASE HandleStartImport
  BY <1>1 DEF Moves
<1>2. CASE ~HandleStartImport
  <2>1. PICK type \in CommandTypes \ {"start_import"} : Handles(type)
    BY <1>2 DEF HandleCommand, HandleInitialize, HandleCancelImport, HandleQuery,
       HandleResourceStats, HandleDisposeDataset, HandleShutdown, CommandTypes, RequestTypes
  <2>2. Head(commands).id \in Ids /\ Head(commands).id \in 0..MaxId
        /\ Head(commands).generation \in 0..MaxGenerations
    BY <1>0, <2>1, HandledTyped, BoundsAssumption DEF CommandRecords, Ids
  <2>3. \A t \in {"cancelling", "resource_stats", "command_error", "dataset_disposed"} :
            Event(t, Head(commands).id) \in Harmless
    BY <2>2, EventHarmless
  <2>4. QueryEvent("query_error", Head(commands).id, Head(commands).generation, 0) \in Harmless
    BY <2>2, BoundsAssumption DEF QueryEvent, Harmless, EventRecords, EventTypes, TerminalTypes
  <2>5. events' = events \/ \E event \in Harmless : events' = Posted(event)
    BY <1>2, <2>3, <2>4 DEF HandleCommand, HandleInitialize, HandleCancelImport, HandleQuery,
       HandleResourceStats, HandleDisposeDataset, HandleShutdown
  <2>6. job'.id = job.id /\ job'.at = job.at
    <3>1. job \in JobRecords
      BY DEF Typed, WorkerTyped, JobTyped
    <3>2. job' \in {job, [job EXCEPT !.cancel = "reported"], [job EXCEPT !.cancel = "requested"]}
      BY <1>2 DEF HandleCommand, HandleInitialize, HandleCancelImport, HandleQuery,
         HandleResourceStats, HandleDisposeDataset, HandleShutdown, workerVars
    <3> QED BY <3>1, <3>2 DEF JobRecords
  <2>7. worker' = worker
    BY <1>2 DEF HandleCommand, HandleInitialize, HandleCancelImport, HandleQuery,
       HandleResourceStats, HandleDisposeDataset, HandleShutdown
  <2>8. Stays
    BY <2>1, <2>5, <2>6, <2>7 DEF Stays
  <2> QED BY <2>8 DEF Moves
<1> QED BY <1>1, <1>2

\* The catch block ends the job, or reclaims its import first.
LEMMA ThrowsJob ==
    ASSUME Typed, Throws, job.id # 0, job.at # "closing", worker = "running",
           UNCHANGED <<worker, commands>>
    PROVE  Moves
<1> DEFINE type == IF job.cancel = "no" THEN "import_error" ELSE "cancelled"
<1>0. job \in JobRecords /\ job.id \in 0..MaxId
  BY DEF Typed, WorkerTyped, JobTyped, JobRecords
<1>1. CASE job.importHandle = 0
  <2>1. job' = NoJob /\ events' = Posted(Event(type, job.id))
    BY <1>1 DEF Throws, Ends
  <2>2. type \in {"import_error", "cancelled"}
    OBVIOUS
  <2> HIDE DEF type
  <2>3. Event(type, job.id) \in EventRecords
    BY <1>0, <2>2, EventTyped
  <2>4. Event(type, job.id).id = job.id /\ Event(type, job.id).type \in TerminalTypes
    BY <2>2 DEF Event, TerminalTypes
  <2>5. job'.id = 0
    BY <2>1 DEF NoJob
  <2> QED BY <2>1, <2>3, <2>4, <2>5 DEF JobEnds, Moves
<1>2. CASE job.importHandle # 0
  <2>1. job' = [job EXCEPT !.at = "reclaiming", !.ends = type] /\ events' = events
    BY <1>2 DEF Throws
  <2> HIDE DEF type
  <2>2. job'.id = job.id /\ job'.at = "reclaiming"
    BY <1>0, <2>1 DEF JobRecords
  <2> QED BY <2>1, <2>2 DEF Stays, Moves
<1> QED BY <1>1, <1>2

\* An await that goes on keeps the job, or its catch block ends it.
LEMMA ContinuesJob ==
    ASSUME Typed, NEW await \in {"reading", "beginning", "stepping"}, ContinuesTo(await),
           job.id # 0, job.at # "closing", worker = "running", UNCHANGED <<worker, commands>>
    PROVE  Moves
<1>1. CASE job.cancel # "no"
  BY <1>1, ThrowsJob DEF ContinuesTo
<1>2. CASE job.cancel = "no"
  <2>1. job \in JobRecords
    BY DEF Typed, WorkerTyped, JobTyped
  <2>2. job' = [job EXCEPT !.at = await, !.releases = 0] /\ events' = events
    BY <1>2 DEF ContinuesTo
  <2>3. job'.id = job.id /\ job'.at = await
    BY <2>1, <2>2 DEF JobRecords
  <2> QED BY <2>2, <2>3 DEF Stays, Moves
<1> QED BY <1>1, <1>2

\* Every await of runImport keeps the job or posts its one terminal event.
LEMMA ImportStepMoves ==
    ASSUME Typed, ImportStep
    PROVE  Moves
<1>0. job \in JobRecords /\ (job.id = 0 => job = NoJob) /\ job.id \in 0..MaxId
  BY DEF Typed, WorkerTyped, JobTyped, JobRecords
<1>1. job.id # 0 /\ worker = "running"
  <2>1. job.at # "idle" /\ worker = "running"
    BY DEF ImportStep, CheckSelection, ReleasePrevious, ReadCapture, BeginImport, StepImport,
       CompleteImport, DiscardDataset, Resume, Reclaim, CloseAfterCleanupLoss, Awaits, AwaitsTurn,
       NewTurn
  <2>2. NoJob.at = "idle"
    BY DEF NoJob
  <2> QED BY <1>0, <2>1, <2>2
<1>2. CASE CloseAfterCleanupLoss
  <2>1. worker' = "closed" /\ commands' = <<>> /\ job'.id = 0 /\ events' = events
    BY <1>2 DEF CloseAfterCleanupLoss, NoJob
  <2> QED BY <2>1 DEF WorkerEnds, Moves
<1>3. CASE ~CloseAfterCleanupLoss
  <2>0. /\ job.at # "closing" /\ worker' = worker /\ commands' = commands
    BY <1>3 DEF ImportStep, CheckSelection, ReleasePrevious, ReadCapture, BeginImport, StepImport,
       CompleteImport, DiscardDataset, Resume, Reclaim, Awaits, AwaitsTurn, importUnchanged
  <2>1. CASE Throws
    BY <1>1, <2>0, <2>1, ThrowsJob
  <2>2. CASE \E await \in {"reading", "beginning", "stepping"} : ContinuesTo(await)
    BY <1>1, <2>0, <2>2, ContinuesJob
  <2>3. CASE CheckSelection /\ ~Throws
    <3>1. events' = events /\ job' = [job EXCEPT
              !.at = IF liveDataset = NoDataset THEN "reading" ELSE "releasing",
              !.releases = liveDataset.handle]
      BY <2>3 DEF CheckSelection
    <3>2. job'.id = job.id /\ job'.at # "closing"
      BY <1>0, <3>1 DEF JobRecords
    <3> QED BY <2>0, <3>1, <3>2 DEF Stays, Moves
  <2>4. CASE BeginImport /\ ~Throws
    <3>1. events' = events
      BY <2>4 DEF BeginImport
    <3>2. job'.id = job.id /\ job'.at \in {"stepping", "reclaiming"}
      <4>1. PICK steps \in 0..MaxSteps :
                \/ job' = [job EXCEPT !.at = "stepping", !.importHandle = job.id, !.left = steps]
                \/ job' = [job EXCEPT !.at = "reclaiming", !.importHandle = job.id,
                                      !.ends = "cancelled"]
        BY <2>4 DEF BeginImport
      <4> QED BY <1>0, <4>1 DEF JobRecords
    <3> QED BY <2>0, <3>1, <3>2 DEF Stays, Moves
  <2>5. CASE StepImport /\ ~Throws
    <3>1. events' = events /\ job' = [job EXCEPT !.at = "yielding", !.left = @ - 1]
      BY <2>5 DEF StepImport
    <3>2. job'.id = job.id /\ job'.at # "closing"
      BY <1>0, <3>1 DEF JobRecords
    <3> QED BY <2>0, <3>1, <3>2 DEF Stays, Moves
  <2>6. CASE CompleteImport
    <3>1. CASE nextGeneration > MaxGenerations
      <4>1. events' = events /\ job' = [job EXCEPT !.at = "discarding", !.importHandle = 0]
        BY <2>6, <3>1 DEF CompleteImport
      <4>2. job'.id = job.id /\ job'.at # "closing"
        BY <1>0, <4>1 DEF JobRecords
      <4> QED BY <2>0, <4>1, <4>2 DEF Stays, Moves
    <3>2. CASE ~(nextGeneration > MaxGenerations)
      <4> DEFINE event == QueryEvent("complete", job.id, nextGeneration, job.id)
      <4>1. events' = Posted(event) /\ job' = NoJob
        BY <2>6, <3>2 DEF CompleteImport
      <4>2. nextGeneration \in 1..MaxGenerations + 1
        BY DEF Typed, WorkerTyped, StoreTyped
      <4>3. event \in EventRecords /\ event.id = job.id /\ event.type \in TerminalTypes
        BY <1>0, <1>1, <3>2, <4>2, BoundsAssumption
           DEF QueryEvent, EventRecords, EventTypes, TerminalTypes
      <4>4. job'.id = 0
        BY <4>1 DEF NoJob
      <4> HIDE DEF event
      <4> QED BY <1>1, <2>0, <4>1, <4>3, <4>4 DEF JobEnds, Moves
    <3> QED BY <3>1, <3>2
  <2>7. CASE Reclaim
    <3>1. CASE Ends(job.ends)
      <4>1. job.ends \in {"cancelled", "import_error"}
        BY <1>0 DEF JobRecords
      <4>2. /\ Event(job.ends, job.id) \in EventRecords /\ Event(job.ends, job.id).id = job.id
            /\ Event(job.ends, job.id).type \in TerminalTypes
        BY <1>0, <4>1, EventTyped DEF Event, TerminalTypes
      <4>3. job'.id = 0 /\ events' = Posted(Event(job.ends, job.id))
        BY <3>1 DEF Ends, NoJob
      <4> QED BY <1>1, <2>0, <4>2, <4>3 DEF JobEnds, Moves
    <3>2. CASE ~Ends(job.ends)
      <4>1. job' = [job EXCEPT !.at = "closing"] /\ events' = Posted(Event("import_error", job.id))
        BY <2>7, <3>2 DEF Reclaim
      <4>2. job'.id = job.id /\ job'.at = "closing"
        BY <1>0, <4>1 DEF JobRecords
      <4>3. /\ Event("import_error", job.id) \in EventRecords
            /\ Event("import_error", job.id).id = job.id
            /\ Event("import_error", job.id).type \in TerminalTypes
        BY <1>0, EventTyped DEF Event, TerminalTypes
      <4> QED BY <1>1, <2>0, <4>1, <4>2, <4>3 DEF JobEnds, Moves
    <3> QED BY <3>1, <3>2
  <2> QED BY <1>3, <2>1, <2>2, <2>3, <2>4, <2>5, <2>6, <2>7
         DEF ImportStep, ReleasePrevious, ReadCapture, DiscardDataset, Resume
<1> QED BY <1>2, <1>3

\* Every step of the worker moves each job at most one place on.
LEMMA WorkerNextMoves ==
    ASSUME Typed, WorkerNext
    PROVE  Moves
<1>1. CASE LoadCapabilities
  <2>1. 1 \in 0..MaxId
    BY BoundsAssumption
  <2>2. \E event \in Harmless : events' = Posted(event)
    BY <1>1, <2>1, EventHarmless DEF LoadCapabilities
  <2> QED BY <1>1, <2>2 DEF LoadCapabilities, Stays, Moves
<1>2. CASE QueryStep
  <2>1. PICK query \in queries : FinishQuery(query)
    BY <1>2 DEF QueryStep
  <2>2. events' = events \/ \E event \in Harmless : events' = Posted(event)
    <3>1. ASSUME NEW result \in QueryResults(query),
                 events' = Posted(QueryEvent(result, query.id, query.generation,
                                             query.dataset.handle))
          PROVE  \E event \in Harmless : events' = Posted(event)
      <4>1. result \in {"answer", "query_error", "query_failed"}
        BY DEF QueryResults
      <4>2. query.id \in Ids /\ query.generation \in Generations /\ query.dataset.handle \in Ids
        BY DEF Typed, WorkerTyped, QueriesTyped
      <4>3. QueryEvent(result, query.id, query.generation, query.dataset.handle) \in Harmless
        BY <4>1, <4>2, BoundsAssumption
           DEF QueryEvent, Harmless, EventRecords, EventTypes, TerminalTypes, Ids, Generations
      <4> QED BY <3>1, <4>3
    <3> QED BY <2>1, <3>1 DEF FinishQuery
  <2> QED BY <2>1, <2>2 DEF FinishQuery, Stays, Moves
<1>3. CASE DisposalStep
  <2>1. PICK disposal \in disposals : FinishDisposal(disposal)
    BY <1>3 DEF DisposalStep
  <2>2. disposal.id \in 0..MaxId
    BY DEF Typed, WorkerTyped, ControlTyped, Ids
  <2>3. events' = events \/ \E event \in Harmless : events' = Posted(event)
    BY <2>1, <2>2, EventHarmless DEF FinishDisposal
  <2> QED BY <2>1, <2>3 DEF FinishDisposal, Stays, Moves
<1>4. CASE ShutdownStep
  <2>1. \A type \in {"command_error", "shutdown_complete"} : Event(type, shutdown.id) \in Harmless
    BY EventHarmless DEF Typed, WorkerTyped, ControlTyped
  <2>2. events' = events \/ \E event \in Harmless : events' = Posted(event)
    BY <1>4, <2>1 DEF ShutdownStep, ReleaseForShutdown, ReleasedForShutdown, StopRuntime,
       ShutdownFails
  <2>3. job' = job /\ \/ UNCHANGED <<worker, commands>>
                      \/ worker' = "closed" /\ commands' = <<>>
    BY <1>4 DEF ShutdownStep, ReleaseForShutdown, ReleasedForShutdown, StopRuntime,
       shutdownUnchanged
  <2> QED BY <2>2, <2>3 DEF Stays, WorkerEnds, Moves
<1>5. CASE Crash
  <2>1. 0 \in 0..MaxId
    BY BoundsAssumption
  <2>2. \E event \in Harmless : events' = Posted(event)
    BY <1>5, <2>1, EventHarmless DEF Crash
  <2> QED BY <1>5, <2>2 DEF Crash, workerVars, WorkerEnds, Moves
<1> QED BY <1>1, <1>2, <1>3, <1>4, <1>5, HandleCommandMoves, ImportStepMoves DEF WorkerNext


-----------------------------------------------------------------------------
\* The client.

\* It begins no import, and forgets those whose terminal event it takes.
Follows ==
    /\ imports' \subseteq imports /\ worker' = worker /\ job' = job
    /\ nextId' \in {nextId, nextId + 1}
    /\ \/ commands' = commands
       \/ \E command \in CommandRecords :
              command.type # "start_import" /\ commands' = Sent(command)
    /\ \/ events' = events
       \/ /\ events # <<>> /\ events' = Tail(events)
          /\ Head(events).type \in TerminalTypes => Head(events).id \notin imports'

\* It closes, and everything is forgotten.
ClientCloses ==
    /\ imports' = {} /\ job' = job /\ nextId' = nextId /\ commands' = <<>>
    /\ events' = events \/ (events # <<>> /\ events' = Tail(events))

\* The client puts ids to use only by taking the next one.
LEMMA ClientUntaken ==
    ASSUME Typed, Untaken, imports' \subseteq imports, job' = job, nextId' \in {nextId, nextId + 1},
           \/ commands' \in {commands, <<>>}
           \/ \E command \in CommandRecords :
                  command.type # "start_import" /\ commands' = Sent(command),
           events' = events \/ (events # <<>> /\ events' = Tail(events))
    PROVE  Untaken'
<1>0. PortTyped /\ nextId \in Nat /\ job.id \in Nat /\ imports \subseteq Nat
  BY BoundsAssumption
     DEF Typed, ClientTyped, ClientTypeOK, WorkerTyped, JobTyped, JobRecords, Ids
<1>1. \A id \in Nat : id < nextId => id < nextId'
  BY <1>0
<1>2. \A n \in DOMAIN commands' : commands'[n].type = "start_import" =>
          \E m \in DOMAIN commands : commands'[n] = commands[m]
  BY <1>0 DEF PortTyped, Sent
<1>3. \A n \in DOMAIN events' : \E m \in DOMAIN events : events'[n] = events[m]
  <2>1. CASE events' = events
    BY <2>1
  <2>2. CASE events # <<>> /\ events' = Tail(events)
    <3>1. events \in Seq(EventRecords)
      BY <1>0 DEF PortTyped
    <3>2. \A n \in DOMAIN events' : n + 1 \in DOMAIN events /\ events'[n] = events[n + 1]
      BY <2>2, <3>1, TailShifts
    <3> QED BY <3>2
  <2> QED BY <2>1, <2>2
<1>4. /\ \A n \in DOMAIN commands : commands[n] \in CommandRecords
      /\ \A n \in DOMAIN events : events[n] \in EventRecords
  BY <1>0 DEF PortTyped
<1>5. \A n \in DOMAIN commands' : commands'[n].type = "start_import" =>
          commands'[n].id < nextId' /\ Plain(commands'[n])
  BY <1>1, <1>2, <1>4, BoundsAssumption DEF Untaken, CommandRecords, Ids
<1>6. \A n \in DOMAIN events' : events'[n].type \in TerminalTypes => events'[n].id < nextId'
  BY <1>1, <1>3, <1>4, BoundsAssumption DEF Untaken, EventRecords
<1> QED BY <1>0, <1>1, <1>5, <1>6 DEF Untaken

\* Steps of the client that begin and end no import keep every import's place.
LEMMA FollowsPending ==
    ASSUME Typed, Typed', Pending, Follows
    PROVE  Pending'
<1>0. PortTyped /\ PortTyped' /\ Untaken
  BY DEF Typed, Pending
<1>1. Untaken'
  BY <1>0, ClientUntaken DEF Follows
<1>2. ASSUME NEW id \in imports' PROVE OnePlace(id)'
  <2>1. EndsOf(id)' = EndsOf(id)
    <3>1. CASE events' = events
      BY <3>1 DEF EndsOf
    <3>2. CASE events' # events
      <4>1. /\ events # <<>> /\ events' = Tail(events)
            /\ ~(Head(events).id = id /\ Head(events).type \in TerminalTypes)
        BY <1>2, <3>2 DEF Follows
      <4>2. EndsOf(id) = EndsOf(id)' + 0
        BY <1>0, <4>1, EndsTaken
      <4>3. EndsOf(id)' \in Nat
        BY <1>0, <4>1, EndsTaken
      <4> QED BY <4>2, <4>3
    <3> QED BY <3>1, <3>2
  <2>2. Starts(id)' = Starts(id)
    <3>1. CASE commands' = commands
      BY <3>1 DEF Starts, CommandsAbout
    <3>2. ASSUME NEW command \in CommandRecords, command.type # "start_import",
                 commands' = Sent(command)
          PROVE  Starts(id)' = Starts(id)
      <4>1. command # Command("start_import", id)
        BY <3>2 DEF Command
      <4>2. Starts(id)' = Starts(id) + 0 /\ Starts(id) \in Nat
        BY <1>0, <3>2, <4>1, StartsSent, PlacesCount
      <4> QED BY <4>2
    <3> QED BY <3>1, <3>2 DEF Follows
  <2>3. Runs(id)' = Runs(id) /\ worker' = worker
    BY DEF Follows, Runs
  <2>4. Places(id)' = Places(id) /\ id \in imports
    BY <1>2, <2>1, <2>2, <2>3 DEF Places, Follows
  <2> QED BY <2>3, <2>4 DEF Pending, OnePlace
<1> QED BY <1>1, <1>2 DEF Pending

\* A client that closes has no pending import.
LEMMA ClosesPending ==
    ASSUME Typed, Pending, ClientCloses
    PROVE  Pending'
<1>1. Untaken'
  BY ClientUntaken DEF Pending, ClientCloses
<1> QED BY <1>1 DEF Pending, ClientCloses

\* A new import is posted, and is nowhere else.
LEMMA StartImportPending ==
    ASSUME Typed, Typed', Pending, StartImport, ready = "ready", UNCHANGED workerVars
    PROVE  Pending'
<1>0. PortTyped /\ PortTyped' /\ Untaken /\ nextId \in Nat /\ job.id \in Nat /\ imports \subseteq Nat
  BY BoundsAssumption
     DEF Typed, Pending, ClientTyped, ClientTypeOK, WorkerTyped, JobTyped, JobRecords, Ids
<1>1. /\ imports' = imports \cup {nextId} /\ nextId' = nextId + 1
      /\ commands' = Sent(Command("start_import", nextId))
      /\ events' = events /\ worker' = worker /\ job' = job
  BY DEF StartImport, workerVars
<1>2. nextId \in Ids /\ Command("start_import", nextId) \in CommandRecords
  <2>1. Waiting >= 1 /\ nextId + Waiting <= MaxId + 1 /\ nextId \in 1..MaxId + 1
    BY DEF StartImport, Waiting, Typed, ClientTyped, ClientTypeOK
  <2>2. nextId \in Ids
    BY <2>1, BoundsAssumption DEF Ids, Waiting
  <2> QED BY <2>2, BoundsAssumption DEF Command, CommandRecords, CommandTypes
<1>3. Untaken'
  <2>1. \A id \in Nat : id < nextId => id < nextId'
    BY <1>0, <1>1
  <2>2. \A n \in DOMAIN commands' : \/ n \in DOMAIN commands /\ commands'[n] = commands[n]
                                    \/ commands'[n] = Command("start_import", nextId)
    BY <1>0, <1>1, <1>2 DEF PortTyped, Sent
  <2>3. /\ \A n \in DOMAIN commands : commands[n] \in CommandRecords
        /\ \A n \in DOMAIN events : events[n] \in EventRecords
    BY <1>0 DEF PortTyped
  <2>4. Command("start_import", nextId).id = nextId /\ Plain(Command("start_import", nextId))
    BY DEF Command, Plain
  <2>5. \A n \in DOMAIN commands' : commands'[n].type = "start_import" =>
            commands'[n].id < nextId' /\ Plain(commands'[n])
    BY <1>0, <1>1, <2>1, <2>2, <2>3, <2>4, BoundsAssumption DEF Untaken, CommandRecords, Ids
  <2>6. \A n \in DOMAIN events' : events'[n].type \in TerminalTypes => events'[n].id < nextId'
    BY <1>0, <1>1, <2>1, <2>3, BoundsAssumption DEF Untaken, EventRecords
  <2> QED BY <1>0, <1>1, <2>1, <2>5, <2>6 DEF Untaken
<1>4. ASSUME NEW id \in imports' PROVE OnePlace(id)'
  <2>1. /\ EndsOf(id)' = EndsOf(id) /\ Runs(id)' = Runs(id)
        /\ Starts(id) \in Nat /\ EndsOf(id) \in Nat
    BY <1>0, <1>1, PlacesCount DEF EndsOf, Runs
  <2>2. Starts(id)' = Starts(id) + (IF worker = "running" /\ id = nextId THEN 1 ELSE 0)
    <3>1. Command("start_import", nextId) = Command("start_import", id) <=> id = nextId
      BY DEF Command
    <3> QED BY <1>0, <1>1, <1>2, <3>1, StartsSent
  <2>3. CASE id = nextId
    <3>1. {n \in DOMAIN commands : commands[n] = Command("start_import", id)} = {}
      <4> SUFFICES ASSUME NEW n \in DOMAIN commands, commands[n] = Command("start_import", id)
                   PROVE  FALSE
        OBVIOUS
      <4>1. commands[n].type = "start_import" /\ commands[n].id = nextId
        BY <2>3 DEF Command
      <4> QED BY <1>0, <4>1 DEF Untaken
    <3>2. {n \in DOMAIN events : events[n].id = id /\ events[n].type \in TerminalTypes} = {}
      BY <1>0, <2>3 DEF Untaken
    <3>3. Starts(id) = 0 /\ EndsOf(id) = 0
      BY <3>1, <3>2, FS_EmptySet DEF Starts, CommandsAbout, EndsOf
    <3>4. Runs(id) = 0
      BY <1>0, <2>3 DEF Untaken, Runs
    <3> QED BY <1>1, <2>1, <2>2, <2>3, <3>3, <3>4 DEF OnePlace, Places
  <2>4. CASE id # nextId
    <3>1. id \in imports
      BY <1>1, <2>4
    <3>2. Places(id)' = Places(id)
      BY <2>1, <2>2, <2>4 DEF Places
    <3> QED BY <1>1, <3>1, <3>2 DEF Pending, OnePlace
  <2> QED BY <2>3, <2>4
<1> QED BY <1>3, <1>4 DEF Pending


\* The client begins an import with its start command and settles it with its end.
LEMMA ClientNextPending ==
    ASSUME Typed, Typed', Pending, ClientNext, UNCHANGED workerVars
    PROVE  Pending'
<1>0. PortTyped /\ job' = job
  BY DEF Typed, workerVars
<1>1. CASE StartImport
  <2>1. CASE ready = "ready"
    BY <1>1, <2>1, StartImportPending
  <2>2. CASE ready # "ready"
    <3>1. Follows
      BY <1>0, <1>1, <2>2 DEF StartImport, Follows
    <3> QED BY <3>1, FollowsPending
  <2> QED BY <2>1, <2>2
<1>2. CASE Deadline \/ Terminate \/ ReceiveFailure
  <2>1. ClientCloses
    BY <1>0, <1>2 DEF Deadline, Terminate, ReceiveFailure, Closes, Receives, ClientCloses
  <2> QED BY <2>1, ClosesPending
<1>3. CASE ReceiveProgress
  <2>1. Follows
    BY <1>0, <1>3 DEF ReceiveProgress, Receives, TerminalTypes, Follows, clientVars
  <2> QED BY <2>1, FollowsPending
<1>4. CASE ReceiveTerminal
  <2>1. Follows
    BY <1>0, <1>4 DEF ReceiveTerminal, Receives, Follows
  <2> QED BY <2>1, FollowsPending
<1>5. CASE ReceiveAnswer
  <2>1. ClientCloses \/ Follows
    BY <1>0, <1>5 DEF ReceiveAnswer, Receives, TerminalTypes, Closes, Follows, ClientCloses
  <2> QED BY <2>1, FollowsPending, ClosesPending
<1>6. CASE ReceiveResponse
  <2>1. events # <<>> /\ events' = Tail(events) /\ Head(events).type \notin TerminalTypes
    BY <1>6 DEF ReceiveResponse, Receives, ResponseTypes, TerminalTypes
  <2>2. ClientCloses \/ Follows
    BY <1>0, <1>6, <2>1 DEF ReceiveResponse, Closes, Follows, ClientCloses
  <2> QED BY <2>2, FollowsPending, ClosesPending
<1>7. CASE ImportCapture \/ (\E query \in packetQueries : AbortQuery(query)) \/ Shutdown
  <2>1. Follows
    BY <1>0, <1>7 DEF ImportCapture, AbortQuery, Shutdown, Follows, portVars
  <2> QED BY <2>1, FollowsPending
<1>8. CASE \E command \in CommandRecords :
               /\ command.type # "start_import" /\ commands' = Sent(command)
               /\ nextId' \in {nextId, nextId + 1} /\ UNCHANGED <<imports, worker, events>>
  <2>1. Follows
    BY <1>0, <1>8 DEF Follows
  <2> QED BY <2>1, FollowsPending
<1>9. CASE CancelImport
  <2>1. activeJobId \in Ids
    BY <1>9 DEF CancelImport, Typed, ClientTyped, ClientTypeOK, Ids
  <2>2. /\ Command("cancel_import", activeJobId) \in CommandRecords
        /\ Command("cancel_import", activeJobId).type # "start_import"
    BY <2>1, BoundsAssumption DEF Command, CommandRecords, CommandTypes
  <2>3. /\ commands' = Sent(Command("cancel_import", activeJobId))
        /\ nextId' = nextId /\ UNCHANGED <<imports, worker, events>>
    BY <1>9 DEF CancelImport, clientVars
  <2> QED BY <1>8, <2>2, <2>3
<1>10. CASE DisposeDataset \/ ResourceStats \/ RequestShutdown
  <2>1. PICK type \in RequestTypes : Request(type)
    BY <1>10 DEF DisposeDataset, ResourceStats, RequestShutdown, RequestTypes
  <2>2. nextId \in Ids
    <3>1. HasId => nextId \in Ids
      BY HasIdTyped DEF Typed
    <3>2. CASE RequestShutdown
      <4>1. Waiting >= 1 /\ nextId + Waiting <= MaxId + 1 /\ nextId \in 1..MaxId + 1
        BY <3>2 DEF RequestShutdown, Waiting, Typed, ClientTyped, ClientTypeOK
      <4> QED BY <4>1, BoundsAssumption DEF Ids, Waiting
    <3> QED BY <1>10, <3>1, <3>2 DEF DisposeDataset, ResourceStats
  <2>3. /\ Command(type, nextId) \in CommandRecords
        /\ Command(type, nextId).type # "start_import"
    BY <2>2, BoundsAssumption DEF Command, CommandRecords, CommandTypes, RequestTypes
  <2> QED BY <1>8, <2>1, <2>3 DEF Request
<1>11. ASSUME NEW summary \in summaries, ReadPacket(summary.generation)
       PROVE  Pending'
  <2>1. nextId \in Ids
    BY <1>11, HasIdTyped DEF Typed, ReadPacket
  <2>2. summary.generation \in 0..MaxGenerations
    BY BoundsAssumption DEF Typed, ClientTyped, ClientTypeOK, Generations
  <2>3. /\ Query(nextId, summary.generation) \in CommandRecords
        /\ Query(nextId, summary.generation).type # "start_import"
    BY <2>1, <2>2 DEF Query, CommandRecords, CommandTypes
  <2> QED BY <1>8, <1>11, <2>3 DEF ReadPacket
<1> QED BY <1>1, <1>2, <1>3, <1>4, <1>5, <1>6, <1>7, <1>9, <1>10, <1>11
        DEF ClientNext, Call, Receive

\* No step loses an import or ends it twice.
LEMMA NextPending == Typed /\ Typed' /\ Pending /\ [Next]_vars => Pending'
<1> SUFFICES ASSUME Typed, Typed', Pending, [Next]_vars PROVE Pending'
  OBVIOUS
<1>1. CASE WorkerNext /\ UNCHANGED clientVars
  BY <1>1, WorkerNextMoves, MovesPending DEF clientVars
<1>2. CASE UNCHANGED vars
  BY <1>2 DEF vars, portVars, workerVars, clientVars, Pending, Untaken, OnePlace, Places, Starts,
     CommandsAbout, EndsOf, Runs
<1> QED BY <1>1, <1>2, ClientNextPending DEF Next

\* No import is lost and none ends twice, whatever fails.
THEOREM PendingIsSomewhere == Spec => []PendingImportIsSomewhere
<1>1. Typed /\ [Next]_vars => Typed'
  BY NextTyped
<1> QED BY <1>1, InitPending, NextPending, PendingImplies, TypedInvariant, PTL DEF Spec

\* Neither an import nor a handle is lost, as long as no disposal of a dataset
\* fails: one that does leaves the dataset in the runtime, by design.
THEOREM NothingGetsLost ==
    ASSUME "release" \notin Faults
    PROVE  Spec => []NothingIsLost
<1>1. PendingImportIsSomewhere /\ NothingForgotten => NothingIsLost
  BY DEF NothingIsLost
<1>2. Spec => []NothingForgotten
  BY NothingIsForgotten
<1> QED BY <1>1, <1>2, PendingIsSomewhere, PTL

-----------------------------------------------------------------------------
(***************************************************************************)
(* Packet queries, for every number of datasets and queries: an answer was *)
(* read from the dataset its query names, whatever was imported, disposed, *)
(* shut down or failed meanwhile; and without a fault that is the worker's *)
(* own the client never closes for a failure, whatever overtakes a query.  *)
(***************************************************************************)

-----------------------------------------------------------------------------
\* The inductive invariant of answers. A generation names one dataset for ever: the live
\* one, what complete events announce and what callers were told never differ,
\* and the next generation is a new one. So a query that finds its generation
\* live has the dataset its caller was told of.

Pair(generation, dataset) == [generation |-> generation, dataset |-> dataset]

Announced == {Pair(events[n].generation, events[n].dataset) :
                 n \in {m \in DOMAIN events : events[m].type = "complete"}}

Live == IF liveDataset = NoDataset THEN {} ELSE {Pair(liveDataset.generation, liveDataset.handle)}

Published == summaries \cup Announced \cup Live

GenerationsName ==
    /\ \A pair \in Published : pair.generation < nextGeneration
    /\ \A p, q \in Published : p.generation = q.generation => p.dataset = q.dataset

QueriesKnow ==
    /\ \A n \in DOMAIN commands : commands[n].type = "query" =>
           \E summary \in summaries : summary.generation = commands[n].generation
    /\ \A query \in queries : Pair(query.generation, query.dataset.handle) \in summaries

AnswersKnow ==
    \A n \in DOMAIN events : events[n].type = "answer" =>
        Pair(events[n].generation, events[n].dataset) \in summaries

Answering == GenerationsName /\ QueriesKnow /\ AnswersKnow

\* Nothing is asked, announced or live.
LEMMA InitAnswering == Init => Answering
<1> SUFFICES ASSUME Init PROVE Answering
  OBVIOUS
<1>1. Published = {}
  BY DEF Init, WorkerInit, ClientInit, Published, Announced, Live
<1>2. GenerationsName
  BY <1>1 DEF GenerationsName
<1>3. \A n \in DOMAIN commands : commands[n].type = "initialize"
  BY DEF Init, ClientInit, Command
<1>4. QueriesKnow /\ AnswersKnow
  BY <1>3 DEF Init, WorkerInit, ClientInit, QueriesKnow, AnswersKnow
<1> QED BY <1>2, <1>4 DEF Answering

-----------------------------------------------------------------------------
\* What a step does to the queues, in the terms of the invariant.

\* An event that neither announces a dataset nor answers a query.
Quiet == {event \in EventRecords : event.type \notin {"complete", "answer"}}

QuietEvents == events' = events \/ \E event \in Quiet : events' = Posted(event)

\* No query is sent.
NoNewQuery ==
    \A n \in DOMAIN commands' :
        commands'[n].type = "query" =>
            \E m \in DOMAIN commands : commands[m].type = "query" /\ commands'[n] = commands[m]

\* What is posted comes last and changes nothing before it.
LEMMA PostedLast ==
    ASSUME PortTyped, NEW event \in EventRecords, events' = Posted(event)
    PROVE  /\ \A n \in DOMAIN events' :
                 \/ n \in DOMAIN events /\ events'[n] = events[n]
                 \/ n = Len(events) + 1 /\ events'[n] = event
           /\ \A n \in DOMAIN events : n \in DOMAIN events' /\ events'[n] = events[n]
           /\ Len(events) + 1 \in DOMAIN events' /\ events'[Len(events) + 1] = event
  BY DEF PortTyped, Posted

\* Handling a command leaves no query in the queue that was not there.
LEMMA TakenQueries ==
    ASSUME PortTyped, NEW type, Handles(type)
    PROVE  /\ NoNewQuery
           /\ 1 \in DOMAIN commands /\ commands[1] = Head(commands)
<1>1. commands \in Seq(CommandRecords) /\ commands # <<>> /\ commands' = Tail(commands)
  BY DEF PortTyped, Handles
<1>2. Len(commands) \in Nat /\ Len(commands) > 0 /\ DOMAIN commands = 1..Len(commands)
  BY <1>1, LenProperties, EmptySeq
<1>3. /\ DOMAIN commands' = 1..(Len(commands) - 1)
      /\ \A n \in 1..(Len(commands) - 1) : commands'[n] = commands[n + 1]
  BY <1>1, <1>2
<1>4. commands[1] = Head(commands)
  BY <1>1, HeadTailProperties
<1> QED BY <1>2, <1>3, <1>4, SMTT(30) DEF NoNewQuery

\* A step that announces nothing, answers nothing and begins no query.
LEMMA QuietAnswering ==
    ASSUME PortTyped, Answering, QuietEvents, NoNewQuery,
           queries' \subseteq queries, liveDataset' \in {liveDataset, NoDataset},
           UNCHANGED <<nextGeneration, summaries>>
    PROVE  Answering'
<1>1. \A n \in DOMAIN events' :
          \/ n \in DOMAIN events /\ events'[n] = events[n]
          \/ events'[n].type \notin {"complete", "answer"}
  BY PostedLast DEF QuietEvents, Quiet
<1>2. Announced' \subseteq Announced
  BY <1>1 DEF Announced
<1>3. Live' \subseteq Live
  BY DEF Live
<1>4. GenerationsName'
  BY <1>2, <1>3 DEF Answering, GenerationsName, Published
<1>5. QueriesKnow'
  BY DEF Answering, QueriesKnow, NoNewQuery
<1>6. AnswersKnow'
  BY <1>1 DEF Answering, AnswersKnow
<1> QED BY <1>4, <1>5, <1>6 DEF Answering

\* These events announce no dataset and answer no query.
LEMMA QuietEvent ==
    ASSUME NEW type \in {"cancelled", "import_error", "cancelling", "command_error", "error",
                         "initialized", "dataset_disposed", "resource_stats", "shutdown_complete"},
           NEW id \in 0..MaxId
    PROVE  Event(type, id) \in Quiet
  BY EventTyped DEF Quiet, Event

\* The catch block announces nothing.
LEMMA ThrowsQuiet == JobTyped /\ Throws => QuietEvents
<1> SUFFICES ASSUME JobTyped, Throws PROVE QuietEvents
  OBVIOUS
<1>1. Event("cancelled", job.id) \in Quiet /\ Event("import_error", job.id) \in Quiet
  BY QuietEvent DEF JobTyped, JobRecords
<1> QED BY <1>1 DEF Throws, Ends, QuietEvents

\* Nor does an await of runImport that goes on or throws.
LEMMA ContinuesQuiet == ASSUME JobTyped, NEW await, ContinuesTo(await) PROVE QuietEvents
  BY ThrowsQuiet DEF ContinuesTo, QuietEvents

-----------------------------------------------------------------------------
\* The worker.

\* A query is begun only with the dataset its caller was told of.
LEMMA HandleQueryAnswering ==
    ASSUME Typed, Answering, HandleQuery, UNCHANGED clientVars
    PROVE  Answering'
<1> DEFINE command == Head(commands)
           query == [id |-> command.id, generation |-> command.generation, dataset |-> liveDataset]
<1>0. PortTyped /\ Handles("query") /\ UNCHANGED <<nextGeneration, summaries, liveDataset>>
  BY DEF Typed, HandleQuery, clientVars
<1>1. NoNewQuery /\ 1 \in DOMAIN commands /\ commands[1] = command /\ command.type = "query"
      /\ command.id \in Ids /\ command.generation \in 0..MaxGenerations
  BY <1>0, TakenQueries, HandledTyped DEF Handles, CommandRecords
<1>2. CASE queries' = queries /\ events' = Posted(QueryEvent("query_error", command.id,
                                                            command.generation, 0))
  <2>1. QueryEvent("query_error", command.id, command.generation, 0) \in Quiet
    BY <1>1, BoundsAssumption DEF QueryEvent, Quiet, EventRecords, EventTypes, Ids
  <2>2. QuietEvents
    BY <1>2, <2>1 DEF QuietEvents
  <2> QED BY <1>0, <1>1, <1>2, <2>2, QuietAnswering
<1>3. CASE /\ QueryContext(command.generation) = "current"
           /\ queries' = queries \cup {query} /\ events' = events
  <2>1. liveDataset # NoDataset /\ liveDataset.generation = command.generation
    BY <1>3 DEF QueryContext
  <2>2. PICK summary \in summaries : summary.generation = command.generation
    BY <1>1 DEF Answering, QueriesKnow
  <2>3. Pair(liveDataset.generation, liveDataset.handle) \in Published /\ summary \in Published
    BY <2>1 DEF Published, Live
  <2>4. summary.dataset = liveDataset.handle
    BY <2>1, <2>2, <2>3 DEF Answering, GenerationsName, Pair
  <2>5. summary = Pair(command.generation, liveDataset.handle)
    <3>1. summary \in [generation : Generations, dataset : Ids]
      BY DEF Typed, ClientTyped, ClientTypeOK
    <3> QED BY <2>2, <2>4, <3>1 DEF Pair
  <2>6. query.generation = command.generation /\ query.dataset.handle = liveDataset.handle
    OBVIOUS
  <2>7. \A q \in queries' : Pair(q.generation, q.dataset.handle) \in summaries'
    <3> HIDE DEF query
    <3> QED BY <1>0, <1>3, <2>5, <2>6 DEF Answering, QueriesKnow
  <2>8. QueriesKnow'
    BY <1>0, <1>1, <2>7 DEF Answering, QueriesKnow, NoNewQuery
  <2>9. GenerationsName' /\ AnswersKnow'
    BY <1>0, <1>3 DEF Answering, GenerationsName, AnswersKnow, Published, Announced, Live
  <2> QED BY <2>8, <2>9 DEF Answering
<1> QED BY <1>2, <1>3 DEF HandleQuery

\* No command makes a query ask another dataset than its caller was told of.
LEMMA HandleCommandAnswering ==
    ASSUME Typed, Answering, HandleCommand, UNCHANGED clientVars
    PROVE  Answering'
<1>0. PortTyped /\ UNCHANGED summaries
  BY DEF Typed, clientVars
<1>1. CASE HandleQuery
  BY <1>1, HandleQueryAnswering
<1>2. CASE ~HandleQuery
  <2>1. PICK type \in CommandTypes : Handles(type)
    BY <1>2 DEF HandleCommand, HandleInitialize, HandleStartImport, HandleCancelImport,
       HandleResourceStats, HandleDisposeDataset, HandleShutdown, CommandTypes, RequestTypes
  <2>2. NoNewQuery /\ Head(commands).id \in 0..MaxId
    BY <1>0, <2>1, TakenQueries, HandledTyped DEF CommandRecords, Ids
  <2>3. /\ \A kind \in {"import_error", "cancelling", "resource_stats", "command_error",
                           "dataset_disposed"} : Event(kind, Head(commands).id) \in Quiet
    BY <2>2, QuietEvent
  <2>4. QuietEvents
    BY <1>2, <2>3 DEF HandleCommand, HandleInitialize, HandleStartImport, HandleCancelImport,
       HandleResourceStats, HandleDisposeDataset, HandleShutdown, QuietEvents
  <2>5. /\ UNCHANGED <<queries, nextGeneration>>
        /\ liveDataset' \in {liveDataset, NoDataset}
    BY <1>2 DEF HandleCommand, HandleInitialize, HandleStartImport, HandleCancelImport,
       HandleResourceStats, HandleDisposeDataset, HandleShutdown, workerVars
  <2> QED BY <1>0, <2>2, <2>4, <2>5, QuietAnswering
<1> QED BY <1>1, <1>2

\* A new dataset is published under a generation nothing else names.
LEMMA CompleteImportAnswering ==
    ASSUME Typed, Answering, CompleteImport, UNCHANGED clientVars
    PROVE  Answering'
<1>0. PortTyped /\ JobTyped /\ StoreTyped /\ UNCHANGED <<summaries, commands, queries>>
  BY DEF Typed, WorkerTyped, CompleteImport, importUnchanged, clientVars
<1>1. CASE nextGeneration > MaxGenerations
  <2>1. QuietEvents /\ NoNewQuery /\ UNCHANGED <<liveDataset, nextGeneration>>
    BY <1>0, <1>1 DEF CompleteImport, QuietEvents, NoNewQuery
  <2> QED BY <1>0, <2>1, QuietAnswering
<1>2. CASE ~(nextGeneration > MaxGenerations)
  <2> DEFINE event == QueryEvent("complete", job.id, nextGeneration, job.id)
             pair == Pair(nextGeneration, job.id)
  <2>1. /\ liveDataset' = [generation |-> nextGeneration, handle |-> job.id]
        /\ nextGeneration' = nextGeneration + 1 /\ nextGeneration \in Nat
        /\ events' = Posted(event)
    BY <1>0, <1>2 DEF CompleteImport, StoreTyped
  <2>2. job.id \in Ids
    BY <1>0 DEF CompleteImport, Awaits, JobTyped, JobRecords, NoJob, Ids
  <2>3. event \in EventRecords /\ event.type = "complete" /\ event.generation = nextGeneration
        /\ event.dataset = job.id
    BY <1>0, <1>2, <2>2, BoundsAssumption
       DEF QueryEvent, EventRecords, EventTypes, TerminalTypes, Ids, StoreTyped
  <2>4. \A n \in DOMAIN events' : \/ n \in DOMAIN events /\ events'[n] = events[n]
                                  \/ events'[n] = event
    <3> HIDE DEF event
    <3> QED BY <1>0, <2>1, <2>3, PostedLast
  <2>5. Announced' \subseteq Announced \cup {pair}
    <3> HIDE DEF event
    <3> QED BY <2>3, <2>4 DEF Announced
  <2>6. Live' \subseteq {pair}
    BY <2>1 DEF Live
  <2>7. GenerationsName'
    <3>1. Published' \subseteq Published \cup {pair}
      BY <1>0, <2>5, <2>6 DEF Published
    <3>2. pair.generation = nextGeneration
      BY DEF Pair
    <3>3. \A p \in Published : p.generation < nextGeneration /\ p.generation \in Nat
      <4>1. \A p \in summaries : p.generation \in Nat
        BY DEF Typed, ClientTyped, ClientTypeOK, Generations
      <4>2. \A p \in Announced : p.generation \in Nat
        BY <1>0, BoundsAssumption DEF Announced, PortTyped, EventRecords, Pair
      <4>3. \A p \in Live : p.generation \in Nat
        BY <1>0, BoundsAssumption DEF Live, StoreTyped, Pair
      <4> QED BY <4>1, <4>2, <4>3 DEF Published, Answering, GenerationsName
    <3> HIDE DEF pair
    <3>4. \A p \in Published' : p.generation < nextGeneration'
      BY <2>1, <3>1, <3>2, <3>3
    <3>5. \A p, q \in Published' : p.generation = q.generation => p.dataset = q.dataset
      BY <2>1, <3>1, <3>2, <3>3 DEF Answering, GenerationsName
    <3> QED BY <3>4, <3>5 DEF GenerationsName
  <2>8. QueriesKnow'
    BY <1>0 DEF Answering, QueriesKnow
  <2>9. AnswersKnow'
    <3> HIDE DEF event
    <3> QED BY <1>0, <2>3, <2>4 DEF Answering, AnswersKnow
  <2> QED BY <2>7, <2>8, <2>9 DEF Answering
<1> QED BY <1>1, <1>2

\* The rest of the worker announces and answers nothing, but for a query that ends.
LEMMA ImportStepAnswering ==
    ASSUME Typed, Answering, ImportStep, UNCHANGED clientVars
    PROVE  Answering'
<1>0. PortTyped /\ JobTyped /\ UNCHANGED summaries
  BY DEF Typed, WorkerTyped, clientVars
<1>1. CASE CompleteImport
  BY <1>1, CompleteImportAnswering
<1>2. CASE ~CompleteImport
  <2>1. \A type \in {"cancelled", "import_error"} : Event(type, job.id) \in Quiet
    BY <1>0, QuietEvent DEF JobTyped, JobRecords
  <2>2. job.ends \in {"cancelled", "import_error"}
    BY <1>0 DEF JobTyped, JobRecords
  <2>3. CASE CheckSelection \/ ReleasePrevious \/ ReadCapture
    <3>1. QuietEvents
      BY <1>0, <2>3, ThrowsQuiet, ContinuesQuiet
         DEF CheckSelection, ReleasePrevious, ReadCapture, QuietEvents
    <3>2. /\ UNCHANGED <<commands, queries, nextGeneration>>
          /\ liveDataset' \in {liveDataset, NoDataset}
      BY <2>3 DEF CheckSelection, ReleasePrevious, ReadCapture, importUnchanged
    <3>3. NoNewQuery
      BY <3>2 DEF NoNewQuery
    <3> QED BY <1>0, <3>1, <3>2, <3>3, QuietAnswering
  <2>4. CASE BeginImport \/ StepImport \/ DiscardDataset \/ Resume
    <3>1. QuietEvents
      BY <1>0, <2>4, ThrowsQuiet, ContinuesQuiet
         DEF BeginImport, StepImport, DiscardDataset, Resume, QuietEvents
    <3>2. UNCHANGED <<commands, queries, nextGeneration, liveDataset>>
      BY <2>4 DEF BeginImport, StepImport, DiscardDataset, Resume, importUnchanged
    <3>3. NoNewQuery
      BY <3>2 DEF NoNewQuery
    <3> QED BY <1>0, <3>1, <3>2, <3>3, QuietAnswering
  <2>5. CASE Reclaim
    <3>1. QuietEvents
      BY <2>1, <2>2, <2>5 DEF Reclaim, Ends, QuietEvents
    <3>2. UNCHANGED <<commands, queries, nextGeneration, liveDataset>>
      BY <2>5 DEF Reclaim, importUnchanged
    <3>3. NoNewQuery
      BY <3>2 DEF NoNewQuery
    <3> QED BY <1>0, <3>1, <3>2, <3>3, QuietAnswering
  <2>6. CASE CloseAfterCleanupLoss
    <3>1. QuietEvents /\ NoNewQuery /\ UNCHANGED <<queries, nextGeneration>> /\ liveDataset' = NoDataset
      BY <2>6 DEF CloseAfterCleanupLoss, QuietEvents, NoNewQuery
    <3> QED BY <1>0, <3>1, QuietAnswering
  <2> QED BY <1>2, <2>3, <2>4, <2>5, <2>6 DEF ImportStep
<1> QED BY <1>1, <1>2

\* An answer carries the generation and the dataset of its query.
LEMMA QueryStepAnswering ==
    ASSUME Typed, Answering, QueryStep, UNCHANGED clientVars
    PROVE  Answering'
<1>1. PICK query \in queries : FinishQuery(query)
  BY DEF QueryStep
<1>0. /\ PortTyped /\ UNCHANGED <<summaries, commands, nextGeneration, liveDataset>>
      /\ queries' \subseteq queries
  BY <1>1 DEF Typed, FinishQuery, clientVars
<1>2. CASE events' = events
  <2>1. QuietEvents /\ NoNewQuery
    BY <1>0, <1>2 DEF QuietEvents, NoNewQuery
  <2> QED BY <1>0, <2>1, QuietAnswering
<1>3. ASSUME NEW result \in QueryResults(query),
             events' = Posted(QueryEvent(result, query.id, query.generation, query.dataset.handle))
      PROVE  Answering'
  <2> DEFINE event == QueryEvent(result, query.id, query.generation, query.dataset.handle)
  <2>1. /\ event.type = result /\ event.generation = query.generation
        /\ event.dataset = query.dataset.handle
    BY DEF QueryEvent
  <2>2. result \in {"answer", "query_error", "query_failed"}
    BY DEF QueryResults
  <2>3. event \in EventRecords
    <3>1. /\ query.id \in Ids /\ query.generation \in Generations
          /\ query.dataset.handle \in Ids
      BY DEF Typed, WorkerTyped, QueriesTyped
    <3> QED BY <2>2, <3>1, BoundsAssumption
            DEF QueryEvent, EventRecords, EventTypes, Ids, Generations
  <2>4. \A n \in DOMAIN events' : \/ n \in DOMAIN events /\ events'[n] = events[n]
                                  \/ events'[n] = event
    <3> HIDE DEF event
    <3>1. events' = Posted(event)
      BY <1>3 DEF event
    <3> QED BY <1>0, <2>3, <3>1, PostedLast
  <2> HIDE DEF event
  <2>5. Announced' \subseteq Announced
    BY <2>1, <2>2, <2>4 DEF Announced
  <2>6. GenerationsName'
    BY <1>0, <2>5 DEF Answering, GenerationsName, Published, Live
  <2>7. QueriesKnow'
    BY <1>0 DEF Answering, QueriesKnow
  <2>8. AnswersKnow'
    BY <1>0, <2>1, <2>4 DEF Answering, AnswersKnow, QueriesKnow
  <2> QED BY <2>6, <2>7, <2>8 DEF Answering
<1> QED BY <1>1, <1>2, <1>3 DEF FinishQuery

\* Nor does any other step of the worker; a publication takes a new generation.
LEMMA WorkerNextAnswering ==
    ASSUME Typed, Answering, WorkerNext, UNCHANGED clientVars
    PROVE  Answering'
<1>0. PortTyped /\ ControlTyped /\ UNCHANGED summaries
  BY DEF Typed, WorkerTyped, clientVars
<1>1. CASE LoadCapabilities \/ Crash
  <2>1. QuietEvents
    <3>1. 1 \in 0..MaxId /\ 0 \in 0..MaxId
      BY BoundsAssumption
    <3> QED BY <1>1, <3>1, QuietEvent DEF LoadCapabilities, Crash, QuietEvents
  <2>2. UNCHANGED <<queries, nextGeneration, liveDataset>> /\ NoNewQuery
    BY <1>1 DEF LoadCapabilities, Crash, workerVars, NoNewQuery
  <2> QED BY <1>0, <2>1, <2>2, QuietAnswering
<1>2. CASE DisposalStep
  <2>1. PICK disposal \in disposals : FinishDisposal(disposal)
    BY <1>2 DEF DisposalStep
  <2>2. disposal.id \in 0..MaxId
    BY <1>0 DEF ControlTyped, Ids
  <2>3. QuietEvents
    BY <2>1, <2>2, QuietEvent DEF FinishDisposal, QuietEvents
  <2>4. UNCHANGED <<queries, nextGeneration, liveDataset>> /\ NoNewQuery
    BY <2>1 DEF FinishDisposal, NoNewQuery
  <2> QED BY <1>0, <2>3, <2>4, QuietAnswering
<1>3. CASE ShutdownStep
  <2>1. \A type \in {"command_error", "shutdown_complete"} : Event(type, shutdown.id) \in Quiet
    BY <1>0, QuietEvent DEF ControlTyped
  <2>2. QuietEvents
    BY <1>3, <2>1 DEF ShutdownStep, ReleaseForShutdown, ReleasedForShutdown, StopRuntime,
       ShutdownFails, QuietEvents
  <2>3. /\ UNCHANGED <<queries, nextGeneration>> /\ liveDataset' \in {liveDataset, NoDataset}
        /\ NoNewQuery
    BY <1>3 DEF ShutdownStep, ReleaseForShutdown, ReleasedForShutdown, StopRuntime,
       shutdownUnchanged, NoNewQuery
  <2> QED BY <1>0, <2>2, <2>3, QuietAnswering
<1> QED BY <1>1, <1>2, <1>3, HandleCommandAnswering, ImportStepAnswering, QueryStepAnswering
        DEF WorkerNext

-----------------------------------------------------------------------------
\* The client tells its callers only what was announced, and asks only about
\* what it told them.

\* Every query that is on the way was before, or asks about a told dataset.
KnownQueries ==
    \A n \in DOMAIN commands' :
        commands'[n].type = "query" =>
            \/ \E m \in DOMAIN commands : commands[m].type = "query" /\ commands'[n] = commands[m]
            \/ \E summary \in summaries : summary.generation = commands'[n].generation

TakesEvent == events' = events \/ (events # <<>> /\ events' = Tail(events))

\* What is left after the client takes an event was there before.
LEMMA TailEvents ==
    ASSUME PortTyped, TakesEvent
    PROVE  \A n \in DOMAIN events' : \E m \in DOMAIN events : events'[n] = events[m]
<1>1. CASE events' = events
  BY <1>1
<1>2. CASE events # <<>> /\ events' = Tail(events)
  <2>1. events \in Seq(EventRecords)
    BY DEF PortTyped
  <2>2. Len(events) \in Nat /\ Len(events) > 0 /\ DOMAIN events = 1..Len(events)
    BY <1>2, <2>1, LenProperties, EmptySeq
  <2>3. /\ DOMAIN events' = 1..(Len(events) - 1)
        /\ \A n \in 1..(Len(events) - 1) : events'[n] = events[n + 1]
    BY <1>2, <2>1, <2>2
  <2>4. \A n \in DOMAIN events' : n + 1 \in DOMAIN events /\ events'[n] = events[n + 1]
    BY <2>2, <2>3
  <2> QED BY <2>4
<1> QED BY <1>1, <1>2 DEF TakesEvent

\* A command that is sent joins those on the way.
LEMMA SentQueries ==
    ASSUME PortTyped, NEW command \in CommandRecords, commands' = Sent(command),
           command.type = "query" =>
               \E summary \in summaries : summary.generation = command.generation
    PROVE  KnownQueries
<1>1. \A n \in DOMAIN commands' : \/ n \in DOMAIN commands /\ commands'[n] = commands[n]
                                  \/ commands'[n] = command
  BY DEF PortTyped, Sent
<1> QED BY <1>1 DEF KnownQueries

\* A step of the client that keeps to both.
LEMMA ClientStepAnswering ==
    ASSUME PortTyped, Answering, TakesEvent, KnownQueries,
           summaries \subseteq summaries', summaries' \subseteq summaries \cup Announced,
           UNCHANGED <<queries, liveDataset, nextGeneration>>
    PROVE  Answering'
<1>1. \A n \in DOMAIN events' : \E m \in DOMAIN events : events'[n] = events[m]
  BY TailEvents
<1>2. Announced' \subseteq Announced
  BY <1>1 DEF Announced
<1>3. Published' \subseteq Published
  BY <1>2 DEF Published, Live
<1>4. GenerationsName'
  BY <1>3 DEF Answering, GenerationsName
<1>5. QueriesKnow'
  <2>1. \A n \in DOMAIN commands' : commands'[n].type = "query" =>
            \E summary \in summaries : summary.generation = commands'[n].generation
    BY DEF Answering, QueriesKnow, KnownQueries
  <2> QED BY <2>1 DEF Answering, QueriesKnow
<1>6. AnswersKnow'
  BY <1>1 DEF Answering, AnswersKnow
<1> QED BY <1>4, <1>5, <1>6 DEF Answering

\* A caller asks only about a dataset it was told of.
LEMMA CallAnswering ==
    ASSUME Typed, Answering, Call, UNCHANGED workerVars
    PROVE  Answering'
<1>0. /\ PortTyped /\ UNCHANGED <<queries, liveDataset, nextGeneration>>
      /\ nextId \in 1..MaxId + 1 /\ activeJobId \in 0..MaxId
  BY DEF Typed, ClientTyped, ClientTypeOK, workerVars
<1>1. TakesEvent /\ summaries' = summaries
  BY DEF Call, ImportCapture, CancelImport, DisposeDataset, ResourceStats, Request, ReadPacket,
     AbortQuery, Shutdown, Terminate, Closes, TakesEvent, portVars, clientVars
<1>2. HasId => nextId \in Ids
  BY HasIdTyped DEF Typed
<1>3. CASE ImportCapture \/ (\E query \in packetQueries : AbortQuery(query)) \/ Shutdown \/ Terminate
  <2>1. commands' = commands \/ commands' = <<>>
    BY <1>3 DEF ImportCapture, AbortQuery, Shutdown, Terminate, Closes, portVars
  <2>2. KnownQueries
    BY <2>1 DEF KnownQueries
  <2> QED BY <1>0, <1>1, <2>2, ClientStepAnswering
<1>4. CASE CancelImport
  <2>1. Command("cancel_import", activeJobId) \in CommandRecords
    BY <1>0, <1>4, BoundsAssumption DEF CancelImport, Command, CommandRecords, CommandTypes, Ids
  <2>2. KnownQueries
    BY <1>0, <1>4, <2>1, SentQueries DEF CancelImport, Command
  <2> QED BY <1>0, <1>1, <2>2, ClientStepAnswering
<1>5. CASE DisposeDataset \/ ResourceStats
  <2>1. PICK type \in {"dispose_dataset", "resource_stats"} : HasId /\ Request(type)
    BY <1>5 DEF DisposeDataset, ResourceStats
  <2>2. Command(type, nextId) \in CommandRecords /\ Command(type, nextId).type # "query"
    BY <1>2, <2>1, BoundsAssumption DEF Command, CommandRecords, CommandTypes, RequestTypes
  <2>3. KnownQueries
    BY <1>0, <2>1, <2>2, SentQueries DEF Request
  <2> QED BY <1>0, <1>1, <2>3, ClientStepAnswering
<1>6. ASSUME NEW summary \in summaries, ReadPacket(summary.generation)
      PROVE  Answering'
  <2>1. summary.generation \in 0..MaxGenerations
    BY BoundsAssumption DEF Typed, ClientTyped, ClientTypeOK, Generations
  <2>2. /\ Query(nextId, summary.generation) \in CommandRecords
        /\ Query(nextId, summary.generation).generation = summary.generation
    BY <1>2, <1>6, <2>1 DEF ReadPacket, Query, CommandRecords, CommandTypes
  <2>3. KnownQueries
    BY <1>0, <1>6, <2>2, SentQueries DEF ReadPacket
  <2> QED BY <1>0, <1>1, <2>3, ClientStepAnswering
<1> QED BY <1>3, <1>4, <1>5, <1>6 DEF Call

\* What a complete event tells the client was announced.
LEMMA ReceiveAnswering ==
    ASSUME Typed, Answering, Receive, UNCHANGED workerVars
    PROVE  Answering'
<1>0. PortTyped /\ UNCHANGED <<queries, liveDataset, nextGeneration>>
  BY DEF Typed, workerVars
<1>1. TakesEvent
  BY DEF Receive, ReceiveProgress, ReceiveTerminal, ReceiveAnswer, ReceiveFailure,
     ReceiveResponse, Receives, TakesEvent
<1>2. KnownQueries
  <2>1. commands' = commands \/ commands' = <<>>
    BY DEF Receive, ReceiveProgress, ReceiveTerminal, ReceiveAnswer, ReceiveFailure,
       ReceiveResponse, Closes
  <2> QED BY <2>1 DEF KnownQueries
<1>3. summaries' = summaries
        \/ (/\ ReceiveTerminal /\ Head(events).type = "complete"
            /\ summaries' = summaries \cup {Pair(Head(events).generation, Head(events).dataset)})
  BY DEF Receive, ReceiveProgress, ReceiveTerminal, ReceiveAnswer, ReceiveFailure,
     ReceiveResponse, Closes, clientVars, Pair
<1>4. ReceiveTerminal => Head(events) = events[1] /\ 1 \in DOMAIN events
  <2> SUFFICES ASSUME ReceiveTerminal PROVE Head(events) = events[1] /\ 1 \in DOMAIN events
    OBVIOUS
  <2>1. events \in Seq(EventRecords) /\ events # <<>>
    BY <1>0 DEF PortTyped, ReceiveTerminal, Receives
  <2> QED BY <2>1, LenProperties, EmptySeq, HeadTailProperties
<1>5. summaries \subseteq summaries' /\ summaries' \subseteq summaries \cup Announced
  BY <1>3, <1>4 DEF Announced
<1> QED BY <1>0, <1>1, <1>2, <1>5, ClientStepAnswering

\* No step of the client breaks the invariant.
LEMMA ClientNextAnswering ==
    ASSUME Typed, Answering, ClientNext, UNCHANGED workerVars
    PROVE  Answering'
<1>0. /\ PortTyped /\ UNCHANGED <<queries, liveDataset, nextGeneration>>
      /\ nextId \in 1..MaxId + 1 /\ nextId + Waiting <= MaxId + 1
  BY DEF Typed, ClientTyped, ClientTypeOK, workerVars
<1>1. CASE StartImport
  <2>1. CASE ready = "ready"
    <3>1. Waiting >= 1
      BY <1>1 DEF StartImport, Waiting
    <3>2. nextId \in Ids
      BY <1>0, <3>1, BoundsAssumption DEF Ids, Waiting
    <3>3. Command("start_import", nextId) \in CommandRecords
      BY <3>2, BoundsAssumption DEF Command, CommandRecords, CommandTypes
    <3>4. KnownQueries
      BY <1>0, <1>1, <2>1, <3>3, SentQueries DEF StartImport, Command
    <3> QED BY <1>0, <1>1, <3>4, ClientStepAnswering DEF StartImport, TakesEvent
  <2>2. CASE ready # "ready"
    <3>1. KnownQueries
      BY <1>1, <2>2 DEF StartImport, KnownQueries
    <3> QED BY <1>0, <1>1, <3>1, ClientStepAnswering DEF StartImport, TakesEvent
  <2> QED BY <2>1, <2>2
<1>2. CASE RequestShutdown
  <2>1. Waiting >= 1
    BY <1>2 DEF RequestShutdown, Waiting
  <2>2. nextId \in Ids
    BY <1>0, <2>1, BoundsAssumption DEF Ids, Waiting
  <2>3. Command("shutdown", nextId) \in CommandRecords
    BY <2>2, BoundsAssumption DEF Command, CommandRecords, CommandTypes, RequestTypes
  <2>4. KnownQueries
    BY <1>0, <1>2, <2>3, SentQueries DEF RequestShutdown, Request, Command
  <2> QED BY <1>0, <1>2, <2>4, ClientStepAnswering DEF RequestShutdown, Request, TakesEvent
<1>3. CASE Deadline
  <2>1. KnownQueries
    BY <1>3 DEF Deadline, Closes, KnownQueries
  <2> QED BY <1>0, <1>3, <2>1, ClientStepAnswering DEF Deadline, Closes, TakesEvent
<1> QED BY <1>1, <1>2, <1>3, CallAnswering, ReceiveAnswering DEF ClientNext

\* No step at all breaks the invariant.
LEMMA NextAnswering == Typed /\ Answering /\ [Next]_vars => Answering'
<1> SUFFICES ASSUME Typed, Answering, [Next]_vars PROVE Answering'
  OBVIOUS
<1>1. CASE UNCHANGED vars
  BY <1>1 DEF vars, portVars, workerVars, clientVars, Answering, GenerationsName, QueriesKnow,
     AnswersKnow, Published, Announced, Live
<1> QED BY <1>1, WorkerNextAnswering, ClientNextAnswering DEF Next

\* The property is the part of the invariant about answers on their way.
LEMMA AnsweringImplies == AnswersKnow => AnswersAreFromAskedDataset
  BY DEF AnswersKnow, AnswersAreFromAskedDataset, Pair

\* Whatever is imported, disposed or shut down while a query is on its way or
\* awaits the runtime, its answer is about the dataset it asked for.
THEOREM AnswersAreFromAsked == Spec => []AnswersAreFromAskedDataset
<1>1. Answering => AnswersAreFromAskedDataset
  BY AnsweringImplies DEF Answering
<1> QED BY <1>1, InitAnswering, NextAnswering, TypedInvariant, PTL DEF Spec

-----------------------------------------------------------------------------
\* The inductive invariant of failures. A query keeps its generation from its call to its
\* answer, no request shares an id with a query, and the worker reports no
\* failure: a query that is still current has its dataset in the runtime.

Ref(message) == [id |-> message.id, generation |-> message.generation]

Asked ==
    packetQueries
        \cup {Ref(commands[n]) : n \in {m \in DOMAIN commands : commands[m].type = "query"}}
        \cup {Ref(query) : query \in queries}
        \cup {Ref(events[n]) : n \in {m \in DOMAIN events :
                                         events[m].type \in {"answer", "query_error"}}}

RequestIds ==
    {0, 1, shutdown.id}
        \cup {commands[n].id : n \in {m \in DOMAIN commands : commands[m].type \in RequestTypes}}
        \cup {disposal.id : disposal \in disposals}
        \cup {events[n].id : n \in {m \in DOMAIN events : events[m].type = "command_error"}}

AskedOnce ==
    /\ \A asked \in Asked : asked.id < nextId
    /\ \A p, q \in Asked : p.id = q.id => p.generation = q.generation

RequestsAreNoQueries ==
    \A id \in RequestIds : id < nextId /\ \A query \in packetQueries : query.id # id

NoFailure == \A n \in DOMAIN events : events[n].type \notin {"error", "query_failed"}

Calm == AskedOnce /\ RequestsAreNoQueries /\ NoFailure /\ ~aborted

\* Nothing is asked and nothing failed.
LEMMA InitCalm == Init => Calm
<1> SUFFICES ASSUME Init PROVE Calm
  OBVIOUS
<1> USE DEF Init, WorkerInit, ClientInit
<1>1. \A n \in DOMAIN commands : commands[n].type = "initialize" /\ commands[n].id = 1
  BY DEF Command
<1>2. Asked = {}
  BY <1>1 DEF Asked
<1>3. RequestIds \subseteq {0, 1}
  BY <1>1 DEF RequestIds, NoShutdown
<1>4. AskedOnce /\ RequestsAreNoQueries
  BY <1>2, <1>3 DEF AskedOnce, RequestsAreNoQueries
<1> QED BY <1>4 DEF Calm, NoFailure

-----------------------------------------------------------------------------
\* The worker names only queries and requests it was sent.

Fitting(event) ==
    /\ event.type \notin {"error", "query_failed"}
    /\ event.type \in {"answer", "query_error"} => Ref(event) \in Asked
    /\ event.type = "command_error" => event.id \in RequestIds

\* A step that keeps to what is known.
LEMMA WorkerKeeps ==
    ASSUME Typed, Calm,
           events' = events \/ \E event \in EventRecords : Fitting(event) /\ events' = Posted(event),
           \A n \in DOMAIN commands' : \E m \in DOMAIN commands : commands'[n] = commands[m],
           \A query \in queries' : Ref(query) \in Asked,
           \A disposal \in disposals' : disposal.id \in RequestIds,
           shutdown'.id \in RequestIds,
           UNCHANGED clientVars
    PROVE  Calm'
<1>0. PortTyped /\ UNCHANGED <<nextId, packetQueries, aborted>>
  BY DEF Typed, clientVars
<1>1. \A n \in DOMAIN events' :
          \/ n \in DOMAIN events /\ events'[n] = events[n]
          \/ Fitting(events'[n])
  <2>1. CASE events' = events
    BY <2>1
  <2>2. ASSUME NEW event \in EventRecords, Fitting(event), events' = Posted(event)
        PROVE  \A n \in DOMAIN events' :
                   \/ n \in DOMAIN events /\ events'[n] = events[n]
                   \/ Fitting(events'[n])
    <3>1. \A n \in DOMAIN events' : \/ n \in DOMAIN events /\ events'[n] = events[n]
                                    \/ events'[n] = event
      BY <1>0, <2>2 DEF PortTyped, Posted
    <3> QED BY <2>2, <3>1
  <2> QED BY <2>1, <2>2
<1>2. Asked' \subseteq Asked
  <2>1. \A n \in DOMAIN events' : events'[n].type \in {"answer", "query_error"} =>
            Ref(events'[n]) \in Asked
    BY <1>1 DEF Fitting, Asked
  <2>2. \A n \in DOMAIN commands' : commands'[n].type = "query" => Ref(commands'[n]) \in Asked
    BY DEF Asked
  <2>3. packetQueries' \subseteq Asked
    BY <1>0 DEF Asked
  <2>4. \A asked \in Asked' :
            \/ asked \in packetQueries'
            \/ \E n \in DOMAIN commands' : commands'[n].type = "query" /\ asked = Ref(commands'[n])
            \/ \E query \in queries' : asked = Ref(query)
            \/ \E n \in DOMAIN events' :
                   events'[n].type \in {"answer", "query_error"} /\ asked = Ref(events'[n])
    BY DEF Asked, Ref
  <2> QED BY <2>1, <2>2, <2>3, <2>4
<1>3. RequestIds' \subseteq RequestIds
  <2>1. \A n \in DOMAIN events' : events'[n].type = "command_error" => events'[n].id \in RequestIds
    BY <1>1 DEF Fitting, RequestIds
  <2>2. \A n \in DOMAIN commands' : commands'[n].type \in RequestTypes =>
            commands'[n].id \in RequestIds
    BY DEF RequestIds
  <2>3. \A id \in RequestIds' :
            \/ id \in {0, 1} \/ id = shutdown'.id
            \/ \E n \in DOMAIN commands' : commands'[n].type \in RequestTypes /\ id = commands'[n].id
            \/ \E disposal \in disposals' : id = disposal.id
            \/ \E n \in DOMAIN events' : events'[n].type = "command_error" /\ id = events'[n].id
    BY DEF RequestIds
  <2>4. {0, 1} \subseteq RequestIds
    BY DEF RequestIds
  <2> QED BY <2>1, <2>2, <2>3, <2>4
<1>4. AskedOnce'
  BY <1>0, <1>2 DEF Calm, AskedOnce
<1>5. RequestsAreNoQueries'
  BY <1>0, <1>3 DEF Calm, RequestsAreNoQueries
<1>6. NoFailure'
  BY <1>1 DEF Calm, NoFailure, Fitting
<1> QED BY <1>0, <1>4, <1>5, <1>6 DEF Calm

\* What is known already.
LEMMA KnownBefore ==
    Typed => /\ \A query \in queries : Ref(query) \in Asked
             /\ \A disposal \in disposals : disposal.id \in RequestIds
             /\ shutdown.id \in RequestIds /\ 0 \in RequestIds /\ 1 \in RequestIds
  BY DEF Asked, RequestIds

\* A command is answered with its own id, and a query found current has its dataset.
LEMMA HandleCommandCalm ==
    ASSUME Typed, Calm, HandleCommand, UNCHANGED clientVars
    PROVE  Calm'
<1> DEFINE command == Head(commands)
<1>0. PortTyped
  BY DEF Typed
<1>1. PICK type \in CommandTypes : Handles(type)
  BY DEF HandleCommand, HandleInitialize, HandleStartImport, HandleCancelImport, HandleQuery,
     HandleResourceStats, HandleDisposeDataset, HandleShutdown, CommandTypes, RequestTypes
<1>2. /\ 1 \in DOMAIN commands /\ commands[1] = command /\ command.type = type
      /\ \A n \in DOMAIN commands' : \E m \in DOMAIN commands : commands'[n] = commands[m]
  BY <1>0, <1>1, TakenShifts
<1>3. command \in CommandRecords /\ command.id \in Ids /\ command.id \in 0..MaxId
      /\ command.generation \in 0..MaxGenerations
  BY <1>0, <1>1, HandledTyped, BoundsAssumption DEF CommandRecords, Ids
<1>4. type = "query" => Ref(command) \in Asked
  BY <1>2 DEF Asked
<1>5. type \in RequestTypes => command.id \in RequestIds
  BY <1>2 DEF RequestIds
<1>6. \A t \in {"import_error", "cancelling", "resource_stats", "dataset_disposed"} :
          Event(t, command.id) \in EventRecords /\ Fitting(Event(t, command.id))
  BY <1>3, EventTyped DEF Event, Fitting
<1>7. type \in RequestTypes => /\ Event("command_error", command.id) \in EventRecords
                               /\ Fitting(Event("command_error", command.id))
  BY <1>3, <1>5, EventTyped DEF Event, Fitting
<1>8. type = "query" =>
          /\ QueryEvent("query_error", command.id, command.generation, 0) \in EventRecords
          /\ Fitting(QueryEvent("query_error", command.id, command.generation, 0))
  BY <1>3, <1>4, BoundsAssumption DEF QueryEvent, EventRecords, EventTypes, Fitting, Ref
<1>9. CASE HandleInitialize \/ HandleStartImport \/ HandleCancelImport \/ HandleResourceStats
  <2>1. /\ events' = events
           \/ \E event \in EventRecords : Fitting(event) /\ events' = Posted(event)
        /\ UNCHANGED <<queries, disposals, shutdown>>
    <3>1. HandleResourceStats => type \in RequestTypes
      BY <1>2 DEF HandleResourceStats, Handles, RequestTypes
    <3> QED BY <1>6, <1>7, <1>9, <3>1 DEF HandleInitialize, HandleStartImport,
            HandleCancelImport, HandleResourceStats, workerVars
  <2> QED BY <1>2, <2>1, KnownBefore, WorkerKeeps
<1>10. CASE HandleQuery
  <2>1. type = "query" /\ UNCHANGED <<disposals, shutdown>>
    BY <1>2, <1>10 DEF HandleQuery, Handles
  <2>2. events' = events \/ \E event \in EventRecords : Fitting(event) /\ events' = Posted(event)
    BY <1>8, <1>10, <2>1 DEF HandleQuery
  <2>3. \A query \in queries' : Ref(query) \in Asked
    <3>1. \A query \in queries' : query \in queries \/ Ref(query) = Ref(command)
      BY <1>10 DEF HandleQuery, Ref
    <3> QED BY <1>4, <2>1, <3>1, KnownBefore
  <2> QED BY <1>2, <2>1, <2>2, <2>3, KnownBefore, WorkerKeeps
<1>11. CASE HandleDisposeDataset
  <2>1. type \in RequestTypes /\ UNCHANGED <<queries, shutdown>>
    BY <1>2, <1>11 DEF HandleDisposeDataset, Handles, RequestTypes
  <2>2. events' = events \/ \E event \in EventRecords : Fitting(event) /\ events' = Posted(event)
    BY <1>6, <1>7, <1>11, <2>1 DEF HandleDisposeDataset
  <2>3. \A disposal \in disposals' : disposal \in disposals \/ disposal.id = command.id
    BY <1>11 DEF HandleDisposeDataset
  <2> QED BY <1>2, <1>5, <2>1, <2>2, <2>3, KnownBefore, WorkerKeeps
<1>12. CASE HandleShutdown
  <2>1. type \in RequestTypes /\ shutdown'.id = command.id /\ UNCHANGED <<queries, disposals, events>>
    BY <1>2, <1>12 DEF HandleShutdown, Handles, RequestTypes
  <2> QED BY <1>2, <1>5, <2>1, KnownBefore, WorkerKeeps
<1> QED BY <1>9, <1>10, <1>11, <1>12 DEF HandleCommand

\* The catch block names no query and no request.
LEMMA ThrowsFitting ==
    ASSUME Typed, Throws
    PROVE  events' = events \/ \E event \in EventRecords : Fitting(event) /\ events' = Posted(event)
<1>1. job.id \in 0..MaxId
  BY DEF Typed, WorkerTyped, JobTyped, JobRecords
<1>2. \A t \in {"import_error", "cancelled"} :
          Event(t, job.id) \in EventRecords /\ Fitting(Event(t, job.id))
  BY <1>1, EventTyped DEF Event, Fitting
<1> QED BY <1>2 DEF Throws, Ends

\* An import ends with an event of its own and drops queries without a failure.
LEMMA ImportStepCalm ==
    ASSUME Typed, Calm, ImportStep, UNCHANGED clientVars
    PROVE  Calm'
<1>0. job.id \in 0..MaxId /\ job.ends \in {"cancelled", "import_error"}
      /\ nextGeneration \in 1..MaxGenerations + 1
  BY DEF Typed, WorkerTyped, JobTyped, JobRecords, StoreTyped
<1>1. /\ commands' \in {commands, <<>>} /\ UNCHANGED <<queries, disposals, shutdown>>
  BY DEF ImportStep, CheckSelection, ReleasePrevious, ReadCapture, BeginImport, StepImport,
     CompleteImport, DiscardDataset, Resume, Reclaim, CloseAfterCleanupLoss, importUnchanged
<1>2. \A n \in DOMAIN commands' : \E m \in DOMAIN commands : commands'[n] = commands[m]
  BY <1>1
<1>3. events' = events \/ \E event \in EventRecords : Fitting(event) /\ events' = Posted(event)
  <2>1. \A t \in {"import_error", "cancelled"} :
            Event(t, job.id) \in EventRecords /\ Fitting(Event(t, job.id))
    BY <1>0, EventTyped DEF Event, Fitting
  <2>2. CASE CompleteImport
    <3>1. job.id # 0
      BY <2>2 DEF CompleteImport, Awaits, Typed, WorkerTyped, JobTyped, NoJob
    <3>2. ~(nextGeneration > MaxGenerations) =>
              /\ QueryEvent("complete", job.id, nextGeneration, job.id) \in EventRecords
              /\ Fitting(QueryEvent("complete", job.id, nextGeneration, job.id))
      BY <1>0, <3>1, BoundsAssumption
         DEF QueryEvent, EventRecords, EventTypes, TerminalTypes, Fitting
    <3> QED BY <2>2, <3>2 DEF CompleteImport
  <2>3. CASE Reclaim
    BY <1>0, <2>1, <2>3 DEF Reclaim, Ends
  <2> QED BY <2>2, <2>3, ThrowsFitting
          DEF ImportStep, CheckSelection, ReleasePrevious, ReadCapture, BeginImport, StepImport,
              DiscardDataset, Resume, CloseAfterCleanupLoss, ContinuesTo
<1> QED BY <1>1, <1>2, <1>3, KnownBefore, WorkerKeeps

\* A query that is still current has its dataset in the runtime.
LEMMA QueryStepCalm ==
    ASSUME Typed, Calm, NothingForgotten, "read" \notin Faults, QueryStep, UNCHANGED clientVars
    PROVE  Calm'
<1>1. PICK query \in queries : FinishQuery(query)
  BY DEF QueryStep
<1>2. query.id \in Ids /\ query.generation \in Generations /\ query.dataset.handle \in Ids
  BY DEF Typed, WorkerTyped, QueriesTyped
<1>3. events' = events \/ \E event \in EventRecords : Fitting(event) /\ events' = Posted(event)
  <2>1. CASE ~QueryStillCurrent(query)
    BY <1>1, <2>1 DEF FinishQuery
  <2>2. CASE QueryStillCurrent(query)
    <3>1. query.dataset.handle \in runtimeDatasets
      <4>1. runtimeDatasets = HeldDatasets \ {0}
        BY <1>1 DEF FinishQuery, NothingForgotten
      <4>2. query.dataset.handle \in HeldDatasets
        BY <2>2 DEF QueryStillCurrent, HeldDatasets
      <4> QED BY <1>2, <4>1, <4>2 DEF Ids
    <3>2. PICK result \in {"answer", "query_error"} :
              events' = Posted(QueryEvent(result, query.id, query.generation, query.dataset.handle))
      BY <1>1, <2>2, <3>1 DEF FinishQuery, QueryResults, Fault
    <3> DEFINE event == QueryEvent(result, query.id, query.generation, query.dataset.handle)
    <3>3. event \in EventRecords
      BY <1>2, BoundsAssumption DEF QueryEvent, EventRecords, EventTypes, Ids, Generations
    <3>4. Ref(event) = Ref(query) /\ event.type = result
      BY DEF QueryEvent, Ref
    <3> HIDE DEF event
    <3>5. Fitting(event)
      BY <3>4, KnownBefore DEF Fitting
    <3>6. events' = Posted(event)
      BY <3>2 DEF event
    <3> QED BY <3>3, <3>5, <3>6
  <2> QED BY <2>1, <2>2
<1>4. commands' = commands /\ queries' \subseteq queries /\ UNCHANGED <<disposals, shutdown>>
  BY <1>1 DEF FinishQuery
<1> QED BY <1>3, <1>4, KnownBefore, WorkerKeeps

\* The worker reports no failure: while nothing is forgotten, the dataset of a
\* current query lives in the runtime.
LEMMA WorkerNextCalm ==
    ASSUME Typed, Calm, NothingForgotten, Faults \cap {"read", "crash"} = {},
           WorkerNext, UNCHANGED clientVars
    PROVE  Calm'
<1>1. CASE LoadCapabilities
  <2>1. 1 \in 0..MaxId
    BY BoundsAssumption
  <2>2. \A t \in {"initialized", "command_error"} :
            Event(t, 1) \in EventRecords /\ Fitting(Event(t, 1))
    BY <2>1, EventTyped DEF Event, Fitting, RequestIds
  <2>3. events' = events \/ \E event \in EventRecords : Fitting(event) /\ events' = Posted(event)
    BY <1>1, <2>2 DEF LoadCapabilities
  <2> QED BY <1>1, <2>3, KnownBefore, WorkerKeeps DEF LoadCapabilities
<1>2. CASE DisposalStep
  <2>1. PICK disposal \in disposals : FinishDisposal(disposal)
    BY <1>2 DEF DisposalStep
  <2>2. disposal.id \in 0..MaxId /\ disposal.id \in RequestIds
    BY DEF Typed, WorkerTyped, ControlTyped, Ids, RequestIds
  <2>3. \A t \in {"dataset_disposed", "command_error"} :
            Event(t, disposal.id) \in EventRecords /\ Fitting(Event(t, disposal.id))
    BY <2>2, EventTyped DEF Event, Fitting
  <2>4. events' = events \/ \E event \in EventRecords : Fitting(event) /\ events' = Posted(event)
    BY <2>1, <2>3 DEF FinishDisposal
  <2> QED BY <2>1, <2>4, KnownBefore, WorkerKeeps DEF FinishDisposal
<1>3. CASE ShutdownStep
  <2>1. shutdown.id \in 0..MaxId /\ shutdown.id \in RequestIds
    BY DEF Typed, WorkerTyped, ControlTyped, RequestIds
  <2>2. \A t \in {"shutdown_complete", "command_error"} :
            Event(t, shutdown.id) \in EventRecords /\ Fitting(Event(t, shutdown.id))
    BY <2>1, EventTyped DEF Event, Fitting
  <2>3. events' = events \/ \E event \in EventRecords : Fitting(event) /\ events' = Posted(event)
    BY <1>3, <2>2 DEF ShutdownStep, ReleaseForShutdown, ReleasedForShutdown, StopRuntime,
       ShutdownFails
  <2>4. commands' \in {commands, <<>>} /\ UNCHANGED <<queries, disposals>>
    BY <1>3 DEF ShutdownStep, ReleaseForShutdown, ReleasedForShutdown, StopRuntime,
       shutdownUnchanged
  <2>5. shutdown'.id \in {0, shutdown.id}
    <3>1. shutdown \in [id : 0..MaxId, at : {"idle", "work", "releasing", "stopping"},
                        releases : 0..MaxId]
      BY DEF Typed, WorkerTyped, ControlTyped
    <3>2. CASE ReleaseForShutdown
      <4>1. shutdown' = [shutdown EXCEPT
                !.at = IF liveDataset = NoDataset THEN "stopping" ELSE "releasing",
                !.releases = liveDataset.handle]
        BY <3>2 DEF ReleaseForShutdown
      <4> QED BY <3>1, <4>1
    <3>3. CASE shutdown' = NoShutdown
      BY <3>3 DEF NoShutdown
    <3>4. CASE shutdown' = [shutdown EXCEPT !.at = "stopping", !.releases = 0]
      BY <3>1, <3>4
    <3>5. CASE shutdown' = shutdown
      BY <3>5
    <3> QED BY <1>3, <3>2, <3>3, <3>4, <3>5
            DEF ShutdownStep, ReleasedForShutdown, StopRuntime, ShutdownFails
  <2>6. \A n \in DOMAIN commands' : \E m \in DOMAIN commands : commands'[n] = commands[m]
    BY <2>4
  <2>7. shutdown'.id \in RequestIds
    BY <2>5 DEF RequestIds
  <2> QED BY <2>3, <2>4, <2>6, <2>7, KnownBefore, WorkerKeeps
<1> QED BY <1>1, <1>2, <1>3, HandleCommandCalm, ImportStepCalm, QueryStepCalm
        DEF WorkerNext, Crash, Fault

-----------------------------------------------------------------------------
\* The client.

\* Ids are numbers.
LEMMA IdsAreNumbers ==
    ASSUME Typed
    PROVE  /\ \A asked \in Asked : asked.id \in Nat
           /\ RequestIds \subseteq Nat
<1>1. /\ \A n \in DOMAIN commands : commands[n].id \in Nat
      /\ \A n \in DOMAIN events : events[n].id \in Nat
      /\ \A disposal \in disposals : disposal.id \in Nat
      /\ \A query \in packetQueries : query.id \in Nat
      /\ \A query \in queries : query.id \in Nat
      /\ shutdown.id \in Nat
  <2>1. \A n \in DOMAIN commands : commands[n].id \in Nat
    <3>1. \A n \in DOMAIN commands : commands[n] \in CommandRecords
      BY DEF Typed, PortTyped
    <3> QED BY <3>1, BoundsAssumption DEF CommandRecords, Ids
  <2>2. \A n \in DOMAIN events : events[n].id \in Nat
    <3>1. \A n \in DOMAIN events : events[n] \in EventRecords
      BY DEF Typed, PortTyped
    <3> QED BY <3>1, BoundsAssumption DEF EventRecords
  <2>3. \A disposal \in disposals : disposal.id \in Nat
    BY BoundsAssumption DEF Typed, WorkerTyped, ControlTyped, Ids
  <2>4. \A query \in packetQueries : query.id \in Nat
    BY BoundsAssumption DEF Typed, ClientTyped, ClientTypeOK, Ids
  <2>5. \A query \in queries : query.id \in Nat
    BY BoundsAssumption DEF Typed, WorkerTyped, QueriesTyped, Ids
  <2>6. shutdown.id \in Nat
    BY BoundsAssumption DEF Typed, WorkerTyped, ControlTyped
  <2> QED BY <2>1, <2>2, <2>3, <2>4, <2>5, <2>6
<1>2. \A asked \in Asked : asked.id \in Nat
  BY <1>1 DEF Asked, Ref
<1>3. RequestIds \subseteq Nat
  BY <1>1 DEF RequestIds
<1> QED BY <1>2, <1>3

\* A step of the client that asks for nothing new.
LEMMA ClientKeeps ==
    ASSUME Typed, Calm, ~aborted', nextId' \in {nextId, nextId + 1},
           events' = events \/ (events # <<>> /\ events' = Tail(events)),
           \A n \in DOMAIN commands' : commands'[n].type \in RequestTypes \cup {"query"} =>
               \E m \in DOMAIN commands : commands'[n] = commands[m],
           packetQueries' \subseteq packetQueries,
           UNCHANGED workerVars
    PROVE  Calm'
<1>0. PortTyped /\ UNCHANGED <<queries, disposals, shutdown>> /\ nextId \in Nat
  BY DEF Typed, workerVars, ClientTyped, ClientTypeOK
<1>1. \A n \in DOMAIN events' : \E m \in DOMAIN events : events'[n] = events[m]
  <2>1. CASE events' = events
    BY <2>1
  <2>2. CASE events # <<>> /\ events' = Tail(events)
    <3>1. events \in Seq(EventRecords)
      BY <1>0 DEF PortTyped
    <3>2. \A n \in DOMAIN Tail(events) : n + 1 \in DOMAIN events /\ Tail(events)[n] = events[n + 1]
      BY <2>2, <3>1, TailShifts
    <3> QED BY <2>2, <3>2
  <2> QED BY <2>1, <2>2
<1>2. Asked' \subseteq Asked
  BY <1>0, <1>1 DEF Asked, Ref
<1>3. RequestIds' \subseteq RequestIds
  BY <1>0, <1>1 DEF RequestIds
<1>4. \A id \in Nat : id < nextId => id < nextId'
  BY <1>0
<1>5. AskedOnce' /\ RequestsAreNoQueries'
  BY <1>2, <1>3, <1>4, IdsAreNumbers DEF Calm, AskedOnce, RequestsAreNoQueries
<1> QED BY <1>1, <1>5 DEF Calm, NoFailure

\* A step that asks for something, under the next id.
LEMMA ClientAsks ==
    ASSUME Typed, Calm, NEW command \in CommandRecords, command.id = nextId,
           command.type \in RequestTypes \cup {"query"},
           commands' = Sent(command), nextId' = nextId + 1, ~aborted',
           events' = events, UNCHANGED workerVars,
           command.type = "query" => packetQueries' = packetQueries \cup {Ref(command)},
           command.type # "query" => packetQueries' \subseteq packetQueries
    PROVE  Calm'
<1>0. PortTyped /\ UNCHANGED <<queries, disposals, shutdown>> /\ nextId \in Nat
  BY DEF Typed, workerVars, ClientTyped, ClientTypeOK
<1>1. \A n \in DOMAIN commands' : \/ n \in DOMAIN commands /\ commands'[n] = commands[n]
                                  \/ commands'[n] = command
  BY <1>0 DEF PortTyped, Sent
<1>2. /\ \A asked \in Asked : asked.id \in Nat
      /\ RequestIds \subseteq Nat
  BY IdsAreNumbers
<1>3. CASE command.type = "query"
  <2>1. Asked' \subseteq Asked \cup {Ref(command)}
    BY <1>0, <1>1, <1>3 DEF Asked, Ref
  <2>2. RequestIds' \subseteq RequestIds
    BY <1>0, <1>1, <1>3 DEF RequestIds, RequestTypes
  <2>3. Ref(command).id = nextId
    BY DEF Ref
  <2>4. AskedOnce'
    <3>1. \A asked \in Asked' : asked.id < nextId'
      BY <1>0, <1>2, <2>1, <2>3 DEF Calm, AskedOnce
    <3>2. \A asked \in Asked : asked.id # nextId
      BY <1>0, <1>2 DEF Calm, AskedOnce
    <3>3. \A p, q \in Asked' : p.id = q.id => p.generation = q.generation
      BY <2>1, <2>3, <3>2 DEF Calm, AskedOnce
    <3> QED BY <3>1, <3>3 DEF AskedOnce
  <2>5. RequestsAreNoQueries'
    <3>1. \A id \in RequestIds : id < nextId' /\ id # nextId
      BY <1>0, <1>2 DEF Calm, RequestsAreNoQueries
    <3>2. \A query \in packetQueries' : query \in packetQueries \/ query.id = nextId
      BY <1>3, <2>3
    <3> QED BY <2>2, <3>1, <3>2 DEF Calm, RequestsAreNoQueries
  <2> QED BY <2>4, <2>5 DEF Calm, NoFailure
<1>4. CASE command.type # "query"
  <2>1. Asked' \subseteq Asked
    BY <1>0, <1>1, <1>4 DEF Asked, Ref
  <2>2. RequestIds' \subseteq RequestIds \cup {nextId}
    BY <1>0, <1>1 DEF RequestIds
  <2>3. AskedOnce'
    BY <1>0, <1>2, <2>1 DEF Calm, AskedOnce
  <2>4. RequestsAreNoQueries'
    <3>1. \A id \in RequestIds' : id < nextId'
      BY <1>0, <1>2, <2>2 DEF Calm, RequestsAreNoQueries
    <3>2. \A query \in packetQueries : query \in Asked
      BY DEF Asked
    <3>3. \A query \in packetQueries : query.id # nextId
      BY <1>0, <1>2, <3>2 DEF Calm, AskedOnce
    <3> QED BY <1>4, <2>2, <3>1, <3>3 DEF Calm, RequestsAreNoQueries
  <2> QED BY <2>3, <2>4 DEF Calm, NoFailure
<1> QED BY <1>3, <1>4


\* The client takes every answer for what it is, and closes for none.
LEMMA ReceiveCalm ==
    ASSUME Typed, Calm, Receive, UNCHANGED workerVars
    PROVE  Calm'
<1> DEFINE event == Head(events)
<1>0. /\ events # <<>> /\ events' = Tail(events)
      /\ commands' \in {commands, <<>>} /\ nextId' = nextId
  BY DEF Receive, ReceiveProgress, ReceiveTerminal, ReceiveAnswer, ReceiveFailure, ReceiveResponse,
     Receives, Closes, clientVars
<1>1. 1 \in DOMAIN events /\ event = events[1]
  <2>1. events \in Seq(EventRecords)
    BY DEF Typed, PortTyped
  <2> QED BY <1>0, <2>1, TailShifts
<1>2. packetQueries' \subseteq packetQueries
  BY DEF Receive, ReceiveProgress, ReceiveTerminal, ReceiveAnswer, ReceiveFailure, ReceiveResponse,
     Closes, clientVars
<1>3. ~aborted'
  <2>1. CASE ReceiveProgress \/ ReceiveTerminal
    BY <2>1 DEF ReceiveProgress, ReceiveTerminal, clientVars, Calm
  <2>2. CASE ReceiveAnswer
    <3>1. event.type \in {"answer", "query_error"}
      BY <2>2 DEF ReceiveAnswer, Receives
    <3>2. Ref(event) \in Asked
      BY <1>1, <3>1 DEF Asked
    <3>3. \A query \in packetQueries : query.id = event.id => query.generation = event.generation
      <4>1. packetQueries \subseteq Asked /\ Ref(event).id = event.id
            /\ Ref(event).generation = event.generation
        BY DEF Asked, Ref
      <4> QED BY <3>2, <4>1 DEF Calm, AskedOnce
    <3> QED BY <2>2, <3>3 DEF ReceiveAnswer, Calm
  <2>3. CASE ReceiveFailure
    BY <1>1, <2>3 DEF ReceiveFailure, Receives, Calm, NoFailure
  <2>4. CASE ReceiveResponse
    <3>1. event.type = "command_error" => \A query \in packetQueries : query.id # event.id
      BY <1>1 DEF RequestIds, Calm, RequestsAreNoQueries
    <3> QED BY <2>4, <3>1 DEF ReceiveResponse, Closes, Calm
  <2> QED BY <2>1, <2>2, <2>3, <2>4 DEF Receive
<1>4. \A n \in DOMAIN commands' : commands'[n].type \in RequestTypes \cup {"query"} =>
          \E m \in DOMAIN commands : commands'[n] = commands[m]
  BY <1>0
<1> QED BY <1>0, <1>2, <1>3, <1>4, ClientKeeps

\* The client gives every request and every query an id of its own.
LEMMA ClientNextCalm ==
    ASSUME Typed, Calm, ClientNext, UNCHANGED workerVars
    PROVE  Calm'
<1>0. PortTyped /\ ~aborted
  BY DEF Typed, Calm
<1>1. CASE ImportCapture \/ (\E query \in packetQueries : AbortQuery(query)) \/ Shutdown
           \/ Terminate \/ Deadline
  <2>0. ~aborted'
    <3>1. CASE Terminate \/ Deadline
      <4>1. aborted' = (aborted \/ (FALSE /\ ~closed))
        BY <3>1, Zenon DEF Terminate, Deadline, Closes
      <4> QED BY <1>0, <4>1, Zenon
    <3>2. CASE aborted' = aborted
      BY <1>0, <3>2
    <3> QED BY <1>1, <3>1, <3>2 DEF ImportCapture, AbortQuery, Shutdown
  <2>1. /\ ~aborted' /\ nextId' = nextId /\ events' = events /\ commands' \in {commands, <<>>}
        /\ packetQueries' \subseteq packetQueries
    BY <1>1, <2>0 DEF ImportCapture, AbortQuery, Shutdown, Terminate, Deadline, Closes, portVars
  <2>2. \A n \in DOMAIN commands' : commands'[n].type \in RequestTypes \cup {"query"} =>
            \E m \in DOMAIN commands : commands'[n] = commands[m]
    BY <2>1
  <2> QED BY <2>1, <2>2, ClientKeeps
<1>2. CASE CancelImport
  <2>1. \A n \in DOMAIN commands' : \/ n \in DOMAIN commands /\ commands'[n] = commands[n]
                                    \/ commands'[n] = Command("cancel_import", activeJobId)
    <3>1. activeJobId \in Ids
      BY <1>2 DEF CancelImport, Typed, ClientTyped, ClientTypeOK, Ids
    <3>2. Command("cancel_import", activeJobId) \in CommandRecords
      BY <3>1, BoundsAssumption DEF Command, CommandRecords, CommandTypes
    <3> QED BY <1>0, <1>2, <3>2 DEF CancelImport, PortTyped, Sent
  <2>2. \A n \in DOMAIN commands' : commands'[n].type \in RequestTypes \cup {"query"} =>
            \E m \in DOMAIN commands : commands'[n] = commands[m]
    BY <2>1 DEF Command, RequestTypes
  <2> QED BY <1>0, <1>2, <2>2, ClientKeeps DEF CancelImport, clientVars
<1>3. CASE DisposeDataset \/ ResourceStats \/ RequestShutdown
  <2>1. PICK type \in RequestTypes : Request(type)
    BY <1>3 DEF DisposeDataset, ResourceStats, RequestShutdown, RequestTypes
  <2>2. nextId \in Ids
    <3>1. HasId => nextId \in Ids
      BY HasIdTyped DEF Typed
    <3>2. CASE RequestShutdown
      <4>1. Waiting >= 1 /\ nextId + Waiting <= MaxId + 1 /\ nextId \in 1..MaxId + 1
        BY <3>2 DEF RequestShutdown, Waiting, Typed, ClientTyped, ClientTypeOK
      <4> QED BY <4>1, BoundsAssumption DEF Ids, Waiting
    <3> QED BY <1>3, <3>1, <3>2 DEF DisposeDataset, ResourceStats
  <2>3. /\ Command(type, nextId) \in CommandRecords
        /\ Command(type, nextId).id = nextId /\ Command(type, nextId).type = type
        /\ type # "query"
    BY <2>2, BoundsAssumption DEF Command, CommandRecords, CommandTypes, RequestTypes
  <2>4. packetQueries' \subseteq packetQueries
    BY <1>3 DEF DisposeDataset, ResourceStats, RequestShutdown
  <2>5. /\ commands' = Sent(Command(type, nextId)) /\ nextId' = nextId + 1
        /\ events' = events /\ ~aborted'
    BY <1>0, <2>1 DEF Request
  <2> QED BY <2>3, <2>4, <2>5, ClientAsks
<1>4. ASSUME NEW summary \in summaries, ReadPacket(summary.generation)
      PROVE  Calm'
  <2> DEFINE command == Query(nextId, summary.generation)
  <2>1. nextId \in Ids
    BY <1>4, HasIdTyped DEF Typed, ReadPacket
  <2>2. summary.generation \in 0..MaxGenerations
    BY BoundsAssumption DEF Typed, ClientTyped, ClientTypeOK, Generations
  <2>3. command \in CommandRecords /\ command.id = nextId /\ command.type = "query"
        /\ Ref(command) = [id |-> nextId, generation |-> summary.generation]
    BY <2>1, <2>2 DEF Query, CommandRecords, CommandTypes, Ref
  <2>4. /\ commands' = Sent(command) /\ nextId' = nextId + 1 /\ events' = events /\ ~aborted'
        /\ packetQueries' = packetQueries \cup {Ref(command)}
    BY <1>0, <1>4, <2>3 DEF ReadPacket
  <2> HIDE DEF command
  <2> QED BY <2>3, <2>4, ClientAsks
<1>5. CASE StartImport
  <2>1. CASE ready # "ready"
    <3>1. /\ ~aborted' /\ nextId' = nextId /\ events' = events /\ commands' = commands
          /\ packetQueries' = packetQueries
      BY <1>0, <1>5, <2>1 DEF StartImport
    <3> QED BY <3>1, ClientKeeps
  <2>2. CASE ready = "ready"
    <3>1. nextId \in Ids
      <4>1. Waiting >= 1 /\ nextId + Waiting <= MaxId + 1 /\ nextId \in 1..MaxId + 1
        BY <1>5 DEF StartImport, Waiting, Typed, ClientTyped, ClientTypeOK
      <4> QED BY <4>1, BoundsAssumption DEF Ids, Waiting
    <3>2. Command("start_import", nextId) \in CommandRecords
      BY <3>1, BoundsAssumption DEF Command, CommandRecords, CommandTypes
    <3>3. /\ commands' = Sent(Command("start_import", nextId)) /\ nextId' = nextId + 1
          /\ events' = events /\ ~aborted' /\ packetQueries' = packetQueries
      BY <1>0, <1>5, <2>2 DEF StartImport
    <3>4. \A n \in DOMAIN commands' : \/ n \in DOMAIN commands /\ commands'[n] = commands[n]
                                      \/ commands'[n] = Command("start_import", nextId)
      BY <1>0, <3>2, <3>3 DEF PortTyped, Sent
    <3>5. \A n \in DOMAIN commands' : commands'[n].type \in RequestTypes \cup {"query"} =>
              \E m \in DOMAIN commands : commands'[n] = commands[m]
      BY <3>4 DEF Command, RequestTypes
    <3> QED BY <3>3, <3>5, ClientKeeps
  <2> QED BY <2>1, <2>2
<1> QED BY <1>1, <1>2, <1>3, <1>4, <1>5, ReceiveCalm DEF ClientNext, Call

\* No step closes the client for a failure.
LEMMA NextCalm ==
    ASSUME Typed, Calm, NothingForgotten, Faults \cap {"read", "crash"} = {}, [Next]_vars
    PROVE  Calm'
<1>1. CASE UNCHANGED vars
  BY <1>1 DEF vars, portVars, workerVars, clientVars, Calm, AskedOnce, RequestsAreNoQueries,
     NoFailure, Asked, RequestIds, Ref
<1> QED BY <1>1, WorkerNextCalm, ClientNextCalm DEF Next

\* As long as the worker does not crash, no packet read fails and no disposal of
\* a dataset fails, the client never closes for a failure.
THEOREM NoAbortIsSpurious ==
    ASSUME Faults \cap {"read", "crash", "release"} = {}
    PROVE  Spec => []NoSpuriousAbort
<1>1. "release" \notin Faults /\ Faults \cap {"read", "crash"} = {}
  OBVIOUS
<1>2. Spec => []NothingForgotten
  BY <1>1, NothingIsForgotten
<1>3. Typed /\ Calm /\ NothingForgotten /\ [Next]_vars => Calm'
  BY <1>1, NextCalm
<1>4. Calm => NoSpuriousAbort
  BY DEF Calm, NoSpuriousAbort
<1> QED BY <1>2, <1>3, <1>4, InitCalm, TypedInvariant, PTL DEF Spec
=============================================================================
