------------------------ MODULE PlanningRequestsProofs ------------------------
(***************************************************************************)
(* Proofs about PlanningRequests: nobody waits for a closed worker, the    *)
(* plan shown was computed with the stored signals, and the signals of an  *)
(* older workspace never replace newer ones.                               *)
(***************************************************************************)
EXTENDS PlanningRequests, SequenceTheorems, TLAPS

Ids == Nat \X Nat \X Nat

Refresh == [generation : Nat, data : Nat, chunk : 1 .. Chunks, step : {"ask", "wait", "stored"}]

Task == [id : Ids, step : {"prepare", "post", "wait"}, left : Int, read : SUBSET Nat]

Asking == [id : Ids, read : SUBSET Nat]

Types ==
    /\ data \in 1 .. MaxEdits + 1 /\ generation = data /\ signals \in 0 .. data
    /\ revision \in Nat /\ retries \in Nat /\ commands \in Nat /\ faults \in Nat
    /\ extension \in {"off", "ready", "closed"}
    /\ pending \subseteq Requests /\ asked \subseteq Requests
    /\ refreshes \subseteq Refresh
    /\ task # None => task \in Task
    /\ queue \in Seq(Asking)
    /\ backgroundPlan # None => backgroundPlan \in [key : Nat \X Nat, read : SUBSET Nat]

\* Each generation has one refresh, of the workspace of that generation; what
\* waits has its request pending. Without a worker nothing is asked or stored.
Refreshed ==
    /\ \A r \in refreshes : r.data = r.generation /\ r.generation \in 1 .. generation
    /\ \A r, s \in refreshes : r.generation = s.generation => r = s
    /\ \A r \in refreshes : r.step = "wait" => Request(r) \in pending
    /\ extension # "ready" => pending = {}
    /\ extension = "off" => signals = 0 /\ \A r \in refreshes : r.step = "stored"

\* Signals are stored that the interface has not been told of.
Announcing == \E r \in refreshes : r.step = "stored" /\ r.data = data

\* What was read is what is stored, or there is an announcement to come, after
\* which it is read again.
Current(read) == read \subseteq {signals} \/ Announcing

\* The inputs d, r and the retry t are not later than the present ones.
Past(d, r) == d <= data /\ (d = data => r <= revision)

Planned ==
    /\ task # None =>
          /\ task.id = <<data, revision, retries>> /\ Current(task.read)
          /\ task.step # "prepare" => task.read # {}
    /\ \A n \in 1 .. Len(queue) :
          /\ Past(queue[n].id[1], queue[n].id[2])
          /\ queue[n].id[1] = data /\ queue[n].id[2] = revision => queue[n].read # {} /\ Current(queue[n].read)
    /\ backgroundPlan # None =>
          /\ Past(backgroundPlan.key[1], backgroundPlan.key[2])
          /\ backgroundPlan.key = Key => backgroundPlan.read # {} /\ Current(backgroundPlan.read)

PlanningOrder == Types /\ Refreshed /\ Planned

-----------------------------------------------------------------------------
(* What keeps the plan in order. *)

\* A step that leaves the planner and its inputs alone, announces what it stores
\* and ends no announcement.
LEMMA Undisturbed ==
    ASSUME PlanningOrder, UNCHANGED <<data, revision, retries, task, queue, backgroundPlan>>,
           signals' = signals \/ Announcing', Announcing => Announcing'
    PROVE  Planned'
<1>1. \A read : Current(read) => Current(read)'
  BY DEF Current
<1>2. Key' = Key
  BY DEF Key
<1>3. \A d, r : Past(d, r) => Past(d, r)'
  BY DEF Past
<1> QED
  BY <1>1, <1>2, <1>3 DEF PlanningOrder, Planned

\* After a render with later inputs nothing that was planned before is shown.
LEMMA Rendering ==
    ASSUME PlanningOrder, NEW d \in Nat, NEW r \in Nat, Renders(d, r),
           (d > data /\ r = revision) \/ (d = data /\ r > revision),
           UNCHANGED <<queue, backgroundPlan, retries>>
    PROVE  Planned' /\ (task' # None => task' \in Task)
<1>1. /\ data' = d /\ revision' = r /\ data \in Nat /\ revision \in Nat /\ retries \in Nat
      /\ task' = [id |-> <<d, r, retries>>, step |-> "prepare", left |-> Batches, read |-> {}]
  BY DEF PlanningOrder, Types, Renders
<1>2. /\ task'.id = <<data', revision', retries'>> /\ task'.read = {} /\ task'.step = "prepare"
  BY <1>1
<1>3. Current({})'
  BY DEF Current
<1>4. ASSUME NEW n \in 1 .. Len(queue)
      PROVE  /\ Past(queue[n].id[1], queue[n].id[2])'
             /\ ~(queue[n].id[1] = data' /\ queue[n].id[2] = revision')
  <2>1. Past(queue[n].id[1], queue[n].id[2]) /\ queue[n].id[1] \in Nat /\ queue[n].id[2] \in Nat
    <3>1. queue[n] \in Asking
      BY DEF PlanningOrder, Types
    <3> QED
      BY <3>1 DEF PlanningOrder, Planned, Asking, Ids
  <2> QED
    BY <1>1, <2>1 DEF Past
<1>5. ASSUME backgroundPlan # None
      PROVE  Past(backgroundPlan.key[1], backgroundPlan.key[2])' /\ backgroundPlan.key # Key'
  <2>1. Past(backgroundPlan.key[1], backgroundPlan.key[2])
    BY <1>5 DEF PlanningOrder, Planned
  <2>2. backgroundPlan.key[1] \in Nat /\ backgroundPlan.key[2] \in Nat
    BY <1>5 DEF PlanningOrder, Types
  <2>3. backgroundPlan.key = Key' => backgroundPlan.key[1] = d /\ backgroundPlan.key[2] = r
    BY <1>1 DEF Key
  <2> QED
    BY <1>1, <2>1, <2>2, <2>3 DEF Past
<1>6. Planned'
  BY <1>2, <1>3, <1>4, <1>5 DEF Planned
<1>7. task' \in Task
  BY <1>1, ChunksAssumption DEF Task, Ids
<1> QED
  BY <1>6, <1>7

-----------------------------------------------------------------------------
(* The extension and its signals. *)

\* A crashed planner worker forgets its request and leaves the order of the snapshots alone.
LEMMA WorkerFailsKeeps ==
    ASSUME PlanningOrder, WorkerFails, retries' = retries, commands' \in Nat, faults' \in Nat
    PROVE  PlanningOrder'
<1>1. Types'
  BY DEF WorkerFails, PlanningOrder, Types, planner, inputs
<1>2. Refreshed'
  BY DEF WorkerFails, PlanningOrder, Refreshed, planner, inputs
<1>3. Announcing => Announcing'
  BY DEF Announcing, WorkerFails, inputs
<1>4. Planned'
  BY <1>3, Undisturbed DEF WorkerFails, planner, inputs
<1> QED
  BY <1>1, <1>2, <1>4 DEF PlanningOrder

\* A request is withdrawn with the refresh that waits for it, if any.
LEMMA Withdrawing ==
    ASSUME PlanningOrder, NEW q \in pending, pending' = pending \ {q}, asked' \subseteq asked,
           refreshes' = refreshes \ Waiting(q), extension # "off" => commands' \in Nat /\ faults' \in Nat,
           commands' \in Nat, faults' \in Nat,
           UNCHANGED <<extension, announced, generation, signals, planner, inputs, retries>>
    PROVE  PlanningOrder'
<1>1. Types'
  BY DEF PlanningOrder, Types, planner, inputs
<1>2. Refreshed'
  BY DEF PlanningOrder, Refreshed, planner, inputs, Waiting
<1>3. Announcing => Announcing'
  BY DEF Announcing, Waiting, inputs
<1>4. Planned'
  BY <1>3, Undisturbed DEF planner, inputs
<1> QED
  BY <1>1, <1>2, <1>4 DEF PlanningOrder

\* Asking for a plan records a request that is newer than every earlier one.
LEMMA AskKeeps ==
    ASSUME PlanningOrder, NEW r \in refreshes, Ask(r)
    PROVE  PlanningOrder'
<1>1. /\ r.step = "ask" /\ r \in Refresh /\ r.generation \in 1 .. generation /\ r.data = r.generation
      /\ UNCHANGED <<extension, announced, generation, signals, planner, inputs, bounds>>
  BY DEF Ask, PlanningOrder, Types, Refreshed
<1>2. CASE refreshes' = refreshes \ {r} /\ UNCHANGED <<pending, asked>>
  <2>1. Types' /\ Refreshed'
    BY <1>1, <1>2 DEF PlanningOrder, Types, Refreshed, planner, inputs, bounds
  <2>2. Announcing => Announcing'
    BY <1>1, <1>2 DEF Announcing, inputs
  <2> QED
    BY <1>1, <2>1, <2>2, Undisturbed DEF planner, inputs, bounds, PlanningOrder
<1>3. CASE /\ extension = "ready" /\ pending' = pending \cup {Request(r)} /\ asked' = asked \cup {Request(r)}
           /\ refreshes' = (refreshes \ {r}) \cup {[r EXCEPT !.step = "wait"]}
  <2>1. PICK s : s = [r EXCEPT !.step = "wait"]
    OBVIOUS
  <2>2. s \in Refresh /\ s.generation = r.generation /\ s.data = r.data /\ s.chunk = r.chunk /\ s.step = "wait"
    BY <1>1, <2>1 DEF Refresh
  <2>3. Request(s) = Request(r) /\ Request(r) \in Requests
    <3>1. r.generation \in 0 .. MaxEdits + 1 /\ r.chunk \in 0 .. Chunks + MaxEvents
      BY <1>1, ChunksAssumption, BoundsAssumption DEF PlanningOrder, Types, Refresh
    <3> QED
      BY <2>2, <3>1 DEF Request, Requests
  <2>4. refreshes' = (refreshes \ {r}) \cup {s}
    BY <1>3, <2>1
  <2>5. Types'
    BY <1>1, <1>3, <2>2, <2>3, <2>4 DEF PlanningOrder, Types, planner, inputs, bounds
  <2>6. Refreshed'
    BY <1>1, <1>3, <2>2, <2>3, <2>4 DEF PlanningOrder, Refreshed
  <2>7. Announcing => Announcing'
    BY <1>1, <2>4 DEF Announcing, inputs
  <2> QED
    BY <1>1, <2>5, <2>6, <2>7, Undisturbed DEF planner, inputs, bounds, PlanningOrder
<1> QED
  BY <1>2, <1>3 DEF Ask

\* A command to the worker is posted in the order it was asked.
LEMMA CommandKeeps ==
    ASSUME PlanningOrder, Command
    PROVE  PlanningOrder'
<1>1. <<0, commands>> \in Requests
  BY ChunksAssumption, BoundsAssumption DEF Requests, Command, MoreEvents, PlanningOrder, Types
<1>2. Types' /\ Refreshed'
  BY <1>1 DEF PlanningOrder, Types, Refreshed, Command, planner, inputs, refreshing
<1>3. Announcing => Announcing'
  BY DEF Announcing, Command, inputs, refreshing
<1>4. Planned'
  BY <1>3, Undisturbed DEF Command, planner, inputs, refreshing
<1> QED
  BY <1>2, <1>4 DEF PlanningOrder

\* Taking an answer of the planner keeps the plan no newer than its snapshot.
LEMMA AnswerKeeps ==
    ASSUME PlanningOrder, NEW q, Answer(q)
    PROVE  PlanningOrder'
<1>1. /\ q \in pending /\ pending' = pending \ {q} /\ asked' = asked \ {q}
      /\ UNCHANGED <<extension, announced, generation, planner, inputs, bounds>>
  BY DEF Answer
<1>2. CASE Waiting(q) = {} /\ UNCHANGED <<refreshes, signals>>
  <2>1. refreshes' = refreshes \ Waiting(q)
    BY <1>2
  <2>2. commands' \in Nat /\ faults' \in Nat /\ asked' \subseteq asked
    BY <1>1 DEF PlanningOrder, Types, bounds
  <2> QED
    BY <1>1, <1>2, <2>1, <2>2, Withdrawing DEF bounds
<1>3. ASSUME NEW r \in Waiting(q),
             refreshes' = (refreshes \ {r}) \cup
                        {[r EXCEPT !.chunk = IF r.chunk < Chunks THEN @ + 1 ELSE @,
                                   !.step = IF r.chunk < Chunks THEN "ask" ELSE "stored"]},
             signals' = IF r.chunk < Chunks THEN signals ELSE Stored(r, generation)
      PROVE  PlanningOrder'
  <2>1. /\ r \in refreshes /\ r \in Refresh /\ r.step = "wait" /\ Request(r) = q
        /\ r.data = r.generation /\ r.generation \in 1 .. generation /\ extension = "ready"
    BY <1>1 DEF Waiting, PlanningOrder, Types, Refreshed
  <2>2. PICK chunk : chunk = IF r.chunk < Chunks THEN r.chunk + 1 ELSE r.chunk
    OBVIOUS
  <2>3. PICK step : step = IF r.chunk < Chunks THEN "ask" ELSE "stored"
    OBVIOUS
  <2>4. PICK s : s = [r EXCEPT !.chunk = chunk, !.step = step]
    OBVIOUS
  <2>5. chunk \in 1 .. Chunks /\ step \in {"ask", "stored"}
    BY <2>1, <2>2, <2>3, ChunksAssumption DEF Refresh
  <2>6. s \in Refresh /\ s.generation = r.generation /\ s.data = r.data /\ s.step = step
    BY <2>1, <2>4, <2>5 DEF Refresh
  <2>7. refreshes' = (refreshes \ {r}) \cup {s}
    BY <1>3, <2>2, <2>3, <2>4
  <2>8. signals' = signals \/ (signals' = data /\ s.step = "stored" /\ s.data = data /\ signals' \in Nat)
    BY <1>3, <2>1, <2>3, <2>6 DEF Stored, PlanningOrder, Types
  <2>9. Types'
    BY <1>1, <2>6, <2>7, <2>8 DEF PlanningOrder, Types, planner, inputs, bounds
  <2>10. \A t \in refreshes : t.step = "wait" /\ t # r => Request(t) # q
    <3>1. ASSUME NEW t \in refreshes, Request(t) = q PROVE t.generation = r.generation
      BY <2>1, <3>1 DEF Request
    <3> QED
      BY <2>1, <3>1 DEF PlanningOrder, Refreshed
  <2>11. Refreshed'
    BY <1>1, <2>1, <2>5, <2>6, <2>7, <2>10 DEF PlanningOrder, Refreshed
  <2>12. (Announcing => Announcing') /\ (signals' = signals \/ Announcing')
    BY <1>1, <2>1, <2>7, <2>8 DEF Announcing, inputs
  <2> QED
    BY <1>1, <2>9, <2>11, <2>12, Undisturbed DEF planner, inputs, bounds, PlanningOrder
<1> QED
  BY <1>2, <1>3 DEF Answer

\* A signal refresh that ends installs a counter no request has overtaken.
LEMMA RefreshEndsKeeps ==
    ASSUME PlanningOrder, NEW r \in refreshes, RefreshEnds(r)
    PROVE  PlanningOrder'
<1>1. /\ r.step = "stored" /\ refreshes' = refreshes \ {r}
      /\ UNCHANGED <<runtime, generation, signals, planner, bounds>>
      /\ data \in Nat /\ revision \in Nat
  BY DEF RefreshEnds, PlanningOrder, Types
<1>2. Refreshed'
  BY <1>1 DEF PlanningOrder, Refreshed, runtime
<1>3. CASE r.data = data
  <2>1. Renders(data, revision + 1)
    BY <1>3 DEF RefreshEnds, Announces
  <2>2. Planned' /\ (task' # None => task' \in Task)
    BY <1>1, <2>1, Rendering DEF planner, bounds
  <2>3. Types'
    BY <1>1, <2>1, <2>2 DEF PlanningOrder, Types, Renders, runtime, planner, bounds
  <2> QED
    BY <1>2, <2>2, <2>3 DEF PlanningOrder
<1>4. CASE r.data # data
  <2>1. UNCHANGED inputs
    BY <1>4 DEF RefreshEnds, Announces
  <2>2. Announcing => Announcing'
    BY <1>1, <1>4, <2>1 DEF Announcing, inputs
  <2>3. Planned'
    BY <1>1, <2>1, <2>2, Undisturbed DEF inputs, planner, bounds
  <2>4. Types'
    BY <1>1, <2>1 DEF PlanningOrder, Types, runtime, planner, bounds, inputs
  <2> QED
    BY <1>2, <2>3, <2>4 DEF PlanningOrder
<1> QED
  BY <1>3, <1>4

\* An edit makes a snapshot newer than every plan and request so far.
LEMMA EditKeeps ==
    ASSUME PlanningOrder, Edit
    PROVE  PlanningOrder'
<1>1. /\ data <= MaxEdits /\ Renders(data + 1, revision) /\ data \in Nat /\ revision \in Nat /\ generation = data
      /\ generation' = generation + 1 /\ refreshes' = refreshes \cup {Begun(generation + 1, data + 1)}
      /\ signals' = (IF extension = "off" THEN 0 ELSE signals)
      /\ UNCHANGED <<runtime, planner, bounds>>
  BY DEF Edit, PlanningOrder, Types
<1>2. PICK s : s = Begun(generation + 1, data + 1)
  OBVIOUS
<1>3. /\ s \in Refresh /\ s.generation = data + 1 /\ s.data = data + 1
      /\ s.step = (IF extension = "off" THEN "stored" ELSE "ask")
  BY <1>1, <1>2, ChunksAssumption DEF Begun, Refresh
<1>4. Planned' /\ (task' # None => task' \in Task)
  BY <1>1, Rendering DEF planner, bounds
<1>5. Types'
  BY <1>1, <1>2, <1>3, <1>4, BoundsAssumption DEF PlanningOrder, Types, Renders, runtime, planner, bounds
<1>6. Refreshed'
  BY <1>1, <1>2, <1>3 DEF PlanningOrder, Refreshed, Types, runtime
<1> QED
  BY <1>4, <1>5, <1>6 DEF PlanningOrder

\* A worker that starts has no request of its own.
LEMMA WorkerStartsKeeps ==
    ASSUME PlanningOrder, WorkerStarts
    PROVE  PlanningOrder'
<1>1. Types' /\ Refreshed'
  BY DEF WorkerStarts, PlanningOrder, Types, Refreshed, refreshing, planner, inputs, bounds
<1>2. Announcing => Announcing'
  BY DEF WorkerStarts, Announcing, refreshing, inputs
<1>3. Planned'
  BY <1>2, Undisturbed DEF WorkerStarts, refreshing, planner, inputs, bounds
<1> QED
  BY <1>1, <1>3 DEF PlanningOrder

\* The extensions becoming ready starts the first signal refresh.
LEMMA ExtensionsReadyKeeps ==
    ASSUME PlanningOrder, ExtensionsReady
    PROVE  PlanningOrder'
<1>1. /\ Renders(data, revision + 1) /\ data \in Nat /\ revision \in Nat
      /\ UNCHANGED <<extension, pending, asked, refreshing, planner, bounds>>
  BY DEF ExtensionsReady, PlanningOrder, Types
<1>2. Planned' /\ (task' # None => task' \in Task)
  BY <1>1, Rendering DEF planner, bounds
<1>3. Types' /\ Refreshed'
  BY <1>1, <1>2 DEF PlanningOrder, Types, Refreshed, Renders, refreshing, planner, bounds
<1> QED
  BY <1>2, <1>3 DEF PlanningOrder

-----------------------------------------------------------------------------
(* The planner. *)

\* A step of the planner leaves the signals and the inputs alone.
Planner == UNCHANGED <<extension, pending, asked, generation, signals, refreshes, data, revision>>

\* A step of the planner is one of the four of its handlers.
LEMMA PlannerSteps ==
    ASSUME PlanningOrder, Planner
    PROVE  /\ Refreshed'
           /\ \A read : Current(read)' <=> Current(read)
           /\ \A d, r : Past(d, r)' <=> Past(d, r)
           /\ Key' = Key
<1>1. Refreshed'
  BY DEF Planner, PlanningOrder, Refreshed
<1>2. \A read : Current(read)' <=> Current(read)
  BY DEF Planner, Current, Announcing
<1> QED
  BY <1>1, <1>2 DEF Planner, Past, Key

\* Preparing a request reads the snapshot as it is now.
LEMMA PrepareKeeps ==
    ASSUME PlanningOrder, Prepare
    PROVE  PlanningOrder'
<1>1. /\ task # None /\ Planner /\ task \in Task /\ signals \in Nat
      /\ UNCHANGED <<queue, backgroundPlan, retries, commands, faults>>
  BY DEF Prepare, PlanningOrder, Types, Planner, runtime, refreshing, planner, bounds
<1>2. PICK read : read = task.read \cup {signals}
  OBVIOUS
<1>3. PICK left : left = task.left - 1
  OBVIOUS
<1>4. PICK step : step = IF task.left = 1 THEN "post" ELSE "prepare"
  OBVIOUS
<1>5. task' = [task EXCEPT !.read = read, !.left = left, !.step = step]
  BY <1>2, <1>3, <1>4 DEF Prepare
<1>6. read \in SUBSET Nat /\ left \in Int /\ step \in {"prepare", "post"}
  BY <1>1, <1>2, <1>3, <1>4 DEF Task
<1>7. task' \in Task /\ task'.id = task.id /\ task'.read = read
  BY <1>1, <1>5, <1>6 DEF Task
<1>8. task.id = <<data, revision, retries>> /\ Current(task.read)
  BY <1>1 DEF PlanningOrder, Planned
<1>9. read # {} /\ Current(read)
  BY <1>2, <1>8 DEF Current
<1>10. Types'
  BY <1>1, <1>7 DEF PlanningOrder, Types, Planner
<1>11. Planned'
  BY <1>1, <1>7, <1>8, <1>9, PlannerSteps DEF PlanningOrder, Planned, Planner
<1> QED
  BY <1>1, <1>10, <1>11, PlannerSteps DEF PlanningOrder

\* A posted request carries the newest sequence number.
LEMMA PostKeeps ==
    ASSUME PlanningOrder, Post
    PROVE  PlanningOrder'
<1>1. /\ task # None /\ task.step = "post" /\ Planner /\ task \in Task /\ queue \in Seq(Asking)
      /\ UNCHANGED <<backgroundPlan, retries, commands, faults>>
  BY DEF Post, PlanningOrder, Types, Planner, runtime, refreshing, bounds
<1>2. PICK request : request = [id |-> task.id, read |-> task.read]
  OBVIOUS
<1>3. request \in Asking /\ request.id = task.id /\ request.read = task.read
  BY <1>1, <1>2 DEF Asking, Task
<1>4. queue' = Append(queue, request) /\ task' = [task EXCEPT !.step = "wait"]
  BY <1>2 DEF Post
<1>5. /\ queue' \in Seq(Asking) /\ Len(queue') = Len(queue) + 1
      /\ \A n \in 1 .. Len(queue) : queue'[n] = queue[n]
      /\ queue'[Len(queue) + 1] = request
  BY <1>1, <1>3, <1>4
<1>6. task' \in Task /\ task'.id = task.id /\ task'.read = task.read
  BY <1>1, <1>4 DEF Task
<1>7. task.id = <<data, revision, retries>> /\ Current(task.read) /\ task.read # {}
  BY <1>1 DEF PlanningOrder, Planned
<1>8. Types'
  BY <1>1, <1>5, <1>6 DEF PlanningOrder, Types, Planner
<1>9. ASSUME NEW n \in 1 .. Len(queue')
      PROVE  /\ Past(queue'[n].id[1], queue'[n].id[2])
             /\ queue'[n].id[1] = data /\ queue'[n].id[2] = revision => queue'[n].read # {} /\ Current(queue'[n].read)
  <2>1. CASE n \in 1 .. Len(queue)
    BY <1>5, <2>1 DEF PlanningOrder, Planned
  <2>2. CASE n = Len(queue) + 1
    BY <1>3, <1>5, <1>7, <2>2 DEF Past, PlanningOrder, Types
  <2> QED
    BY <1>1, <1>5, <2>1, <2>2
<1>10. Planned'
  BY <1>1, <1>6, <1>7, <1>9, PlannerSteps DEF PlanningOrder, Planned, Planner
<1> QED
  BY <1>1, <1>8, <1>10, PlannerSteps DEF PlanningOrder

\* The worker's messages are gone, or the first of them is.
LEMMA Unqueueing ==
    ASSUME PlanningOrder, Planner, (queue # <<>> /\ queue' = Tail(queue)) \/ queue' = <<>> \/ queue' = queue
    PROVE  /\ queue' \in Seq(Asking)
           /\ \A n \in 1 .. Len(queue') : \E k \in 1 .. Len(queue) : queue'[n] = queue[k]
           /\ \A n \in 1 .. Len(queue') :
                /\ Past(queue'[n].id[1], queue'[n].id[2])
                /\ queue'[n].id[1] = data /\ queue'[n].id[2] = revision
                      => queue'[n].read # {} /\ Current(queue'[n].read)
<1>1. queue \in Seq(Asking)
  BY DEF PlanningOrder, Types
<1>2. queue' \in Seq(Asking) /\ \A n \in 1 .. Len(queue') : \E k \in 1 .. Len(queue) : queue'[n] = queue[k]
  <2>1. CASE queue # <<>> /\ queue' = Tail(queue)
    <3>1. queue' \in Seq(Asking) /\ Len(queue') = Len(queue) - 1 /\ \A n \in 1 .. Len(queue') : queue'[n] = queue[n + 1]
      BY <1>1, <2>1
    <3> QED
      BY <1>1, <3>1
  <2>2. CASE queue' = <<>>
    BY <2>2
  <2> QED
    BY <1>1, <2>1, <2>2
<1>3. ASSUME NEW n \in 1 .. Len(queue')
      PROVE  /\ Past(queue'[n].id[1], queue'[n].id[2])
             /\ queue'[n].id[1] = data /\ queue'[n].id[2] = revision => queue'[n].read # {} /\ Current(queue'[n].read)
  <2>1. PICK k \in 1 .. Len(queue) : queue'[n] = queue[k]
    BY <1>2
  <2> QED
    BY <2>1 DEF PlanningOrder, Planned
<1> QED
  BY <1>2, <1>3

\* An answer of the worker carries the request it answers.
LEMMA PlannerAnswersKeeps ==
    ASSUME PlanningOrder, PlannerAnswers
    PROVE  PlanningOrder'
<1>1. /\ queue # <<>> /\ queue' = Tail(queue) /\ Planner /\ UNCHANGED <<retries, commands, faults>>
      /\ queue \in Seq(Asking)
  BY DEF PlannerAnswers, Planner, runtime, refreshing, bounds, PlanningOrder, Types
<1>2. CASE UNCHANGED <<backgroundPlan, plannerFailure, task>>
  <2>1. Types'
    BY <1>1, <1>2, Unqueueing DEF PlanningOrder, Types, Planner
  <2>2. Planned'
    BY <1>1, <1>2, PlannerSteps, Unqueueing DEF PlanningOrder, Planned, Planner
  <2> QED
    BY <1>1, <2>1, <2>2, PlannerSteps DEF PlanningOrder
<1>3. CASE /\ Awaited(Head(queue))
           /\ backgroundPlan' = [key |-> <<task.id[1], task.id[2]>>, read |-> Head(queue).read] /\ task' = None
  <2>1. Head(queue) = queue[1] /\ 1 \in 1 .. Len(queue) /\ queue[1] \in Asking
    BY <1>1
  <2>2. /\ task # None /\ task.id = Head(queue).id /\ task.id = <<data, revision, retries>>
        /\ data \in Nat /\ revision \in Nat
    BY <1>3 DEF Awaited, PlanningOrder, Planned, Types
  <2>3. task.id[1] = data /\ task.id[2] = revision
    BY <2>2
  <2>4. Head(queue).read # {} /\ Current(Head(queue).read) /\ Head(queue).read \in SUBSET Nat
    BY <2>1, <2>2, <2>3 DEF PlanningOrder, Planned, Asking
  <2>5. PICK read : read = Head(queue).read
    OBVIOUS
  <2>6. backgroundPlan' = [key |-> <<data, revision>>, read |-> read]
    BY <1>3, <2>3, <2>5
  <2>7. /\ backgroundPlan' \in [key : Nat \X Nat, read : SUBSET Nat]
        /\ backgroundPlan'.key[1] = data /\ backgroundPlan'.key[2] = revision /\ backgroundPlan'.read = read
    BY <2>2, <2>4, <2>5, <2>6
  <2>8. Types'
    BY <1>1, <1>3, <2>7, Unqueueing DEF PlanningOrder, Types, Planner
  <2>9. Past(data, revision)
    BY <2>2 DEF Past
  <2>10. Planned'
    BY <1>1, <1>3, <2>4, <2>5, <2>7, <2>9, PlannerSteps, Unqueueing DEF PlanningOrder, Planned, Planner
  <2> QED
    BY <1>1, <2>8, <2>10, PlannerSteps DEF PlanningOrder
<1> QED
  BY <1>2, <1>3 DEF PlannerAnswers

\* What is awaited has failed, or nothing awaited was lost.
LEMMA PlannerFailureKeeps ==
    ASSUME PlanningOrder, Planner, (queue # <<>> /\ queue' = Tail(queue)) \/ queue' = <<>> \/ queue' = queue,
           task' = None \/ task' = task, backgroundPlan' = backgroundPlan,
           retries' = retries, commands' \in Nat, faults' \in Nat
    PROVE  PlanningOrder'
<1>1. Types'
  BY Unqueueing DEF PlanningOrder, Types, Planner
<1>2. Planned'
  BY PlannerSteps, Unqueueing DEF PlanningOrder, Planned, Planner
<1> QED
  BY <1>1, <1>2, PlannerSteps DEF PlanningOrder

\* A retry asks again with the current snapshot.
LEMMA RetryPlanningKeeps ==
    ASSUME PlanningOrder, RetryPlanning
    PROVE  PlanningOrder'
<1>1. /\ Planner /\ UNCHANGED <<queue, backgroundPlan, commands, faults>> /\ retries' = retries + 1
      /\ task' = [id |-> <<data, revision, retries + 1>>, step |-> "prepare", left |-> Batches, read |-> {}]
      /\ data \in Nat /\ revision \in Nat /\ retries \in Nat
  BY DEF RetryPlanning, Planner, runtime, refreshing, PlanningOrder, Types
<1>2. /\ task' \in Task /\ task'.id = <<data, revision, retries + 1>> /\ task'.read = {} /\ task'.step = "prepare"
  BY <1>1, ChunksAssumption DEF Task, Ids
<1>3. Types'
  BY <1>1, <1>2 DEF PlanningOrder, Types, Planner
<1>4. Current({})
  BY DEF Current
<1>5. Planned'
  BY <1>1, <1>2, <1>4, PlannerSteps, Unqueueing DEF PlanningOrder, Planned, Planner
<1> QED
  BY <1>1, <1>3, <1>5, PlannerSteps DEF PlanningOrder

-----------------------------------------------------------------------------
(* The steps together, and the properties. *)

\* Nothing is asked or planned at the start.
LEMMA InitialPlanning ==
    ASSUME Init
    PROVE  PlanningOrder
<1>1. PICK s : s = Begun(1, 1)
  OBVIOUS
<1>2. /\ s \in Refresh /\ s.generation = 1 /\ s.data = 1
      /\ s.step = (IF extension = "off" THEN "stored" ELSE "ask")
  BY <1>1, ChunksAssumption DEF Begun, Refresh
<1>3. PICK t : t = [id |-> <<1, 0, 0>>, step |-> "prepare", left |-> Batches, read |-> {}]
  OBVIOUS
<1>4. t \in Task /\ t.id = <<1, 0, 0>> /\ t.step = "prepare" /\ t.read = {}
  BY <1>3, ChunksAssumption DEF Task, Ids
<1>5. Types
  BY <1>1, <1>2, <1>3, <1>4, BoundsAssumption DEF Init, Types
<1>6. Refreshed
  BY <1>1, <1>2 DEF Init, Refreshed
<1>7. Planned
  BY <1>3, <1>4 DEF Init, Planned, Current
<1> QED
  BY <1>5, <1>6, <1>7 DEF PlanningOrder

\* Every step keeps the order of snapshots, requests and plans.
LEMMA EveryStep ==
    ASSUME PlanningOrder, [Next]_vars
    PROVE  PlanningOrder'
<1>1. commands \in Nat /\ faults \in Nat
  BY DEF PlanningOrder, Types
<1>2. CASE Edit \/ WorkerStarts \/ ExtensionsReady \/ Command \/ Refreshing
  BY <1>2, EditKeeps, WorkerStartsKeeps, ExtensionsReadyKeeps, CommandKeeps, AskKeeps, RefreshEndsKeeps DEF Refreshing
<1>3. CASE ExtensionCrash
  BY <1>1, <1>3, WorkerFailsKeeps DEF ExtensionCrash
<1>4. ASSUME NEW q \in asked \cup pending, Answer(q) \/ ErrorAnswer(q) \/ Timeout(q) \/ LateAnswer(q)
      PROVE  PlanningOrder'
  <2>1. CASE Answer(q)
    BY <2>1, AnswerKeeps
  <2>2. CASE ErrorAnswer(q)
    BY <1>1, <2>2, Withdrawing DEF ErrorAnswer
  <2>3. CASE Timeout(q)
    BY <1>1, <2>3, Withdrawing DEF Timeout, bounds
  <2>4. CASE LateAnswer(q)
    BY <1>1, <2>4, WorkerFailsKeeps DEF LateAnswer, bounds
  <2> QED
    BY <1>4, <2>1, <2>2, <2>3, <2>4
<1>5. CASE Planning \/ PlannerAnswers \/ RetryPlanning
  BY <1>5, PrepareKeeps, PostKeeps, PlannerAnswersKeeps, RetryPlanningKeeps DEF Planning
<1>6. CASE PlannerRefuses \/ PlannerTimesOut \/ PlannerCrashes
  <2>1. Planner /\ backgroundPlan' = backgroundPlan /\ retries' = retries /\ commands' \in Nat /\ faults' \in Nat
    BY <1>1, <1>6 DEF PlannerRefuses, PlannerTimesOut, PlannerCrashes, Planner, runtime, refreshing, bounds
  <2>2. /\ (queue # <<>> /\ queue' = Tail(queue)) \/ queue' = <<>> \/ queue' = queue
        /\ task' = None \/ task' = task
    BY <1>6 DEF PlannerRefuses, PlannerTimesOut, PlannerCrashes, PlanningFails
  <2> QED
    BY <2>1, <2>2, PlannerFailureKeeps
<1>7. CASE UNCHANGED vars
  <2>1. Planner /\ backgroundPlan' = backgroundPlan /\ retries' = retries /\ commands' \in Nat /\ faults' \in Nat
    BY <1>1, <1>7 DEF vars, Planner, runtime, refreshing, planner, inputs, bounds
  <2>2. queue' = queue /\ task' = task
    BY <1>7 DEF vars, planner, inputs
  <2> QED
    BY <2>1, <2>2, PlannerFailureKeeps
<1> QED
  BY <1>2, <1>3, <1>4, <1>5, <1>6, <1>7 DEF Next

\* The inductive invariant: signals, requests and plans are in order.
THEOREM PlanningIsOrdered == Spec => []PlanningOrder
<1>1. Init => PlanningOrder
  BY InitialPlanning
<1>2. PlanningOrder /\ [Next]_vars => PlanningOrder'
  BY EveryStep
<1> QED
  BY <1>1, <1>2, PTL DEF Spec

\* The plan shown was computed with the signals that are stored, and nobody
\* waits for a worker that is gone.
THEOREM PlansAreCurrent == Spec => []PlanningInv
<1>1. PlanningOrder => PlanningTypeOK
  BY DEF PlanningOrder, Types, Refreshed, Planned, PlanningTypeOK
<1>2. ASSUME PlanningOrder, Shown
      PROVE  backgroundPlan.read = {signals} \/ \E r \in refreshes : r.step = "stored" /\ r.data = data
  <2>1. backgroundPlan.read # {} /\ Current(backgroundPlan.read)
    BY <1>2 DEF Shown, PlanningOrder, Planned
  <2> QED
    BY <2>1 DEF Current, Announcing
<1>3. PlanningOrder => PlanningInv
  BY <1>1, <1>2 DEF PlanningInv, PlanUsesCurrentSignals
<1> QED
  BY <1>3, PlanningIsOrdered, PTL

\* The signals of an older workspace never replace those of a newer one.
THEOREM SignalsAdvance == Spec => SignalsNeverOlder
<1>1. ASSUME PlanningOrder, [Next]_vars PROVE signals' >= signals
  <2>1. signals \in 0 .. data /\ data \in Nat
    BY <1>1 DEF PlanningOrder, Types
  <2>2. CASE Edit
    <3>1. signals' = (IF extension = "off" THEN 0 ELSE signals) /\ (extension = "off" => signals = 0)
      BY <1>1, <2>2 DEF Edit, PlanningOrder, Refreshed
    <3> QED
      BY <2>1, <3>1
  <2>3. ASSUME NEW q, Answer(q) PROVE signals' >= signals
    <3>1. CASE signals' = signals
      BY <2>1, <3>1
    <3>2. CASE signals' # signals
      <4>1. PICK r \in refreshes : signals' = Stored(r, generation)
        BY <2>3, <3>2 DEF Answer, Waiting
      <4>2. signals' = r.data /\ r.generation = generation
        BY <3>2, <4>1 DEF Stored
      <4>3. r.data = data
        BY <1>1, <4>2 DEF PlanningOrder, Types, Refreshed
      <4> QED
        BY <2>1, <4>2, <4>3
    <3> QED
      BY <3>1, <3>2
  <2>4. CASE signals' = signals
    BY <2>1, <2>4
  <2>5. ~Edit /\ ~(\E q : Answer(q)) => signals' = signals
    BY <1>1 DEF Next, vars, WorkerStarts, ExtensionsReady, Command, ExtensionCrash, WorkerFails, Refreshing, Ask,
        RefreshEnds, ErrorAnswer, Timeout, LateAnswer, Planning, Prepare, Post, PlannerAnswers, PlannerRefuses,
        PlannerTimesOut, PlannerCrashes, RetryPlanning, refreshing
  <2> QED
    BY <2>2, <2>3, <2>4, <2>5
<1> QED
  BY <1>1, PlanningIsOrdered, PTL DEF Spec, SignalsNeverOlder

=============================================================================
