--------------------------- MODULE PlanningRequests ---------------------------
(***************************************************************************)
(* The daily plan of a workspace too large to plan while rendering: the    *)
(* signals an extension's worker is asked for after every change, the task  *)
(* that reads them and asks the planner's worker, and what the page shows. *)
(* Answers come late, out of order or not at all; workers crash; changes   *)
(* arrive meanwhile. Commands of the user share the extension's worker.    *)
(***************************************************************************)
EXTENDS Naturals, Sequences, FiniteSets

CONSTANTS
    None,           \* no task, no plan, no failure
    Chunks,         \* requests one refresh of the signals makes
    Batches,        \* batches of items a planning task reads the signals of
    MaxPending,     \* MAX_PENDING requests of an extension's worker
    MaxEdits,       \* bound on changes of the workspace
    MaxEvents       \* bound on commands, retries, crashes and error answers together

ASSUME ChunksAssumption == Chunks \in Nat \ {0} /\ Batches \in Nat \ {0} /\ MaxPending \in Nat \ {0}
ASSUME BoundsAssumption == MaxEdits \in Nat /\ MaxEvents \in Nat

VARIABLES
    data,           \* version of the workspace
    extension,      \* its worker: "off", "ready", or "closed" for good
    announced,      \* whether the interface knows the extensions are there
    generation,     \* planningGeneration
    signals,        \* version of the workspace the stored signals are for, 0: none
    refreshes,      \* refreshExtensionPlanningSignalsV2 calls in progress
    pending,        \* requests of the runtime that have a caller waiting
    asked,          \* requests the worker has not answered
    revision,       \* extensionSignalRevision
    task,           \* the planning effect that is not aborted
    queue,          \* requests the planner's worker has received
    backgroundPlan, \* the last plan and what it was computed for
    plannerFailure, \* the inputs planning has failed for
    commands, retries, faults

runtime == <<extension, announced, pending, asked>>
refreshing == <<generation, signals, refreshes>>
planner == <<queue, backgroundPlan, plannerFailure>>
inputs == <<data, revision, task>>
bounds == <<commands, retries, faults>>
vars == <<runtime, refreshing, planner, inputs, bounds>>

MoreEvents == commands + retries + faults < MaxEvents

\* planKey: identities of the data and the revision of the signals.
Key == <<data, revision>>

Shown == backgroundPlan # None /\ backgroundPlan.key = Key
Failed == plannerFailure = Key

\* A render with new inputs: the effect aborts its task and starts another one,
\* which has read nothing yet.
Renders(d, r) ==
    /\ data' = d /\ revision' = r
    /\ task' = [id |-> <<d, r, retries>>, step |-> "prepare", left |-> Batches, read |-> {}]

(***************************************************************************)
(* Signals of the extension                                                *)
(***************************************************************************)

\* Defect: the generation is not compared.
StoredAlways(r, g) == r.data

\* What a refresh that is complete leaves behind: only the latest one stores
\* its signals.
Stored(r, g) == IF r.generation = g THEN r.data ELSE signals

\* Another refresh. It has nothing to ask while no extension runs.
Begun(g, d) ==
    [generation |-> g, data |-> d, chunk |-> 1, step |-> IF extension = "off" THEN "stored" ELSE "ask"]

\* A change: the effect on the data starts another refresh; earlier ones go on.
Edit ==
    /\ data <= MaxEdits
    /\ Renders(data + 1, revision)
    /\ generation' = generation + 1
    /\ refreshes' = refreshes \cup {Begun(generation + 1, data + 1)}
    /\ signals' = IF extension = "off" THEN 0 ELSE signals
    /\ UNCHANGED <<runtime, planner, bounds>>

WorkerStarts ==
    /\ extension = "off"
    /\ extension' = "ready"
    /\ UNCHANGED <<announced, pending, asked, refreshing, planner, inputs, bounds>>

\* The event extensions-ready.
ExtensionsReady ==
    /\ extension # "off" /\ ~announced
    /\ announced' = TRUE
    /\ Renders(data, revision + 1)
    /\ UNCHANGED <<extension, pending, asked, refreshing, planner, bounds>>

Request(r) == <<r.generation, r.chunk>>

\* execute: the runtime is open and has room, or the caller is refused.
Ask(r) ==
    /\ r.step = "ask"
    /\ IF extension = "ready" /\ Cardinality(pending) < MaxPending
       THEN /\ pending' = pending \cup {Request(r)}
            /\ asked' = asked \cup {Request(r)}
            /\ refreshes' = (refreshes \ {r}) \cup {[r EXCEPT !.step = "wait"]}
       ELSE /\ refreshes' = refreshes \ {r}
            /\ UNCHANGED <<pending, asked>>
    /\ UNCHANGED <<extension, announced, generation, signals, planner, inputs, bounds>>

Waiting(q) == {r \in refreshes : r.step = "wait" /\ Request(r) = q}

\* A command, an authoring action or a status request of the user.
Command ==
    /\ extension = "ready" /\ MoreEvents /\ Cardinality(pending) < MaxPending
    /\ pending' = pending \cup {<<0, commands>>}
    /\ asked' = asked \cup {<<0, commands>>}
    /\ commands' = commands + 1
    /\ UNCHANGED <<extension, announced, refreshing, planner, inputs, retries, faults>>

\* Defect: the callers are not told.
ClosesOnly ==
    /\ extension' = "closed" /\ asked' = {}
    /\ UNCHANGED <<announced, pending, refreshing, planner, inputs>>

\* fail: the runtime is closed, and every caller is told.
WorkerFails ==
    /\ extension' = "closed"
    /\ pending' = {} /\ asked' = {}
    /\ refreshes' = {r \in refreshes : r.step # "wait"}
    /\ UNCHANGED <<announced, generation, signals, planner, inputs>>

\* handleResponse: the caller goes on. The last chunk completes the refresh.
Answer(q) ==
    /\ q \in asked \cap pending
    /\ pending' = pending \ {q} /\ asked' = asked \ {q}
    /\ \/ /\ Waiting(q) = {}
          /\ UNCHANGED <<refreshes, signals>>
       \/ \E r \in Waiting(q) :
             LET more == r.chunk < Chunks
             IN  /\ refreshes' = (refreshes \ {r}) \cup
                        {[r EXCEPT !.chunk = IF more THEN @ + 1 ELSE @, !.step = IF more THEN "ask" ELSE "stored"]}
                 /\ signals' = IF more THEN signals ELSE Stored(r, generation)
    /\ UNCHANGED <<extension, announced, generation, planner, inputs, bounds>>

\* The answer is an error, or signals that are refused.
ErrorAnswer(q) ==
    /\ q \in asked \cap pending /\ MoreEvents
    /\ pending' = pending \ {q} /\ asked' = asked \ {q}
    /\ refreshes' = refreshes \ Waiting(q)
    /\ faults' = faults + 1
    /\ UNCHANGED <<extension, announced, generation, signals, planner, inputs, commands, retries>>

\* The caller gives up; the worker does not know.
Timeout(q) ==
    /\ q \in pending
    /\ pending' = pending \ {q}
    /\ refreshes' = refreshes \ Waiting(q)
    /\ UNCHANGED <<extension, announced, asked, generation, signals, planner, inputs, bounds>>

\* An answer nobody waits for any more is a protocol error.
LateAnswer(q) ==
    /\ q \in asked \ pending
    /\ WorkerFails
    /\ UNCHANGED bounds

ExtensionCrash ==
    /\ extension = "ready" /\ MoreEvents
    /\ WorkerFails
    /\ faults' = faults + 1
    /\ UNCHANGED <<commands, retries>>

\* The effect that started the refresh increments the revision, unless the data
\* has changed since.
Announces(r) == IF r.data = data THEN Renders(data, revision + 1) ELSE UNCHANGED inputs

RefreshEnds(r) ==
    /\ r.step = "stored"
    /\ refreshes' = refreshes \ {r}
    /\ Announces(r)
    /\ UNCHANGED <<runtime, generation, signals, planner, bounds>>

(***************************************************************************)
(* The plan                                                                *)
(***************************************************************************)

\* prepareLargePlannerInput, one batch of items at a time.
Prepare ==
    /\ task # None /\ task.step = "prepare"
    /\ task' = [task EXCEPT !.read = @ \cup {signals}, !.left = @ - 1,
                            !.step = IF task.left = 1 THEN "post" ELSE "prepare"]
    /\ UNCHANGED <<runtime, refreshing, planner, data, revision, bounds>>

\* buildDailyPlanInWorker.
Post ==
    /\ task # None /\ task.step = "post"
    /\ queue' = Append(queue, [id |-> task.id, read |-> task.read])
    /\ task' = [task EXCEPT !.step = "wait"]
    /\ UNCHANGED <<runtime, refreshing, backgroundPlan, plannerFailure, data, revision, bounds>>

\* Defect: an answer is taken for whatever is awaited.
AnyAwaited(request) == task # None /\ task.step = "wait"

Awaited(request) == task # None /\ task.step = "wait" /\ task.id = request.id

\* The worker answers in the order of its messages. What was aborted or has
\* timed out is answered, too, and ignored.
PlannerAnswers ==
    /\ queue # <<>>
    /\ queue' = Tail(queue)
    /\ IF Awaited(Head(queue))
       THEN /\ backgroundPlan' = [key |-> <<task.id[1], task.id[2]>>, read |-> Head(queue).read]
            /\ plannerFailure' = None
            /\ task' = None
       ELSE UNCHANGED <<backgroundPlan, plannerFailure, task>>
    /\ UNCHANGED <<runtime, refreshing, data, revision, bounds>>

\* What is awaited fails, and the page is told for which inputs.
PlanningFails ==
    /\ task # None /\ task.step = "wait"
    /\ plannerFailure' = <<task.id[1], task.id[2]>>
    /\ task' = None

PlannerTimesOut ==
    /\ PlanningFails
    /\ UNCHANGED <<runtime, refreshing, queue, backgroundPlan, data, revision, bounds>>

PlannerRefuses ==
    /\ queue # <<>> /\ Awaited(Head(queue)) /\ MoreEvents
    /\ queue' = Tail(queue)
    /\ PlanningFails
    /\ faults' = faults + 1
    /\ UNCHANGED <<runtime, refreshing, backgroundPlan, data, revision, commands, retries>>

\* The shared worker is replaced, and with it go all its requests.
PlannerCrashes ==
    /\ queue # <<>> /\ MoreEvents
    /\ queue' = <<>>
    /\ \/ PlanningFails
       \/ /\ ~ \E n \in DOMAIN queue : Awaited(queue[n])
          /\ UNCHANGED <<plannerFailure, task>>
    /\ faults' = faults + 1
    /\ UNCHANGED <<runtime, refreshing, backgroundPlan, data, revision, commands, retries>>

\* Defect: only the failure is cleared.
ClearsFailure ==
    /\ Failed /\ MoreEvents
    /\ plannerFailure' = None
    /\ retries' = retries + 1
    /\ UNCHANGED <<runtime, refreshing, queue, backgroundPlan, inputs, commands, faults>>

RetryPlanning ==
    /\ Failed /\ MoreEvents
    /\ plannerFailure' = None
    /\ retries' = retries + 1
    /\ task' = [id |-> <<data, revision, retries + 1>>, step |-> "prepare", left |-> Batches, read |-> {}]
    /\ UNCHANGED <<runtime, refreshing, queue, backgroundPlan, data, revision, commands, faults>>

\* The workspace is loaded while the extensions start.
Init ==
    /\ data = 1 /\ revision = 0
    /\ task = [id |-> <<1, 0, 0>>, step |-> "prepare", left |-> Batches, read |-> {}]
    /\ extension \in {"off", "ready"} /\ announced = FALSE /\ pending = {} /\ asked = {}
    /\ generation = 1 /\ signals = 0 /\ refreshes = {Begun(1, 1)}
    /\ queue = <<>> /\ backgroundPlan = None /\ plannerFailure = None
    /\ commands = 0 /\ retries = 0 /\ faults = 0

Requests == (0 .. MaxEdits + 1) \X (0 .. Chunks + MaxEvents)

Refreshing == \E r \in refreshes : Ask(r) \/ RefreshEnds(r)
Planning == Prepare \/ Post

Next ==
    \/ Edit \/ WorkerStarts \/ ExtensionsReady \/ Command \/ ExtensionCrash \/ Refreshing
    \/ \E q \in asked \cup pending : Answer(q) \/ ErrorAnswer(q) \/ Timeout(q) \/ LateAnswer(q)
    \/ Planning \/ PlannerAnswers \/ PlannerRefuses \/ PlannerTimesOut
    \/ PlannerCrashes \/ RetryPlanning

Spec == Init /\ [][Next]_vars

\* Code that can go on does; a request is answered or its timer fires.
Fairness ==
    /\ WF_vars(Refreshing) /\ WF_vars(Planning)
    /\ \A q \in Requests : WF_vars(Answer(q) \/ Timeout(q))
    /\ WF_vars(PlannerAnswers \/ PlannerTimesOut)

FairSpec == Spec /\ Fairness

(***************************************************************************)
(* Properties                                                              *)
(***************************************************************************)

\* What callers and workers hold: nobody waits for a closed worker, and every
\* refresh that waits has its request pending.
PlanningTypeOK ==
    /\ extension \in {"off", "ready", "closed"}
    /\ pending \subseteq Requests /\ asked \subseteq Requests
    /\ extension # "ready" => pending = {}
    /\ \A r \in refreshes : r.step = "wait" => Request(r) \in pending
    /\ signals \in 0 .. data
    /\ task # None => task.id = <<data, revision, retries>>

\* The plan shown was computed with the signals that are stored now, although
\* they are read in batches while refreshes store new ones; between storing and
\* announcing them the old plan may be shown.
PlanUsesCurrentSignals ==
    Shown => \/ backgroundPlan.read = {signals}
             \/ \E r \in refreshes : r.step = "stored" /\ r.data = data

\* Workers, requests and signals are in order, and the page plans with what it has.
PlanningInv == PlanningTypeOK /\ PlanUsesCurrentSignals

\* Signals of an earlier workspace never replace those of a later one, in
\* whatever order the answers of overlapping refreshes arrive.
SignalsNeverOlder == [][signals' >= signals]_vars

\* When the user stops, no request stays unanswered and the page shows a plan or
\* the reason why there is none, whatever has crashed or was too slow.
PlanningSettles == <>[](pending = {} /\ (Shown \/ Failed))

=============================================================================
