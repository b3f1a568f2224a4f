------------------------- MODULE SyncAccountProofs -------------------------
(***************************************************************************)
(* Proofs about the stored sync configuration, for any number of callers,  *)
(* calls, edits and faults. Whatever overlaps, it stays complete; it stays *)
(* right about the service and the user as long as no operation on the     *)
(* account overlaps with another call (Alone), which neither the manager   *)
(* nor the coordinator of the browser ensures.                             *)
(***************************************************************************)
EXTENDS SyncAccount, SequenceTheorems, TLAPS

Operations == {"none", "sync", "resolve", "create", "recover", "rotate", "delete"}
Steps == {"idle", "enroll", "store", "queued", "failed", "request", "rotate", "show", "delete"} \cup Running

CallRecord == [op : Operations, step : Steps, read : Nat, record : StoredRecord \cup {None}, answer : Nat]

Service == [exists : BOOLEAN, key : Nat, actors : Nat, received : Nat, max : [1 .. MaxCalls -> Nat]]

(* The inductive invariant. *)

Types ==
    /\ config \in StoredRecord \cup {None}
    /\ syncQueue \in Seq(Callers)
    /\ calls \in [Callers -> CallRecord]
    /\ service \in Service
    /\ workspace \in Nat /\ committed \in Nat /\ shown \in Nat \cup {None}
    /\ made \in 0 .. MaxCalls /\ faults \in Nat

\* The steps an operation goes through.
StepsOfOps ==
    \A c \in Callers :
        /\ calls[c].op = "none" <=> calls[c].step = "idle"
        /\ calls[c].step = "idle" => calls[c] = Idle
        /\ calls[c].step \in {"enroll", "store"} => calls[c].op \in {"create", "recover"}
        /\ calls[c].step \in {"queued"} \cup Running => calls[c].op \in {"sync", "resolve", "create", "recover"}
        /\ calls[c].step = "failed" => calls[c].op \in {"resolve", "create", "recover"}
        /\ calls[c].step = "request" => calls[c].op \in {"rotate", "delete"}
        /\ calls[c].step \in {"rotate", "show"} => calls[c].op = "rotate"
        /\ calls[c].step = "delete" => calls[c].op = "delete"

\* Who manages the account is alone.
Exclusive ==
    \A c, d \in Callers : c # d /\ calls[c].op \in Managing => calls[d].op = "none"

\* The queue holds the callers that synchronize, each of them once; the first one runs.
QueueServes ==
    /\ \A i, j \in DOMAIN syncQueue : syncQueue[i] = syncQueue[j] => i = j
    /\ \A i \in DOMAIN syncQueue : calls[syncQueue[i]].step \in {"queued"} \cup Running
    /\ \A c \in Callers : calls[c].step \in {"queued"} \cup Running => \E i \in DOMAIN syncQueue : syncQueue[i] = c
    /\ \A c \in Callers : calls[c].step \in Running => syncQueue # <<>> /\ Head(syncQueue) = c

\* The record a caller has read, and will write back, is still the stored one.
HoldsRecord ==
    \A c \in Callers :
        /\ calls[c].step \in Running \cup {"request", "rotate", "show", "delete"}
              => calls[c].record = config /\ config \in StoredRecord
        /\ calls[c].step \in {"enroll", "store"} => config = None

\* What numbers and keys a record may have.
Sound(r) ==
    /\ r.actor \in 1 .. service.actors /\ r.key \in 1 .. service.key
    /\ r.sent < r.next
    /\ r.pending \in Pending => r.pending.sent < r.next
    /\ service.exists => service.max[r.actor] < r.next
    /\ shown # None => r.key >= shown

Numbers ==
    /\ service.actors <= made
    /\ \A c \in Callers : At(c, "enroll") => service.actors < made
    /\ service.exists => service.key \in Nat \ {0}
    /\ shown # None => shown <= service.key
    /\ \A a \in 1 .. MaxCalls : a > service.actors => service.max[a] = 0
    /\ config \in StoredRecord => Sound(config)
    /\ \A c \in Callers : At(c, "store") =>
          /\ calls[c].record \in StoredRecord
          /\ Sound(calls[c].record)

\* What a caller carries from the service to the record.
Carries ==
    \A c \in Callers :
        /\ calls[c].step \in {"capture", "exchange", "journal"} => config.pending = None
        /\ calls[c].step = "journal" => calls[c].answer < config.next
        /\ calls[c].step \in {"resume", "commit", "settle"} => config.pending \in Pending
        /\ calls[c].step = "settle" => committed = config.pending.result
        /\ calls[c].step \in {"rotate", "show"} => calls[c].answer \in 1 .. service.key
        /\ calls[c].step = "rotate" => (shown # None => calls[c].answer >= shown)
        /\ calls[c].step = "show" => config.key = calls[c].answer

AccountInv == Types /\ StepsOfOps /\ Exclusive /\ QueueServes /\ HoldsRecord /\ Numbers /\ Carries

-----------------------------------------------------------------------------
(* What a step does to the calls. *)

\* Caller c goes on with this call, and nobody else moves.
Becomes(c, op, step, record, answer) ==
    /\ calls' \in [Callers -> CallRecord]
    /\ calls'[c].op = op /\ calls'[c].step = step
    /\ calls'[c].record = record /\ calls'[c].answer = answer
    /\ \A d \in Callers \ {c} : calls'[d] = calls[d]

\* The calls after a step of one caller.
LEMMA Replacing ==
    ASSUME calls \in [Callers -> CallRecord], NEW c \in Callers, NEW x \in CallRecord,
           calls' = [calls EXCEPT ![c] = x]
    PROVE  Becomes(c, x.op, x.step, x.record, x.answer) /\ calls'[c] = x
  BY DEF Becomes

\* A caller between calls is at none.
LEMMA IdleIsACall == Idle \in CallRecord /\ Idle.op = "none" /\ Idle.step = "idle" /\ Idle.record = None /\ Idle.answer = 0
  BY DEF Idle, Call, CallRecord, Operations, Steps

\* Starting a call.
LEMMA Calling ==
    ASSUME calls \in [Callers -> CallRecord], NEW c \in Callers,
           NEW op \in Operations, NEW step \in Steps, NEW read \in Nat,
           NEW record \in StoredRecord \cup {None},
           calls' = [calls EXCEPT ![c] = Call(op, step, read, record)]
    PROVE  Becomes(c, op, step, record, 0)
<1> DEFINE x == Call(op, step, read, record)
<1>1. x \in CallRecord /\ x.op = op /\ x.step = step /\ x.record = record /\ x.answer = 0
  BY DEF Call, CallRecord
<1>2. calls' = [calls EXCEPT ![c] = x]
  OBVIOUS
<1> HIDE DEF x
<1> QED
  BY <1>1, <1>2, Replacing

\* Ending a call.
LEMMA Returning ==
    ASSUME calls \in [Callers -> CallRecord], NEW c \in Callers, Return(c)
    PROVE  Becomes(c, "none", "idle", None, 0) /\ calls'[c] = Idle
  BY IdleIsACall DEF Becomes, Return

\* A call goes on to its next step.
LEMMA Going ==
    ASSUME calls \in [Callers -> CallRecord], NEW c \in Callers, NEW step \in Steps, Goes(c, step)
    PROVE  Becomes(c, calls[c].op, step, calls[c].record, calls[c].answer)
<1>1. [calls[c] EXCEPT !.step = step] \in CallRecord
  BY DEF CallRecord
<1>2. calls' = [calls EXCEPT ![c] = [calls[c] EXCEPT !.step = step]]
  BY DEF Goes
<1> QED
  BY <1>1, <1>2, Replacing DEF CallRecord

\* A call keeps a record for its next step.
LEMMA Holding ==
    ASSUME calls \in [Callers -> CallRecord], NEW c \in Callers,
           NEW record \in StoredRecord \cup {None}, NEW step \in Steps,
           Holds(c, record, step)
    PROVE  Becomes(c, calls[c].op, step, record, calls[c].answer)
<1> DEFINE x == [calls[c] EXCEPT !.record = record, !.step = step]
<1>1. x \in CallRecord
  BY DEF CallRecord
<1>2. calls' = [calls EXCEPT ![c] = x]
  BY DEF Holds
<1>3. x.op = calls[c].op /\ x.step = step /\ x.record = record /\ x.answer = calls[c].answer
  BY DEF CallRecord
<1> QED
  BY <1>1, <1>2, <1>3, Replacing

\* A call learns the answer of the service.
LEMMA Learning ==
    ASSUME calls \in [Callers -> CallRecord], NEW c \in Callers,
           NEW step \in Steps, NEW answer \in Nat,
           Learns(c, answer, step)
    PROVE  Becomes(c, calls[c].op, step, calls[c].record, answer)
<1> DEFINE x == [calls[c] EXCEPT !.step = step, !.answer = answer]
<1>1. x \in CallRecord
  BY DEF CallRecord
<1>2. calls' = [calls EXCEPT ![c] = x]
  BY DEF Learns
<1>3. x.op = calls[c].op /\ x.step = step /\ x.record = calls[c].record /\ x.answer = answer
  BY DEF CallRecord
<1> QED
  BY <1>1, <1>2, <1>3, Replacing

-----------------------------------------------------------------------------
(* Who holds the record. *)

Passive == {"idle", "queued", "failed"}

\* A caller that holds the record, or is about to write its first one, is the only one.
LEMMA OneHolds ==
    ASSUME AccountInv, NEW c \in Callers, calls[c].step \notin Passive
    PROVE  \A d \in Callers \ {c} : calls[d].step \in Passive
<1> SUFFICES ASSUME NEW d \in Callers \ {c}, calls[d].step \notin Passive PROVE FALSE
  OBVIOUS
<1>1. ASSUME NEW e \in Callers PROVE calls[e].step \in Steps /\ calls[e].op \in Operations
  BY DEF AccountInv, Types, CallRecord
<1>2. calls[c].op # "none" /\ calls[d].op # "none"
  BY DEF AccountInv, StepsOfOps, Passive
<1>3. calls[c].op \notin Managing /\ calls[d].op \notin Managing
  BY <1>2 DEF AccountInv, Exclusive
<1>4. calls[c].step \in Running /\ calls[d].step \in Running
  BY <1>1, <1>3 DEF AccountInv, StepsOfOps, Passive, Steps, Managing, Running
<1>5. Head(syncQueue) = c /\ Head(syncQueue) = d
  BY <1>4 DEF AccountInv, QueueServes
<1> QED
  BY <1>5

\* A manager is alone.
LEMMA ManagesAlone ==
    ASSUME AccountInv, NEW c \in Callers, calls[c].op \in Managing
    PROVE  \A d \in Callers \ {c} : calls[d].op = "none" /\ calls[d].step = "idle"
  BY DEF AccountInv, Exclusive, StepsOfOps

(* The queue. *)

InQueue == {"queued"} \cup Running

\* Nothing changes for the queue when the calls in it stay, and only its head runs.
LEMMA Standing ==
    ASSUME QueueServes, NEW c \in Callers, NEW op, NEW step, NEW record, NEW answer,
           syncQueue \in Seq(Callers),
           Becomes(c, op, step, record, answer), syncQueue' = syncQueue,
           calls[c].step \in InQueue <=> step \in InQueue,
           step \in Running => syncQueue # <<>> /\ Head(syncQueue) = c
    PROVE  QueueServes'
<1>1. ASSUME NEW d \in Callers PROVE calls'[d].step \in InQueue <=> calls[d].step \in InQueue
  BY DEF Becomes
<1>2. ASSUME NEW d \in Callers, calls'[d].step \in Running PROVE syncQueue # <<>> /\ Head(syncQueue) = d
  BY <1>2 DEF Becomes, QueueServes
<1> QED
  BY <1>1, <1>2 DEF QueueServes, InQueue

\* A caller joins the queue at its end.
LEMMA Joining ==
    ASSUME QueueServes, NEW c \in Callers, NEW op, NEW record, NEW answer,
           syncQueue \in Seq(Callers),
           Becomes(c, op, "queued", record, answer), syncQueue' = Append(syncQueue, c),
           calls[c].step \notin InQueue
    PROVE  QueueServes'
<1>1. /\ Len(syncQueue) \in Nat
      /\ DOMAIN syncQueue' = 1 .. Len(syncQueue) + 1
      /\ syncQueue'[Len(syncQueue) + 1] = c
      /\ \A i \in DOMAIN syncQueue : syncQueue'[i] = syncQueue[i] /\ syncQueue[i] \in Callers
      /\ DOMAIN syncQueue = 1 .. Len(syncQueue)
  OBVIOUS
<1>2. \A i \in DOMAIN syncQueue : syncQueue[i] # c
  BY DEF QueueServes, InQueue
<1>3. \A i, j \in DOMAIN syncQueue' : syncQueue'[i] = syncQueue'[j] => i = j
  BY <1>1, <1>2 DEF QueueServes
<1>4. \A i \in DOMAIN syncQueue' : calls'[syncQueue'[i]].step \in InQueue
  BY <1>1, <1>2 DEF QueueServes, InQueue, Becomes
<1>5. \A d \in Callers : calls'[d].step \in InQueue => \E i \in DOMAIN syncQueue' : syncQueue'[i] = d
  BY <1>1 DEF QueueServes, InQueue, Becomes
<1>6. ASSUME NEW d \in Callers, calls'[d].step \in Running PROVE syncQueue' # <<>> /\ Head(syncQueue') = d
  <2>1. calls[d].step \in Running
    BY <1>6 DEF Becomes, Running
  <2>2. syncQueue # <<>> /\ Head(syncQueue) = d
    BY <2>1 DEF QueueServes
  <2> QED
    BY <2>2
<1> QED
  BY <1>3, <1>4, <1>5, <1>6 DEF QueueServes, InQueue

\* The caller that runs leaves the queue.
LEMMA Leaving ==
    ASSUME QueueServes, NEW c \in Callers, NEW op, NEW step, NEW record, NEW answer,
           syncQueue \in Seq(Callers), syncQueue # <<>>, Head(syncQueue) = c,
           Becomes(c, op, step, record, answer), Leave, step \notin InQueue
    PROVE  QueueServes' /\ syncQueue' \in Seq(Callers)
<1>1. /\ Len(syncQueue) \in Nat \ {0}
      /\ syncQueue' \in Seq(Callers)
      /\ Len(syncQueue') = Len(syncQueue) - 1
      /\ DOMAIN syncQueue' = 1 .. Len(syncQueue) - 1
      /\ \A i \in DOMAIN syncQueue' : syncQueue'[i] = syncQueue[i + 1]
      /\ DOMAIN syncQueue = 1 .. Len(syncQueue)
      /\ syncQueue[1] = c
      /\ \A i \in DOMAIN syncQueue : syncQueue[i] \in Callers
  BY DEF Leave
<1>2. \A i \in DOMAIN syncQueue : syncQueue[i] = c => i = 1
  BY <1>1 DEF QueueServes
<1>3. ASSUME NEW i \in DOMAIN syncQueue'
      PROVE  /\ i + 1 \in DOMAIN syncQueue
             /\ syncQueue'[i] = syncQueue[i + 1]
             /\ syncQueue[i + 1] \in Callers \ {c}
  BY <1>1, <1>2
<1>4. \A i, j \in DOMAIN syncQueue' : syncQueue'[i] = syncQueue'[j] => i = j
  <2> SUFFICES ASSUME NEW i \in DOMAIN syncQueue', NEW j \in DOMAIN syncQueue', syncQueue'[i] = syncQueue'[j]
               PROVE  i = j
    OBVIOUS
  <2>1. i + 1 = j + 1
    BY <1>3 DEF QueueServes
  <2> QED
    BY <2>1, <1>1
<1>5. \A i \in DOMAIN syncQueue' : calls'[syncQueue'[i]].step \in InQueue
  BY <1>3 DEF QueueServes, InQueue, Becomes
<1>6. ASSUME NEW d \in Callers, calls'[d].step \in InQueue PROVE \E i \in DOMAIN syncQueue' : syncQueue'[i] = d
  <2>1. d # c /\ calls[d].step \in InQueue
    BY <1>6 DEF Becomes
  <2>2. PICK i \in DOMAIN syncQueue : syncQueue[i] = d
    BY <2>1 DEF QueueServes, InQueue
  <2>3. i - 1 \in DOMAIN syncQueue' /\ (i - 1) + 1 = i
    BY <1>1, <2>1, <2>2
  <2> QED
    BY <2>2, <2>3, <1>1
<1>7. \A d \in Callers : calls'[d].step \notin Running
  BY DEF QueueServes, Becomes, InQueue
<1> QED
  BY <1>1, <1>4, <1>5, <1>6, <1>7 DEF QueueServes, InQueue

-----------------------------------------------------------------------------
(* Every step preserves the invariant. *)

\* A call of synchronize or resolveConflict joins the queue.
LEMMA SynchronizationsBegin ==
    ASSUME Alone, AccountInv, NEW c \in Callers, BeginSync(c) \/ BeginResolve(c)
    PROVE  AccountInv'
<1>1. PICK op \in Synchronizing : Becomes(c, op, "queued", None, 0)
  <2> "sync" \in Operations /\ "resolve" \in Operations /\ "queued" \in Steps
    BY DEF Operations, Steps
  <2> calls \in [Callers -> CallRecord] /\ workspace \in Nat /\ MaxEdits + made + 1 \in Nat
    BY BoundsAssumption DEF AccountInv, Types
  <2>1. CASE BeginSync(c)
    <3>1. Becomes(c, "sync", "queued", None, 0)
      BY <2>1, Calling DEF BeginSync
    <3> QED
      BY <3>1 DEF Synchronizing
  <2>2. CASE BeginResolve(c)
    <3>1. Becomes(c, "resolve", "queued", None, 0)
      BY <2>2, Calling DEF BeginResolve
    <3> QED
      BY <3>1 DEF Synchronizing
  <2> QED
    BY <2>1, <2>2
<1>2. /\ calls[c] = Idle /\ made < MaxCalls /\ made' = made + 1 /\ syncQueue' = Append(syncQueue, c)
      /\ UNCHANGED <<config, service, workspace, committed, shown, faults>>
  BY DEF BeginSync, BeginResolve, Free
<1>3. calls[c].step = "idle" /\ op \notin Managing
  BY <1>2, IdleIsACall DEF Synchronizing, Managing
<1>4. Types'
  BY <1>1, <1>2, BoundsAssumption DEF AccountInv, Types, Becomes
<1>5. StepsOfOps'
  BY <1>1, <1>2 DEF AccountInv, StepsOfOps, Becomes, Synchronizing, Running
<1>6. Exclusive'
  <2>1. Alone => \A d \in Callers : calls[d].op \notin Managing
    BY DEF BeginSync, BeginResolve, Free, Managing, Synchronizing
  <2> QED
    BY <1>1, <1>3, <2>1 DEF AccountInv, Exclusive, Becomes
<1>7. QueueServes'
  BY <1>1, <1>2, <1>3, Joining DEF AccountInv, Types, InQueue, Running
<1>8. HoldsRecord'
  BY <1>1, <1>2 DEF AccountInv, HoldsRecord, Becomes, Running
<1>9. Numbers'
  BY <1>1, <1>2 DEF AccountInv, Types, Numbers, Sound, Becomes, At, Service
<1>10. Carries'
  BY <1>1, <1>2 DEF AccountInv, Carries, Becomes
<1> QED
  BY <1>4, <1>5, <1>6, <1>7, <1>8, <1>9, <1>10 DEF AccountInv

\* A manager's call begins: alone, and with the record of now.
LEMMA ManagementBegins ==
    ASSUME Alone, AccountInv, NEW c \in Callers, BeginConnect(c) \/ BeginOnRecord(c)
    PROVE  AccountInv'
<1> "enroll" \in Steps /\ "request" \in Steps /\ Managing \subseteq {"create", "recover", "rotate", "delete", "disconnect"}
    BY DEF Steps, Managing
<1> calls \in [Callers -> CallRecord] /\ workspace \in Nat /\ config \in StoredRecord \cup {None}
    BY DEF AccountInv, Types
<1>1. /\ calls[c] = Idle /\ made < MaxCalls /\ made' = made + 1
      /\ UNCHANGED <<config, syncQueue, service, workspace, committed, shown, faults>>
      /\ \A d \in Callers : calls[d].op = "none"
  BY DEF BeginConnect, BeginOnRecord, Free, Managing
<1>2. \A d \in Callers : calls[d].step = "idle"
  BY <1>1 DEF AccountInv, StepsOfOps
<1>3. PICK op \in Managing \ {"disconnect"}, step \in {"enroll", "request"} :
         /\ Becomes(c, op, step, IF step = "enroll" THEN None ELSE config, 0)
         /\ step = "enroll" => op \in {"create", "recover"} /\ config = None
         /\ step = "request" => op \in {"rotate", "delete"} /\ config # None
  <2>1. CASE BeginConnect(c)
    <3>1. PICK op \in {"create", "recover"} : calls' = [calls EXCEPT ![c] = Call(op, "enroll", workspace, None)]
      BY <2>1 DEF BeginConnect
    <3>2. op \in Operations /\ op \in Managing \ {"disconnect"}
      BY DEF Operations, Managing
    <3>3. Becomes(c, op, "enroll", None, 0)
      BY <3>1, <3>2, Calling
    <3> QED
      BY <2>1, <3>2, <3>3 DEF BeginConnect
  <2>2. CASE BeginOnRecord(c)
    <3>1. PICK op \in {"rotate", "delete"} : calls' = [calls EXCEPT ![c] = Call(op, "request", workspace, config)]
      BY <2>2 DEF BeginOnRecord
    <3>2. op \in Operations /\ op \in Managing \ {"disconnect"}
      BY DEF Operations, Managing
    <3>3. Becomes(c, op, "request", config, 0)
      BY <3>1, <3>2, Calling
    <3> QED
      BY <2>2, <3>2, <3>3 DEF BeginOnRecord
  <2> QED
    BY <2>1, <2>2
<1>4. Types'
  BY <1>1, <1>3, BoundsAssumption DEF AccountInv, Types, Becomes
<1>5. StepsOfOps'
  BY <1>1, <1>3 DEF AccountInv, StepsOfOps, Becomes, Running
<1>6. Exclusive'
  BY <1>1, <1>3 DEF Exclusive, Becomes
<1>7. QueueServes'
  BY <1>1, <1>2, <1>3, Standing DEF AccountInv, Types, InQueue, Running
<1>8. HoldsRecord'
  BY <1>1, <1>2, <1>3, NoneAssumption DEF AccountInv, HoldsRecord, Becomes, Running
<1>9. Numbers'
  <2>1. \A d \in Callers : ~At(d, "store")'
    BY <1>1, <1>2, <1>3 DEF Becomes, At
  <2>2. service.actors \in Nat /\ made \in Nat
    BY BoundsAssumption DEF AccountInv, Types, Service
  <2>3. service'.actors < made'
    BY <1>1, <2>2 DEF AccountInv, Numbers
  <2> QED
    BY <1>1, <2>1, <2>2, <2>3 DEF AccountInv, Numbers, Sound
<1>10. Carries'
  BY <1>1, <1>2, <1>3 DEF AccountInv, Carries, Becomes
<1> QED
  BY <1>4, <1>5, <1>6, <1>7, <1>8, <1>9, <1>10 DEF AccountInv

\* A disconnection removes the record when nobody holds it.
LEMMA DisconnectionRemoves ==
    ASSUME Alone, AccountInv, NEW c \in Callers, Disconnect(c)
    PROVE  AccountInv'
<1>1. /\ made < MaxCalls /\ made' = made + 1 /\ config' = None
      /\ UNCHANGED <<calls, syncQueue, service, workspace, committed, shown, faults>>
      /\ \A d \in Callers : calls[d].op = "none"
  BY DEF Disconnect, Free, Managing
<1>2. \A d \in Callers : calls[d].step = "idle"
  BY <1>1 DEF AccountInv, StepsOfOps
<1>3. Types'
  BY <1>1, BoundsAssumption DEF AccountInv, Types
<1>4. StepsOfOps' /\ Exclusive' /\ QueueServes'
  BY <1>1 DEF AccountInv, StepsOfOps, Exclusive, QueueServes
<1>5. HoldsRecord' /\ Carries'
  BY <1>1, <1>2 DEF HoldsRecord, Carries, Running
<1>6. Numbers'
  BY <1>1, <1>2, BoundsAssumption, NoneAssumption DEF AccountInv, Types, Numbers, Sound, At, Service
<1> QED
  BY <1>3, <1>4, <1>5, <1>6 DEF AccountInv

\* What the step of a caller outside the queue does not disturb.
LEMMA ManagerMoves ==
    ASSUME AccountInv, NEW c \in Callers, calls[c].op \in Managing, calls[c].step \notin InQueue,
           NEW op \in {calls[c].op, "none"}, NEW step, step \notin InQueue, NEW record, NEW answer,
           Becomes(c, op, step, record, answer), syncQueue' = syncQueue
    PROVE  /\ Exclusive' /\ QueueServes'
           /\ \A d \in Callers \ {c} : calls'[d].op = "none" /\ calls'[d].step = "idle" /\ calls'[d] = Idle
<1>1. \A d \in Callers \ {c} : calls[d].op = "none" /\ calls[d].step = "idle" /\ calls[d] = Idle
  BY ManagesAlone DEF AccountInv, StepsOfOps
<1>2. \A d \in Callers \ {c} : calls'[d] = calls[d]
  BY DEF Becomes
<1>3. Exclusive'
  BY <1>1, <1>2 DEF Exclusive, Becomes, Managing
<1>4. QueueServes'
  BY Standing DEF AccountInv, Types, InQueue
<1> QED
  BY <1>1, <1>2, <1>3, <1>4

\* While the head of the queue runs, or is about to, nobody else holds the record.
LEMMA HeadIsAlone ==
    ASSUME AccountInv, NEW c \in Callers, syncQueue # <<>>, Head(syncQueue) = c, calls[c].step \in InQueue
    PROVE  \A d \in Callers \ {c} : calls[d].step \in Passive
<1> SUFFICES ASSUME NEW d \in Callers \ {c}, calls[d].step \notin Passive PROVE FALSE
  OBVIOUS
<1>1. calls[d].step \notin Running
  BY DEF AccountInv, QueueServes
<1>2. calls[d].step \in Steps
  BY DEF AccountInv, Types, CallRecord
<1>3. calls[d].op \in Managing /\ calls[c].op # "none"
  BY <1>1, <1>2 DEF AccountInv, StepsOfOps, Passive, Steps, InQueue, Running, Managing
<1> QED
  BY <1>3 DEF AccountInv, Exclusive

\* What the end of the synchronization that runs does not disturb.
LEMMA RunnerLeaves ==
    ASSUME AccountInv, NEW c \in Callers, syncQueue # <<>>, Head(syncQueue) = c,
           calls[c].step \in InQueue,
           NEW op \in {calls[c].op, "none"}, NEW step, step \notin InQueue, NEW record, NEW answer,
           Becomes(c, op, step, record, answer), Leave
    PROVE  /\ Exclusive' /\ QueueServes' /\ syncQueue' \in Seq(Callers)
           /\ \A d \in Callers \ {c} : calls'[d] = calls[d] /\ calls'[d].step \in Passive
<1>1. Exclusive'
  BY DEF AccountInv, Exclusive, Becomes, Managing
<1>2. QueueServes' /\ syncQueue' \in Seq(Callers)
  BY Leaving DEF AccountInv, Types
<1> QED
  BY <1>1, <1>2, HeadIsAlone DEF Becomes

\* A service with another account, key or number of actors.
LEMMA Changing ==
    ASSUME NEW s \in Service, NEW exists \in BOOLEAN, NEW key \in Nat, NEW actors \in Nat
    PROVE  [s EXCEPT !.exists = exists, !.key = key, !.actors = actors] \in Service
  BY DEF Service

\* The account is created or the device recovered: the record the caller will
\* store has a new actor and the service's key.
LEMMA EnrollmentAnswers ==
    ASSUME AccountInv, NEW c \in Callers, Enroll(c)
    PROVE  AccountInv'
<1> DEFINE op == calls[c].op
<1>1. calls[c].step = "enroll" /\ op \in {"create", "recover"} /\ op \in Managing /\ config = None
  BY DEF Enroll, At, AccountInv, StepsOfOps, HoldsRecord, Managing
<1>2. /\ calls \in [Callers -> CallRecord] /\ service \in Service /\ calls[c].read \in Nat
      /\ shown \in Nat \cup {None} /\ made \in 0 .. MaxCalls /\ service.actors < made
  BY <1>1, BoundsAssumption DEF AccountInv, Types, CallRecord, Numbers, At
<1>3. UNCHANGED <<config, syncQueue, workspace, committed, shown, made>>
  BY DEF Enroll
<1>4. faults' \in Nat
  BY <1>2 DEF Enroll, AccountInv, Types, Lost, Faulty
<1>5. \/ /\ Return(c)
         /\ service' = service \/ (Welcome(op) /\ service' = Enrolled(op))
      \/ /\ Welcome(op) /\ service' = Enrolled(op)
         /\ Holds(c, Record(Enrolled(op).actors, Enrolled(op).key, calls[c].read), "store")
  BY DEF Enroll, Lost
<1>6. ASSUME Welcome(op), service' = Enrolled(op)
      PROVE  /\ service' \in Service /\ service'.exists /\ service'.max = service.max
             /\ service'.actors = service.actors + 1
             /\ service'.key \in Nat \ {0}
             /\ shown # None => shown <= service'.key
  <2>1. CASE op = "create"
    <3>1. service' = [service EXCEPT !.exists = TRUE, !.key = @ + 1, !.actors = @ + 1]
      BY <1>6, <2>1 DEF Enrolled
    <3>2. service.key + 1 \in Nat /\ service.actors + 1 \in Nat
      BY <1>2 DEF Service
    <3>3. service' \in Service
      BY <1>2, <3>1, <3>2, Changing
    <3>4. /\ service'.exists /\ service'.max = service.max
          /\ service'.actors = service.actors + 1 /\ service'.key = service.key + 1 /\ service.key \in Nat
      BY <1>2, <3>1 DEF Service
    <3>5. shown # None => shown <= service.key
      BY DEF AccountInv, Numbers
    <3> QED
      BY <1>2, <3>3, <3>4, <3>5
  <2>2. CASE op = "recover"
    BY <1>2, <1>6, <2>2 DEF Enrolled, Welcome, Service, AccountInv, Numbers
  <2> QED
    BY <1>1, <2>1, <2>2
<1>7. /\ service' \in Service
      /\ service'.actors <= made
      /\ service'.exists => service'.key \in Nat \ {0}
      /\ shown # None => shown <= service'.key
      /\ \A a \in 1 .. MaxCalls : a > service'.actors => service'.max[a] = 0
  <2>1. CASE service' = service
    BY <1>2, <2>1 DEF AccountInv, Numbers, Service
  <2>2. CASE Welcome(op) /\ service' = Enrolled(op)
    BY <1>2, <1>6, <2>2 DEF AccountInv, Numbers, Service
  <2> QED
    BY <1>5, <2>1, <2>2
<1>8. CASE Return(c)
  <2>1. Becomes(c, "none", "idle", None, 0) /\ calls'[c] = Idle
    BY <1>2, <1>8, Returning
  <2>2. /\ Exclusive' /\ QueueServes'
        /\ \A d \in Callers \ {c} : calls'[d].op = "none" /\ calls'[d].step = "idle" /\ calls'[d] = Idle
    BY <1>1, <1>3, <2>1, ManagerMoves DEF InQueue, Running
  <2>3. Types'
    BY <1>3, <1>4, <1>7, <2>1 DEF AccountInv, Types, Becomes
  <2>4. \A d \in Callers : calls'[d].step = "idle" /\ calls'[d].op = "none" /\ calls'[d] = Idle
    BY <2>1, <2>2 DEF Becomes
  <2>5. StepsOfOps' /\ HoldsRecord' /\ Carries'
    BY <2>4 DEF StepsOfOps, HoldsRecord, Carries, Running
  <2>6. Numbers'
    BY <1>1, <1>3, <1>7, <2>4, NoneAssumption DEF Numbers, At
  <2> QED
    BY <2>2, <2>3, <2>5, <2>6 DEF AccountInv
<1>9. CASE /\ Welcome(op) /\ service' = Enrolled(op)
           /\ Holds(c, Record(Enrolled(op).actors, Enrolled(op).key, calls[c].read), "store")
  <2>0. PICK record : record = Record(Enrolled(op).actors, Enrolled(op).key, calls[c].read)
    OBVIOUS
  <2>1. /\ record \in StoredRecord /\ record.actor = service'.actors /\ record.key = service'.key
        /\ record.next = 1 /\ record.sent = 0 /\ record.pending = None
    BY <1>2, <1>7, <1>9, <2>0 DEF Record, StoredRecord, Service
  <2>2. Becomes(c, op, "store", record, calls[c].answer)
    BY <1>2, <1>9, <2>0, <2>1, Holding DEF Steps
  <2>3. /\ Exclusive' /\ QueueServes'
        /\ \A d \in Callers \ {c} : calls'[d].op = "none" /\ calls'[d].step = "idle" /\ calls'[d] = Idle
    BY <1>1, <1>3, <2>2, ManagerMoves DEF InQueue, Running
  <2>4. Types'
    BY <1>3, <1>4, <1>7, <2>2 DEF AccountInv, Types, Becomes
  <2>5. StepsOfOps'
    BY <1>1, <2>2, <2>3 DEF StepsOfOps, Becomes, Running
  <2>6. HoldsRecord' /\ Carries'
    BY <1>1, <1>3, <2>2, <2>3 DEF HoldsRecord, Carries, Becomes, Running
  <2>7. Sound(record)'
    <3>1. service'.actors \in 1 .. service'.actors /\ service'.actors \in 1 .. MaxCalls
      BY <1>2, <1>6, <1>7, <1>9, BoundsAssumption DEF Service
    <3>2. service'.max[service'.actors] = 0
      BY <1>2, <1>6, <1>9, <3>1 DEF AccountInv, Numbers, Service
    <3>3. record.pending \notin Pending
      BY <2>1, NoneAssumption
    <3> QED
      BY <1>2, <1>3, <1>6, <1>9, <2>1, <3>1, <3>2, <3>3 DEF Sound
  <2>8. Numbers'
    BY <1>1, <1>3, <1>7, <2>1, <2>2, <2>3, <2>7, NoneAssumption DEF Numbers, At, Becomes
  <2> QED
    BY <2>3, <2>4, <2>5, <2>6, <2>8 DEF AccountInv
<1> QED
  BY <1>5, <1>8, <1>9

\* The first record is stored: it is the enrolled device's, and nobody else holds one.
LEMMA FirstRecordIsStored ==
    ASSUME AccountInv, NEW c \in Callers, Store(c)
    PROVE  AccountInv'
<1>1. /\ calls[c].step = "store" /\ calls[c].op \in {"create", "recover"} /\ calls[c].op \in Managing
      /\ calls[c].record \in StoredRecord /\ Sound(calls[c].record)
  BY DEF Store, At, AccountInv, StepsOfOps, Numbers, Managing
<1>2. /\ config' = calls[c].record /\ syncQueue' = Append(syncQueue, c)
      /\ UNCHANGED <<service, workspace, committed, shown, made, faults>>
  BY DEF Store, Writes
<1>3. Becomes(c, calls[c].op, "queued", calls[c].record, calls[c].answer)
  BY <1>1, Holding DEF Store, Writes, AccountInv, Types, Steps
<1>4. \A d \in Callers \ {c} : calls'[d].op = "none" /\ calls'[d].step = "idle" /\ calls'[d] = Idle
  BY <1>1, <1>3, ManagesAlone DEF AccountInv, StepsOfOps, Becomes
<1>5. Types'
  BY <1>1, <1>2, <1>3 DEF AccountInv, Types, Becomes
<1>6. StepsOfOps' /\ Exclusive'
  BY <1>1, <1>3, <1>4 DEF StepsOfOps, Exclusive, Becomes, Running, Managing
<1>7. QueueServes'
  BY <1>1, <1>2, <1>3, Joining DEF AccountInv, Types, InQueue, Running
<1>8. HoldsRecord' /\ Carries'
  BY <1>3, <1>4 DEF HoldsRecord, Carries, Becomes, Running
<1>9. Numbers'
  <2>1. Sound(config)'
    BY <1>1, <1>2 DEF Sound
  <2>2. \A d \in Callers : ~At(d, "enroll")' /\ ~At(d, "store")'
    BY <1>3, <1>4 DEF At, Becomes
  <2> QED
    BY <1>2, <2>1, <2>2 DEF AccountInv, Numbers
<1> QED
  BY <1>5, <1>6, <1>7, <1>8, <1>9 DEF AccountInv

\* A synchronization that fails leaves the queue and the record.
LEMMA SynchronizationFails ==
    ASSUME AccountInv, NEW c \in Callers, syncQueue # <<>>, Head(syncQueue) = c,
           calls[c].step \in InQueue, Failed(c),
           UNCHANGED <<config, service, shown, made>>, {workspace', committed', faults'} \subseteq Nat
    PROVE  AccountInv'
<1>1. calls[c].op \in {"sync", "resolve", "create", "recover"} /\ calls \in [Callers -> CallRecord]
  BY DEF AccountInv, StepsOfOps, Types, InQueue
<1>2. PICK op, step, record :
         /\ op \in {calls[c].op, "none"} /\ step \in {"idle", "failed"}
         /\ Becomes(c, op, step, record, calls'[c].answer)
         /\ step = "idle" => op = "none" /\ calls'[c] = Idle
         /\ step = "failed" => op \in {"resolve", "create", "recover"}
  <2>1. CASE calls[c].op = "sync"
    <3>1. Becomes(c, "none", "idle", None, 0) /\ calls'[c] = Idle
      BY <1>1, <2>1, Returning DEF Failed
    <3> QED
      BY <3>1 DEF Becomes
  <2>2. CASE calls[c].op # "sync"
    <3>1. "failed" \in Steps
      BY DEF Steps
    <3>2. Becomes(c, calls[c].op, "failed", calls[c].record, calls[c].answer)
      BY <1>1, <2>2, <3>1, Going DEF Failed
    <3> QED
      BY <1>1, <2>2, <3>2 DEF Becomes
  <2> QED
    BY <2>1, <2>2
<1>3. /\ Exclusive' /\ QueueServes' /\ syncQueue' \in Seq(Callers)
      /\ \A d \in Callers \ {c} : calls'[d] = calls[d] /\ calls'[d].step \in Passive
  BY <1>2, RunnerLeaves DEF Failed, InQueue, Running
<1>4. \A d \in Callers : calls'[d].step \in Passive
  BY <1>2, <1>3 DEF Becomes, Passive
<1>5. Types'
  BY <1>2, <1>3 DEF AccountInv, Types, Becomes
<1>6. StepsOfOps'
  BY <1>2, <1>3 DEF AccountInv, StepsOfOps, Becomes, Running
<1>7. HoldsRecord' /\ Carries'
  BY <1>4 DEF HoldsRecord, Carries, Passive, Running
<1>8. Numbers'
  BY <1>4 DEF AccountInv, Numbers, Sound, At, Passive
<1> QED
  BY <1>3, <1>5, <1>6, <1>7, <1>8 DEF AccountInv

\* The synchronization that runs goes on with a record it has stored, or not
\* changed, and that is sound.
LEMMA SynchronizationGoesOn ==
    ASSUME AccountInv, NEW c \in Callers, syncQueue # <<>>, Head(syncQueue) = c, calls[c].step \in InQueue,
           NEW step \in Running, NEW record \in StoredRecord, NEW answer,
           Becomes(c, calls[c].op, step, record, answer), config' = record, Sound(config)',
           step \in {"capture", "exchange", "journal"} => record.pending = None,
           step = "journal" => answer < record.next,
           step \in {"resume", "commit", "settle"} => record.pending \in Pending,
           step = "settle" => committed' = record.pending.result,
           UNCHANGED <<syncQueue, shown, made>>, {workspace', committed', faults'} \subseteq Nat,
           service' \in Service,
           service'.exists = service.exists, service'.key = service.key, service'.actors = service.actors,
           \A a \in 1 .. MaxCalls : a > service.actors => service'.max[a] = 0
    PROVE  AccountInv'
<1>1. \A d \in Callers \ {c} : calls'[d] = calls[d] /\ calls'[d].step \in Passive
  BY HeadIsAlone DEF Becomes
<1>2. Types'
  BY DEF AccountInv, Types, Becomes
<1>3. StepsOfOps'
  BY <1>1 DEF AccountInv, StepsOfOps, Becomes, Running, InQueue
<1>4. Exclusive'
  BY DEF AccountInv, Exclusive, Becomes
<1>5. QueueServes'
  BY Standing DEF AccountInv, Types, InQueue
<1>6. HoldsRecord'
  BY <1>1 DEF HoldsRecord, Becomes, Passive, Running
<1>7. Numbers'
  <2>1. \A d \in Callers : ~At(d, "enroll")' /\ ~At(d, "store")'
    BY <1>1 DEF At, Becomes, Passive, Running
  <2> QED
    BY <2>1 DEF AccountInv, Numbers
<1>8. Carries'
  BY <1>1 DEF Carries, Becomes, Passive, Running
<1> QED
  BY <1>2, <1>3, <1>4, <1>5, <1>6, <1>7, <1>8 DEF AccountInv

\* What a running synchronization knows of its record and the queue.
LEMMA RunnerHolds ==
    ASSUME AccountInv, NEW c \in Callers, calls[c].step \in Running
    PROVE  /\ calls[c].record = config /\ config \in StoredRecord /\ Sound(config)
           /\ syncQueue # <<>> /\ Head(syncQueue) = c /\ calls[c].step \in InQueue
           /\ calls \in [Callers -> CallRecord] /\ calls[c] \in CallRecord /\ service \in Service
           /\ workspace \in Nat /\ committed \in Nat /\ faults \in Nat
  BY DEF AccountInv, Types, HoldsRecord, QueueServes, Numbers, InQueue

\* Reading the configuration keeps the invariant: nobody else is writing.
LEMMA ConfigIsRead ==
    ASSUME AccountInv, NEW c \in Callers, ReadConfig(c)
    PROVE  AccountInv'
<1>1. /\ calls[c].step \in InQueue /\ Head(syncQueue) = c /\ syncQueue # <<>>
      /\ UNCHANGED <<config, service, workspace, committed, shown, made, faults>>
      /\ {workspace', committed', faults'} \subseteq Nat
      /\ calls \in [Callers -> CallRecord]
  BY DEF ReadConfig, Turn, At, InQueue, AccountInv, Types, QueueServes
<1>2. CASE config = None
  BY <1>1, <1>2, SynchronizationFails DEF ReadConfig
<1>3. CASE config # None
  <2> DEFINE step == IF config.pending = None THEN "capture" ELSE "resume"
  <2>1. config \in StoredRecord /\ Sound(config) /\ step \in Running /\ step \in Steps
    BY <1>3 DEF AccountInv, Types, Numbers, Running, Steps
  <2>2. Holds(c, config, step) /\ syncQueue' = syncQueue
    BY <1>3 DEF ReadConfig
  <2>3. Becomes(c, calls[c].op, step, config, calls[c].answer)
    BY <1>1, <2>1, <2>2, Holding
  <2>4. step = "resume" => config.pending \in Pending
    BY <2>1 DEF StoredRecord
  <2>5. Sound(config)'
    BY <1>1, <2>1 DEF Sound
  <2> QED
    BY <1>1, <2>1, <2>2, <2>3, <2>4, <2>5, SynchronizationGoesOn DEF AccountInv, Types, Numbers
<1> QED
  BY <1>2, <1>3

\* Capturing a document only moves the next sequence number on.
LEMMA Capturing ==
    ASSUME NEW r \in StoredRecord, NEW document \in Nat
    PROVE  /\ Captured(r, document) \in StoredRecord
           /\ Captured(r, document).pending = r.pending /\ Captured(r, document).actor = r.actor
           /\ Captured(r, document).key = r.key /\ Captured(r, document).sent = r.sent
           /\ Captured(r, document).next >= r.next
<1>1. PICK next \in Nat : next = (IF document = r.baseline THEN r.next ELSE r.next + 1) /\ next >= r.next
  BY DEF StoredRecord
<1>2. Captured(r, document) = [r EXCEPT !.baseline = document, !.next = next]
  BY <1>1 DEF Captured
<1> QED
  BY <1>1, <1>2 DEF StoredRecord

\* An operation is captured: the record numbers it, before the service has it.
LEMMA OperationIsCaptured ==
    ASSUME AccountInv, NEW c \in Callers, Capture(c)
    PROVE  AccountInv'
<1>1. calls[c].step = "capture" /\ calls[c].step \in Running
  BY DEF Capture, At, Running
<1>2. PICK record : record = Captured(calls[c].record, calls[c].read)
  OBVIOUS
<1>3. /\ record \in StoredRecord /\ record.pending = None /\ record.actor = config.actor
      /\ record.key = config.key /\ record.sent = config.sent /\ record.next >= config.next
  <2>1. calls[c].record = config /\ config \in StoredRecord /\ calls[c].read \in Nat
    BY <1>1, RunnerHolds DEF CallRecord
  <2>2. config.pending = None
    BY <1>1 DEF AccountInv, Carries
  <2> QED
    BY <1>2, <2>1, <2>2, Capturing
<1>4. /\ config' = record /\ Holds(c, record, "exchange")
      /\ UNCHANGED <<syncQueue, service, workspace, committed, shown, made, faults>>
  BY <1>2 DEF Capture, Writes
<1>5. Becomes(c, calls[c].op, "exchange", record, calls[c].answer)
  BY <1>1, <1>3, <1>4, RunnerHolds, Holding DEF Steps, Running
<1>6. Sound(config)'
  <2>1. Sound(config) /\ config.next \in Nat /\ config.sent \in Nat /\ record.next \in Nat
    BY <1>1, <1>3, RunnerHolds DEF StoredRecord
  <2>2. record.pending \notin Pending
    BY <1>3, NoneAssumption
  <2>3. service.exists => service.max[config.actor] \in Nat
    <3>1. config.actor \in 1 .. service.actors /\ service.actors \in 0 .. MaxCalls
      BY <2>1, BoundsAssumption DEF AccountInv, Types, Numbers, Sound, Service
    <3> QED
      BY <3>1, BoundsAssumption DEF AccountInv, Types, Service
  <2> QED
    BY <1>3, <1>4, <2>1, <2>2, <2>3 DEF Sound
<1> QED
  BY <1>1, <1>3, <1>4, <1>5, <1>6, RunnerHolds, SynchronizationGoesOn DEF AccountInv, Numbers, Running

\* A push changes no number but the highest one of its own actor.
LEMMA Pushing ==
    ASSUME service \in Service, NEW r \in StoredRecord, r.actor \in 1 .. MaxCalls, r.next # 0
    PROVE  /\ Pushed(r) \in Service
           /\ Pushed(r).exists = service.exists /\ Pushed(r).key = service.key
           /\ Pushed(r).actors = service.actors
           /\ \A a \in 1 .. MaxCalls : a # r.actor => Pushed(r).max[a] = service.max[a]
           /\ Pushed(r).max[r.actor] = IF service.max[r.actor] < r.next - 1 THEN r.next - 1 ELSE service.max[r.actor]
<1>1. r.next - 1 \in Nat /\ service.max \in [1 .. MaxCalls -> Nat] /\ service.received + 1 \in Nat
  BY DEF StoredRecord, Service
<1>2. PICK highest \in Nat :
         highest = IF service.max[r.actor] < r.next - 1 THEN r.next - 1 ELSE service.max[r.actor]
  BY <1>1
<1>3. PICK max : max = [service.max EXCEPT ![r.actor] = highest]
  OBVIOUS
<1>4. /\ max \in [1 .. MaxCalls -> Nat] /\ max[r.actor] = highest
      /\ \A a \in 1 .. MaxCalls : a # r.actor => max[a] = service.max[a]
  BY <1>1, <1>3
<1>5. Pushed(r) = [service EXCEPT !.received = service.received + 1, !.max = max]
  BY <1>2, <1>3 DEF Pushed, Service
<1>6. /\ Pushed(r) \in Service /\ Pushed(r).max = max
      /\ Pushed(r).exists = service.exists /\ Pushed(r).key = service.key /\ Pushed(r).actors = service.actors
  BY <1>1, <1>4, <1>5 DEF Service
<1> QED
  BY <1>2, <1>4, <1>6

\* The operations are exchanged, or the request or the answer is lost: the service
\* has no number the record has not handed out.
LEMMA OperationsAreExchanged ==
    ASSUME AccountInv, NEW c \in Callers, Exchange(c)
    PROVE  AccountInv'
<1>1. calls[c].step = "exchange" /\ calls[c].step \in Running
  BY DEF Exchange, At, Running
<1>2. /\ config.actor \in 1 .. MaxCalls /\ config.actor <= service.actors
      /\ config.next \in Nat \ {0} /\ config.pending = None
      /\ service.exists => service.max[config.actor] < config.next
  <2>1. config.actor \in 1 .. service.actors /\ config.sent < config.next /\ config.sent \in Nat /\ config.next \in Nat
    BY <1>1, RunnerHolds DEF Sound, StoredRecord
  <2>2. service.actors \in 0 .. MaxCalls
    BY BoundsAssumption DEF AccountInv, Types, Numbers, Service
  <2> QED
    BY <1>1, <2>1, <2>2, RunnerHolds, BoundsAssumption DEF Sound, AccountInv, Carries
<1>3. /\ UNCHANGED <<config, syncQueue, workspace, committed, shown, made>> /\ faults' \in Nat
      /\ config' = calls[c].record
  BY <1>1, RunnerHolds DEF Exchange, Faulty
<1>4. \/ service' = service /\ Goes(c, "catch")
      \/ service.exists /\ service' = Pushed(config) /\ (Goes(c, "catch") \/ Learns(c, config.next - 1, "journal"))
  BY <1>1, RunnerHolds DEF Exchange
<1>5. /\ service' \in Service
      /\ service'.exists = service.exists /\ service'.key = service.key /\ service'.actors = service.actors
      /\ \A a \in 1 .. MaxCalls : a > service.actors => service'.max[a] = 0
      /\ service.exists => service'.max[config.actor] < config.next
  <2>1. CASE service' = service
    BY <1>1, <1>2, <2>1, RunnerHolds DEF AccountInv, Numbers
  <2>2. CASE service.exists /\ service' = Pushed(config)
    <3>1. service'.max[config.actor] < config.next
      <4>1. service'.max[config.actor]
              = IF service.max[config.actor] < config.next - 1 THEN config.next - 1 ELSE service.max[config.actor]
        BY <1>1, <1>2, <2>2, RunnerHolds, Pushing
      <4>2. config.next - 1 < config.next /\ service.max[config.actor] < config.next
        BY <1>2, <2>2
      <4> QED
        BY <4>1, <4>2
    <3>2. \A a \in 1 .. MaxCalls : a > service.actors => a # config.actor
      BY <1>2 DEF AccountInv, Types, Service
    <3> QED
      BY <1>1, <1>2, <2>2, <3>1, <3>2, RunnerHolds, Pushing DEF AccountInv, Numbers
  <2> QED
    BY <1>4, <2>1, <2>2
<1>6. PICK step \in {"catch", "journal"}, answer \in Nat :
         /\ Becomes(c, calls[c].op, step, config, answer)
         /\ step = "journal" => answer < config.next
  <2>1. CASE Goes(c, "catch")
    <3>1. "catch" \in Steps
      BY DEF Steps, Running
    <3>2. Becomes(c, calls[c].op, "catch", config, calls[c].answer)
      BY <1>1, <2>1, <3>1, RunnerHolds, Going
    <3>3. calls[c].answer \in Nat
      BY <1>1, RunnerHolds DEF CallRecord
    <3> QED
      BY <3>2, <3>3
  <2>2. CASE Learns(c, config.next - 1, "journal")
    <3>1. "journal" \in Steps /\ config.next - 1 \in Nat /\ config.next - 1 < config.next
      BY <1>2 DEF Steps, Running
    <3>2. Becomes(c, calls[c].op, "journal", config, config.next - 1)
      BY <1>1, <2>2, <3>1, RunnerHolds, Learning
    <3> QED
      BY <3>1, <3>2
  <2> QED
    BY <1>4, <2>1, <2>2
<1>7. Sound(config)'
  BY <1>1, <1>2, <1>3, <1>5, RunnerHolds DEF Sound
<1>8. step \in Running /\ config' = config /\ {workspace', committed', faults'} \subseteq Nat
  BY <1>1, <1>3, RunnerHolds DEF Running
<1> QED
  BY <1>1, <1>2, <1>3, <1>5, <1>6, <1>7, <1>8, RunnerHolds, SynchronizationGoesOn

\* The result is journaled: what it says the service has was numbered before.
LEMMA ResultIsJournaled ==
    ASSUME AccountInv, NEW c \in Callers, Journal(c)
    PROVE  AccountInv'
<1>1. calls[c].step = "journal" /\ calls[c].step \in Running
  BY DEF Journal, At, Running
<1>2. calls[c].answer \in Nat /\ calls[c].answer < config.next /\ service.received \in Nat
  BY <1>1, RunnerHolds DEF AccountInv, Carries, CallRecord, Service
<1> DEFINE result == [result |-> service.received, sent |-> calls[c].answer]
<1>3. PICK pending : pending = result /\ pending \in Pending /\ pending.sent = calls[c].answer
  <2>1. result \in Pending /\ result.sent = calls[c].answer
    BY <1>2 DEF Pending
  <2> HIDE DEF result
  <2> QED
    BY <2>1
<1>4. PICK record : record = [config EXCEPT !.pending = pending]
  OBVIOUS
<1>5. /\ record \in StoredRecord /\ record.pending = pending /\ record.actor = config.actor
      /\ record.key = config.key /\ record.sent = config.sent /\ record.next = config.next
  BY <1>1, <1>3, <1>4, RunnerHolds DEF StoredRecord
<1>6. /\ config' = record /\ Holds(c, record, "commit")
      /\ UNCHANGED <<syncQueue, service, workspace, committed, shown, made, faults>>
  BY <1>1, <1>3, <1>4, RunnerHolds DEF Journal, Writes
<1>7. Becomes(c, calls[c].op, "commit", record, calls[c].answer)
  BY <1>1, <1>5, <1>6, RunnerHolds, Holding DEF Steps, Running
<1>8. Sound(config)'
  BY <1>1, <1>2, <1>3, <1>5, <1>6, RunnerHolds DEF Sound
<1> QED
  BY <1>1, <1>3, <1>5, <1>6, <1>7, <1>8, RunnerHolds, SynchronizationGoesOn DEF AccountInv, Numbers, Running

\* The workspace commits what is journaled, or fails to.
LEMMA ResultIsCommitted ==
    ASSUME AccountInv, NEW c \in Callers, Commit(c)
    PROVE  AccountInv'
<1>1. calls[c].step \in {"commit", "resume"} /\ calls[c].step \in Running
  BY DEF Commit, At, Running
<1>2. config.pending \in Pending /\ config.pending.result \in Nat /\ config.baseline \in Nat
  BY <1>1, RunnerHolds DEF AccountInv, Carries, Pending, StoredRecord
<1>3. UNCHANGED <<config, service, shown, made>>
  BY DEF Commit
<1>4. Sound(config)'
  BY <1>1, <1>3, RunnerHolds DEF Sound
<1>5. CASE /\ committed' = calls[c].record.pending.result
           /\ workspace' \in {calls[c].record.baseline} \cup (IF calls[c].op = "resolve" THEN {} ELSE {workspace})
           /\ Goes(c, "settle") /\ UNCHANGED <<syncQueue, faults>>
  <2>1. committed' = config.pending.result /\ {workspace', committed', faults'} \subseteq Nat
    BY <1>1, <1>2, <1>5, RunnerHolds
  <2>2. Becomes(c, calls[c].op, "settle", config, calls[c].answer)
    BY <1>1, <1>5, RunnerHolds, Going DEF Steps, Running
  <2> QED
    BY <1>1, <1>2, <1>3, <1>4, <1>5, <2>1, <2>2, RunnerHolds, SynchronizationGoesOn DEF AccountInv, Numbers, Running
<1>6. CASE /\ Faulty
           /\ IF At(c, "commit") THEN Goes(c, "catch") /\ UNCHANGED syncQueue ELSE Failed(c)
           /\ UNCHANGED <<workspace, committed>>
  <2>1. {workspace', committed', faults'} \subseteq Nat
    BY <1>1, <1>6, RunnerHolds DEF Faulty
  <2>2. CASE Goes(c, "catch") /\ UNCHANGED syncQueue
    <3>1. Becomes(c, calls[c].op, "catch", config, calls[c].answer)
      BY <1>1, <2>2, RunnerHolds, Going DEF Steps, Running
    <3> QED
      BY <1>1, <1>2, <1>3, <1>4, <1>6, <2>1, <2>2, <3>1, RunnerHolds, SynchronizationGoesOn
         DEF AccountInv, Numbers, Running
  <2>3. CASE Failed(c)
    BY <1>1, <1>3, <2>1, <2>3, RunnerHolds, SynchronizationFails
  <2> QED
    BY <1>6, <2>2, <2>3
<1> QED
  BY <1>5, <1>6 DEF Commit

\* The record is settled: what the service has of it is what was journaled.
LEMMA RecordIsSettled ==
    ASSUME AccountInv, NEW c \in Callers, Settle(c)
    PROVE  AccountInv'
<1>1. calls[c].step = "settle" /\ calls[c].step \in Running
  BY DEF Settle, At, Running
<1>2. config.pending \in Pending /\ config.pending.sent \in Nat /\ config.pending.sent < config.next
  BY <1>1, RunnerHolds DEF AccountInv, Carries, Pending, Sound
<1>3. PICK record : record = [config EXCEPT !.sent = config.pending.sent, !.pending = None]
  OBVIOUS
<1>4. /\ record \in StoredRecord /\ record.pending = None /\ record.actor = config.actor
      /\ record.key = config.key /\ record.sent = config.pending.sent /\ record.next = config.next
  BY <1>1, <1>2, <1>3, RunnerHolds DEF StoredRecord
<1>5. /\ config' = record /\ Holds(c, record, "acknowledge")
      /\ UNCHANGED <<syncQueue, service, workspace, committed, shown, made, faults>>
  BY <1>1, <1>3, RunnerHolds DEF Settle, Writes
<1>6. Becomes(c, calls[c].op, "acknowledge", record, calls[c].answer)
  BY <1>1, <1>4, <1>5, RunnerHolds, Holding DEF Steps, Running
<1>7. Sound(config)'
  <2>1. record.pending \notin Pending
    BY <1>4, NoneAssumption
  <2> QED
    BY <1>1, <1>2, <1>4, <1>5, <2>1, RunnerHolds DEF Sound
<1> QED
  BY <1>1, <1>4, <1>5, <1>6, <1>7, RunnerHolds, SynchronizationGoesOn DEF AccountInv, Numbers, Running

\* The synchronization succeeds; the key of a new account is shown, and is the record's.
LEMMA SynchronizationSucceeds ==
    ASSUME AccountInv, NEW c \in Callers, Acknowledge(c)
    PROVE  AccountInv'
<1>1. calls[c].step = "acknowledge" /\ calls[c].step \in Running
  BY DEF Acknowledge, At, Running
<1>2. /\ Leave /\ Return(c) /\ config' = config /\ faults' \in Nat
      /\ UNCHANGED <<service, workspace, committed, made>>
      /\ shown' \in {shown, config.key}
  BY <1>1, RunnerHolds DEF Acknowledge, Faulty
<1>3. Becomes(c, "none", "idle", None, 0) /\ calls'[c] = Idle
  BY <1>1, <1>2, RunnerHolds, Returning
<1>4. /\ Exclusive' /\ QueueServes' /\ syncQueue' \in Seq(Callers)
      /\ \A d \in Callers \ {c} : calls'[d] = calls[d] /\ calls'[d].step \in Passive
  BY <1>1, <1>2, <1>3, RunnerHolds, RunnerLeaves DEF InQueue, Running
<1>5. \A d \in Callers : calls'[d].step \in Passive
  BY <1>3, <1>4 DEF Becomes, Passive
<1>6. config \in StoredRecord /\ Sound(config) /\ config.key \in Nat /\ service.key \in Nat
      /\ config.key <= service.key
  BY <1>1, RunnerHolds DEF StoredRecord, Service, Sound
<1>7. Types'
  BY <1>2, <1>3, <1>4, <1>6 DEF AccountInv, Types, Becomes
<1>8. StepsOfOps'
  BY <1>3, <1>4 DEF AccountInv, StepsOfOps, Becomes, Running
<1>9. HoldsRecord' /\ Carries'
  BY <1>5 DEF HoldsRecord, Carries, Passive, Running
<1>10. Numbers'
  <2>1. shown' # None => config.key >= shown' /\ shown' <= service.key
    BY <1>2, <1>6 DEF Sound, AccountInv, Numbers
  <2> QED
    BY <1>2, <1>5, <1>6, <2>1 DEF AccountInv, Numbers, Sound, At, Passive
<1> QED
  BY <1>4, <1>7, <1>8, <1>9, <1>10 DEF AccountInv

\* A failure is caught: the record that is written back is the stored one.
LEMMA FailureIsCaught ==
    ASSUME AccountInv, NEW c \in Callers, Catch(c)
    PROVE  AccountInv'
<1>1. calls[c].step = "catch" /\ calls[c].step \in Running
  BY DEF Catch, At, Running
<1>2. /\ config' = config /\ Failed(c)
      /\ UNCHANGED <<service, workspace, committed, shown, made, faults>>
  BY <1>1, RunnerHolds DEF Catch
<1> QED
  BY <1>1, <1>2, RunnerHolds, SynchronizationFails

\* A caller handles its failure: who forgets the record is alone.
LEMMA FailureIsHandled ==
    ASSUME AccountInv, NEW c \in Callers, HandleFailure(c)
    PROVE  AccountInv'
<1>1. calls[c].step = "failed" /\ calls[c].op \in {"resolve", "create", "recover"} /\ calls \in [Callers -> CallRecord]
  BY DEF HandleFailure, At, AccountInv, StepsOfOps, Types
<1>2. /\ config' \in {config, None} /\ (calls[c].op = "resolve" => config' = config)
      /\ Return(c) /\ workspace' \in Nat
      /\ UNCHANGED <<syncQueue, service, committed, shown, made, faults>>
  BY <1>1 DEF HandleFailure, Clears, AccountInv, Types, CallRecord
<1>3. Becomes(c, "none", "idle", None, 0) /\ calls'[c] = Idle
  BY <1>1, <1>2, Returning
<1>4. \A d \in Callers \ {c} : calls'[d] = calls[d]
  BY <1>3 DEF Becomes
<1>5. calls[c].op # "resolve" => \A d \in Callers : calls'[d].step = "idle"
  BY <1>1, <1>3, <1>4, ManagesAlone DEF Managing, Becomes
<1>6. Types'
  BY <1>2, <1>3 DEF AccountInv, Types, Becomes
<1>7. StepsOfOps' /\ Exclusive'
  BY <1>1, <1>3, <1>4 DEF AccountInv, StepsOfOps, Exclusive, Becomes, Running, Managing
<1>8. QueueServes'
  BY <1>1, <1>2, <1>3, Standing DEF AccountInv, Types, InQueue, Running
<1>9. CASE config' = config
  <2>1. HoldsRecord' /\ Carries'
    BY <1>1, <1>2, <1>3, <1>4, <1>9 DEF AccountInv, HoldsRecord, Carries, Becomes, Running
  <2>2. Numbers'
    BY <1>2, <1>3, <1>4, <1>9 DEF AccountInv, Numbers, Sound, At, Becomes
  <2> QED
    BY <1>6, <1>7, <1>8, <2>1, <2>2 DEF AccountInv
<1>10. CASE config' = None /\ calls[c].op # "resolve"
  <2>1. HoldsRecord' /\ Carries'
    BY <1>5, <1>10 DEF HoldsRecord, Carries, Running
  <2>2. Numbers'
    BY <1>2, <1>5, <1>10, NoneAssumption DEF AccountInv, Numbers, At
  <2> QED
    BY <1>6, <1>7, <1>8, <2>1, <2>2 DEF AccountInv
<1> QED
  BY <1>2, <1>9, <1>10

\* A caller with the record in its hands, outside the queue, is a manager.
LEMMA ManagerHolds ==
    ASSUME AccountInv, NEW c \in Callers, calls[c].step \in {"request", "rotate", "show", "delete"}
    PROVE  /\ calls[c].op \in {"rotate", "delete"} /\ calls[c].op \in Managing
           /\ calls[c].step \in {"rotate", "delete"} => calls[c].step = calls[c].op
           /\ calls[c].record = config /\ config \in StoredRecord /\ Sound(config)
           /\ calls \in [Callers -> CallRecord] /\ calls[c] \in CallRecord /\ service \in Service
           /\ config.key \in Nat /\ service.key \in Nat /\ config.key <= service.key
           /\ calls[c].step \notin InQueue
  BY DEF AccountInv, StepsOfOps, HoldsRecord, Numbers, Types, Managing, InQueue, Running, Sound, StoredRecord, Service

\* The service replaces the key or deletes the account, or does not hear of it.
LEMMA ServiceIsAsked ==
    ASSUME AccountInv, NEW c \in Callers, Request(c)
    PROVE  AccountInv'
<1> DEFINE op == calls[c].op
<1>1. calls[c].step = "request" /\ calls[c].step \in {"request", "rotate", "show", "delete"}
  BY DEF Request, At
<1>2. /\ UNCHANGED <<config, syncQueue, workspace, committed, shown, made>> /\ faults' \in Nat
  BY DEF Request, Lost, Faulty, AccountInv, Types
<1>3. PICK changed \in Service :
         /\ changed.max = service.max /\ changed.actors = service.actors
         /\ changed.key \in Nat /\ changed.key >= service.key
         /\ changed.exists => service.exists
         /\ \/ Return(c) /\ (service' = service \/ service' = changed)
            \/ service.exists /\ service' = changed /\ Learns(c, changed.key, op)
         /\ op = "rotate" => changed.key = service.key + 1
  <2>1. CASE op = "rotate"
    <3>1. PICK changed : changed = [service EXCEPT !.key = service.key + 1]
      OBVIOUS
    <3>2. /\ changed \in Service /\ changed.max = service.max /\ changed.actors = service.actors
          /\ changed.key = service.key + 1 /\ changed.exists = service.exists
      BY <1>1, <3>1, ManagerHolds DEF Service
    <3>3. \/ Return(c) /\ (service' = service \/ service' = changed)
          \/ service.exists /\ service' = changed /\ Learns(c, changed.key, op)
      BY <2>1, <3>1 DEF Request, Lost
    <3> QED
      BY <1>1, <3>2, <3>3, ManagerHolds
  <2>2. CASE op # "rotate"
    <3>1. PICK changed : changed = [service EXCEPT !.exists = FALSE]
      OBVIOUS
    <3>2. /\ changed \in Service /\ changed.max = service.max /\ changed.actors = service.actors
          /\ changed.key = service.key /\ ~changed.exists
      BY <1>1, <3>1, ManagerHolds DEF Service
    <3>3. \/ Return(c) /\ (service' = service \/ service' = changed)
          \/ service.exists /\ service' = changed /\ Learns(c, changed.key, op)
      BY <2>2, <3>1 DEF Request, Lost
    <3> QED
      BY <1>1, <2>2, <3>2, <3>3, ManagerHolds
  <2> QED
    BY <2>1, <2>2
<1>4. service' \in {service, changed}
  BY <1>3
<1>5. PICK newOp \in {op, "none"}, step \in {"idle", "rotate", "delete"}, record \in {None, config}, answer \in Nat :
         /\ Becomes(c, newOp, step, record, answer)
         /\ step = "idle" => newOp = "none" /\ calls'[c] = Idle
         /\ step # "idle" => newOp = op /\ step = op /\ record = config
         /\ step = "rotate" => answer = service'.key /\ answer >= service.key /\ answer # 0
  <2>1. CASE Return(c)
    <3>1. Becomes(c, "none", "idle", None, 0) /\ calls'[c] = Idle
      BY <1>1, <2>1, ManagerHolds, Returning
    <3> QED
      BY <3>1
  <2>2. CASE service' = changed /\ Learns(c, changed.key, op)
    <3>1. op \in Steps /\ op \in {"rotate", "delete"}
      BY <1>1, ManagerHolds DEF Steps
    <3>2. Becomes(c, op, op, config, changed.key)
      BY <1>1, <1>3, <2>2, <3>1, ManagerHolds, Learning
    <3>3. op = "rotate" => changed.key # 0
      BY <1>1, <1>3, ManagerHolds
    <3> QED
      BY <1>3, <2>2, <3>1, <3>2, <3>3
  <2> QED
    BY <1>3, <2>1, <2>2
<1>6. /\ Exclusive' /\ QueueServes'
      /\ \A d \in Callers \ {c} : calls'[d].op = "none" /\ calls'[d].step = "idle" /\ calls'[d] = Idle
  BY <1>1, <1>2, <1>5, ManagerHolds, ManagerMoves DEF InQueue, Running
<1>7. Types'
  BY <1>2, <1>3, <1>5, ManagerHolds DEF AccountInv, Types, Becomes
<1>8. StepsOfOps'
  BY <1>1, <1>5, <1>6, ManagerHolds DEF StepsOfOps, Becomes, Running
<1>9. HoldsRecord'
  BY <1>1, <1>2, <1>5, <1>6, ManagerHolds DEF HoldsRecord, Becomes, Running
<1>10. Carries'
  <2>1. shown # None => shown \in Nat /\ shown <= service.key
    BY DEF AccountInv, Numbers, Types
  <2>2. ASSUME step = "rotate" PROVE answer \in 1 .. service'.key /\ (shown' # None => answer >= shown')
    BY <1>1, <1>2, <1>5, <2>1, <2>2, ManagerHolds
  <2> QED
    BY <1>5, <1>6, <2>2 DEF Carries, Becomes
<1>11. Numbers'
  <2>1. service'.actors = service.actors /\ service'.max = service.max /\ service'.key >= service.key
        /\ service'.key \in Nat /\ (service'.exists => service.exists)
    BY <1>1, <1>3, <1>4, ManagerHolds
  <2>2. \A d \in Callers : ~At(d, "enroll")' /\ ~At(d, "store")'
    BY <1>5, <1>6 DEF At, Becomes
  <2>3. Sound(config)'
    BY <1>1, <1>2, <2>1, ManagerHolds DEF Sound
  <2>4. shown # None => shown \in Nat /\ shown <= service.key
    BY DEF AccountInv, Numbers, Types
  <2>5. service'.exists => service'.key \in Nat \ {0}
    BY <1>1, <2>1, ManagerHolds DEF AccountInv, Numbers
  <2> QED
    BY <1>1, <1>2, <2>1, <2>2, <2>3, <2>4, <2>5, ManagerHolds DEF AccountInv, Numbers
<1> QED
  BY <1>6, <1>7, <1>8, <1>9, <1>10, <1>11 DEF AccountInv

\* The new key is stored before it is shown.
LEMMA KeyIsStored ==
    ASSUME AccountInv, NEW c \in Callers, StoreKey(c)
    PROVE  AccountInv'
<1>1. /\ calls[c].step = "rotate" /\ calls[c].step \in {"request", "rotate", "show", "delete"}
      /\ calls[c].answer \in 1 .. service.key /\ (shown # None => calls[c].answer >= shown)
  BY DEF StoreKey, At, AccountInv, Carries
<1>2. PICK record : record = [config EXCEPT !.key = calls[c].answer]
  OBVIOUS
<1>3. /\ record \in StoredRecord /\ record.pending = config.pending /\ record.actor = config.actor
      /\ record.key = calls[c].answer /\ record.sent = config.sent /\ record.next = config.next
  BY <1>1, <1>2, ManagerHolds DEF StoredRecord
<1>4. /\ config' = record /\ Holds(c, record, "show")
      /\ UNCHANGED <<syncQueue, service, workspace, committed, shown, made, faults>>
  BY <1>1, <1>2, ManagerHolds DEF StoreKey, Writes
<1>5. Becomes(c, calls[c].op, "show", record, calls[c].answer)
  BY <1>1, <1>3, <1>4, ManagerHolds, Holding DEF Steps
<1>6. /\ Exclusive' /\ QueueServes'
      /\ \A d \in Callers \ {c} : calls'[d].op = "none" /\ calls'[d].step = "idle" /\ calls'[d] = Idle
  BY <1>1, <1>4, <1>5, ManagerHolds, ManagerMoves DEF InQueue, Running
<1>7. Types'
  BY <1>3, <1>4, <1>5 DEF AccountInv, Types, Becomes
<1>8. StepsOfOps'
  BY <1>1, <1>5, <1>6, ManagerHolds DEF StepsOfOps, Becomes, Running
<1>9. HoldsRecord'
  BY <1>3, <1>4, <1>5, <1>6 DEF HoldsRecord, Becomes, Running
<1>10. Carries'
  BY <1>1, <1>3, <1>4, <1>5, <1>6 DEF Carries, Becomes
<1>11. Numbers'
  <2>1. Sound(config)'
    BY <1>1, <1>3, <1>4, ManagerHolds DEF Sound
  <2>2. \A d \in Callers : ~At(d, "enroll")' /\ ~At(d, "store")'
    BY <1>5, <1>6 DEF At, Becomes
  <2> QED
    BY <1>4, <2>1, <2>2 DEF AccountInv, Numbers
<1> QED
  BY <1>6, <1>7, <1>8, <1>9, <1>10, <1>11 DEF AccountInv

\* A manager ends: the new key is shown, or the record of a deleted account removed.
LEMMA ManagementEnds ==
    ASSUME AccountInv, NEW c \in Callers, ShowKey(c) \/ Remove(c)
    PROVE  AccountInv'
<1>1. calls[c].step \in {"show", "delete"} /\ calls[c].step \in {"request", "rotate", "show", "delete"}
  BY DEF ShowKey, Remove, At
<1>2. /\ Return(c) /\ UNCHANGED <<syncQueue, service, workspace, committed, made, faults>>
      /\ \/ config' = config /\ shown' = config.key
         \/ config' = None /\ shown' = shown
  BY <1>1 DEF ShowKey, Remove, At, AccountInv, Carries
<1>3. Becomes(c, "none", "idle", None, 0) /\ calls'[c] = Idle
  BY <1>1, <1>2, ManagerHolds, Returning
<1>4. /\ Exclusive' /\ QueueServes'
      /\ \A d \in Callers \ {c} : calls'[d].op = "none" /\ calls'[d].step = "idle" /\ calls'[d] = Idle
  BY <1>1, <1>2, <1>3, ManagerHolds, ManagerMoves DEF InQueue, Running
<1>5. \A d \in Callers : calls'[d].op = "none" /\ calls'[d].step = "idle" /\ calls'[d] = Idle
  BY <1>3, <1>4 DEF Becomes
<1>6. Types'
  BY <1>1, <1>2, <1>3, ManagerHolds DEF AccountInv, Types, Becomes
<1>7. StepsOfOps' /\ HoldsRecord' /\ Carries'
  BY <1>5 DEF StepsOfOps, HoldsRecord, Carries, Running
<1>8. Numbers'
  BY <1>1, <1>2, <1>5, ManagerHolds, NoneAssumption DEF AccountInv, Numbers, Sound, At
<1> QED
  BY <1>4, <1>6, <1>7, <1>8 DEF AccountInv

\* What is not the device's: its user edits, another device replaces the key, the process is killed.
LEMMA OthersMove ==
    ASSUME AccountInv, Edit \/ OtherDeviceRotates \/ Crash
    PROVE  AccountInv'
<1>1. CASE Edit
  <2>1. /\ workspace' \in Nat
        /\ UNCHANGED <<config, syncQueue, calls, service, committed, shown, made, faults>>
    BY <1>1 DEF Edit, AccountInv, Types
  <2> QED
    BY <2>1 DEF AccountInv, Types, StepsOfOps, Exclusive, QueueServes, HoldsRecord, Numbers, Sound, At, Carries
<1>2. CASE OtherDeviceRotates
  <2>1. /\ service \in Service /\ service.key \in Nat /\ service.key + 1 \in Nat /\ made < MaxCalls
        /\ service' = [service EXCEPT !.key = service.key + 1] /\ made' = made + 1
        /\ UNCHANGED <<config, syncQueue, calls, workspace, committed, shown, faults>>
    BY <1>2 DEF OtherDeviceRotates, AccountInv, Types, Service
  <2>2. /\ service' \in Service /\ service'.exists = service.exists /\ service'.actors = service.actors
        /\ service'.max = service.max /\ service'.key = service.key + 1
    BY <2>1 DEF Service
  <2>3. Types'
    BY <2>1, <2>2, BoundsAssumption DEF AccountInv, Types
  <2>4. StepsOfOps' /\ Exclusive' /\ QueueServes' /\ HoldsRecord'
    BY <2>1 DEF AccountInv, StepsOfOps, Exclusive, QueueServes, HoldsRecord
  <2>5. Carries'
    BY <2>1, <2>2 DEF AccountInv, Carries
  <2>6. shown # None => shown \in Nat /\ shown <= service'.key
    BY <2>1, <2>2 DEF AccountInv, Numbers, Types
  <2>7. ASSUME NEW r \in StoredRecord, Sound(r) PROVE r.key \in 1 .. service'.key
    BY <2>1, <2>2, <2>7 DEF Sound, StoredRecord
  <2>8. config \in StoredRecord => Sound(config)'
    BY <2>1, <2>2, <2>7 DEF AccountInv, Numbers, Sound
  <2>9. ASSUME NEW c \in Callers, At(c, "store")' PROVE calls[c].record \in StoredRecord /\ Sound(calls[c].record)'
    <3>1. At(c, "store") /\ calls[c].record \in StoredRecord /\ Sound(calls[c].record)
      BY <2>1, <2>9 DEF AccountInv, Numbers, At
    <3> QED
      BY <2>1, <2>2, <2>7, <3>1 DEF Sound
  <2>10. service.actors \in Nat /\ made \in Nat
    BY <2>1, BoundsAssumption DEF AccountInv, Types, Service
  <2>11. Numbers'
    BY <2>1, <2>2, <2>6, <2>8, <2>9, <2>10 DEF AccountInv, Numbers, At
  <2> QED
    BY <2>3, <2>4, <2>5, <2>11 DEF AccountInv
<1>3. CASE Crash
  <2>1. /\ calls' = [c \in Callers |-> Idle] /\ syncQueue' = <<>> /\ faults' \in Nat
        /\ UNCHANGED <<config, service, workspace, committed, shown, made>>
    BY <1>3 DEF Crash, Faulty, AccountInv, Types
  <2>2. \A c \in Callers : calls'[c] = Idle /\ calls'[c].op = "none" /\ calls'[c].step = "idle"
    BY <2>1, IdleIsACall
  <2>3. Types'
    BY <2>1, IdleIsACall DEF AccountInv, Types
  <2>4. StepsOfOps' /\ Exclusive' /\ QueueServes' /\ HoldsRecord' /\ Carries'
    BY <2>1, <2>2 DEF StepsOfOps, Exclusive, QueueServes, HoldsRecord, Carries, Managing, Running
  <2>5. Numbers'
    BY <2>1, <2>2 DEF AccountInv, Numbers, Sound, At
  <2> QED
    BY <2>3, <2>4, <2>5 DEF AccountInv
<1> QED
  BY <1>1, <1>2, <1>3

-----------------------------------------------------------------------------
(* The theorems. *)

\* The invariant holds in the initial state.
LEMMA InitialState == Init => AccountInv
<1> SUFFICES ASSUME Init PROVE AccountInv
  OBVIOUS
<1>1. \A c \in Callers : calls[c] = Idle /\ calls[c].op = "none" /\ calls[c].step = "idle"
  BY IdleIsACall DEF Init
<1>2. /\ service \in Service /\ service.exists = FALSE /\ service.actors = 0
      /\ \A a \in 1 .. MaxCalls : service.max[a] = 0
  BY BoundsAssumption DEF Init, Service
<1>3. Types
  BY <1>2, BoundsAssumption, IdleIsACall DEF Init, Types
<1>4. StepsOfOps /\ Exclusive /\ QueueServes /\ HoldsRecord /\ Carries
  BY <1>1 DEF Init, StepsOfOps, Exclusive, QueueServes, HoldsRecord, Carries, Managing, Running
<1>5. Numbers
  BY <1>1, <1>2, NoneAssumption DEF Init, Numbers, At
<1> QED
  BY <1>3, <1>4, <1>5 DEF AccountInv

\* Every step keeps the invariant.
LEMMA EveryStep ==
    ASSUME Alone, AccountInv, [Next]_vars
    PROVE  AccountInv'
<1>1. CASE UNCHANGED vars
  BY <1>1 DEF vars, AccountInv, Types, StepsOfOps, Exclusive, QueueServes, HoldsRecord, Numbers, Sound, At, Carries
<1>2. ASSUME NEW c \in Callers, Step(c) PROVE AccountInv'
  BY <1>2, SynchronizationsBegin, ManagementBegins, DisconnectionRemoves, EnrollmentAnswers, FirstRecordIsStored,
     ConfigIsRead, OperationIsCaptured, OperationsAreExchanged, ResultIsJournaled, ResultIsCommitted,
     RecordIsSettled, SynchronizationSucceeds, FailureIsCaught, FailureIsHandled, ServiceIsAsked,
     KeyIsStored, ManagementEnds DEF Step
<1> QED
  BY <1>1, <1>2, OthersMove DEF Next

\* The inductive invariant of the stored configuration: the record a caller holds is
\* the stored one, and it numbers and keys what the service knows.
THEOREM AccountInvariant ==
    ASSUME Alone
    PROVE  Spec => []AccountInv
<1>1. Init => AccountInv
  BY InitialState
<1>2. AccountInv /\ [Next]_vars => AccountInv'
  BY EveryStep
<1> QED
  BY <1>1, <1>2, PTL DEF Spec

\* The stored record is right about the service and the user, and the device never
\* numbers an operation again, whatever fails or crashes: provided that no account
\* operation runs while another call to the manager does, from whatever surface.
\* Synchronizations and resolutions may overlap; they wait in the queue.
THEOREM RecordStaysCurrent ==
    ASSUME Alone
    PROVE  Spec => []RecordIsCurrent
<1>1. ASSUME AccountInv PROVE RecordIsCurrent
  <2>1. config # None => config \in StoredRecord /\ Sound(config)
    BY <1>1 DEF AccountInv, Types, Numbers
  <2>2. config # None => (config.pending # None => config.pending \in Pending)
    BY <2>1 DEF StoredRecord
  <2>3. \A c \in Callers : calls[c].step \in Running => syncQueue # <<>> /\ Head(syncQueue) = c
    BY <1>1 DEF AccountInv, QueueServes
  <2> QED
    BY <2>1, <2>2, <2>3 DEF RecordIsCurrent, AccountTypeOK, NumberingAhead, StoredKeyIsNotOlder, Sound
<1>2. AccountInv => RecordIsCurrent
  BY <1>1
<1> QED
  BY <1>2, AccountInvariant, PTL

\* Who changes the stored record, other than by removing it.
Writer(c) == Store(c) \/ Capture(c) \/ Journal(c) \/ Settle(c) \/ StoreKey(c)

\* Only a caller that is about to write changes the configuration, but for dropping it.
LEMMA WhoWrites ==
    ASSUME AccountInv, [Next]_vars, config' # config, config' # None
    PROVE  \E c \in Callers : Writer(c)
<1>1. ~(UNCHANGED vars) /\ ~Edit /\ ~OtherDeviceRotates /\ ~Crash
  BY DEF vars, Edit, OtherDeviceRotates, Crash
<1>2. PICK c \in Callers : Step(c)
  BY <1>1 DEF Next
<1>3. ~BeginSync(c) /\ ~BeginResolve(c) /\ ~BeginConnect(c) /\ ~BeginOnRecord(c) /\ ~Disconnect(c)
  BY DEF BeginSync, BeginResolve, BeginConnect, BeginOnRecord, Disconnect
<1>4. ~Enroll(c) /\ ~ReadConfig(c) /\ ~Exchange(c) /\ ~Commit(c) /\ ~Request(c)
  BY DEF Enroll, ReadConfig, Exchange, Commit, Request
<1>5. ~ShowKey(c) /\ ~Remove(c) /\ ~HandleFailure(c)
  BY DEF ShowKey, Remove, HandleFailure
<1>6. ~Acknowledge(c) /\ ~Catch(c)
  BY RunnerHolds DEF Acknowledge, Catch, At, Running
<1> QED
  BY <1>2, <1>3, <1>4, <1>5, <1>6 DEF Step, Writer

\* Only the writer moves, and it holds the stored record or writes the first one.
LEMMA WriterHolds ==
    ASSUME AccountInv, NEW c \in Callers, Writer(c)
    PROVE  /\ \A d \in Callers \ {c} : calls'[d] = calls[d]
           /\ \/ config = None /\ At(c, "store")
              \/ config \in StoredRecord /\ calls[c].record = config
<1>1. \A d \in Callers \ {c} : calls'[d] = calls[d]
  <2>1. calls \in [Callers -> CallRecord]
    BY DEF AccountInv, Types
  <2>2. \E record, step : Holds(c, record, step)
    BY DEF Writer, Store, Capture, Journal, Settle, StoreKey, Writes
  <2> QED
    BY <2>1, <2>2 DEF Holds
<1>2. calls[c].step \in {"store", "rotate"} \cup {"capture", "journal", "settle"}
  BY DEF Writer, Store, Capture, Journal, Settle, StoreKey, At
<1>3. CASE calls[c].step = "store"
  BY <1>1, <1>3 DEF AccountInv, HoldsRecord, At
<1>4. CASE calls[c].step = "rotate"
  BY <1>1, <1>4, ManagerHolds
<1>5. CASE calls[c].step \in {"capture", "journal", "settle"}
  BY <1>1, <1>5, RunnerHolds DEF Running
<1> QED
  BY <1>2, <1>3, <1>4, <1>5

\* A journaled result leaves the record only when the workspace has committed it,
\* whatever fails or crashes, provided that no account operation overlaps with it.
THEOREM JournalsAreCommitted ==
    ASSUME Alone
    PROVE  Spec => JournalIsCommitted
<1>1. ASSUME AccountInv, [Next]_vars, config # None, config' # None, config.pending # None,
             config'.pending # config.pending
      PROVE  committed = config.pending.result
  <2>1. PICK c \in Callers : Writer(c)
    BY <1>1, WhoWrites
  <2>2. config \in StoredRecord /\ calls[c].record = config /\ calls[c].step # "store"
    BY <1>1, <2>1, WriterHolds DEF AccountInv, HoldsRecord
  <2>3. ~Store(c)
    BY <2>2 DEF Store, At
  <2>4. ~Capture(c) /\ ~Journal(c)
    BY <1>1 DEF Capture, Journal, At, AccountInv, Carries
  <2>5. ~StoreKey(c)
    <3>1. StoreKey(c) => config' = [config EXCEPT !.key = calls[c].answer]
      BY <2>2 DEF StoreKey, Writes
    <3> QED
      BY <1>1, <2>2, <3>1 DEF StoredRecord
  <2>6. calls[c].step = "settle"
    BY <2>1, <2>3, <2>4, <2>5 DEF Writer, Settle, At
  <2> QED
    BY <1>1, <2>6 DEF AccountInv, Carries
<1>2. AccountInv /\ [Next]_vars =>
        [config # None /\ config' # None /\ config.pending # None /\ config'.pending # config.pending
            => committed = config.pending.result]_vars
  BY <1>1
<1> QED
  BY <1>2, AccountInvariant, PTL DEF Spec, JournalIsCommitted

-----------------------------------------------------------------------------
(* What holds whatever overlaps: no caller holds a record that could not be *)
(* stored, and the queue runs one synchronization at a time.                *)

\* A record that service s has numbered and keyed.
Complete(r, s) ==
    /\ r \in StoredRecord
    /\ r.actor \in 1 .. s.actors /\ r.key \in 1 .. s.key
    /\ r.sent < r.next
    /\ r.pending # None => r.pending.sent < r.next

\* The steps from which a caller may write the record it holds.
Writing == Running \cup {"store", "request", "rotate"}

\* What call x, whoever else is at work, has from service s.
CallComplete(x, s) ==
    /\ x.step \in Writing => Complete(x.record, s)
    /\ x.step = "journal" => x.answer < x.record.next
    /\ x.step \in {"resume", "commit", "settle"} => x.record.pending # None
    /\ x.step = "rotate" => x.answer \in 1 .. s.key
    /\ x.step = "enroll" => x.op \in {"create", "recover"}
    /\ x.step = "request" => x.op \in {"rotate", "delete"}

OverlapInv ==
    /\ Types /\ QueueServes
    /\ service.exists => service.key # 0
    /\ config # None => Complete(config, service)
    /\ \A c \in Callers : CallComplete(calls[c], service)

\* A record stays complete while the service hands out keys and actors.
LEMMA CompleteStays ==
    ASSUME NEW r, NEW s \in Service, NEW t \in Service, Complete(r, s),
           s.actors <= t.actors, s.key <= t.key
    PROVE  Complete(r, t)
<1>1. {s.actors, t.actors, s.key, t.key} \subseteq Nat
  BY DEF Service
<1> QED
  BY <1>1 DEF Complete

\* A step of one caller keeps the invariant when the caller holds what it may, the
\* queue serves and the record that is stored is complete.
LEMMA OneMoves ==
    ASSUME OverlapInv, NEW c \in Callers, NEW op, NEW step, NEW record, NEW answer,
           Becomes(c, op, step, record, answer), CallComplete(calls'[c], service'),
           syncQueue' \in Seq(Callers), QueueServes',
           service' \in Service, service.actors <= service'.actors, service.key <= service'.key,
           service'.exists => service'.key # 0,
           config' = None \/ config' = config \/ Complete(config', service'),
           {workspace', committed', faults'} \subseteq Nat, shown' \in Nat \cup {None}, made' \in 0 .. MaxCalls
    PROVE  OverlapInv'
<1>1. config' # None => Complete(config', service')
  BY CompleteStays DEF OverlapInv, Types
<1>2. Types'
  BY <1>1 DEF OverlapInv, Types, Becomes, Complete
<1>3. ASSUME NEW d \in Callers PROVE CallComplete(calls'[d], service')
  <2>1. CASE d = c
    BY <2>1
  <2>2. CASE d # c
    <3>1. calls'[d] = calls[d] /\ CallComplete(calls[d], service)
      BY <2>2 DEF Becomes, OverlapInv
    <3>2. calls[d].step \in Writing => Complete(calls[d].record, service')
      BY <3>1, CompleteStays DEF OverlapInv, Types, CallComplete
    <3>3. calls[d].step = "rotate" => calls[d].answer \in 1 .. service'.key
      <4>1. service.key \in Nat /\ service'.key \in Nat
        BY DEF OverlapInv, Types, Service
      <4> QED
        BY <3>1, <4>1 DEF CallComplete
    <3> QED
      BY <3>1, <3>2, <3>3 DEF CallComplete
  <2> QED
    BY <2>1, <2>2
<1> QED
  BY <1>1, <1>2, <1>3 DEF OverlapInv

\* The same for a step that leaves the service and the queue alone.
LEMMA OneMovesHere ==
    ASSUME OverlapInv, NEW c \in Callers, NEW op, NEW step, NEW record, NEW answer,
           Becomes(c, op, step, record, answer), CallComplete(calls'[c], service),
           calls[c].step \in InQueue <=> step \in InQueue,
           step \in Running => syncQueue # <<>> /\ Head(syncQueue) = c,
           UNCHANGED <<service, syncQueue>>,
           config' = None \/ config' = config \/ Complete(config', service),
           {workspace', committed', faults'} \subseteq Nat, shown' \in Nat \cup {None}, made' \in 0 .. MaxCalls
    PROVE  OverlapInv'
<1>1. QueueServes' /\ syncQueue' \in Seq(Callers)
  BY Standing DEF OverlapInv, Types
<1>2. service' \in Service /\ service.actors <= service'.actors /\ service.key <= service'.key
      /\ (service'.exists => service'.key # 0)
  BY DEF OverlapInv, Types, Service
<1> QED
  BY <1>1, <1>2, OneMoves

\* A caller between calls, or at a step that writes nothing, holds what it may.
LEMMA HarmlessStep ==
    ASSUME NEW x, NEW s, x.step \in {"idle", "queued", "failed", "show", "delete"}
    PROVE  CallComplete(x, s)
  BY DEF CallComplete, Writing, Running

\* What a caller that runs has.
LEMMA RunnerHas ==
    ASSUME OverlapInv, NEW c \in Callers, calls[c].step \in Running
    PROVE  /\ Complete(calls[c].record, service) /\ calls[c].record \in StoredRecord
           /\ syncQueue # <<>> /\ Head(syncQueue) = c /\ calls[c].step \in InQueue
           /\ calls \in [Callers -> CallRecord] /\ calls[c] \in CallRecord /\ service \in Service
           /\ syncQueue \in Seq(Callers) /\ QueueServes /\ CallComplete(calls[c], service)
           /\ workspace \in Nat /\ committed \in Nat /\ faults \in Nat
           /\ shown \in Nat \cup {None} /\ made \in 0 .. MaxCalls
  BY DEF OverlapInv, Types, QueueServes, InQueue, CallComplete, Complete, Writing

\* A synchronization that fails leaves the queue, whoever waits behind it.
LEMMA FailureLeaves ==
    ASSUME OverlapInv, NEW c \in Callers, syncQueue # <<>>, Head(syncQueue) = c, Failed(c),
           UNCHANGED <<service, shown, made>>,
           config' = config \/ Complete(config', service),
           {workspace', committed', faults'} \subseteq Nat
    PROVE  OverlapInv'
<1>1. calls \in [Callers -> CallRecord] /\ "failed" \in Steps
  BY DEF OverlapInv, Types, Steps
<1>2. PICK op, step, record, answer : Becomes(c, op, step, record, answer) /\ step \in {"idle", "failed"}
  <2>1. CASE calls[c].op = "sync"
    BY <1>1, <2>1, Returning DEF Failed
  <2>2. CASE calls[c].op # "sync"
    <3>1. Becomes(c, calls[c].op, "failed", calls[c].record, calls[c].answer)
      BY <1>1, <2>2, Going DEF Failed
    <3> QED
      BY <3>1
  <2> QED
    BY <2>1, <2>2
<1>3. step \notin InQueue /\ Leave
  BY <1>2 DEF InQueue, Running, Failed
<1>4. QueueServes' /\ syncQueue' \in Seq(Callers)
  BY <1>2, <1>3, Leaving DEF OverlapInv, Types
<1>5. CallComplete(calls'[c], service')
  BY <1>2, HarmlessStep DEF Becomes
<1>6. /\ service' \in Service /\ service.actors <= service'.actors /\ service.key <= service'.key
      /\ service'.exists => service'.key # 0
      /\ shown' \in Nat \cup {None} /\ made' \in 0 .. MaxCalls
      /\ config' = config \/ Complete(config', service')
  BY DEF OverlapInv, Types, Service
<1> QED
  BY <1>2, <1>4, <1>5, <1>6, OneMoves

\* A call begins: it holds nothing, or the record it has read.
LEMMA CallsBegin ==
    ASSUME OverlapInv, NEW c \in Callers,
           BeginSync(c) \/ BeginResolve(c) \/ BeginConnect(c) \/ BeginOnRecord(c)
    PROVE  OverlapInv'
<1>1. /\ calls \in [Callers -> CallRecord] /\ calls[c].step = "idle" /\ made' \in 0 .. MaxCalls
      /\ workspace \in Nat /\ MaxEdits + made + 1 \in Nat /\ syncQueue \in Seq(Callers)
      /\ UNCHANGED <<config, service, workspace, committed, shown, faults>>
      /\ {workspace', committed', faults'} \subseteq Nat /\ shown' \in Nat \cup {None}
  BY IdleIsACall, BoundsAssumption
     DEF OverlapInv, Types, BeginSync, BeginResolve, BeginConnect, BeginOnRecord, Free
<1>2. CASE BeginSync(c) \/ BeginResolve(c)
  <2>1. PICK op \in {"sync", "resolve"}, read \in Nat :
               /\ syncQueue' = Append(syncQueue, c)
               /\ calls' = [calls EXCEPT ![c] = Call(op, "queued", read, None)]
    BY <1>1, <1>2 DEF BeginSync, BeginResolve
  <2>2. Becomes(c, op, "queued", None, 0)
    <3>1. op \in Operations /\ "queued" \in Steps
      BY <2>1 DEF Operations, Steps
    <3> QED
      BY <1>1, <2>1, <3>1, Calling
  <2>3. QueueServes' /\ syncQueue' \in Seq(Callers)
    <3>1. calls[c].step \notin InQueue
      BY <1>1 DEF InQueue, Running
    <3> QED
      BY <1>1, <2>1, <2>2, <3>1, Joining DEF OverlapInv
  <2>4. CallComplete(calls'[c], service')
    BY <2>2, HarmlessStep DEF Becomes
  <2>5. /\ service' \in Service /\ service.actors <= service'.actors /\ service.key <= service'.key
        /\ service'.exists => service'.key # 0
    BY <1>1 DEF OverlapInv, Types, Service
  <2> QED
    BY <1>1, <2>2, <2>3, <2>4, <2>5, OneMoves
<1>3. CASE BeginConnect(c)
  <2>1. PICK op \in {"create", "recover"} : calls' = [calls EXCEPT ![c] = Call(op, "enroll", workspace, None)]
    BY <1>3 DEF BeginConnect
  <2>2. Becomes(c, op, "enroll", None, 0)
    <3>1. op \in Operations /\ "enroll" \in Steps
      BY DEF Operations, Steps
    <3> QED
      BY <1>1, <2>1, <3>1, Calling
  <2>3. CallComplete(calls'[c], service)
    BY <2>2 DEF Becomes, CallComplete, Writing, Running
  <2>4. syncQueue' = syncQueue /\ ~(calls[c].step \in InQueue) /\ "enroll" \notin InQueue
    BY <1>1, <1>3 DEF BeginConnect, InQueue, Running
  <2> QED
    BY <1>1, <2>2, <2>3, <2>4, OneMovesHere DEF InQueue
<1>4. CASE BeginOnRecord(c)
  <2>1. PICK op \in {"rotate", "delete"} : calls' = [calls EXCEPT ![c] = Call(op, "request", workspace, config)]
    BY <1>4 DEF BeginOnRecord
  <2>2. config # None /\ Complete(config, service) /\ config \in StoredRecord
    BY <1>4 DEF BeginOnRecord, OverlapInv, Complete
  <2>3. Becomes(c, op, "request", config, 0)
    <3>1. op \in Operations /\ "request" \in Steps
      BY DEF Operations, Steps
    <3> QED
      BY <1>1, <2>1, <2>2, <3>1, Calling
  <2>4. CallComplete(calls'[c], service)
    BY <2>2, <2>3 DEF Becomes, CallComplete, Running
  <2>5. syncQueue' = syncQueue /\ ~(calls[c].step \in InQueue) /\ "request" \notin InQueue
    BY <1>1, <1>4 DEF BeginOnRecord, InQueue, Running
  <2> QED
    BY <1>1, <2>3, <2>4, <2>5, OneMovesHere DEF InQueue
<1> QED
  BY <1>2, <1>3, <1>4

\* The service enrolls a device, or the answer is lost: the record the caller gets
\* is complete.
LEMMA EnrollmentIsComplete ==
    ASSUME OverlapInv, NEW c \in Callers, Enroll(c)
    PROVE  OverlapInv'
<1>1. /\ calls \in [Callers -> CallRecord] /\ calls[c] \in CallRecord /\ calls[c].step = "enroll"
      /\ calls[c].op \in {"create", "recover"} /\ service \in Service
      /\ UNCHANGED <<config, syncQueue, workspace, committed, shown, made>>
      /\ {workspace', committed', faults'} \subseteq Nat /\ shown' \in Nat \cup {None} /\ made' \in 0 .. MaxCalls
  BY DEF OverlapInv, Types, Enroll, At, CallComplete, Lost, Faulty
<1>2. calls[c].step \notin InQueue /\ "idle" \notin InQueue /\ "store" \notin InQueue /\ "store" \in Steps
  BY <1>1 DEF InQueue, Running, Steps
<1> DEFINE op == calls[c].op
           new == Enrolled(op)
<1>3. Welcome(op) => /\ new \in Service /\ service.actors < new.actors /\ service.key <= new.key
                     /\ new.key # 0 /\ new.actors # 0
  <2>1. service.exists \in BOOLEAN /\ service.key \in Nat /\ service.actors \in Nat
        /\ (service.exists => service.key # 0)
    BY <1>1 DEF Service, OverlapInv
  <2>2. CASE op = "create"
    <3>1. PICK key \in Nat, actors \in Nat : key = service.key + 1 /\ actors = service.actors + 1
      BY <2>1
    <3>2. new = [service EXCEPT !.exists = TRUE, !.key = key, !.actors = actors]
      BY <2>2, <3>1 DEF Enrolled
    <3>3. new \in Service /\ new.key = key /\ new.actors = actors
      BY <1>1, <3>2 DEF Service
    <3> QED
      BY <2>1, <3>1, <3>3
  <2>3. CASE op = "recover"
    <3>1. PICK actors \in Nat : actors = service.actors + 1
      BY <2>1
    <3>2. new = [service EXCEPT !.actors = actors]
      BY <2>3, <3>1 DEF Enrolled
    <3>3. new \in Service /\ new.key = service.key /\ new.actors = actors
      BY <1>1, <3>2 DEF Service
    <3>4. Welcome(op) => service.exists
      BY <2>3 DEF Welcome
    <3> QED
      BY <2>1, <3>1, <3>3, <3>4
  <2> QED
    BY <1>1, <2>2, <2>3
<1>4. /\ service' \in Service /\ service.actors <= service'.actors /\ service.key <= service'.key
      /\ service'.exists => service'.key # 0
  <2>1. \/ Welcome(op) /\ service' = new
        \/ service' = service
    BY DEF Enroll
  <2>2. {service.actors, service.key} \subseteq Nat /\ (service.exists => service.key # 0)
    BY <1>1 DEF OverlapInv, Service
  <2>3. new \in Service => new.actors \in Nat
    BY DEF Service
  <2> QED
    BY <1>1, <1>3, <2>1, <2>2, <2>3
<1>5. CASE Return(c)
  <2>1. Becomes(c, "none", "idle", None, 0)
    BY <1>1, <1>5, Returning
  <2>2. CallComplete(calls'[c], service')
    BY <2>1, HarmlessStep DEF Becomes
  <2>3. QueueServes' /\ syncQueue' \in Seq(Callers)
    BY <1>1, <1>2, <2>1, Standing DEF OverlapInv, Types, Running
  <2> QED
    BY <1>1, <1>4, <2>1, <2>2, <2>3, OneMoves
<1>6. CASE Welcome(op) /\ service' = new /\ Holds(c, Record(new.actors, new.key, calls[c].read), "store")
  <2>1. PICK r : r = Record(new.actors, new.key, calls[c].read)
    OBVIOUS
  <2>2. Complete(r, service') /\ r \in StoredRecord
    <3>1. new.actors \in 1 .. new.actors /\ new.key \in 1 .. new.key /\ calls[c].read \in Nat
          /\ {new.actors, new.key} \subseteq Nat
      <4>1. {new.actors, new.key} \subseteq Nat
        BY <1>3, <1>6 DEF Service
      <4> QED
        BY <1>1, <1>3, <1>6, <4>1 DEF CallRecord
    <3>2. r \in StoredRecord /\ r.actor = new.actors /\ r.key = new.key /\ r.sent = 0 /\ r.next = 1 /\ r.pending = None
      BY <2>1, <3>1 DEF Record, StoredRecord
    <3> QED
      BY <1>6, <3>1, <3>2 DEF Complete
  <2>3. Becomes(c, op, "store", r, calls[c].answer)
    BY <1>1, <1>2, <1>6, <2>1, <2>2, Holding
  <2>4. CallComplete(calls'[c], service')
    BY <2>2, <2>3 DEF Becomes, CallComplete, Running
  <2>5. QueueServes' /\ syncQueue' \in Seq(Callers)
    BY <1>1, <1>2, <2>3, Standing DEF OverlapInv, Types, Running
  <2> QED
    BY <1>1, <1>4, <2>3, <2>4, <2>5, OneMoves
<1> QED
  BY <1>5, <1>6 DEF Enroll, Lost

\* The first record is stored, whatever has been stored meanwhile.
LEMMA StoredRecordIsComplete ==
    ASSUME OverlapInv, NEW c \in Callers, Store(c)
    PROVE  OverlapInv'
<1>1. /\ calls \in [Callers -> CallRecord] /\ calls[c].step = "store" /\ syncQueue \in Seq(Callers) /\ QueueServes
      /\ Complete(calls[c].record, service) /\ calls[c].record \in StoredRecord
  BY DEF OverlapInv, Types, Store, At, CallComplete, Writing, Complete
<1>2. /\ config' = calls[c].record /\ syncQueue' = Append(syncQueue, c)
      /\ Holds(c, calls[c].record, "queued")
      /\ UNCHANGED <<service, workspace, committed, shown, made, faults>>
  BY DEF Store, Writes
<1>3. Becomes(c, calls[c].op, "queued", calls[c].record, calls[c].answer)
  BY <1>1, <1>2, Holding DEF Steps
<1>4. calls[c].step \notin InQueue
  BY <1>1 DEF InQueue, Running
<1>5. QueueServes' /\ syncQueue' \in Seq(Callers)
  BY <1>1, <1>2, <1>3, <1>4, Joining
<1>6. CallComplete(calls'[c], service')
  BY <1>3, HarmlessStep DEF Becomes
<1>7. /\ service' \in Service /\ service.actors <= service'.actors /\ service.key <= service'.key
      /\ service'.exists => service'.key # 0
      /\ {workspace', committed', faults'} \subseteq Nat /\ shown' \in Nat \cup {None} /\ made' \in 0 .. MaxCalls
      /\ Complete(config', service')
  BY <1>1, <1>2 DEF OverlapInv, Types, Service
<1> QED
  BY <1>3, <1>5, <1>6, <1>7, OneMoves

\* The record is read for a synchronization: it is there and complete, or the call fails.
LEMMA ReadRecordIsComplete ==
    ASSUME OverlapInv, NEW c \in Callers, ReadConfig(c)
    PROVE  OverlapInv'
<1>1. /\ calls[c].step \in InQueue /\ Head(syncQueue) = c /\ syncQueue # <<>>
      /\ UNCHANGED <<config, service, workspace, committed, shown, made, faults>>
      /\ {workspace', committed', faults'} \subseteq Nat /\ shown' \in Nat \cup {None} /\ made' \in 0 .. MaxCalls
      /\ calls \in [Callers -> CallRecord]
  BY DEF ReadConfig, Turn, At, InQueue, OverlapInv, Types, QueueServes
<1>2. CASE config = None
  BY <1>1, <1>2, FailureLeaves DEF ReadConfig
<1>3. CASE config # None
  <2>1. PICK step : step = IF config.pending = None THEN "capture" ELSE "resume"
    OBVIOUS
  <2>2. Holds(c, config, step) /\ syncQueue' = syncQueue
    BY <1>3, <2>1 DEF ReadConfig
  <2>3. Complete(config, service) /\ config \in StoredRecord /\ step \in Steps /\ step \in InQueue
    BY <1>3, <2>1 DEF OverlapInv, Complete, Steps, InQueue, Running
  <2>4. Becomes(c, calls[c].op, step, config, calls[c].answer)
    BY <1>1, <2>2, <2>3, Holding
  <2>5. CallComplete(calls'[c], service)
    BY <2>1, <2>3, <2>4 DEF Becomes, CallComplete
  <2> QED
    BY <1>1, <2>2, <2>3, <2>4, <2>5, OneMovesHere
<1> QED
  BY <1>2, <1>3

\* What a synchronization captures, sends, journals, commits and settles leaves the
\* record complete, also over a record that was changed meanwhile.
LEMMA SynchronizationIsComplete ==
    ASSUME OverlapInv, NEW c \in Callers, Capture(c) \/ Journal(c) \/ Settle(c)
    PROVE  OverlapInv'
<1>1. calls[c].step \in {"capture", "journal", "settle"} /\ calls[c].step \in Running
  BY DEF Capture, Journal, Settle, At, Running
<1> DEFINE r == calls[c].record
<1>2. /\ Complete(r, service) /\ r \in StoredRecord /\ CallComplete(calls[c], service)
      /\ calls[c].answer \in Nat /\ calls[c].read \in Nat /\ service.received \in Nat
  BY <1>1, RunnerHas DEF CallRecord, Service
<1>3. PICK q, step :
         /\ config' = q /\ Holds(c, q, step)
         /\ step \in {"exchange", "commit", "acknowledge"} /\ Complete(q, service)
         /\ step = "commit" => q.pending # None
  <2>1. CASE Capture(c)
    <3>1. PICK q : q = Captured(r, calls[c].read)
      OBVIOUS
    <3>2. /\ q \in StoredRecord /\ q.pending = r.pending /\ q.actor = r.actor /\ q.key = r.key
          /\ q.sent = r.sent /\ q.next >= r.next
      BY <1>2, <3>1, Capturing
    <3>3. {q.next, r.next, r.sent} \subseteq Nat /\ (r.pending # None => r.pending.sent \in Nat)
      BY <1>2, <3>2 DEF StoredRecord, Pending
    <3>4. q.sent < q.next /\ (q.pending # None => q.pending.sent < q.next)
      BY <1>2, <3>2, <3>3 DEF Complete
    <3>5. Complete(q, service)
      BY <1>2, <3>2, <3>4 DEF Complete
    <3>6. config' = q /\ Holds(c, q, "exchange")
      BY <2>1, <3>1 DEF Capture, Writes
    <3> QED
      BY <3>5, <3>6
  <2>2. CASE Journal(c)
    <3>1. PICK pending : pending = [result |-> service.received, sent |-> calls[c].answer]
      OBVIOUS
    <3>2. pending \in Pending /\ pending.sent = calls[c].answer /\ pending.sent < r.next /\ pending # None
      BY <1>2, <2>2, <3>1, NoneAssumption DEF Pending, CallComplete, Journal, At
    <3>3. PICK q : q = [r EXCEPT !.pending = pending]
      OBVIOUS
    <3>4. /\ q \in StoredRecord /\ q.actor = r.actor /\ q.key = r.key /\ q.next = r.next
          /\ q.sent = r.sent /\ q.pending = pending
      BY <1>2, <3>2, <3>3 DEF StoredRecord
    <3>5. config' = q /\ Holds(c, q, "commit")
      BY <2>2, <3>1, <3>3 DEF Journal, Writes
    <3> QED
      BY <1>2, <3>2, <3>4, <3>5 DEF Complete
  <2>3. CASE Settle(c)
    <3>1. r.pending # None /\ r.pending \in Pending /\ r.pending.sent < r.next /\ r.pending.sent \in Nat
      BY <1>2, <2>3 DEF Settle, At, CallComplete, Complete, StoredRecord, Pending
    <3>2. PICK sent \in Nat : sent = r.pending.sent
      BY <3>1
    <3>3. PICK q : q = [r EXCEPT !.sent = sent, !.pending = None]
      OBVIOUS
    <3>4. /\ q \in StoredRecord /\ q.actor = r.actor /\ q.key = r.key /\ q.next = r.next
          /\ q.sent = sent /\ q.pending = None
      BY <1>2, <3>3 DEF StoredRecord
    <3>5. config' = q /\ Holds(c, q, "acknowledge")
      BY <2>3, <3>2, <3>3 DEF Settle, Writes
    <3> QED
      BY <1>2, <3>1, <3>2, <3>4, <3>5 DEF Complete
  <2> QED
    BY <2>1, <2>2, <2>3
<1>4. Becomes(c, calls[c].op, step, q, calls[c].answer)
  <2>1. q \in StoredRecord /\ step \in Steps
    BY <1>3 DEF Complete, Steps, Running
  <2> QED
    BY <1>1, <1>3, <2>1, RunnerHas, Holding
<1>5. CallComplete(calls'[c], service)
  BY <1>3, <1>4 DEF Becomes, CallComplete
<1>6. UNCHANGED <<syncQueue, service, workspace, committed, shown, made, faults>>
  BY DEF Capture, Journal, Settle
<1>7. step \in InQueue /\ step \in Running
  BY <1>3 DEF InQueue, Running
<1>8. {workspace', committed', faults'} \subseteq Nat /\ shown' \in Nat \cup {None} /\ made' \in 0 .. MaxCalls
  BY <1>1, <1>6, RunnerHas
<1> QED
  BY <1>1, <1>3, <1>4, <1>5, <1>6, <1>7, <1>8, RunnerHas, OneMovesHere

\* The service takes what is sent for whatever actor.
LEMMA PushedIsService ==
    ASSUME NEW r \in StoredRecord, service \in Service, r.sent < r.next
    PROVE  /\ Pushed(r) \in Service /\ Pushed(r).exists = service.exists
           /\ Pushed(r).key = service.key /\ Pushed(r).actors = service.actors
<1>1. r.next - 1 \in Nat /\ service.max \in [1 .. MaxCalls -> Nat] /\ service.received + 1 \in Nat
  BY DEF StoredRecord, Service
<1>2. PICK highest : highest = IF service.max[r.actor] < r.next - 1 THEN r.next - 1 ELSE service.max[r.actor]
  OBVIOUS
<1>3. PICK max : max = [service.max EXCEPT ![r.actor] = highest]
  OBVIOUS
<1>4. max \in [1 .. MaxCalls -> Nat]
  <2>1. r.actor \in 1 .. MaxCalls => highest \in Nat
    BY <1>1, <1>2
  <2> QED
    BY <1>1, <1>3, <2>1
<1>5. Pushed(r) = [service EXCEPT !.received = service.received + 1, !.max = max]
  BY <1>2, <1>3 DEF Pushed, Service
<1> QED
  BY <1>1, <1>4, <1>5 DEF Service

\* The exchange with the service, or its failure.
LEMMA ExchangeIsComplete ==
    ASSUME OverlapInv, NEW c \in Callers, Exchange(c)
    PROVE  OverlapInv'
<1>1. calls[c].step = "exchange" /\ calls[c].step \in Running
  BY DEF Exchange, At, Running
<1> DEFINE r == calls[c].record
<1>2. /\ Complete(r, service) /\ r \in StoredRecord
      /\ r.next - 1 \in Nat /\ r.next - 1 < r.next /\ calls[c].answer \in Nat
  <2>1. r \in StoredRecord /\ Complete(r, service) /\ calls[c].answer \in Nat
    BY <1>1, RunnerHas DEF CallRecord
  <2>2. r.sent < r.next /\ r.sent \in Nat /\ r.next \in Nat
    BY <2>1 DEF Complete, StoredRecord
  <2> QED
    BY <2>1, <2>2
<1>3. /\ UNCHANGED <<config, syncQueue, workspace, committed, shown, made>> /\ faults' \in Nat
      /\ service' = service \/ service' = Pushed(r)
      /\ Goes(c, "catch") \/ Learns(c, r.next - 1, "journal")
  BY <1>1, RunnerHas DEF Exchange, Faulty
<1>4. /\ service' \in Service /\ service'.actors = service.actors /\ service'.key = service.key
      /\ service'.exists = service.exists
  BY <1>1, <1>2, <1>3, RunnerHas, PushedIsService DEF Complete
<1>5. PICK step \in {"catch", "journal"}, answer \in Nat :
         /\ Becomes(c, calls[c].op, step, r, answer)
         /\ step = "journal" => answer < r.next
  <2>1. CASE Goes(c, "catch")
    <3>1. "catch" \in Steps
      BY DEF Steps, Running
    <3> QED
      BY <1>1, <1>2, <2>1, <3>1, RunnerHas, Going
  <2>2. CASE Learns(c, r.next - 1, "journal")
    <3>1. "journal" \in Steps
      BY DEF Steps, Running
    <3> QED
      BY <1>1, <1>2, <2>2, <3>1, RunnerHas, Learning
  <2> QED
    BY <1>3, <2>1, <2>2
<1>6. {service.actors, service.key} \subseteq Nat /\ (service.exists => service.key # 0)
  BY DEF OverlapInv, Types, Service
<1>7. Complete(r, service')
  BY <1>2, <1>4 DEF Complete
<1>8. CallComplete(calls'[c], service')
  BY <1>5, <1>7 DEF Becomes, CallComplete
<1>9. step \in InQueue
  BY DEF InQueue, Running
<1>10. QueueServes' /\ syncQueue' \in Seq(Callers)
  BY <1>1, <1>3, <1>5, <1>9, RunnerHas, Standing
<1> QED
  BY <1>1, <1>3, <1>4, <1>5, <1>6, <1>8, <1>10, RunnerHas, OneMoves

\* The workspace commits the journaled result, or fails to.
LEMMA CommitIsComplete ==
    ASSUME OverlapInv, NEW c \in Callers, Commit(c)
    PROVE  OverlapInv'
<1>1. calls[c].step \in {"resume", "commit"} /\ calls[c].step \in Running
  BY DEF Commit, At, Running
<1>2. /\ calls[c].record.pending # None /\ calls[c].record.pending.result \in Nat
      /\ calls[c].record.baseline \in Nat
  BY <1>1, RunnerHas DEF CallComplete, StoredRecord, Pending
<1>3. /\ UNCHANGED <<config, service, shown, made>>
      /\ {workspace', committed', faults'} \subseteq Nat /\ shown' \in Nat \cup {None} /\ made' \in 0 .. MaxCalls
  BY <1>1, <1>2, RunnerHas DEF Commit, Faulty
<1>4. \/ Failed(c)
      \/ syncQueue' = syncQueue /\ (Goes(c, "settle") \/ Goes(c, "catch"))
  BY DEF Commit
<1>5. CASE Failed(c)
  BY <1>1, <1>3, <1>5, RunnerHas, FailureLeaves
<1>6. CASE syncQueue' = syncQueue /\ (Goes(c, "settle") \/ Goes(c, "catch"))
  <2>1. PICK step \in {"settle", "catch"} : Goes(c, step)
    BY <1>6
  <2>2. step \in Steps /\ step \in InQueue
    BY DEF Steps, InQueue, Running
  <2>3. Becomes(c, calls[c].op, step, calls[c].record, calls[c].answer)
    BY <1>1, <2>1, <2>2, RunnerHas, Going
  <2>4. CallComplete(calls'[c], service)
    BY <1>1, <1>2, <2>3, RunnerHas DEF Becomes, CallComplete
  <2> QED
    BY <1>1, <1>3, <1>6, <2>2, <2>3, <2>4, RunnerHas, OneMovesHere
<1> QED
  BY <1>4, <1>5, <1>6

\* The end of a synchronization writes the record it holds, or leaves the stored one.
LEMMA EndIsComplete ==
    ASSUME OverlapInv, NEW c \in Callers, Acknowledge(c) \/ Catch(c)
    PROVE  OverlapInv'
<1>1. calls[c].step \in {"acknowledge", "catch"} /\ calls[c].step \in Running
  BY DEF Acknowledge, Catch, At, Running
<1>2. Complete(calls[c].record, service) /\ calls[c].record.key \in Nat
  BY <1>1, RunnerHas DEF StoredRecord
<1>3. CASE Catch(c)
  <2>1. /\ config' = calls[c].record /\ Failed(c)
        /\ UNCHANGED <<service, workspace, committed, shown, made, faults>>
    BY <1>3 DEF Catch
  <2> QED
    BY <1>1, <1>2, <2>1, RunnerHas, FailureLeaves
<1>4. CASE Acknowledge(c)
  <2>1. /\ Leave /\ Return(c) /\ (config' = config \/ config' = calls[c].record)
        /\ UNCHANGED <<service, workspace, committed, made>>
        /\ shown' \in Nat \cup {None} /\ faults' \in Nat
    BY <1>1, <1>2, <1>4, RunnerHas DEF Acknowledge, Faulty
  <2>2. Becomes(c, "none", "idle", None, 0) /\ "idle" \notin InQueue
    BY <1>1, <2>1, RunnerHas, Returning DEF InQueue, Running
  <2>3. QueueServes' /\ syncQueue' \in Seq(Callers)
    BY <1>1, <2>1, <2>2, RunnerHas, Leaving
  <2>4. CallComplete(calls'[c], service')
    BY <2>2, HarmlessStep DEF Becomes
  <2>5. /\ service' \in Service /\ service.actors <= service'.actors /\ service.key <= service'.key
        /\ service'.exists => service'.key # 0
        /\ {workspace', committed', faults'} \subseteq Nat /\ made' \in 0 .. MaxCalls
    BY <2>1 DEF OverlapInv, Types, Service
  <2> QED
    BY <1>2, <2>1, <2>2, <2>3, <2>4, <2>5, OneMoves
<1> QED
  BY <1>3, <1>4

\* What a caller does about a failure, and what it does with the service's answer.
LEMMA ManagerEnds ==
    ASSUME OverlapInv, NEW c \in Callers, HandleFailure(c) \/ ShowKey(c) \/ Remove(c)
    PROVE  OverlapInv'
<1>1. calls[c].step \in {"failed", "show", "delete"} /\ calls \in [Callers -> CallRecord]
  BY DEF OverlapInv, Types, HandleFailure, ShowKey, Remove, At
<1>2. /\ Return(c) /\ UNCHANGED <<syncQueue, service, made, faults>>
      /\ config' = None \/ config' = config
      /\ {workspace', committed', faults'} \subseteq Nat /\ shown' \in Nat \cup {None} /\ made' \in 0 .. MaxCalls
  BY <1>1 DEF OverlapInv, Types, CallRecord, HandleFailure, ShowKey, Remove
<1>3. Becomes(c, "none", "idle", None, 0)
  BY <1>1, <1>2, Returning
<1>4. CallComplete(calls'[c], service)
  BY <1>3, HarmlessStep DEF Becomes
<1>5. ~(calls[c].step \in InQueue) /\ "idle" \notin InQueue
  BY <1>1 DEF InQueue, Running
<1> QED
  BY <1>2, <1>3, <1>4, <1>5, OneMovesHere DEF InQueue

\* The service replaces the key or removes the account, or the answer is lost.
LEMMA RequestIsComplete ==
    ASSUME OverlapInv, NEW c \in Callers, Request(c)
    PROVE  OverlapInv'
<1>1. /\ calls \in [Callers -> CallRecord] /\ calls[c] \in CallRecord /\ calls[c].step = "request"
      /\ calls[c].op \in {"rotate", "delete"} /\ service \in Service
      /\ Complete(calls[c].record, service)
      /\ UNCHANGED <<config, syncQueue, workspace, committed, shown, made>>
      /\ {workspace', committed', faults'} \subseteq Nat /\ shown' \in Nat \cup {None} /\ made' \in 0 .. MaxCalls
  BY DEF OverlapInv, Types, Request, At, CallComplete, Writing, Lost, Faulty
<1> DEFINE op == calls[c].op
<1>2. PICK changed : changed = IF op = "rotate" THEN [service EXCEPT !.key = @ + 1] ELSE [service EXCEPT !.exists = FALSE]
  OBVIOUS
<1>3. \/ Return(c) /\ service' \in {service, changed}
      \/ Learns(c, changed.key, op) /\ service' = changed /\ service.exists
  BY <1>2 DEF Request, Lost
<1>4. /\ {service.key, service.actors} \subseteq Nat /\ (service.exists => service.key # 0)
      /\ changed \in Service /\ changed.actors = service.actors
      /\ changed.key = service.key \/ changed.key = service.key + 1
      /\ changed.exists => changed.key # 0
  <2>1. {service.key, service.actors} \subseteq Nat /\ (service.exists => service.key # 0)
    BY <1>1 DEF OverlapInv, Service
  <2>2. CASE op = "rotate"
    <3>1. PICK key \in Nat : key = service.key + 1
      BY <2>1
    <3>2. changed = [service EXCEPT !.key = key]
      BY <1>2, <2>2, <3>1
    <3>3. changed \in Service /\ changed.key = key /\ changed.actors = service.actors
      BY <1>1, <3>2 DEF Service
    <3> QED
      BY <2>1, <3>1, <3>3
  <2>3. CASE op # "rotate"
    <3>1. changed = [service EXCEPT !.exists = FALSE]
      BY <1>2, <2>3
    <3>2. changed \in Service /\ changed.key = service.key /\ changed.actors = service.actors /\ changed.exists = FALSE
      BY <1>1, <3>1 DEF Service
    <3> QED
      BY <2>1, <3>2
  <2> QED
    BY <2>2, <2>3
<1>5. /\ service' \in Service /\ service.actors <= service'.actors /\ service.key <= service'.key
      /\ service'.exists => service'.key # 0
  BY <1>1, <1>3, <1>4
<1>6. calls[c].step \notin InQueue /\ {"idle", "rotate", "delete"} \cap InQueue = {}
  BY <1>1 DEF InQueue, Running
<1>7. CASE Return(c)
  <2>1. Becomes(c, "none", "idle", None, 0)
    BY <1>1, <1>7, Returning
  <2>2. CallComplete(calls'[c], service')
    BY <2>1, HarmlessStep DEF Becomes
  <2>3. QueueServes' /\ syncQueue' \in Seq(Callers)
    BY <1>1, <1>6, <2>1, Standing DEF OverlapInv, Types, InQueue
  <2> QED
    BY <1>1, <1>5, <2>1, <2>2, <2>3, OneMoves
<1>8. CASE Learns(c, changed.key, op) /\ service' = changed /\ service.exists
  <2>1. changed.key \in 1 .. changed.key /\ changed.key \in Nat
    BY <1>4, <1>8
  <2>2. Becomes(c, op, op, calls[c].record, changed.key)
    <3>1. op \in Steps
      BY <1>1 DEF Steps
    <3> QED
      BY <1>1, <1>8, <2>1, <3>1, Learning
  <2>3. Complete(calls[c].record, service')
    BY <1>1, <1>5, CompleteStays
  <2>4. CallComplete(calls'[c], service')
    BY <1>1, <1>8, <2>1, <2>2, <2>3 DEF Becomes, CallComplete, Running
  <2>5. QueueServes' /\ syncQueue' \in Seq(Callers)
    BY <1>1, <1>6, <2>2, Standing DEF OverlapInv, Types, InQueue
  <2> QED
    BY <1>1, <1>5, <2>2, <2>4, <2>5, OneMoves
<1> QED
  BY <1>3, <1>7, <1>8

\* The new key is stored, with the rest of the record that was read before.
LEMMA StoredKeyIsComplete ==
    ASSUME OverlapInv, NEW c \in Callers, StoreKey(c)
    PROVE  OverlapInv'
<1>1. /\ calls \in [Callers -> CallRecord] /\ calls[c].step = "rotate" /\ calls[c].answer \in 1 .. service.key
      /\ Complete(calls[c].record, service) /\ calls[c].record \in StoredRecord /\ service.key \in Nat
  BY DEF OverlapInv, Types, Service, StoreKey, At, CallComplete, Writing, Complete
<1>2. PICK q : q = [calls[c].record EXCEPT !.key = calls[c].answer]
  OBVIOUS
<1>3. Complete(q, service) /\ q \in StoredRecord
  <2>1. calls[c].answer \in Nat
    BY <1>1
  <2>2. /\ q \in StoredRecord /\ q.actor = calls[c].record.actor /\ q.key = calls[c].answer
        /\ q.next = calls[c].record.next /\ q.sent = calls[c].record.sent
        /\ q.pending = calls[c].record.pending
    BY <1>1, <1>2, <2>1 DEF StoredRecord
  <2> QED
    BY <1>1, <2>2 DEF Complete
<1>4. config' = q /\ Holds(c, q, "show") /\ UNCHANGED <<syncQueue, service, workspace, committed, shown, made, faults>>
  BY <1>2 DEF StoreKey, Writes
<1>5. Becomes(c, calls[c].op, "show", q, calls[c].answer)
  BY <1>1, <1>3, <1>4, Holding DEF Steps
<1>6. CallComplete(calls'[c], service)
  BY <1>5, HarmlessStep DEF Becomes
<1>7. ~(calls[c].step \in InQueue) /\ "show" \notin InQueue
  BY <1>1 DEF InQueue, Running
<1>8. {workspace', committed', faults'} \subseteq Nat /\ shown' \in Nat \cup {None} /\ made' \in 0 .. MaxCalls
  BY <1>4 DEF OverlapInv, Types
<1> QED
  BY <1>3, <1>4, <1>5, <1>6, <1>7, <1>8, OneMovesHere DEF InQueue

\* A disconnection, an edit, another device's new key and a crash.
LEMMA OthersAreHarmless ==
    ASSUME OverlapInv, Edit \/ OtherDeviceRotates \/ Crash \/ \E c \in Callers : Disconnect(c)
    PROVE  OverlapInv'
<1>1. CASE Edit \/ \E c \in Callers : Disconnect(c)
  <2>1. /\ UNCHANGED <<syncQueue, calls, service, committed, shown, faults>>
        /\ config' = config \/ config' = None
        /\ workspace' \in Nat /\ made' \in 0 .. MaxCalls
    BY <1>1, BoundsAssumption DEF Edit, Disconnect, Free, OverlapInv, Types
  <2> QED
    BY <2>1 DEF OverlapInv, Types, QueueServes
<1>2. CASE OtherDeviceRotates
  <2>1. /\ UNCHANGED <<config, syncQueue, calls, workspace, committed, shown, faults>>
        /\ made' \in 0 .. MaxCalls /\ service.key \in Nat /\ service.actors \in Nat
    BY <1>2, BoundsAssumption DEF OtherDeviceRotates, OverlapInv, Types, Service
  <2>2. PICK key \in Nat : key = service.key + 1
    BY <2>1
  <2>3. service' = [service EXCEPT !.key = key]
    BY <1>2, <2>2 DEF OtherDeviceRotates
  <2>4. service' \in Service /\ service'.key = service.key + 1 /\ service'.actors = service.actors
    BY <2>2, <2>3 DEF OverlapInv, Types, Service
  <2>5. \A r : Complete(r, service) => Complete(r, service')
    BY <2>1, <2>4, CompleteStays DEF OverlapInv, Types
  <2>6. ASSUME NEW c \in Callers PROVE CallComplete(calls'[c], service')
    <3>1. CallComplete(calls[c], service) /\ calls'[c] = calls[c]
      BY <2>1 DEF OverlapInv
    <3>2. calls[c].answer \in 1 .. service.key => calls[c].answer \in 1 .. service'.key
      BY <2>1, <2>4
    <3> QED
      BY <2>5, <3>1, <3>2 DEF CallComplete
  <2>7. QueueServes' /\ Types'
    BY <2>1, <2>4 DEF OverlapInv, Types, QueueServes
  <2>8. service'.key # 0 /\ (config' # None => Complete(config', service'))
    BY <2>1, <2>4, <2>5 DEF OverlapInv
  <2> QED
    BY <2>6, <2>7, <2>8 DEF OverlapInv
<1>3. CASE Crash
  <2>1. /\ \A c \in Callers : calls'[c] = Idle
        /\ calls' \in [Callers -> CallRecord] /\ syncQueue' = <<>> /\ syncQueue' \in Seq(Callers) /\ faults' \in Nat
        /\ UNCHANGED <<config, service, workspace, committed, shown, made>>
    BY <1>3, IdleIsACall DEF Crash, Faulty, OverlapInv, Types
  <2>2. \A c \in Callers : calls'[c].step = "idle" /\ CallComplete(calls'[c], service')
    BY <2>1, IdleIsACall, HarmlessStep
  <2>3. QueueServes'
    BY <2>1, <2>2 DEF QueueServes, Running
  <2> QED
    BY <2>1, <2>2, <2>3 DEF OverlapInv, Types
<1> QED
  BY <1>1, <1>2, <1>3

\* The invariant that needs no Alone.
LEMMA OverlapInvariant == Spec => []OverlapInv
<1>1. Init => OverlapInv
  <2> SUFFICES ASSUME Init PROVE OverlapInv
    OBVIOUS
  <2>1. AccountInv
    BY InitialState
  <2>2. config = None /\ service.exists = FALSE /\ \A c \in Callers : calls[c].step = "idle"
    BY IdleIsACall DEF Init
  <2> QED
    BY <2>1, <2>2, HarmlessStep DEF OverlapInv, AccountInv
<1>2. ASSUME OverlapInv, [Next]_vars PROVE OverlapInv'
  <2>1. CASE UNCHANGED vars
    BY <1>2, <2>1 DEF vars, OverlapInv, Types, QueueServes
  <2>2. ASSUME NEW c \in Callers, Step(c) PROVE OverlapInv'
    BY <1>2, <2>2, CallsBegin, OthersAreHarmless, EnrollmentIsComplete, StoredRecordIsComplete, ReadRecordIsComplete,
       SynchronizationIsComplete, ExchangeIsComplete, CommitIsComplete, EndIsComplete, ManagerEnds,
       RequestIsComplete, StoredKeyIsComplete DEF Step
  <2> QED
    BY <1>2, <2>1, <2>2, OthersAreHarmless DEF Next
<1> QED
  BY <1>1, <1>2, PTL DEF Spec

\* Whatever calls to one manager overlap, account operations with each other and
\* with synchronizations, with crashes and lost answers: the service has handed out
\* the actor and the key of the stored record, nothing it counts as sent, or will
\* count once the journal is settled, is beyond its own numbers; and the queue runs
\* one synchronization at a time.
THEOREM RecordStaysComplete == Spec => []AccountTypeOK
<1>1. ASSUME OverlapInv PROVE AccountTypeOK
  <2>1. \A c \in Callers : calls[c].step \in Running => syncQueue # <<>> /\ Head(syncQueue) = c
    BY <1>1 DEF OverlapInv, QueueServes
  <2> QED
    BY <1>1, <2>1 DEF OverlapInv, Complete, AccountTypeOK
<1>2. OverlapInv => AccountTypeOK
  BY <1>1
<1> QED
  BY <1>2, OverlapInvariant, PTL

=============================================================================
