------------------------ MODULE Transactions_proofs ------------------------
(***************************************************************************)
(* Proofs about Transactions, for both versions and any number of          *)
(* connectors, application tasks, transactions, requests and faults.       *)
(*                                                                         *)
(* The argument follows an id.  Until its start registers it, the start    *)
(* has it to itself; from then on the stops that found it active know its  *)
(* connector; and what a stop has removed nobody puts back, since ids are  *)
(* handed out once.                                                        *)
(***************************************************************************)
EXTENDS Transactions, FiniteSetTheorems, SequenceTheorems, TLAPS

Resets == {"Soft", "Hard", "none"}
Avails == Avail \cup {NoAvail}
TaskRec == [pc : Pcs, connector : Nat, tx : Nat, profile : BOOLEAN, reset : Resets,
            todo : SUBSET Tx, takenReset : Resets, takenAvail : Avails]

\* A start that has an id nobody else can know yet.
Unregistered(w) == task[w].pc = "register" \/ (version = "V201" /\ task[w].pc = "opening")

\* A stop that has found its transaction and not yet unregistered it.
StopPcs == {"close", "closing", "finishing", "unregister"}

(* Types *)

VersionType == version \in {"V16J", "V201"}
StatusType == status \in [Connectors -> {"Available", "Charging", "Unavailable"}]
ActiveType == active \in [Tx -> Connectors \cup {None}]
SetTypes == sessions \subseteq Tx /\ samplers \subseteq Tx
ProfileType == profile \in [Connectors -> Tx \cup {None}]
NextType == nextTx \in Nat /\ 1 <= nextTx /\ nextTx <= MaxTx + 1
QueueType == queue \in Seq(Commands)
SlotTypes == pendingReset \in Resets /\ pendingAvail \in Avails
TaskType == task \in [Tasks -> TaskRec]
HistoryTypes == closes \in [Tx -> Nat] /\ fired \in Nat /\ scheduled \in Nat
InboundType ==
    /\ inbound.pc = "avail" => inbound.req \in Avail
    /\ inbound.pc = "profile" => inbound.evse \in Connectors /\ inbound.tx \in Tx

(* What a task works on *)

RangeInv ==
    \A w \in Tasks :
        /\ task[w].connector \in Connectors \cup {None}
        /\ task[w].tx \in Tx \cup {None}
ConnectorInv ==
    \A w \in Tasks :
        task[w].pc \in {"preparing", "opening", "register", "energize", "charging", "release"}
                          \cup StopPcs => task[w].connector \in Connectors
TxInv ==
    \A w \in Tasks :
        /\ task[w].pc \in {"register", "energize", "charging", "lookup"} \cup StopPcs =>
              task[w].tx \in Tx
        /\ Unregistered(w) \/ task[w].pc \in StopPcs => task[w].tx \in Tx /\ task[w].tx < nextTx
        /\ task[w].pc = "close" => version = "V201"
TakenInv == \A w \in Tasks : task[w].takenReset # "none" => task[w].pc = "fire"

(* The life of an id *)

\* An id that was not handed out has left no trace.
FreshInv ==
    \A t \in Tx : t >= nextTx => active[t] = None /\ closes[t] = 0 /\ t \notin sessions

\* A start has its id to itself until it registers it.
OwnerInv ==
    \A w \in Tasks : Unregistered(w) =>
        /\ active[task[w].tx] = None /\ closes[task[w].tx] = 0
        /\ \A v \in Tasks : v # w /\ Unregistered(v) => task[v].tx # task[w].tx
        /\ \A v \in Tasks : task[v].pc \in StopPcs => task[v].tx # task[w].tx

\* A stop knows the connector of its transaction, as long as that is active.
StopInv ==
    \A w \in Tasks : task[w].pc \in StopPcs =>
        active[task[w].tx] \in {None, task[w].connector}

\* A session is live and not ended; what a stop has detached is gone for good.
SessionInv ==
    \A t \in sessions :
        /\ closes[t] = 0
        /\ active[t] # None \/ \E w \in Tasks : task[w].pc = "register" /\ task[w].tx = t
DetachInv ==
    /\ version = "V16J" => sessions = {}
    /\ \A w \in Tasks : task[w].pc \in StopPcs \ {"close"} => task[w].tx \notin sessions

\* A profile that was not installed late belongs to a session on its connector.
ProfileInv ==
    \A c \in Connectors : profile[c] # None /\ profile[c] \notin late =>
        /\ profile[c] \in sessions
        /\ \/ active[profile[c]] = c
           \/ \E w \in Tasks : /\ task[w].pc = "register" /\ task[w].tx = profile[c]
                               /\ task[w].connector = c

\* A 1.6J stop goes on only when its CALL was answered.
AckInv ==
    version = "V16J" =>
        \A w \in Tasks : task[w].pc \in {"finishing", "unregister"} => task[w].tx \in acked

Taken == {w \in Tasks : task[w].takenReset # "none"}
FiredInv == IsFiniteSet(Taken) /\ FiredOnce

IInv ==
    /\ VersionType
    /\ StatusType /\ ActiveType /\ SetTypes /\ ProfileType /\ NextType /\ QueueType /\ SlotTypes
    /\ TaskType /\ HistoryTypes /\ InboundType /\ RangeInv /\ ConnectorInv /\ TxInv /\ TakenInv
    /\ FreshInv /\ OwnerInv /\ StopInv /\ SessionInv /\ DetachInv /\ ProfileInv /\ AckInv
    /\ EndedAtMostOnce /\ ClosedIsReported /\ FiredInv
-----------------------------------------------------------------------------
(* Steps of a task *)

\* Task w goes to pc, with connector c and transaction t.
Sets(w, pc, c, t) ==
    /\ TaskType'
    /\ task'[w].pc = pc /\ task'[w].connector = c /\ task'[w].tx = t
    /\ \A v \in Tasks : v # w => task'[v] = task[v]

TakenKept == \A v \in Tasks : task'[v].takenReset = task[v].takenReset

\* The record of a task that runs nothing.
LEMMA Idles ==
    /\ Idle \in TaskRec /\ Idle.pc = "idle" /\ Idle.connector = None /\ Idle.tx = None
    /\ Idle.takenReset = "none"
  BY DEF Idle, TaskRec, Pcs, Resets, Avails, None

\* A move to the next await changes nothing else of the task's record.
LEMMA Goes ==
    ASSUME TaskType, NEW w \in Tasks, NEW pc \in Pcs, Goto(w, pc)
    PROVE  Sets(w, pc, task[w].connector, task[w].tx) /\ TakenKept
  BY DEF TaskType, TaskRec, Goto, Sets, TakenKept

\* A task that ends with nothing taken leaves nothing behind.
LEMMA Stops ==
    ASSUME TaskType, NEW w \in Tasks, task[w].takenReset = "none", task' = [task EXCEPT ![w] = Idle]
    PROVE  Sets(w, "idle", None, None) /\ TakenKept
  BY Idles DEF TaskType, Sets, TakenKept

\* A stop returns to its caller: to nothing, or to the reset that asked for it.
LEMMA Returns ==
    ASSUME TaskType, NEW w \in Tasks, Return(w)
    PROVE  /\ Sets(w, "idle", None, None) \/ Sets(w, "stopping", None, None)
           /\ task'[w].takenReset = "none"
  <1>1. CASE task[w].reset = "none"
    BY <1>1, Idles DEF TaskType, Return, Sets
  <1>2. CASE task[w].reset # "none"
    <2>1. PICK r : r = [task[w] EXCEPT !.pc = "stopping", !.tx = None, !.connector = None,
                                       !.takenReset = "none", !.takenAvail = NoAvail]
      OBVIOUS
    <2>2. task[w] \in TaskRec /\ None \in Nat /\ NoAvail \in Avails
      BY DEF TaskType, None, Avails
    <2>3. "stopping" \in Pcs /\ "none" \in Resets
      BY DEF Pcs, Resets
    <2>4. r \in TaskRec
      BY <2>1, <2>2, <2>3 DEF TaskRec
    <2>5. r.pc = "stopping" /\ r.tx = None /\ r.connector = None /\ r.takenReset = "none"
      BY <2>1, <2>2 DEF TaskRec
    <2>6. task' = [task EXCEPT ![w] = r]
      BY <1>2, <2>1 DEF Return
    <2>7. QED
      BY <2>4, <2>5, <2>6 DEF TaskType, Sets
  <1>3. QED
    BY <1>1, <1>2

\* If it had taken no deferred request, none is lost.
LEMMA ReturnsKept ==
    ASSUME TaskType, NEW w \in Tasks, task[w].takenReset = "none", Return(w)
    PROVE  (Sets(w, "idle", None, None) \/ Sets(w, "stopping", None, None)) /\ TakenKept
  BY Returns DEF Sets, TakenKept

\* A start records its connector.
LEMMA Begins ==
    ASSUME TaskType, NEW w \in Tasks, NEW c \in Connectors, NEW p \in BOOLEAN,
           task[w].takenReset = "none", StartBegin(w, c, p)
    PROVE  Sets(w, "preparing", c, None) /\ TakenKept
  <1>1. "preparing" \in Pcs /\ c \in Nat
    BY DEF Pcs, Connectors
  <1>2. PICK r : r = [Idle EXCEPT !.pc = "preparing", !.connector = c, !.profile = p]
    OBVIOUS
  <1>3. r \in TaskRec
    BY <1>1, <1>2, Idles DEF TaskRec
  <1>4. r.pc = "preparing" /\ r.connector = c /\ r.tx = None /\ r.takenReset = "none"
    BY <1>2, Idles DEF TaskRec
  <1>5. task' = [task EXCEPT ![w] = r]
    BY <1>2 DEF StartBegin
  <1>6. TaskType' /\ task'[w] = r /\ \A v \in Tasks : v # w => task'[v] = task[v]
    BY <1>3, <1>5 DEF TaskType
  <1>7. QED
    BY <1>4, <1>6 DEF Sets, TakenKept

\* The other updates of several fields at once.
LEMMA Gives ==
    ASSUME TaskType, NEW w \in Tasks, NEW pc \in Pcs, NEW t \in Nat,
           task' = [task EXCEPT ![w].pc = pc, ![w].tx = t]
    PROVE  Sets(w, pc, task[w].connector, t) /\ TakenKept
  <1>1. task[w] \in TaskRec
    BY DEF TaskType
  <1>2. PICK r : r = [task[w] EXCEPT !.pc = pc, !.tx = t]
    OBVIOUS
  <1>3. r \in TaskRec
    BY <1>1, <1>2 DEF TaskRec
  <1>4. /\ r.pc = pc /\ r.connector = task[w].connector /\ r.tx = t
        /\ r.takenReset = task[w].takenReset
    BY <1>1, <1>2 DEF TaskRec
  <1>5. task' = [task EXCEPT ![w] = r]
    BY <1>2
  <1>6. TaskType' /\ task'[w] = r /\ \A v \in Tasks : v # w => task'[v] = task[v]
    BY <1>3, <1>5 DEF TaskType
  <1>7. QED
    BY <1>4, <1>6 DEF Sets, TakenKept

\* A stop records the connector of the transaction it found.
LEMMA Finds ==
    ASSUME TaskType, NEW w \in Tasks, NEW pc \in Pcs, NEW c \in Nat,
           task' = [task EXCEPT ![w].connector = c, ![w].pc = pc]
    PROVE  Sets(w, pc, c, task[w].tx) /\ TakenKept
  <1>1. task[w] \in TaskRec
    BY DEF TaskType
  <1>2. PICK r : r = [task[w] EXCEPT !.connector = c, !.pc = pc]
    OBVIOUS
  <1>3. r \in TaskRec
    BY <1>1, <1>2 DEF TaskRec
  <1>4. /\ r.pc = pc /\ r.connector = c /\ r.tx = task[w].tx
        /\ r.takenReset = task[w].takenReset
    BY <1>1, <1>2 DEF TaskRec
  <1>5. task' = [task EXCEPT ![w] = r]
    BY <1>2
  <1>6. TaskType' /\ task'[w] = r /\ \A v \in Tasks : v # w => task'[v] = task[v]
    BY <1>3, <1>5 DEF TaskType
  <1>7. QED
    BY <1>4, <1>6 DEF Sets, TakenKept

\* A reset records its kind.
LEMMA Resetting ==
    ASSUME TaskType, NEW w \in Tasks, NEW pc \in Pcs, NEW k \in Resets,
           task' = [task EXCEPT ![w].pc = pc, ![w].reset = k]
    PROVE  Sets(w, pc, task[w].connector, task[w].tx) /\ TakenKept
  <1>1. task[w] \in TaskRec
    BY DEF TaskType
  <1>2. PICK r : r = [task[w] EXCEPT !.pc = pc, !.reset = k]
    OBVIOUS
  <1>3. r \in TaskRec
    BY <1>1, <1>2 DEF TaskRec
  <1>4. /\ r.pc = pc /\ r.connector = task[w].connector /\ r.tx = task[w].tx
        /\ r.takenReset = task[w].takenReset
    BY <1>1, <1>2 DEF TaskRec
  <1>5. task' = [task EXCEPT ![w] = r]
    BY <1>2
  <1>6. TaskType' /\ task'[w] = r /\ \A v \in Tasks : v # w => task'[v] = task[v]
    BY <1>3, <1>5 DEF TaskType
  <1>7. QED
    BY <1>4, <1>6 DEF Sets, TakenKept

\* A reset records the transactions it is to stop.
LEMMA Listing ==
    ASSUME TaskType, NEW w \in Tasks, NEW pc \in Pcs, NEW T \in SUBSET Tx,
           task' = [task EXCEPT ![w].pc = pc, ![w].todo = T]
    PROVE  Sets(w, pc, task[w].connector, task[w].tx) /\ TakenKept
  <1>1. task[w] \in TaskRec
    BY DEF TaskType
  <1>2. PICK r : r = [task[w] EXCEPT !.pc = pc, !.todo = T]
    OBVIOUS
  <1>3. r \in TaskRec
    BY <1>1, <1>2 DEF TaskRec
  <1>4. /\ r.pc = pc /\ r.connector = task[w].connector /\ r.tx = task[w].tx
        /\ r.takenReset = task[w].takenReset
    BY <1>1, <1>2 DEF TaskRec
  <1>5. task' = [task EXCEPT ![w] = r]
    BY <1>2
  <1>6. TaskType' /\ task'[w] = r /\ \A v \in Tasks : v # w => task'[v] = task[v]
    BY <1>3, <1>5 DEF TaskType
  <1>7. QED
    BY <1>4, <1>6 DEF Sets, TakenKept

\* A reset picks the next of them.
LEMMA Picking ==
    ASSUME TaskType, NEW w \in Tasks, NEW pc \in Pcs, NEW t \in Nat, NEW T \in SUBSET Tx,
           task' = [task EXCEPT ![w].pc = pc, ![w].tx = t, ![w].todo = T]
    PROVE  Sets(w, pc, task[w].connector, t) /\ TakenKept
  <1>1. task[w] \in TaskRec
    BY DEF TaskType
  <1>2. PICK r : r = [task[w] EXCEPT !.pc = pc, !.tx = t, !.todo = T]
    OBVIOUS
  <1>3. r \in TaskRec
    BY <1>1, <1>2 DEF TaskRec
  <1>4. /\ r.pc = pc /\ r.connector = task[w].connector /\ r.tx = t
        /\ r.takenReset = task[w].takenReset
    BY <1>1, <1>2 DEF TaskRec
  <1>5. task' = [task EXCEPT ![w] = r]
    BY <1>2
  <1>6. TaskType' /\ task'[w] = r /\ \A v \in Tasks : v # w => task'[v] = task[v]
    BY <1>3, <1>5 DEF TaskType
  <1>7. QED
    BY <1>4, <1>6 DEF Sets, TakenKept

\* The drain takes both slots in one step.
LEMMA Takes ==
    ASSUME TaskType, NEW w \in Tasks, NEW pc \in Pcs, NEW k \in Resets, NEW a \in Avails,
           task' = [task EXCEPT ![w].pc = pc, ![w].takenReset = k, ![w].takenAvail = a]
    PROVE  /\ Sets(w, pc, task[w].connector, task[w].tx)
           /\ task'[w].takenReset = k /\ task'[w].takenAvail = a
  <1>1. task[w] \in TaskRec
    BY DEF TaskType
  <1>2. PICK r : r = [task[w] EXCEPT !.pc = pc, !.takenReset = k, !.takenAvail = a]
    OBVIOUS
  <1>3. r \in TaskRec
    BY <1>1, <1>2 DEF TaskRec
  <1>4. /\ r.pc = pc /\ r.connector = task[w].connector /\ r.tx = task[w].tx
        /\ r.takenReset = k /\ r.takenAvail = a
    BY <1>1, <1>2 DEF TaskRec
  <1>5. task' = [task EXCEPT ![w] = r]
    BY <1>2
  <1>6. TaskType' /\ task'[w] = r /\ \A v \in Tasks : v # w => task'[v] = task[v]
    BY <1>3, <1>5 DEF TaskType
  <1>7. QED
    BY <1>4, <1>6 DEF Sets

\* A task that holds no unregistered id and goes where it holds none leaves the
\* life of every id as it is.
LEMMA Leaves ==
    ASSUME IInv, NEW w \in Tasks, NEW pc \in Pcs, NEW c, NEW t,
           Sets(w, pc, c, t),
           UNCHANGED <<version, active, sessions, profile, nextTx, closes, acked, late>>,
           task[w].pc # "register", pc \notin StopPcs, pc # "register",
           pc = "opening" => version # "V201" /\ c \in Connectors,
           c \in Connectors \cup {None}, t \in Tx \cup {None},
           pc \in {"preparing", "energize", "charging", "release"} => c \in Connectors,
           pc \in {"energize", "charging", "lookup"} => t \in Tx
    PROVE  /\ TaskType' /\ RangeInv' /\ ConnectorInv' /\ TxInv' /\ OwnerInv'
           /\ StopInv' /\ SessionInv' /\ DetachInv' /\ ProfileInv' /\ AckInv'
  <1>1. TaskType' /\ RangeInv' /\ ConnectorInv'
    BY DEF IInv, Sets, RangeInv, ConnectorInv
  <1>2. TxInv'
    BY DEF IInv, Sets, TxInv, Unregistered, StopPcs
  <1>3. OwnerInv'
    <2>1. \A v \in Tasks : Unregistered(v)' => Unregistered(v) /\ v # w
      BY DEF Sets, Unregistered
    <2>2. \A v \in Tasks : (task'[v].pc \in StopPcs) => (task[v].pc \in StopPcs /\ v # w)
      BY DEF Sets
    <2>3. QED
      BY <2>1, <2>2 DEF IInv, OwnerInv, Sets
  <1>4. StopInv'
    BY DEF IInv, Sets, StopInv
  <1>5. SessionInv'
    BY DEF IInv, Sets, SessionInv
  <1>6. DetachInv'
    BY DEF IInv, Sets, DetachInv
  <1>7. ProfileInv'
    BY DEF IInv, Sets, ProfileInv
  <1>8. AckInv'
    BY DEF IInv, Sets, AckInv, StopPcs
  <1>9. QED
    BY <1>1, <1>2, <1>3, <1>4, <1>5, <1>6, <1>7, <1>8

\* A step that is not the firing one leaves the taken request in its task's hands.
LEMMA StillTaken ==
    ASSUME IInv, NEW w \in Tasks, NEW pc, NEW c, NEW t, Sets(w, pc, c, t), TakenKept,
           task[w].pc # "fire"
    PROVE  TakenInv' /\ Taken' = Taken
  BY DEF IInv, Sets, TakenInv, TakenKept, Taken

\* A step that neither fires nor arms a reset leaves the count of firings right.
LEMMA FiredKept ==
    ASSUME IInv, TakenKept, UNCHANGED <<fired, pendingReset, scheduled>>
    PROVE  FiredInv'
  <1>1. Taken' = Taken
    BY DEF Taken, TakenKept
  <1>2. QED
    BY <1>1 DEF IInv, FiredInv, FiredOnce, Taken

(* Commands *)

\* The fields of a command, by its operation.
LEMMA CommandFields ==
    ASSUME NEW m \in Commands
    PROVE  /\ m.op = "start" => m.connector \in Connectors /\ m.profile \in BOOLEAN
           /\ m.op = "stop" => m.tx \in Tx
           /\ m.op = "reset" => m.kind \in Kinds
           /\ m.op = "apply" => m.connector \in Connectors /\ m.target \in Targets
  BY DEF Commands, StartCommand, StopCommand, ResetCommand, ApplyCommand

\* A reset on the channel.
LEMMA ResetIsSeq ==
    ASSUME NEW k \in Kinds, NEW d \in BOOLEAN
    PROVE  /\ <<ResetCommand(k, d)>> \in Seq(Commands)
           /\ \A q \in Seq(Commands) : Append(q, ResetCommand(k, d)) \in Seq(Commands)
  <1>1. ResetCommand(k, d) \in Commands
    BY DEF Commands
  <1>2. PICK m \in Commands : m = ResetCommand(k, d)
    BY <1>1
  <1>3. <<m>> \in Seq(Commands) /\ \A q \in Seq(Commands) : Append(q, m) \in Seq(Commands)
    OBVIOUS
  <1>4. QED
    BY <1>2, <1>3, Zenon

\* The availability changes that a deferred request puts on the channel.
LEMMA ApplyIsSeq == ASSUME NEW a \in Avail PROVE ApplyCommands(a) \in Seq(Commands)
  <1>1. a.evse \in Connectors \cup {None} /\ a.target \in Targets
    BY DEF Avail
  <1>2. ASSUME NEW c \in Connectors PROVE ApplyCommand(c, a.target) \in Commands
    BY <1>1 DEF Commands
  <1>3. CASE a.evse = None
    <2>1. ApplyCommands(a) = [c \in Connectors |-> ApplyCommand(c, a.target)]
      BY <1>3 DEF ApplyCommands
    <2>2. ApplyCommands(a) \in [1..NumConnectors -> Commands]
      BY <1>2, <2>1 DEF Connectors
    <2>3. NumConnectors \in Nat
      BY BoundsAssumption
    <2>4. QED
      BY <2>2, <2>3, SeqDef
  <1>4. CASE a.evse # None
    <2>1. ApplyCommand(a.evse, a.target) \in Commands
      BY <1>1, <1>2, <1>4
    <2>2. QED
      BY <1>4, <2>1 DEF ApplyCommands
  <1>5. QED
    BY <1>3, <1>4

\* The consumer takes the head of the channel when it is idle.
LEMMA Consumed ==
    ASSUME IInv, NEW op, Consume(op)
    PROVE  /\ Head(queue) \in Commands /\ Head(queue).op = op /\ queue' \in Seq(Commands)
           /\ task[Consumer].pc = "idle" /\ Consumer \in Tasks
  BY DEF IInv, QueueType, Consume, At, Tasks

-----------------------------------------------------------------------------
\* A station that starts has no transaction and nothing deferred.
LEMMA InitInv == Init => IInv
  <1> SUFFICES ASSUME Init PROVE IInv
    OBVIOUS
  <1>1. task \in [Tasks -> TaskRec] /\ \A w \in Tasks : task[w] = Idle
    BY Idles DEF Init
  <1>2. VersionType /\ StatusType /\ ActiveType /\ SetTypes /\ ProfileType /\ HistoryTypes
    BY VersionAssumption DEF Init, VersionType, StatusType, ActiveType, SetTypes, ProfileType, HistoryTypes
  <1>3. NextType /\ QueueType /\ SlotTypes /\ InboundType
    BY BoundsAssumption DEF Init, NextType, QueueType, SlotTypes, InboundType, Resets, Avails
  <1>4. TaskType /\ RangeInv /\ ConnectorInv /\ TxInv /\ TakenInv
    BY <1>1, Idles DEF TaskType, RangeInv, ConnectorInv, TxInv, TakenInv, Unregistered, StopPcs
  <1>5. FreshInv /\ OwnerInv /\ StopInv
    BY <1>1, Idles DEF Init, FreshInv, OwnerInv, StopInv, Unregistered, StopPcs
  <1>6. SessionInv /\ DetachInv /\ ProfileInv /\ AckInv
    BY <1>1, Idles DEF Init, SessionInv, DetachInv, ProfileInv, AckInv, StopPcs
  <1>7. EndedAtMostOnce /\ ClosedIsReported
    BY DEF Init, EndedAtMostOnce, ClosedIsReported
  <1>8. FiredInv
    <2>1. Taken = {}
      BY <1>1, Idles DEF Taken
    <2>2. IsFiniteSet(Taken) /\ Cardinality(Taken) = 0
      BY <2>1, FS_EmptySet
    <2>3. QED
      BY <2>2 DEF Init, FiredInv, FiredOnce, Taken
  <1>9. QED
    BY <1>2, <1>3, <1>4, <1>5, <1>6, <1>7, <1>8 DEF IInv

\* The protocol version is configured once.
LEMMA VersionKept == [Next]_vars => version' = version
  <1> SUFFICES ASSUME [Next]_vars PROVE version' = version
    OBVIOUS
  <1>1. ASSUME NEW w, StartStep(w) \/ StopStep(w) PROVE version' = version
    BY <1>1 DEF StartStep, StartPrepared, StartOpened, StartFails, StartRegister, StartEnergize,
       StartSampler, StopStep, StopLookup, StopDetach, StopClosed, StopFinishing, StopUnregister,
       StopRelease, StopAvailable, StopFails, StopDrain, StopFire
  <1>2. ASSUME NEW w, NEW c, AppStart(w, c) \/ AppStop(w, c) PROVE version' = version
    BY <1>2 DEF AppStart, AppStop
  <1>3. ASSUME ConsumerStep PROVE version' = version
    BY <1>3 DEF ConsumerStep, ConsumeStart, ConsumeStop, ConsumeReset, ConsumeApply,
       ResetSnapshot, ResetStop, ResetQuiesce, ResetDone, ApplyDone
  <1>4. ASSUME Request \/ Decide PROVE version' = version
    BY <1>4 DEF Request, RemoteStart, RemoteStop, ResetNow, ResetOnIdle, ChangeAvailability,
       SetTxProfile, Decide, ResetOnIdleDecided, ChangeAvailabilityDecided, SetTxProfileDecided
  <1>5. QED
    BY <1>1, <1>2, <1>3, <1>4 DEF Next, vars

\* Every step of every task keeps the invariant.
LEMMA StepInv == IInv /\ [Next]_vars => IInv'
  <1> SUFFICES ASSUME IInv, [Next]_vars PROVE IInv'
    OBVIOUS
  <1> version' = version
    BY VersionKept
  <1> VersionType /\ VersionType'
    BY DEF IInv, VersionType
  <1>1. ASSUME NEW w \in AppTasks, NEW c \in Connectors, AppStart(w, c) PROVE IInv'
    <2>1. UNCHANGED <<status, active, sessions, samplers, profile, nextTx, queue, pendingReset,
                        pendingAvail, inbound, closes, acked, scheduled,
                        fired, late>>
      BY <1>1 DEF AppStart, store, slots, history
    <2>2. w \in Tasks /\ task[w].pc = "idle" /\ task[w].takenReset = "none" /\ "preparing" \in Pcs
      BY <1>1 DEF IInv, TakenInv, AppStart, At, Tasks, Pcs
    <2>3. Sets(w, "preparing", c, None) /\ TakenKept
      BY <1>1, <2>2, Begins DEF IInv, AppStart
    <2>4. /\ TaskType' /\ RangeInv' /\ ConnectorInv' /\ TxInv' /\ OwnerInv'
          /\ StopInv' /\ SessionInv' /\ DetachInv' /\ ProfileInv' /\ AckInv'
      BY <2>1, <2>2, <2>3, Leaves DEF StopPcs
    <2>5. TakenInv'
      BY <2>1, <2>2, <2>3, StillTaken
    <2>6. FiredInv'
      BY <2>1, <2>3, FiredKept
    <2>7. /\ StatusType' /\ ActiveType' /\ SetTypes' /\ ProfileType' /\ NextType'
          /\ QueueType' /\ SlotTypes' /\ HistoryTypes' /\ InboundType'
      BY <2>1 DEF IInv, StatusType, ActiveType, SetTypes, ProfileType, NextType, QueueType,
         SlotTypes, HistoryTypes, InboundType
    <2>8. FreshInv'
      BY <2>1 DEF IInv, FreshInv
    <2>9. EndedAtMostOnce' /\ ClosedIsReported'
      BY <2>1 DEF IInv, EndedAtMostOnce, ClosedIsReported
    <2>10. QED
      BY <2>4, <2>5, <2>6, <2>7, <2>8, <2>9 DEF IInv
  <1>2. ASSUME NEW w \in AppTasks, NEW t \in Tx, AppStop(w, t) PROVE IInv'
    <2>1. UNCHANGED <<status, active, sessions, samplers, profile, nextTx, queue, pendingReset,
                        pendingAvail, inbound, closes, acked, scheduled,
                        fired, late>>
      BY <1>2 DEF AppStop, store, slots, history
    <2>2. /\ w \in Tasks /\ task[w].pc = "idle" /\ "lookup" \in Pcs /\ t \in Nat
          /\ task[w].connector \in Connectors \cup {None}
      BY <1>2 DEF IInv, RangeInv, AppStop, At, Tasks, Pcs, Tx
    <2>3. Sets(w, "lookup", task[w].connector, t) /\ TakenKept
      BY <1>2, <2>2, Gives DEF IInv, AppStop, StopBegin
    <2>4. /\ TaskType' /\ RangeInv' /\ ConnectorInv' /\ TxInv' /\ OwnerInv'
          /\ StopInv' /\ SessionInv' /\ DetachInv' /\ ProfileInv' /\ AckInv'
      BY <2>1, <2>2, <2>3, Leaves DEF StopPcs
    <2>5. TakenInv'
      BY <2>1, <2>2, <2>3, StillTaken
    <2>6. FiredInv'
      BY <2>1, <2>3, FiredKept
    <2>7. /\ StatusType' /\ ActiveType' /\ SetTypes' /\ ProfileType' /\ NextType'
          /\ QueueType' /\ SlotTypes' /\ HistoryTypes' /\ InboundType'
      BY <2>1 DEF IInv, StatusType, ActiveType, SetTypes, ProfileType, NextType, QueueType,
         SlotTypes, HistoryTypes, InboundType
    <2>8. FreshInv'
      BY <2>1 DEF IInv, FreshInv
    <2>9. EndedAtMostOnce' /\ ClosedIsReported'
      BY <2>1 DEF IInv, EndedAtMostOnce, ClosedIsReported
    <2>10. QED
      BY <2>4, <2>5, <2>6, <2>7, <2>8, <2>9 DEF IInv
  <1>3. ASSUME NEW w \in Tasks, StartPrepared(w), version # "V201" PROVE IInv'
    <2>1. UNCHANGED <<status, active, sessions, samplers, profile, nextTx, queue, pendingReset,
                        pendingAvail, inbound, closes, acked, scheduled,
                        fired, late>>
      BY <1>3 DEF StartPrepared, slots, history
    <2>2. /\ task[w].pc = "preparing" /\ "opening" \in Pcs /\ task[w].connector \in Connectors
          /\ task[w].tx \in Tx \cup {None}
      BY <1>3 DEF IInv, StartPrepared, At, ConnectorInv, RangeInv, Pcs
    <2>3. Sets(w, "opening", task[w].connector, task[w].tx) /\ TakenKept
      BY <1>3, <2>2, Goes DEF IInv, StartPrepared
    <2>4. /\ TaskType' /\ RangeInv' /\ ConnectorInv' /\ TxInv' /\ OwnerInv'
          /\ StopInv' /\ SessionInv' /\ DetachInv' /\ ProfileInv' /\ AckInv'
      BY <1>3, <2>1, <2>2, <2>3, Leaves DEF StopPcs
    <2>5. TakenInv'
      BY <2>1, <2>2, <2>3, StillTaken
    <2>6. FiredInv'
      BY <2>1, <2>3, FiredKept
    <2>7. /\ StatusType' /\ ActiveType' /\ SetTypes' /\ ProfileType' /\ NextType'
          /\ QueueType' /\ SlotTypes' /\ HistoryTypes' /\ InboundType'
      BY <2>1 DEF IInv, StatusType, ActiveType, SetTypes, ProfileType, NextType, QueueType,
         SlotTypes, HistoryTypes, InboundType
    <2>8. FreshInv'
      BY <2>1 DEF IInv, FreshInv
    <2>9. EndedAtMostOnce' /\ ClosedIsReported'
      BY <2>1 DEF IInv, EndedAtMostOnce, ClosedIsReported
    <2>10. QED
      BY <2>4, <2>5, <2>6, <2>7, <2>8, <2>9 DEF IInv
  <1>4. ASSUME NEW w \in Tasks, StartPrepared(w), version = "V201" PROVE IInv'
    <2>1. UNCHANGED <<status, active, sessions, samplers, profile, queue, pendingReset,
                        pendingAvail, inbound, closes, acked, scheduled,
                        fired, late>>
      BY <1>4 DEF StartPrepared, slots, history
    <2>2. /\ task[w].pc = "preparing" /\ task[w].connector \in Connectors
          /\ nextTx \in Nat /\ nextTx \in Tx /\ nextTx' = nextTx + 1 /\ nextTx <= MaxTx
      BY <1>4, BoundsAssumption DEF IInv, StartPrepared, At, ConnectorInv, NextType, Tx
    <2>3. Sets(w, "opening", task[w].connector, nextTx) /\ TakenKept
      BY <1>4, <2>2, Gives DEF IInv, StartPrepared, Pcs
    <2>4. \A v \in Tasks : v # w /\ (Unregistered(v) \/ task[v].pc \in StopPcs) =>
                               task[v].tx \in Nat /\ task[v].tx < nextTx
      BY DEF IInv, TxInv, Tx
    <2>5. active[nextTx] = None /\ closes[nextTx] = 0
      BY <2>2 DEF IInv, FreshInv
    <2>6. /\ StatusType' /\ ActiveType' /\ SetTypes' /\ ProfileType'
          /\ QueueType' /\ SlotTypes' /\ HistoryTypes' /\ InboundType'
      BY <2>1 DEF IInv, StatusType, ActiveType, SetTypes, ProfileType, QueueType, SlotTypes,
         HistoryTypes, InboundType
    <2>7. EndedAtMostOnce' /\ ClosedIsReported'
      BY <2>1 DEF IInv, EndedAtMostOnce, ClosedIsReported
    <2>8. NextType'
      BY <2>2, BoundsAssumption DEF IInv, NextType
    <2>9. TaskType'
      BY <2>3 DEF Sets
    <2>10. RangeInv'
      BY <2>2, <2>3 DEF IInv, RangeInv, Sets
    <2>11. ConnectorInv'
      BY <2>2, <2>3 DEF IInv, ConnectorInv, Sets
    <2>12. TxInv'
      <3>1. \A v \in Tasks : task[v].tx \in Nat
        BY DEF IInv, TaskType, TaskRec
      <3>2. QED
        BY <1>4, <2>2, <2>3, <3>1 DEF IInv, TxInv, Sets, Unregistered, StopPcs
    <2>13. TakenInv'
      BY <2>2, <2>3, StillTaken
    <2>14. FreshInv'
      BY <2>1, <2>2 DEF IInv, FreshInv, Tx
    <2>15. OwnerInv'
      <3>1. \A v \in Tasks : v # w => (Unregistered(v)' <=> Unregistered(v)) /\ task'[v] = task[v]
        BY <2>3 DEF Sets, Unregistered
      <3>2. task'[w].pc \notin StopPcs /\ task'[w].tx = nextTx
        BY <2>3 DEF Sets, StopPcs
      <3>3. QED
        BY <2>1, <2>2, <2>4, <2>5, <3>1, <3>2 DEF IInv, OwnerInv
    <2>16. StopInv'
      BY <2>1, <2>3 DEF IInv, StopInv, Sets, StopPcs
    <2>17. SessionInv'
      BY <2>1, <2>2, <2>3 DEF IInv, SessionInv, Sets
    <2>18. DetachInv'
      BY <2>1, <2>3 DEF IInv, DetachInv, Sets, StopPcs
    <2>19. ProfileInv'
      BY <2>1, <2>2, <2>3 DEF IInv, ProfileInv, Sets
    <2>20. AckInv'
      BY <2>1, <2>3 DEF IInv, AckInv, Sets
    <2>21. FiredInv'
      BY <2>1, <2>3, FiredKept
    <2>22. QED
      BY <2>6, <2>7, <2>8, <2>9, <2>10, <2>11, <2>12, <2>13, <2>14, <2>15, <2>16, <2>17, <2>18,
         <2>19, <2>20, <2>21 DEF IInv
  <1>5. ASSUME NEW w \in Tasks, StartOpened(w), version # "V201" PROVE IInv'
    <2>1. UNCHANGED <<status, active, sessions, samplers, profile, queue, pendingReset,
                        pendingAvail, inbound, closes, acked, scheduled,
                        fired, late>>
      BY <1>5 DEF StartOpened, slots, history
    <2>2. /\ task[w].pc = "opening" /\ task[w].connector \in Connectors
          /\ nextTx \in Nat /\ nextTx \in Tx /\ nextTx' = nextTx + 1 /\ nextTx <= MaxTx
      BY <1>5, BoundsAssumption DEF IInv, StartOpened, At, ConnectorInv, NextType, Tx
    <2>3. Sets(w, "register", task[w].connector, nextTx) /\ TakenKept
      BY <1>5, <2>2, Gives DEF IInv, StartOpened, Pcs
    <2>4. \A v \in Tasks : v # w /\ (Unregistered(v) \/ task[v].pc \in StopPcs) =>
                               task[v].tx \in Nat /\ task[v].tx < nextTx
      BY DEF IInv, TxInv, Tx
    <2>5. active[nextTx] = None /\ closes[nextTx] = 0
      BY <2>2 DEF IInv, FreshInv
    <2>6. /\ StatusType' /\ ActiveType' /\ SetTypes' /\ ProfileType'
          /\ QueueType' /\ SlotTypes' /\ HistoryTypes' /\ InboundType'
      BY <2>1 DEF IInv, StatusType, ActiveType, SetTypes, ProfileType, QueueType, SlotTypes,
         HistoryTypes, InboundType
    <2>7. EndedAtMostOnce' /\ ClosedIsReported'
      BY <2>1 DEF IInv, EndedAtMostOnce, ClosedIsReported
    <2>8. NextType'
      BY <2>2, BoundsAssumption DEF IInv, NextType
    <2>9. TaskType'
      BY <2>3 DEF Sets
    <2>10. RangeInv'
      BY <2>2, <2>3 DEF IInv, RangeInv, Sets
    <2>11. ConnectorInv'
      BY <2>2, <2>3 DEF IInv, ConnectorInv, Sets
    <2>12. TxInv'
      <3>1. \A v \in Tasks : task[v].tx \in Nat
        BY DEF IInv, TaskType, TaskRec
      <3>2. QED
        BY <1>5, <2>2, <2>3, <3>1 DEF IInv, TxInv, Sets, Unregistered, StopPcs
    <2>13. TakenInv'
      BY <2>2, <2>3, StillTaken
    <2>14. FreshInv'
      BY <2>1, <2>2 DEF IInv, FreshInv, Tx
    <2>15. OwnerInv'
      <3>1. \A v \in Tasks : v # w => (Unregistered(v)' <=> Unregistered(v)) /\ task'[v] = task[v]
        BY <2>3 DEF Sets, Unregistered
      <3>2. task'[w].pc \notin StopPcs /\ task'[w].tx = nextTx
        BY <2>3 DEF Sets, StopPcs
      <3>3. QED
        BY <2>1, <2>2, <2>4, <2>5, <3>1, <3>2 DEF IInv, OwnerInv
    <2>16. StopInv'
      BY <2>1, <2>3 DEF IInv, StopInv, Sets, StopPcs
    <2>17. SessionInv'
      BY <2>1, <2>2, <2>3 DEF IInv, SessionInv, Sets
    <2>18. DetachInv'
      BY <2>1, <2>3 DEF IInv, DetachInv, Sets, StopPcs
    <2>19. ProfileInv'
      BY <2>1, <2>2, <2>3 DEF IInv, ProfileInv, Sets
    <2>20. AckInv'
      BY <2>1, <2>3 DEF IInv, AckInv, Sets
    <2>21. FiredInv'
      BY <2>1, <2>3, FiredKept
    <2>22. QED
      BY <2>6, <2>7, <2>8, <2>9, <2>10, <2>11, <2>12, <2>13, <2>14, <2>15, <2>16, <2>17, <2>18,
         <2>19, <2>20, <2>21 DEF IInv
  <1>6. ASSUME NEW w \in Tasks, StartOpened(w), version = "V201" PROVE IInv'
    <2>1. UNCHANGED <<status, active, samplers, nextTx, queue, pendingReset, pendingAvail,
                        inbound, closes, acked, scheduled, fired, late>>
      BY <1>6 DEF StartOpened, slots, history
    <2>2. /\ task[w].pc = "opening" /\ Unregistered(w) /\ task[w].connector \in Connectors
          /\ task[w].tx \in Tx /\ task[w].tx < nextTx
      BY <1>6 DEF IInv, StartOpened, At, Unregistered, ConnectorInv, TxInv
    <2>3. Sets(w, "register", task[w].connector, task[w].tx) /\ TakenKept
      BY <1>6, Goes DEF IInv, StartOpened, Pcs
    <2>4. /\ sessions' = sessions \cup {task[w].tx}
          /\ profile' \in {profile, [profile EXCEPT ![task[w].connector] = task[w].tx]}
      BY <1>6 DEF StartOpened
    <2>5. /\ closes[task[w].tx] = 0
          /\ \A v \in Tasks : task[v].pc \in StopPcs => task[v].tx # task[w].tx
      BY <2>2 DEF IInv, OwnerInv
    <2>6. \A v \in Tasks : /\ task'[v].pc = "register" <=> task[v].pc = "register" \/ v = w
                           /\ task'[v].tx = task[v].tx /\ task'[v].connector = task[v].connector
                           /\ task'[v].pc \in StopPcs => task[v].pc \in StopPcs /\ task'[v].pc = task[v].pc
                           /\ Unregistered(v)' <=> Unregistered(v)
      BY <1>6, <2>2, <2>3 DEF Sets, StopPcs, Unregistered
    <2>7. /\ StatusType' /\ ActiveType' /\ NextType' /\ QueueType'
          /\ SlotTypes' /\ HistoryTypes' /\ InboundType'
      BY <2>1 DEF IInv, StatusType, ActiveType, NextType, QueueType, SlotTypes, HistoryTypes,
         InboundType
    <2>8. EndedAtMostOnce' /\ ClosedIsReported'
      BY <2>1 DEF IInv, EndedAtMostOnce, ClosedIsReported
    <2>9. SetTypes'
      BY <2>1, <2>2, <2>4 DEF IInv, SetTypes
    <2>10. ProfileType'
      BY <2>2, <2>4 DEF IInv, ProfileType
    <2>11. TaskType'
      BY <2>3 DEF Sets
    <2>12. RangeInv'
      BY <2>6 DEF IInv, RangeInv
    <2>13. ConnectorInv'
      BY <2>2, <2>3 DEF IInv, ConnectorInv, Sets
    <2>14. TxInv'
      BY <2>1, <2>2, <2>3 DEF IInv, TxInv, Unregistered, Sets, StopPcs
    <2>15. TakenInv'
      BY <2>2, <2>3, StillTaken
    <2>16. FreshInv'
      BY <2>1, <2>2, <2>4 DEF IInv, FreshInv, NextType, Tx
    <2>17. OwnerInv'
      BY <2>1, <2>6 DEF IInv, OwnerInv
    <2>18. StopInv'
      BY <2>1, <2>6 DEF IInv, StopInv
    <2>19. SessionInv'
      BY <2>1, <2>4, <2>5, <2>6 DEF IInv, SessionInv
    <2>20. DetachInv'
      BY <1>6, <2>4, <2>5, <2>6 DEF VersionType, IInv, DetachInv, StopPcs
    <2>21. ProfileInv'
      BY <2>1, <2>2, <2>4, <2>6 DEF IInv, ProfileInv, ProfileType
    <2>22. AckInv'
      BY <2>1, <2>6 DEF IInv, AckInv, StopPcs
    <2>23. FiredInv'
      BY <2>1, <2>3, FiredKept
    <2>24. QED
      BY <2>7, <2>8, <2>9, <2>10, <2>11, <2>12, <2>13, <2>14, <2>15, <2>16, <2>17, <2>18, <2>19,
         <2>20, <2>21, <2>22, <2>23 DEF IInv
  <1>7. ASSUME NEW w \in Tasks, StartFails(w) PROVE IInv'
    <2>1. UNCHANGED <<status, active, sessions, samplers, profile, nextTx, queue, pendingReset,
                        pendingAvail, inbound, closes, acked, scheduled,
                        fired, late>>
      BY <1>7 DEF StartFails, store, slots, history
    <2>2. /\ task[w].pc \in {"preparing", "opening", "charging"} /\ task[w].takenReset = "none"
          /\ "idle" \in Pcs
      BY <1>7 DEF IInv, StartFails, TakenInv, Pcs
    <2>3. Sets(w, "idle", None, None) /\ TakenKept
      BY <1>7, <2>2, Stops DEF IInv, StartFails
    <2>4. /\ TaskType' /\ RangeInv' /\ ConnectorInv' /\ TxInv' /\ OwnerInv'
          /\ StopInv' /\ SessionInv' /\ DetachInv' /\ ProfileInv' /\ AckInv'
      BY <2>1, <2>2, <2>3, Leaves DEF StopPcs
    <2>5. TakenInv'
      BY <2>1, <2>2, <2>3, StillTaken
    <2>6. FiredInv'
      BY <2>1, <2>3, FiredKept
    <2>7. /\ StatusType' /\ ActiveType' /\ SetTypes' /\ ProfileType' /\ NextType'
          /\ QueueType' /\ SlotTypes' /\ HistoryTypes' /\ InboundType'
      BY <2>1 DEF IInv, StatusType, ActiveType, SetTypes, ProfileType, NextType, QueueType,
         SlotTypes, HistoryTypes, InboundType
    <2>8. FreshInv'
      BY <2>1 DEF IInv, FreshInv
    <2>9. EndedAtMostOnce' /\ ClosedIsReported'
      BY <2>1 DEF IInv, EndedAtMostOnce, ClosedIsReported
    <2>10. QED
      BY <2>4, <2>5, <2>6, <2>7, <2>8, <2>9 DEF IInv
  <1>8. ASSUME NEW w \in Tasks, StartRegister(w) PROVE IInv'
    <2>1. UNCHANGED <<status, sessions, samplers, profile, nextTx, queue, pendingReset,
                        pendingAvail, inbound, closes, acked, scheduled,
                        fired, late>>
      BY <1>8 DEF StartRegister, slots, history
    <2>2. /\ task[w].pc = "register" /\ Unregistered(w) /\ task[w].connector \in Connectors
          /\ task[w].connector # None /\ task[w].tx \in Tx /\ task[w].tx < nextTx
      BY <1>8 DEF IInv, StartRegister, At, Unregistered, ConnectorInv, TxInv, Connectors, None
    <2>3. Sets(w, "energize", task[w].connector, task[w].tx) /\ TakenKept
      BY <1>8, Goes DEF IInv, StartRegister, Pcs
    <2>4. /\ active'[task[w].tx] = task[w].connector
          /\ \A t \in Tx : t # task[w].tx => active'[t] = active[t]
          /\ ActiveType'
      BY <1>8, <2>2 DEF IInv, StartRegister, ActiveType
    <2>5. /\ active[task[w].tx] = None
          /\ \A v \in Tasks : v # w /\ Unregistered(v) => task[v].tx # task[w].tx
          /\ \A v \in Tasks : task[v].pc \in StopPcs => task[v].tx # task[w].tx
      BY <2>2 DEF IInv, OwnerInv
    <2>6. \A v \in Tasks : /\ task'[v].tx = task[v].tx /\ task'[v].connector = task[v].connector
                           /\ task'[v].pc \in StopPcs => task[v].pc \in StopPcs /\ task'[v].pc = task[v].pc
                           /\ Unregistered(v)' <=> Unregistered(v) /\ v # w
                           /\ v # w => task'[v].pc = task[v].pc
      BY <2>2, <2>3 DEF Sets, StopPcs, Unregistered
    <2>7. /\ StatusType' /\ SetTypes' /\ ProfileType' /\ NextType'
          /\ QueueType' /\ SlotTypes' /\ HistoryTypes' /\ InboundType'
      BY <2>1 DEF IInv, StatusType, SetTypes, ProfileType, NextType, QueueType, SlotTypes,
         HistoryTypes, InboundType
    <2>8. EndedAtMostOnce'
      BY <2>1 DEF IInv, EndedAtMostOnce
    <2>9. ActiveType'
      BY <2>4
    <2>10. TaskType'
      BY <2>3 DEF Sets
    <2>11. RangeInv'
      BY <2>6 DEF IInv, RangeInv
    <2>12. ConnectorInv'
      BY <2>2, <2>3 DEF IInv, ConnectorInv, Sets
    <2>13. TxInv'
      BY <2>1, <2>2, <2>3 DEF IInv, TxInv, Unregistered, Sets, StopPcs
    <2>14. TakenInv'
      BY <2>2, <2>3, StillTaken
    <2>15. FreshInv'
      BY <2>1, <2>2, <2>4 DEF IInv, FreshInv, NextType, Tx
    <2>16. OwnerInv'
      BY <2>1, <2>4, <2>5, <2>6 DEF IInv, OwnerInv, TxInv
    <2>17. StopInv'
      BY <2>4, <2>5, <2>6 DEF IInv, StopInv, TxInv
    <2>18. SessionInv'
      BY <2>1, <2>2, <2>4, <2>5, <2>6 DEF IInv, SessionInv, SetTypes
    <2>19. DetachInv'
      BY <2>1, <2>6 DEF IInv, DetachInv, StopPcs
    <2>20. ProfileInv'
      <3>1. SUFFICES ASSUME NEW c \in Connectors, profile[c] # None, profile[c] \notin late
                   PROVE  \/ active'[profile[c]] = c
                          \/ \E v \in Tasks : /\ task'[v].pc = "register" /\ task'[v].tx = profile[c]
                                              /\ task'[v].connector = c
        BY <2>1 DEF IInv, ProfileInv
      <3>2. profile[c] \in Tx /\ c # None
        BY <3>1 DEF IInv, ProfileType, Connectors, None
      <3>3. CASE active[profile[c]] = c
        BY <2>4, <2>5, <3>2, <3>3
      <3>4. ASSUME NEW v \in Tasks, task[v].pc = "register", task[v].tx = profile[c], task[v].connector = c
            PROVE  \/ active'[profile[c]] = c
                   \/ \E u \in Tasks : /\ task'[u].pc = "register" /\ task'[u].tx = profile[c]
                                       /\ task'[u].connector = c
        BY <2>2, <2>4, <2>6, <3>4
      <3>5. QED
        BY <3>1, <3>3, <3>4 DEF IInv, ProfileInv
    <2>21. AckInv'
      BY <2>1, <2>6 DEF IInv, AckInv, StopPcs
    <2>22. ClosedIsReported'
      BY <2>1, <2>2, <2>4 DEF IInv, ClosedIsReported
    <2>23. FiredInv'
      BY <2>1, <2>3, FiredKept
    <2>24. QED
      BY <2>7, <2>8, <2>9, <2>10, <2>11, <2>12, <2>13, <2>14, <2>15, <2>16, <2>17, <2>18, <2>19,
         <2>20, <2>21, <2>22, <2>23 DEF IInv
  <1>9. ASSUME NEW w \in Tasks, StartEnergize(w) PROVE IInv'
    <2>1. UNCHANGED <<active, sessions, samplers, profile, nextTx, queue, pendingReset,
                        pendingAvail, inbound, closes, acked, scheduled,
                        fired, late>>
      BY <1>9 DEF StartEnergize, slots, history
    <2>2. /\ task[w].pc = "energize" /\ "charging" \in Pcs /\ task[w].connector \in Connectors
          /\ task[w].tx \in Tx
      BY <1>9 DEF IInv, StartEnergize, At, ConnectorInv, TxInv, Pcs
    <2>3. Sets(w, "charging", task[w].connector, task[w].tx) /\ TakenKept
      BY <1>9, <2>2, Goes DEF IInv, StartEnergize
    <2>4. /\ TaskType' /\ RangeInv' /\ ConnectorInv' /\ TxInv' /\ OwnerInv'
          /\ StopInv' /\ SessionInv' /\ DetachInv' /\ ProfileInv' /\ AckInv'
      BY <2>1, <2>2, <2>3, Leaves DEF StopPcs
    <2>5. TakenInv'
      BY <2>1, <2>2, <2>3, StillTaken
    <2>6. FiredInv'
      BY <2>1, <2>3, FiredKept
    <2>7. /\ ActiveType' /\ SetTypes' /\ ProfileType' /\ NextType'
          /\ QueueType' /\ SlotTypes' /\ HistoryTypes' /\ InboundType'
      BY <2>1 DEF IInv, ActiveType, SetTypes, ProfileType, NextType, QueueType, SlotTypes,
         HistoryTypes, InboundType
    <2>8. FreshInv'
      BY <2>1 DEF IInv, FreshInv
    <2>9. EndedAtMostOnce' /\ ClosedIsReported'
      BY <2>1 DEF IInv, EndedAtMostOnce, ClosedIsReported
    <2>10. StatusType'
      BY <1>9 DEF IInv, StatusType, StartEnergize
    <2>11. QED
      BY <2>4, <2>5, <2>6, <2>7, <2>8, <2>9, <2>10 DEF IInv
  <1>10. ASSUME NEW w \in Tasks, StartSampler(w) PROVE IInv'
    <2>1. UNCHANGED <<status, active, sessions, profile, nextTx, queue, pendingReset,
                        pendingAvail, inbound, closes, acked, scheduled,
                        fired, late>>
      BY <1>10 DEF StartSampler, slots, history
    <2>2. /\ task[w].pc = "charging" /\ task[w].takenReset = "none" /\ "idle" \in Pcs
          /\ task[w].tx \in Tx
      BY <1>10 DEF IInv, StartSampler, At, TakenInv, TxInv, Pcs
    <2>3. Sets(w, "idle", None, None) /\ TakenKept
      BY <1>10, <2>2, Stops DEF IInv, StartSampler
    <2>4. /\ TaskType' /\ RangeInv' /\ ConnectorInv' /\ TxInv' /\ OwnerInv'
          /\ StopInv' /\ SessionInv' /\ DetachInv' /\ ProfileInv' /\ AckInv'
      BY <2>1, <2>2, <2>3, Leaves DEF StopPcs
    <2>5. TakenInv'
      BY <2>1, <2>2, <2>3, StillTaken
    <2>6. FiredInv'
      BY <2>1, <2>3, FiredKept
    <2>7. /\ StatusType' /\ ActiveType' /\ ProfileType' /\ NextType'
          /\ QueueType' /\ SlotTypes' /\ HistoryTypes' /\ InboundType'
      BY <2>1 DEF IInv, StatusType, ActiveType, ProfileType, NextType, QueueType, SlotTypes,
         HistoryTypes, InboundType
    <2>8. FreshInv'
      BY <2>1 DEF IInv, FreshInv
    <2>9. EndedAtMostOnce' /\ ClosedIsReported'
      BY <2>1 DEF IInv, EndedAtMostOnce, ClosedIsReported
    <2>10. SetTypes'
      BY <1>10, <2>1, <2>2 DEF IInv, SetTypes, StartSampler
    <2>11. QED
      BY <2>4, <2>5, <2>6, <2>7, <2>8, <2>9, <2>10 DEF IInv
  <1>11. ASSUME NEW w \in Tasks, StopLookup(w), active[task[w].tx] = None PROVE IInv'
    <2>1. UNCHANGED <<status, active, sessions, samplers, profile, nextTx, queue, pendingReset,
                        pendingAvail, inbound, closes, acked, scheduled,
                        fired, late>>
      BY <1>11 DEF StopLookup, store, slots
    <2>2. /\ task[w].pc = "lookup" /\ task[w].takenReset = "none"
          /\ "idle" \in Pcs /\ "stopping" \in Pcs
      BY <1>11 DEF IInv, StopLookup, At, TakenInv, Pcs
    <2>3. (Sets(w, "idle", None, None) \/ Sets(w, "stopping", None, None)) /\ TakenKept
      BY <1>11, <2>2, ReturnsKept DEF IInv, StopLookup
    <2>4. /\ TaskType' /\ RangeInv' /\ ConnectorInv' /\ TxInv' /\ OwnerInv'
          /\ StopInv' /\ SessionInv' /\ DetachInv' /\ ProfileInv' /\ AckInv'
      BY <2>1, <2>2, <2>3, Leaves DEF StopPcs
    <2>5. TakenInv'
      BY <2>1, <2>2, <2>3, StillTaken
    <2>6. FiredInv'
      BY <2>1, <2>3, FiredKept
    <2>7. /\ StatusType' /\ ActiveType' /\ SetTypes' /\ ProfileType' /\ NextType'
          /\ QueueType' /\ SlotTypes' /\ HistoryTypes' /\ InboundType'
      BY <2>1 DEF IInv, StatusType, ActiveType, SetTypes, ProfileType, NextType, QueueType,
         SlotTypes, HistoryTypes, InboundType
    <2>8. FreshInv'
      BY <2>1 DEF IInv, FreshInv
    <2>9. EndedAtMostOnce' /\ ClosedIsReported'
      BY <2>1 DEF IInv, EndedAtMostOnce, ClosedIsReported
    <2>10. QED
      BY <2>4, <2>5, <2>6, <2>7, <2>8, <2>9 DEF IInv
  <1>12. ASSUME NEW w \in Tasks, StopLookup(w), active[task[w].tx] # None, version = "V201"
        PROVE IInv'
    <2>1. UNCHANGED <<status, active, sessions, samplers, profile, nextTx, queue, pendingReset,
                        pendingAvail, inbound, closes, acked, scheduled,
                        fired, late>>
      BY <1>12 DEF StopLookup, store, slots
    <2>2. /\ task[w].pc = "lookup" /\ task[w].tx \in Tx /\ active[task[w].tx] \in Connectors
          /\ active[task[w].tx] \in Nat /\ task[w].tx < nextTx
      BY <1>12 DEF IInv, StopLookup, At, TxInv, ActiveType, FreshInv, NextType, Tx, Connectors
    <2>3. Sets(w, "close", active[task[w].tx], task[w].tx) /\ TakenKept
      BY <1>12, <2>2, Finds DEF IInv, StopLookup, Pcs
    <2>4. \A v \in Tasks : /\ task'[v].tx = task[v].tx
                           /\ v # w => task'[v] = task[v]
                           /\ Unregistered(v)' <=> Unregistered(v)
                           /\ task[v].pc = "register" => v # w
      BY <2>2, <2>3 DEF Sets, Unregistered
    <2>5. \A v \in Tasks : Unregistered(v) => task[v].tx # task[w].tx
      BY <1>12 DEF IInv, OwnerInv
    <2>6. /\ StatusType' /\ ActiveType' /\ SetTypes' /\ ProfileType' /\ NextType'
          /\ QueueType' /\ SlotTypes' /\ HistoryTypes' /\ InboundType'
      BY <2>1 DEF IInv, StatusType, ActiveType, SetTypes, ProfileType, NextType, QueueType,
         SlotTypes, HistoryTypes, InboundType
    <2>7. FreshInv'
      BY <2>1 DEF IInv, FreshInv
    <2>8. EndedAtMostOnce' /\ ClosedIsReported'
      BY <2>1 DEF IInv, EndedAtMostOnce, ClosedIsReported
    <2>9. TaskType'
      BY <2>3 DEF Sets
    <2>10. RangeInv'
      BY <2>2, <2>3 DEF IInv, RangeInv, Sets
    <2>11. ConnectorInv'
      BY <2>2, <2>3 DEF IInv, ConnectorInv, Sets
    <2>12. TxInv'
      BY <1>12, <2>1, <2>2, <2>3 DEF IInv, TxInv, Unregistered, Sets, StopPcs
    <2>13. TakenInv'
      BY <2>2, <2>3, StillTaken
    <2>14. OwnerInv'
      BY <2>1, <2>2, <2>4, <2>5 DEF IInv, OwnerInv, TxInv
    <2>15. StopInv'
      BY <2>1, <2>2, <2>3 DEF IInv, StopInv, Sets
    <2>16. SessionInv'
      BY <2>1, <2>4 DEF IInv, SessionInv
    <2>17. DetachInv'
      BY <1>12, <2>1, <2>3 DEF IInv, DetachInv, Sets, StopPcs
    <2>18. ProfileInv'
      BY <2>1, <2>4 DEF IInv, ProfileInv
    <2>19. AckInv'
      BY <2>1, <2>3 DEF IInv, AckInv, Sets
    <2>20. FiredInv'
      BY <2>1, <2>3, FiredKept
    <2>21. QED
      BY <2>6, <2>7, <2>8, <2>9, <2>10, <2>11, <2>12, <2>13, <2>14, <2>15, <2>16, <2>17, <2>18,
         <2>19, <2>20 DEF IInv
  <1>13. ASSUME NEW w \in Tasks, StopLookup(w), active[task[w].tx] # None, version # "V201"
        PROVE IInv'
    <2>1. UNCHANGED <<status, active, sessions, samplers, profile, nextTx, queue, pendingReset,
                        pendingAvail, inbound, acked, scheduled, fired, late>>
      BY <1>13 DEF StopLookup, store, slots
    <2>2. /\ task[w].pc = "lookup" /\ task[w].tx \in Tx /\ active[task[w].tx] \in Connectors
          /\ active[task[w].tx] \in Nat /\ task[w].tx < nextTx
      BY <1>13 DEF IInv, StopLookup, At, TxInv, ActiveType, FreshInv, NextType, Tx, Connectors
    <2>3. Sets(w, "closing", active[task[w].tx], task[w].tx) /\ TakenKept
      BY <1>13, <2>2, Finds DEF IInv, StopLookup, Pcs
    <2>4. \A v \in Tasks : /\ task'[v].tx = task[v].tx
                           /\ v # w => task'[v] = task[v]
                           /\ Unregistered(v)' <=> Unregistered(v)
                           /\ task[v].pc = "register" => v # w
      BY <2>2, <2>3 DEF Sets, Unregistered
    <2>5. \A v \in Tasks : Unregistered(v) => task[v].tx # task[w].tx
      BY <1>13 DEF IInv, OwnerInv
    <2>6. /\ closes' \in [Tx -> Nat]
          /\ \A t \in Tx : t # task[w].tx => closes'[t] = closes[t]
      BY <1>13, <2>2 DEF IInv, StopLookup, SendClose, HistoryTypes
    <2>7. sessions = {}
      BY <1>13 DEF VersionType, IInv, DetachInv
    <2>8. /\ StatusType' /\ ActiveType' /\ SetTypes' /\ ProfileType'
          /\ NextType' /\ QueueType' /\ SlotTypes' /\ InboundType'
      BY <2>1 DEF IInv, StatusType, ActiveType, SetTypes, ProfileType, NextType, QueueType,
         SlotTypes, InboundType
    <2>9. TaskType'
      BY <2>3 DEF Sets
    <2>10. HistoryTypes'
      BY <2>1, <2>6 DEF IInv, HistoryTypes
    <2>11. RangeInv'
      BY <2>2, <2>3 DEF IInv, RangeInv, Sets
    <2>12. ConnectorInv'
      BY <2>2, <2>3 DEF IInv, ConnectorInv, Sets
    <2>13. TxInv'
      BY <1>13, <2>1, <2>2, <2>3 DEF IInv, TxInv, Unregistered, Sets, StopPcs
    <2>14. TakenInv'
      BY <2>2, <2>3, StillTaken
    <2>15. FreshInv'
      BY <2>1, <2>2, <2>6 DEF IInv, FreshInv, NextType, Tx
    <2>16. OwnerInv'
      BY <2>1, <2>2, <2>4, <2>5, <2>6 DEF IInv, OwnerInv, TxInv
    <2>17. StopInv'
      BY <2>1, <2>2, <2>3 DEF IInv, StopInv, Sets
    <2>18. SessionInv'
      BY <2>1, <2>4, <2>6, <2>7 DEF IInv, SessionInv
    <2>19. DetachInv'
      BY <1>13, <2>1, <2>3, <2>7 DEF VersionType, IInv, DetachInv, Sets, StopPcs
    <2>20. ProfileInv'
      BY <2>1, <2>4 DEF IInv, ProfileInv
    <2>21. AckInv'
      BY <2>1, <2>3 DEF IInv, AckInv, Sets
    <2>22. EndedAtMostOnce'
      BY <1>13 DEF EndedAtMostOnce
    <2>23. ClosedIsReported'
      BY <1>13, <2>1, <2>6 DEF IInv, ClosedIsReported
    <2>24. FiredInv'
      BY <2>1, <2>3, FiredKept
    <2>25. QED
      BY <2>8, <2>9, <2>10, <2>11, <2>12, <2>13, <2>14, <2>15, <2>16, <2>17, <2>18, <2>19, <2>20,
         <2>21, <2>22, <2>23, <2>24 DEF IInv
  <1>14. ASSUME NEW w \in Tasks, StopDetach(w), task[w].tx \in sessions PROVE IInv'
    <2>1. UNCHANGED <<status, active, nextTx, queue, pendingReset, pendingAvail, inbound, acked,
                        scheduled, fired, late>>
      BY <1>14 DEF StopDetach, slots
    <2>2. /\ task[w].pc = "close" /\ task[w].tx \in Tx /\ task[w].connector \in Connectors
          /\ task[w].tx < nextTx /\ version = "V201"
      BY <1>14 DEF IInv, StopDetach, At, TxInv, ConnectorInv, StopPcs
    <2>3. Sets(w, "closing", task[w].connector, task[w].tx) /\ TakenKept
      BY <1>14, Goes DEF IInv, StopDetach, Pcs
    <2>4. \A v \in Tasks : /\ task'[v].tx = task[v].tx
                           /\ v # w => task'[v] = task[v]
                           /\ Unregistered(v)' <=> Unregistered(v)
                           /\ task[v].pc = "register" => v # w
      BY <2>2, <2>3 DEF Sets, Unregistered
    <2>5. \A v \in Tasks : Unregistered(v) => task[v].tx # task[w].tx
      BY <2>2 DEF IInv, OwnerInv, StopPcs
    <2>6. /\ sessions' = sessions \ {task[w].tx} /\ samplers' = samplers \ {task[w].tx}
          /\ profile' = [profile EXCEPT ![task[w].connector] = None]
      BY <1>14 DEF StopDetach
    <2>7. /\ closes' \in [Tx -> Nat] /\ closes'[task[w].tx] = 1
          /\ \A t \in Tx : t # task[w].tx => closes'[t] = closes[t]
      <3>1. closes[task[w].tx] = 0
        BY <1>14 DEF IInv, SessionInv
      <3>2. QED
        BY <1>14, <2>2, <3>1 DEF IInv, StopDetach, SendClose, HistoryTypes
    <2>8. StatusType' /\ ActiveType' /\ NextType' /\ QueueType' /\ SlotTypes' /\ InboundType'
      BY <2>1 DEF IInv, StatusType, ActiveType, NextType, QueueType, SlotTypes, InboundType
    <2>9. SetTypes'
      BY <2>6 DEF IInv, SetTypes
    <2>10. ProfileType'
      BY <2>6 DEF IInv, ProfileType
    <2>11. TaskType'
      BY <2>3 DEF Sets
    <2>12. HistoryTypes'
      BY <2>1, <2>7 DEF IInv, HistoryTypes
    <2>13. RangeInv'
      BY <2>3 DEF IInv, RangeInv, Sets
    <2>14. ConnectorInv'
      BY <2>2, <2>3 DEF IInv, ConnectorInv, Sets
    <2>15. TxInv'
      BY <2>1, <2>2, <2>3 DEF IInv, TxInv, Unregistered, Sets, StopPcs
    <2>16. TakenInv'
      BY <2>2, <2>3, StillTaken
    <2>17. FreshInv'
      BY <2>1, <2>2, <2>6, <2>7 DEF IInv, FreshInv, NextType, Tx
    <2>18. OwnerInv'
      <3>1. \A v \in Tasks : task'[v].pc \in StopPcs => task[v].pc \in StopPcs
        BY <2>2, <2>3 DEF Sets, StopPcs
      <3>2. QED
        BY <2>1, <2>2, <2>4, <2>5, <3>1, <2>7 DEF IInv, OwnerInv, TxInv
    <2>19. StopInv'
      BY <2>1, <2>2, <2>3 DEF IInv, StopInv, Sets, StopPcs
    <2>20. SessionInv'
      BY <2>1, <2>4, <2>6, <2>7 DEF IInv, SessionInv, SetTypes
    <2>21. DetachInv'
      BY <2>2, <2>3, <2>6 DEF IInv, DetachInv, Sets, StopPcs
    <2>22. ProfileInv'
      <3>1. SUFFICES ASSUME NEW c \in Connectors, profile'[c] # None, profile'[c] \notin late
                   PROVE  /\ profile'[c] \in sessions'
                          /\ \/ active[profile'[c]] = c
                             \/ \E v \in Tasks : /\ task'[v].pc = "register" /\ task'[v].tx = profile'[c]
                                                 /\ task'[v].connector = c
        BY <2>1 DEF ProfileInv
      <3>2. c # task[w].connector /\ profile'[c] = profile[c] /\ c # None
        BY <2>6, <3>1 DEF IInv, ProfileType, Connectors, None
      <3>3. active[task[w].tx] # c
        BY <2>2, <3>2 DEF IInv, StopInv, StopPcs
      <3>4. /\ profile[c] \in sessions
            /\ \/ active[profile[c]] = c
               \/ \E v \in Tasks : /\ task[v].pc = "register" /\ task[v].tx = profile[c]
                                   /\ task[v].connector = c
        BY <3>1, <3>2 DEF IInv, ProfileInv
      <3>5. profile[c] # task[w].tx
        BY <2>5, <3>3, <3>4 DEF Unregistered
      <3>6. QED
        BY <2>4, <2>6, <3>2, <3>4, <3>5
    <2>23. AckInv'
      BY <2>1, <2>2 DEF AckInv
    <2>24. EndedAtMostOnce'
      BY <2>7 DEF IInv, EndedAtMostOnce
    <2>25. ClosedIsReported'
      BY <2>1, <2>2 DEF ClosedIsReported
    <2>26. FiredInv'
      BY <2>1, <2>3, FiredKept
    <2>27. QED
      BY <2>8, <2>9, <2>10, <2>11, <2>12, <2>13, <2>14, <2>15, <2>16, <2>17, <2>18, <2>19, <2>20,
         <2>21, <2>22, <2>23, <2>24, <2>25, <2>26 DEF IInv
  <1>15. ASSUME NEW w \in Tasks, StopDetach(w), task[w].tx \notin sessions PROVE IInv'
    <2>1. UNCHANGED <<status, active, nextTx, queue, pendingReset, pendingAvail, inbound, closes,
                        acked, scheduled, fired, late>>
      BY <1>15 DEF StopDetach, slots
    <2>2. /\ task[w].pc = "close" /\ task[w].tx \in Tx /\ task[w].connector \in Connectors
          /\ task[w].tx < nextTx /\ version = "V201"
      BY <1>15 DEF IInv, StopDetach, At, TxInv, ConnectorInv, StopPcs
    <2>3. Sets(w, "finishing", task[w].connector, task[w].tx) /\ TakenKept
      BY <1>15, Goes DEF IInv, StopDetach, Pcs
    <2>4. \A v \in Tasks : /\ task'[v].tx = task[v].tx
                           /\ v # w => task'[v] = task[v]
                           /\ Unregistered(v)' <=> Unregistered(v)
                           /\ task[v].pc = "register" => v # w
      BY <2>2, <2>3 DEF Sets, Unregistered
    <2>5. \A v \in Tasks : Unregistered(v) => task[v].tx # task[w].tx
      BY <2>2 DEF IInv, OwnerInv, StopPcs
    <2>6. /\ sessions' = sessions \ {task[w].tx} /\ samplers' = samplers \ {task[w].tx}
          /\ profile' = [profile EXCEPT ![task[w].connector] = None]
      BY <1>15 DEF StopDetach
    <2>7. /\ StatusType' /\ ActiveType' /\ NextType' /\ QueueType'
          /\ SlotTypes' /\ HistoryTypes' /\ InboundType'
      BY <2>1 DEF IInv, StatusType, ActiveType, NextType, QueueType, SlotTypes, HistoryTypes,
         InboundType
    <2>8. EndedAtMostOnce' /\ ClosedIsReported'
      BY <2>1 DEF IInv, EndedAtMostOnce, ClosedIsReported
    <2>9. SetTypes'
      BY <2>6 DEF IInv, SetTypes
    <2>10. ProfileType'
      BY <2>6 DEF IInv, ProfileType
    <2>11. TaskType'
      BY <2>3 DEF Sets
    <2>12. RangeInv'
      BY <2>3 DEF IInv, RangeInv, Sets
    <2>13. ConnectorInv'
      BY <2>2, <2>3 DEF IInv, ConnectorInv, Sets
    <2>14. TxInv'
      BY <2>1, <2>2, <2>3 DEF IInv, TxInv, Unregistered, Sets, StopPcs
    <2>15. TakenInv'
      BY <2>2, <2>3, StillTaken
    <2>16. FreshInv'
      BY <2>1, <2>2, <2>6 DEF IInv, FreshInv, NextType, Tx
    <2>17. OwnerInv'
      <3>1. \A v \in Tasks : task'[v].pc \in StopPcs => task[v].pc \in StopPcs
        BY <2>2, <2>3 DEF Sets, StopPcs
      <3>2. QED
        BY <2>1, <2>2, <2>4, <2>5, <3>1 DEF IInv, OwnerInv, TxInv
    <2>18. StopInv'
      BY <2>1, <2>2, <2>3 DEF IInv, StopInv, Sets, StopPcs
    <2>19. SessionInv'
      BY <2>1, <2>4, <2>6 DEF IInv, SessionInv, SetTypes
    <2>20. DetachInv'
      BY <2>2, <2>3, <2>6 DEF IInv, DetachInv, Sets, StopPcs
    <2>21. ProfileInv'
      <3>1. SUFFICES ASSUME NEW c \in Connectors, profile'[c] # None, profile'[c] \notin late
                   PROVE  /\ profile'[c] \in sessions'
                          /\ \/ active[profile'[c]] = c
                             \/ \E v \in Tasks : /\ task'[v].pc = "register" /\ task'[v].tx = profile'[c]
                                                 /\ task'[v].connector = c
        BY <2>1 DEF ProfileInv
      <3>2. c # task[w].connector /\ profile'[c] = profile[c] /\ c # None
        BY <2>6, <3>1 DEF IInv, ProfileType, Connectors, None
      <3>3. active[task[w].tx] # c
        BY <2>2, <3>2 DEF IInv, StopInv, StopPcs
      <3>4. /\ profile[c] \in sessions
            /\ \/ active[profile[c]] = c
               \/ \E v \in Tasks : /\ task[v].pc = "register" /\ task[v].tx = profile[c]
                                   /\ task[v].connector = c
        BY <3>1, <3>2 DEF IInv, ProfileInv
      <3>5. profile[c] # task[w].tx
        BY <2>5, <3>3, <3>4 DEF Unregistered
      <3>6. QED
        BY <2>4, <2>6, <3>2, <3>4, <3>5
    <2>22. AckInv'
      BY <2>1, <2>2 DEF AckInv
    <2>23. FiredInv'
      BY <2>1, <2>3, FiredKept
    <2>24. QED
      BY <2>7, <2>8, <2>9, <2>10, <2>11, <2>12, <2>13, <2>14, <2>15, <2>16, <2>17, <2>18, <2>19,
         <2>20, <2>21, <2>22, <2>23 DEF IInv
  <1>16. ASSUME NEW w \in Tasks, StopClosed(w) PROVE IInv'
    <2>1. UNCHANGED <<status, active, sessions, samplers, profile, nextTx, queue, pendingReset,
                        pendingAvail, inbound, closes, scheduled, fired, late>>
      BY <1>16 DEF StopClosed, store, slots
    <2>2. task[w].pc = "closing"
      BY <1>16 DEF StopClosed, At
    <2>3. Sets(w, "finishing", task[w].connector, task[w].tx) /\ TakenKept
      BY <1>16, Goes DEF IInv, StopClosed, Pcs
    <2>4. \A v \in Tasks : /\ task'[v].tx = task[v].tx
                           /\ v # w => task'[v] = task[v]
                           /\ Unregistered(v)' <=> Unregistered(v)
                           /\ task[v].pc = "register" => v # w
      BY <2>2, <2>3 DEF Sets, Unregistered
    <2>5. \A v \in Tasks : task'[v].pc \in StopPcs => task[v].pc \in StopPcs /\ task'[v].connector = task[v].connector
      BY <2>2, <2>3 DEF Sets, StopPcs
    <2>6. /\ StatusType' /\ ActiveType' /\ SetTypes' /\ ProfileType' /\ NextType'
          /\ QueueType' /\ SlotTypes' /\ HistoryTypes' /\ InboundType'
      BY <2>1 DEF IInv, StatusType, ActiveType, SetTypes, ProfileType, NextType, QueueType,
         SlotTypes, HistoryTypes, InboundType
    <2>7. FreshInv'
      BY <2>1 DEF IInv, FreshInv
    <2>8. EndedAtMostOnce'
      BY <2>1 DEF IInv, EndedAtMostOnce
    <2>9. TaskType'
      BY <2>3 DEF Sets
    <2>10. RangeInv'
      BY <2>3 DEF IInv, RangeInv, Sets
    <2>11. ConnectorInv'
      BY <2>2, <2>3 DEF IInv, ConnectorInv, Sets, StopPcs
    <2>12. TxInv'
      BY <2>1, <2>2, <2>3 DEF IInv, TxInv, Unregistered, Sets, StopPcs
    <2>13. TakenInv'
      BY <2>2, <2>3, StillTaken
    <2>14. OwnerInv'
      BY <2>1, <2>4, <2>5 DEF IInv, OwnerInv
    <2>15. StopInv'
      BY <2>1, <2>4, <2>5 DEF IInv, StopInv
    <2>16. SessionInv'
      BY <2>1, <2>4 DEF IInv, SessionInv
    <2>17. DetachInv'
      BY <2>1, <2>2, <2>3 DEF IInv, DetachInv, Sets, StopPcs
    <2>18. ProfileInv'
      BY <2>1, <2>4 DEF IInv, ProfileInv
    <2>19. AckInv'
      BY <1>16, <2>2, <2>3 DEF IInv, AckInv, Sets, StopClosed
    <2>20. ClosedIsReported'
      BY <1>16, <2>1 DEF IInv, ClosedIsReported, StopClosed
    <2>21. FiredInv'
      BY <2>1, <2>3, FiredKept
    <2>22. QED
      BY <2>6, <2>7, <2>8, <2>9, <2>10, <2>11, <2>12, <2>13, <2>14, <2>15, <2>16, <2>17, <2>18,
         <2>19, <2>20, <2>21 DEF IInv
  <1>17. ASSUME NEW w \in Tasks, StopFinishing(w) PROVE IInv'
    <2>1. UNCHANGED <<status, active, sessions, samplers, profile, nextTx, queue, pendingReset,
                        pendingAvail, inbound, closes, acked, scheduled,
                        fired, late>>
      BY <1>17 DEF StopFinishing, store, slots, history
    <2>2. task[w].pc = "finishing"
      BY <1>17 DEF StopFinishing, At
    <2>3. Sets(w, "unregister", task[w].connector, task[w].tx) /\ TakenKept
      BY <1>17, Goes DEF IInv, StopFinishing, Pcs
    <2>4. \A v \in Tasks : /\ task'[v].tx = task[v].tx
                           /\ v # w => task'[v] = task[v]
                           /\ Unregistered(v)' <=> Unregistered(v)
                           /\ task[v].pc = "register" => v # w
      BY <2>2, <2>3 DEF Sets, Unregistered
    <2>5. \A v \in Tasks : task'[v].pc \in StopPcs => task[v].pc \in StopPcs /\ task'[v].connector = task[v].connector
      BY <2>2, <2>3 DEF Sets, StopPcs
    <2>6. /\ StatusType' /\ ActiveType' /\ SetTypes' /\ ProfileType' /\ NextType'
          /\ QueueType' /\ SlotTypes' /\ HistoryTypes' /\ InboundType'
      BY <2>1 DEF IInv, StatusType, ActiveType, SetTypes, ProfileType, NextType, QueueType,
         SlotTypes, HistoryTypes, InboundType
    <2>7. FreshInv'
      BY <2>1 DEF IInv, FreshInv
    <2>8. EndedAtMostOnce' /\ ClosedIsReported'
      BY <2>1 DEF IInv, EndedAtMostOnce, ClosedIsReported
    <2>9. TaskType'
      BY <2>3 DEF Sets
    <2>10. RangeInv'
      BY <2>3 DEF IInv, RangeInv, Sets
    <2>11. ConnectorInv'
      BY <2>2, <2>3 DEF IInv, ConnectorInv, Sets, StopPcs
    <2>12. TxInv'
      BY <2>1, <2>2, <2>3 DEF IInv, TxInv, Unregistered, Sets, StopPcs
    <2>13. TakenInv'
      BY <2>2, <2>3, StillTaken
    <2>14. OwnerInv'
      BY <2>1, <2>4, <2>5 DEF IInv, OwnerInv
    <2>15. StopInv'
      BY <2>1, <2>4, <2>5 DEF IInv, StopInv
    <2>16. SessionInv'
      BY <2>1, <2>4 DEF IInv, SessionInv
    <2>17. DetachInv'
      BY <2>1, <2>2, <2>3 DEF IInv, DetachInv, Sets, StopPcs
    <2>18. ProfileInv'
      BY <2>1, <2>4 DEF IInv, ProfileInv
    <2>19. AckInv'
      BY <2>1, <2>2, <2>3 DEF IInv, AckInv, Sets
    <2>20. FiredInv'
      BY <2>1, <2>3, FiredKept
    <2>21. QED
      BY <2>6, <2>7, <2>8, <2>9, <2>10, <2>11, <2>12, <2>13, <2>14, <2>15, <2>16, <2>17, <2>18,
         <2>19, <2>20 DEF IInv
  <1>18. ASSUME NEW w \in Tasks, StopUnregister(w) PROVE IInv'
    <2>1. UNCHANGED <<status, sessions, profile, nextTx, queue, pendingReset, pendingAvail,
                        inbound, closes, acked, scheduled, fired, late>>
      BY <1>18 DEF StopUnregister, slots, history
    <2>2. /\ task[w].pc = "unregister" /\ task[w].tx \in Tx /\ task[w].connector \in Connectors
          /\ task[w].tx < nextTx /\ task[w].tx \notin sessions
          /\ version = "V16J" => task[w].tx \in acked
      BY <1>18 DEF IInv, StopUnregister, At, TxInv, ConnectorInv, DetachInv, AckInv, StopPcs
    <2>3. Sets(w, "release", task[w].connector, task[w].tx) /\ TakenKept
      BY <1>18, Goes DEF IInv, StopUnregister, Pcs
    <2>4. \A v \in Tasks : /\ task'[v].tx = task[v].tx
                           /\ v # w => task'[v] = task[v]
                           /\ Unregistered(v)' <=> Unregistered(v)
                           /\ task[v].pc = "register" => v # w
      BY <2>2, <2>3 DEF Sets, Unregistered
    <2>5. \A v \in Tasks : task'[v].pc \in StopPcs => task[v].pc \in StopPcs /\ v # w
      BY <2>2, <2>3 DEF Sets, StopPcs
    <2>6. /\ active'[task[w].tx] = None /\ ActiveType'
          /\ \A t \in Tx : t # task[w].tx => active'[t] = active[t]
      BY <1>18, <2>2 DEF IInv, StopUnregister, ActiveType
    <2>7. /\ StatusType' /\ ProfileType' /\ NextType' /\ QueueType'
          /\ SlotTypes' /\ HistoryTypes' /\ InboundType'
      BY <2>1 DEF IInv, StatusType, ProfileType, NextType, QueueType, SlotTypes, HistoryTypes,
         InboundType
    <2>8. EndedAtMostOnce'
      BY <2>1 DEF IInv, EndedAtMostOnce
    <2>9. ActiveType'
      BY <2>6
    <2>10. SetTypes'
      BY <1>18, <2>1 DEF IInv, SetTypes, StopUnregister
    <2>11. TaskType'
      BY <2>3 DEF Sets
    <2>12. RangeInv'
      BY <2>3 DEF IInv, RangeInv, Sets
    <2>13. ConnectorInv'
      BY <2>2, <2>3 DEF IInv, ConnectorInv, Sets, StopPcs
    <2>14. TxInv'
      BY <2>1, <2>2, <2>3 DEF IInv, TxInv, Unregistered, Sets, StopPcs
    <2>15. TakenInv'
      BY <2>2, <2>3, StillTaken
    <2>16. FreshInv'
      BY <2>1, <2>2, <2>6 DEF IInv, FreshInv
    <2>17. OwnerInv'
      BY <2>1, <2>4, <2>5, <2>6 DEF IInv, OwnerInv, TxInv
    <2>18. StopInv'
      BY <2>4, <2>5, <2>6 DEF IInv, StopInv, TxInv
    <2>19. SessionInv'
      BY <2>1, <2>2, <2>4, <2>6 DEF IInv, SessionInv, SetTypes
    <2>20. DetachInv'
      BY <2>1, <2>4, <2>5 DEF IInv, DetachInv
    <2>21. ProfileInv'
      BY <2>1, <2>2, <2>4, <2>6 DEF IInv, ProfileInv, SetTypes
    <2>22. AckInv'
      BY <2>1, <2>3 DEF IInv, AckInv, Sets
    <2>23. ClosedIsReported'
      BY <2>1, <2>2, <2>6 DEF IInv, ClosedIsReported
    <2>24. FiredInv'
      BY <2>1, <2>3, FiredKept
    <2>25. QED
      BY <2>7, <2>8, <2>9, <2>10, <2>11, <2>12, <2>13, <2>14, <2>15, <2>16, <2>17, <2>18, <2>19,
         <2>20, <2>21, <2>22, <2>23, <2>24 DEF IInv
  <1>19. ASSUME NEW w \in Tasks, StopRelease(w) PROVE IInv'
    <2>1. UNCHANGED <<active, sessions, samplers, profile, nextTx, queue, pendingReset,
                        pendingAvail, inbound, closes, acked, scheduled,
                        fired, late>>
      BY <1>19 DEF StopRelease, slots, history
    <2>2. /\ task[w].pc = "release" /\ "available" \in Pcs /\ task[w].connector \in Connectors \cup {None}
          /\ task[w].tx \in Tx \cup {None}
      BY <1>19 DEF IInv, StopRelease, At, RangeInv, Pcs
    <2>3. Sets(w, "available", task[w].connector, task[w].tx) /\ TakenKept
      BY <1>19, <2>2, Goes DEF IInv, StopRelease
    <2>4. /\ TaskType' /\ RangeInv' /\ ConnectorInv' /\ TxInv' /\ OwnerInv'
          /\ StopInv' /\ SessionInv' /\ DetachInv' /\ ProfileInv' /\ AckInv'
      BY <2>1, <2>2, <2>3, Leaves DEF StopPcs
    <2>5. TakenInv'
      BY <2>1, <2>2, <2>3, StillTaken
    <2>6. FiredInv'
      BY <2>1, <2>3, FiredKept
    <2>7. /\ ActiveType' /\ SetTypes' /\ ProfileType' /\ NextType'
          /\ QueueType' /\ SlotTypes' /\ HistoryTypes' /\ InboundType'
      BY <2>1 DEF IInv, ActiveType, SetTypes, ProfileType, NextType, QueueType, SlotTypes,
         HistoryTypes, InboundType
    <2>8. FreshInv'
      BY <2>1 DEF IInv, FreshInv
    <2>9. EndedAtMostOnce' /\ ClosedIsReported'
      BY <2>1 DEF IInv, EndedAtMostOnce, ClosedIsReported
    <2>10. StatusType'
      BY <1>19 DEF IInv, StatusType, StopRelease
    <2>11. QED
      BY <2>4, <2>5, <2>6, <2>7, <2>8, <2>9, <2>10 DEF IInv
  <1>20. ASSUME NEW w \in Tasks, StopAvailable(w) PROVE IInv'
    <2>1. UNCHANGED <<status, active, sessions, samplers, profile, nextTx, queue, pendingReset,
                        pendingAvail, inbound, closes, acked, scheduled,
                        fired, late>>
      BY <1>20 DEF StopAvailable, store, slots, history
    <2>2. /\ task[w].pc = "available" /\ "drain" \in Pcs /\ task[w].connector \in Connectors \cup {None}
          /\ task[w].tx \in Tx \cup {None}
      BY <1>20 DEF IInv, StopAvailable, At, RangeInv, Pcs
    <2>3. Sets(w, "drain", task[w].connector, task[w].tx) /\ TakenKept
      BY <1>20, <2>2, Goes DEF IInv, StopAvailable
    <2>4. /\ TaskType' /\ RangeInv' /\ ConnectorInv' /\ TxInv' /\ OwnerInv'
          /\ StopInv' /\ SessionInv' /\ DetachInv' /\ ProfileInv' /\ AckInv'
      BY <2>1, <2>2, <2>3, Leaves DEF StopPcs
    <2>5. TakenInv'
      BY <2>1, <2>2, <2>3, StillTaken
    <2>6. FiredInv'
      BY <2>1, <2>3, FiredKept
    <2>7. /\ StatusType' /\ ActiveType' /\ SetTypes' /\ ProfileType' /\ NextType'
          /\ QueueType' /\ SlotTypes' /\ HistoryTypes' /\ InboundType'
      BY <2>1 DEF IInv, StatusType, ActiveType, SetTypes, ProfileType, NextType, QueueType,
         SlotTypes, HistoryTypes, InboundType
    <2>8. FreshInv'
      BY <2>1 DEF IInv, FreshInv
    <2>9. EndedAtMostOnce' /\ ClosedIsReported'
      BY <2>1 DEF IInv, EndedAtMostOnce, ClosedIsReported
    <2>10. QED
      BY <2>4, <2>5, <2>6, <2>7, <2>8, <2>9 DEF IInv
  <1>21. ASSUME NEW w \in Tasks, StopFails(w) PROVE IInv'
    <2>1. UNCHANGED <<status, active, sessions, samplers, profile, nextTx, queue, pendingReset,
                        pendingAvail, inbound, closes, acked, scheduled,
                        fired, late>>
      BY <1>21 DEF StopFails, store, slots, history
    <2>2. /\ task[w].pc \in {"closing", "finishing", "available"} /\ task[w].takenReset = "none"
          /\ "idle" \in Pcs /\ "stopping" \in Pcs
      BY <1>21 DEF IInv, StopFails, TakenInv, Pcs
    <2>3. (Sets(w, "idle", None, None) \/ Sets(w, "stopping", None, None)) /\ TakenKept
      BY <1>21, <2>2, ReturnsKept DEF IInv, StopFails
    <2>4. /\ TaskType' /\ RangeInv' /\ ConnectorInv' /\ TxInv' /\ OwnerInv'
          /\ StopInv' /\ SessionInv' /\ DetachInv' /\ ProfileInv' /\ AckInv'
      BY <2>1, <2>2, <2>3, Leaves DEF StopPcs
    <2>5. TakenInv'
      BY <2>1, <2>2, <2>3, StillTaken
    <2>6. FiredInv'
      BY <2>1, <2>3, FiredKept
    <2>7. /\ StatusType' /\ ActiveType' /\ SetTypes' /\ ProfileType' /\ NextType'
          /\ QueueType' /\ SlotTypes' /\ HistoryTypes' /\ InboundType'
      BY <2>1 DEF IInv, StatusType, ActiveType, SetTypes, ProfileType, NextType, QueueType,
         SlotTypes, HistoryTypes, InboundType
    <2>8. FreshInv'
      BY <2>1 DEF IInv, FreshInv
    <2>9. EndedAtMostOnce' /\ ClosedIsReported'
      BY <2>1 DEF IInv, EndedAtMostOnce, ClosedIsReported
    <2>10. QED
      BY <2>4, <2>5, <2>6, <2>7, <2>8, <2>9 DEF IInv
  <1>22. ASSUME NEW w \in Tasks, StopDrain(w), ActiveTx # {} PROVE IInv'
    <2>1. UNCHANGED <<status, active, sessions, samplers, profile, nextTx, queue, pendingReset,
                        pendingAvail, inbound, closes, acked, scheduled,
                        fired, late>>
      BY <1>22 DEF StopDrain, store, slots, history
    <2>2. /\ task[w].pc = "drain" /\ task[w].takenReset = "none"
          /\ "idle" \in Pcs /\ "stopping" \in Pcs
      BY <1>22 DEF IInv, StopDrain, At, TakenInv, Pcs
    <2>3. (Sets(w, "idle", None, None) \/ Sets(w, "stopping", None, None)) /\ TakenKept
      BY <1>22, <2>2, ReturnsKept DEF IInv, StopDrain
    <2>4. /\ TaskType' /\ RangeInv' /\ ConnectorInv' /\ TxInv' /\ OwnerInv'
          /\ StopInv' /\ SessionInv' /\ DetachInv' /\ ProfileInv' /\ AckInv'
      BY <2>1, <2>2, <2>3, Leaves DEF StopPcs
    <2>5. TakenInv'
      BY <2>1, <2>2, <2>3, StillTaken
    <2>6. FiredInv'
      BY <2>1, <2>3, FiredKept
    <2>7. /\ StatusType' /\ ActiveType' /\ SetTypes' /\ ProfileType' /\ NextType'
          /\ QueueType' /\ SlotTypes' /\ HistoryTypes' /\ InboundType'
      BY <2>1 DEF IInv, StatusType, ActiveType, SetTypes, ProfileType, NextType, QueueType,
         SlotTypes, HistoryTypes, InboundType
    <2>8. FreshInv'
      BY <2>1 DEF IInv, FreshInv
    <2>9. EndedAtMostOnce' /\ ClosedIsReported'
      BY <2>1 DEF IInv, EndedAtMostOnce, ClosedIsReported
    <2>10. QED
      BY <2>4, <2>5, <2>6, <2>7, <2>8, <2>9 DEF IInv
  <1>23. ASSUME NEW w \in Tasks, StopDrain(w), ActiveTx = {} PROVE IInv'
    <2>1. UNCHANGED <<status, active, sessions, samplers, profile, nextTx, queue, inbound,
                        closes, acked, scheduled, fired, late>>
      BY <1>23 DEF StopDrain, store, history
    <2>2. /\ task[w].pc = "drain" /\ task[w].takenReset = "none" /\ "fire" \in Pcs
          /\ task[w].connector \in Connectors \cup {None} /\ task[w].tx \in Tx \cup {None}
          /\ pendingReset \in Resets /\ pendingAvail \in Avails
      BY <1>23 DEF IInv, StopDrain, At, TakenInv, RangeInv, SlotTypes, Pcs
    <2>3. /\ Sets(w, "fire", task[w].connector, task[w].tx)
          /\ task'[w].takenReset = pendingReset
      <3>1. task' = [task EXCEPT ![w].pc = "fire", ![w].takenReset = pendingReset,
                                   ![w].takenAvail = pendingAvail]
        BY <1>23, Zenon DEF StopDrain
      <3>2. QED
        BY <2>2, <3>1, Takes, Zenon DEF IInv
    <2>4. pendingReset' = "none" /\ pendingAvail' = NoAvail
      BY <1>23 DEF StopDrain
    <2>5. /\ TaskType' /\ RangeInv' /\ ConnectorInv' /\ TxInv' /\ OwnerInv'
          /\ StopInv' /\ SessionInv' /\ DetachInv' /\ ProfileInv' /\ AckInv'
      BY <2>1, <2>2, <2>3, Leaves DEF StopPcs
    <2>6. /\ StatusType' /\ ActiveType' /\ SetTypes' /\ ProfileType'
          /\ NextType' /\ QueueType' /\ HistoryTypes' /\ InboundType'
      BY <2>1 DEF IInv, StatusType, ActiveType, SetTypes, ProfileType, NextType, QueueType,
         HistoryTypes, InboundType
    <2>7. FreshInv'
      BY <2>1 DEF IInv, FreshInv
    <2>8. EndedAtMostOnce' /\ ClosedIsReported'
      BY <2>1 DEF IInv, EndedAtMostOnce, ClosedIsReported
    <2>9. SlotTypes'
      BY <2>4 DEF SlotTypes, Resets, Avails
    <2>10. TakenInv'
      BY <2>3 DEF IInv, TakenInv, Sets
    <2>11. FiredInv'
      <3>1. IsFiniteSet(Taken) /\ Cardinality(Taken) \in Nat /\ w \notin Taken
        BY <2>2, FS_CardinalityType DEF IInv, FiredInv, Taken
      <3>2. CASE pendingReset = "none"
        <4>1. Taken' = Taken
          BY <2>2, <2>3, <3>2 DEF Taken, Sets
        <4>2. QED
          BY <2>1, <2>4, <3>2, <4>1 DEF IInv, FiredInv, FiredOnce, Taken
      <3>3. CASE pendingReset # "none"
        <4>1. Taken' = Taken \cup {w}
          BY <2>2, <2>3, <3>3 DEF Taken, Sets
        <4>2. IsFiniteSet(Taken') /\ Cardinality(Taken') = Cardinality(Taken) + 1
          BY <3>1, <4>1, FS_AddElement
        <4>3. fired + 1 + Cardinality(Taken) <= scheduled
          BY <3>3 DEF IInv, FiredInv, FiredOnce, Taken
        <4>4. fired' + 0 + Cardinality(Taken') <= scheduled'
          BY <2>1, <3>1, <4>2, <4>3 DEF IInv, HistoryTypes
        <4>5. QED
          BY <2>4, <4>2, <4>4 DEF FiredInv, FiredOnce, Taken
      <3>4. QED
        BY <3>2, <3>3
    <2>12. QED
      BY <2>5, <2>6, <2>7, <2>8, <2>9, <2>10, <2>11 DEF IInv
  <1>24. ASSUME NEW w \in Tasks, StopFire(w) PROVE IInv'
    <2>1. UNCHANGED <<status, active, sessions, samplers, profile, nextTx, pendingReset,
                        pendingAvail, inbound, closes, acked, scheduled, late>>
      BY <1>24 DEF StopFire, store, slots
    <2>2. /\ task[w].pc = "fire" /\ "idle" \in Pcs /\ "stopping" \in Pcs
          /\ task[w].takenReset \in Resets /\ task[w].takenAvail \in Avails
      BY <1>24 DEF IInv, StopFire, At, TaskType, TaskRec, Pcs
    <2>3. /\ Sets(w, "idle", None, None) \/ Sets(w, "stopping", None, None)
          /\ task'[w].takenReset = "none"
      BY <1>24, Returns DEF IInv, StopFire
    <2>4. fired' = IF task[w].takenReset = "none" THEN fired ELSE fired + 1
      BY <1>24 DEF StopFire
    <2>5. /\ TaskType' /\ RangeInv' /\ ConnectorInv' /\ TxInv' /\ OwnerInv'
          /\ StopInv' /\ SessionInv' /\ DetachInv' /\ ProfileInv' /\ AckInv'
      BY <2>1, <2>2, <2>3, Leaves DEF StopPcs
    <2>6. /\ StatusType' /\ ActiveType' /\ SetTypes' /\ ProfileType'
          /\ NextType' /\ SlotTypes' /\ InboundType'
      BY <2>1 DEF IInv, StatusType, ActiveType, SetTypes, ProfileType, NextType, SlotTypes,
         InboundType
    <2>7. FreshInv'
      BY <2>1 DEF IInv, FreshInv
    <2>8. EndedAtMostOnce' /\ ClosedIsReported'
      BY <2>1 DEF IInv, EndedAtMostOnce, ClosedIsReported
    <2>9. QueueType'
      <3>1. PICK x : x = IF task[w].takenAvail = NoAvail THEN <<>> ELSE ApplyCommands(task[w].takenAvail)
        OBVIOUS
      <3>2. PICK y : y = IF task[w].takenReset = "none" THEN <<>>
                         ELSE <<ResetCommand(task[w].takenReset, TRUE)>>
        OBVIOUS
      <3>3. x \in Seq(Commands)
        BY <2>2, <3>1, ApplyIsSeq DEF Avails
      <3>4. y \in Seq(Commands)
        <4>1. CASE task[w].takenReset = "none"
          BY <3>2, <4>1
        <4>2. CASE task[w].takenReset # "none"
          <5>1. task[w].takenReset \in Kinds /\ TRUE \in BOOLEAN
            BY <2>2, <4>2 DEF Resets, Kinds
          <5>2. y = <<ResetCommand(task[w].takenReset, TRUE)>>
            BY <3>2, <4>2, Zenon
          <5>3. QED
            BY <5>1, <5>2, ResetIsSeq, Zenon
        <4>3. QED
          BY <4>1, <4>2
      <3>5. queue' = (queue \o x) \o y
        BY <1>24, <3>1, <3>2 DEF StopFire
      <3>6. queue \o x \in Seq(Commands)
        BY <3>3, ConcatProperties DEF IInv, QueueType
      <3>7. QED
        BY <3>4, <3>5, <3>6, ConcatProperties DEF QueueType
    <2>10. HistoryTypes'
      BY <2>1, <2>4 DEF IInv, HistoryTypes
    <2>11. TakenInv'
      BY <2>3 DEF IInv, TakenInv, Sets
    <2>12. FiredInv'
      <3>1. IsFiniteSet(Taken) /\ Cardinality(Taken) \in Nat
        BY FS_CardinalityType DEF IInv, FiredInv
      <3>2. CASE task[w].takenReset = "none"
        <4>1. Taken' = Taken
          BY <2>3, <3>2 DEF Taken, Sets
        <4>2. QED
          BY <2>1, <2>4, <3>2, <4>1 DEF IInv, FiredInv, FiredOnce, Taken
      <3>3. CASE task[w].takenReset # "none"
        <4>1. Taken' = Taken \ {w} /\ w \in Taken
          BY <2>3, <3>3 DEF Taken, Sets
        <4>2. IsFiniteSet(Taken') /\ Cardinality(Taken') = Cardinality(Taken) - 1
          BY <3>1, <4>1, FS_RemoveElement
        <4>3. PICK p \in Nat : p = IF pendingReset = "none" THEN 0 ELSE 1
          OBVIOUS
        <4>4. fired + p + Cardinality(Taken) <= scheduled
          BY <4>3 DEF IInv, FiredInv, FiredOnce, Taken
        <4>5. fired' + p + Cardinality(Taken') <= scheduled'
          BY <2>1, <2>4, <3>1, <3>3, <4>2, <4>4 DEF IInv, HistoryTypes
        <4>6. QED
          BY <2>1, <4>2, <4>3, <4>5 DEF FiredInv, FiredOnce, Taken
      <3>4. QED
        BY <3>2, <3>3
    <2>13. QED
      BY <2>5, <2>6, <2>7, <2>8, <2>9, <2>10, <2>11, <2>12 DEF IInv
  <1>25. ASSUME NEW w \in {Consumer}, ConsumeStart PROVE IInv'
    <2>1. UNCHANGED <<status, active, sessions, samplers, profile, nextTx, pendingReset,
                        pendingAvail, inbound, closes, acked, scheduled,
                        fired, late>>
      BY <1>25 DEF ConsumeStart, store, slots, history
    <2>2. /\ Head(queue) \in Commands /\ Head(queue).op = "start" /\ queue' \in Seq(Commands)
          /\ task[w].pc = "idle" /\ w \in Tasks
      BY <1>25, Consumed DEF ConsumeStart
    <2>3. /\ Head(queue).connector \in Connectors /\ Head(queue).profile \in BOOLEAN
          /\ task[w].takenReset = "none" /\ "preparing" \in Pcs
      BY <2>2, CommandFields DEF IInv, TakenInv, Pcs
    <2>4. Sets(w, "preparing", Head(queue).connector, None) /\ TakenKept
      BY <1>25, <2>2, <2>3, Begins DEF IInv, ConsumeStart
    <2>5. /\ TaskType' /\ RangeInv' /\ ConnectorInv' /\ TxInv' /\ OwnerInv'
          /\ StopInv' /\ SessionInv' /\ DetachInv' /\ ProfileInv' /\ AckInv'
      BY <2>1, <2>2, <2>3, <2>4, Leaves DEF StopPcs
    <2>6. TakenInv'
      BY <2>1, <2>2, <2>3, <2>4, StillTaken
    <2>7. FiredInv'
      BY <2>1, <2>4, FiredKept
    <2>8. /\ StatusType' /\ ActiveType' /\ SetTypes' /\ ProfileType'
          /\ NextType' /\ SlotTypes' /\ HistoryTypes' /\ InboundType'
      BY <2>1 DEF IInv, StatusType, ActiveType, SetTypes, ProfileType, NextType, SlotTypes,
         HistoryTypes, InboundType
    <2>9. FreshInv'
      BY <2>1 DEF IInv, FreshInv
    <2>10. EndedAtMostOnce' /\ ClosedIsReported'
      BY <2>1 DEF IInv, EndedAtMostOnce, ClosedIsReported
    <2>11. QueueType'
      BY <2>2 DEF QueueType
    <2>12. QED
      BY <2>5, <2>6, <2>7, <2>8, <2>9, <2>10, <2>11 DEF IInv
  <1>26. ASSUME NEW w \in {Consumer}, ConsumeStop PROVE IInv'
    <2>1. UNCHANGED <<status, active, sessions, samplers, profile, nextTx, pendingReset,
                        pendingAvail, inbound, closes, acked, scheduled,
                        fired, late>>
      BY <1>26 DEF ConsumeStop, store, slots, history
    <2>2. /\ Head(queue) \in Commands /\ Head(queue).op = "stop" /\ queue' \in Seq(Commands)
          /\ task[w].pc = "idle" /\ w \in Tasks
      BY <1>26, Consumed DEF ConsumeStop
    <2>3. /\ Head(queue).tx \in Tx /\ Head(queue).tx \in Nat /\ "lookup" \in Pcs
          /\ task[w].connector \in Connectors \cup {None}
      BY <2>2, CommandFields DEF IInv, RangeInv, Pcs, Tx
    <2>4. Sets(w, "lookup", task[w].connector, Head(queue).tx) /\ TakenKept
      BY <1>26, <2>2, <2>3, Gives DEF IInv, ConsumeStop, StopBegin
    <2>5. /\ TaskType' /\ RangeInv' /\ ConnectorInv' /\ TxInv' /\ OwnerInv'
          /\ StopInv' /\ SessionInv' /\ DetachInv' /\ ProfileInv' /\ AckInv'
      BY <2>1, <2>2, <2>3, <2>4, Leaves DEF StopPcs
    <2>6. TakenInv'
      BY <2>1, <2>2, <2>3, <2>4, StillTaken
    <2>7. FiredInv'
      BY <2>1, <2>4, FiredKept
    <2>8. /\ StatusType' /\ ActiveType' /\ SetTypes' /\ ProfileType'
          /\ NextType' /\ SlotTypes' /\ HistoryTypes' /\ InboundType'
      BY <2>1 DEF IInv, StatusType, ActiveType, SetTypes, ProfileType, NextType, SlotTypes,
         HistoryTypes, InboundType
    <2>9. FreshInv'
      BY <2>1 DEF IInv, FreshInv
    <2>10. EndedAtMostOnce' /\ ClosedIsReported'
      BY <2>1 DEF IInv, EndedAtMostOnce, ClosedIsReported
    <2>11. QueueType'
      BY <2>2 DEF QueueType
    <2>12. QED
      BY <2>5, <2>6, <2>7, <2>8, <2>9, <2>10, <2>11 DEF IInv
  <1>27. ASSUME NEW w \in {Consumer}, ConsumeReset PROVE IInv'
    <2>1. UNCHANGED <<status, active, sessions, samplers, profile, nextTx, pendingAvail, inbound,
                        closes, acked, scheduled, fired, late>>
      BY <1>27 DEF ConsumeReset, store, history
    <2>2. /\ Head(queue) \in Commands /\ Head(queue).op = "reset" /\ queue' \in Seq(Commands)
          /\ task[w].pc = "idle" /\ w \in Tasks
      BY <1>27, Consumed DEF ConsumeReset
    <2>3. /\ task[w].connector \in Connectors \cup {None} /\ task[w].tx \in Tx \cup {None}
          /\ Head(queue).kind \in Resets /\ "snapshot" \in Pcs
      BY <2>2, CommandFields DEF IInv, RangeInv, Pcs, Kinds, Resets
    <2>4. Sets(w, "snapshot", task[w].connector, task[w].tx) /\ TakenKept
      BY <1>27, <2>2, <2>3, Resetting DEF IInv, ConsumeReset
    <2>5. /\ TaskType' /\ RangeInv' /\ ConnectorInv' /\ TxInv' /\ OwnerInv'
          /\ StopInv' /\ SessionInv' /\ DetachInv' /\ ProfileInv' /\ AckInv'
      BY <2>1, <2>2, <2>3, <2>4, Leaves DEF StopPcs
    <2>6. TakenInv'
      BY <2>1, <2>2, <2>3, <2>4, StillTaken
    <2>7. /\ StatusType' /\ ActiveType' /\ SetTypes' /\ ProfileType'
          /\ NextType' /\ HistoryTypes' /\ InboundType'
      BY <2>1 DEF IInv, StatusType, ActiveType, SetTypes, ProfileType, NextType, HistoryTypes,
         InboundType
    <2>8. FreshInv'
      BY <2>1 DEF IInv, FreshInv
    <2>9. EndedAtMostOnce' /\ ClosedIsReported'
      BY <2>1 DEF IInv, EndedAtMostOnce, ClosedIsReported
    <2>10. QueueType'
      BY <2>2 DEF QueueType
    <2>11. SlotTypes'
      BY <1>27, <2>1 DEF IInv, SlotTypes, ConsumeReset, Resets
    <2>12. FiredInv'
      <3>1. Taken' = Taken
        BY <2>2, <2>4, StillTaken
      <3>2. IsFiniteSet(Taken) /\ Cardinality(Taken) \in Nat
        BY FS_CardinalityType DEF IInv, FiredInv
      <3>3. pendingReset' = "none"
        BY <1>27 DEF ConsumeReset
      <3>4. PICK p \in Nat : p = IF pendingReset = "none" THEN 0 ELSE 1
        OBVIOUS
      <3>5. fired + p + Cardinality(Taken) <= scheduled
        BY <3>4 DEF IInv, FiredInv, FiredOnce, Taken
      <3>6. fired' + 0 + Cardinality(Taken') <= scheduled'
        BY <2>1, <3>1, <3>2, <3>5 DEF IInv, HistoryTypes
      <3>7. QED
        BY <3>1, <3>2, <3>3, <3>6 DEF FiredInv, FiredOnce, Taken
    <2>13. QED
      BY <2>5, <2>6, <2>7, <2>8, <2>9, <2>10, <2>11, <2>12 DEF IInv
  <1>28. ASSUME NEW w \in {Consumer}, ConsumeApply PROVE IInv'
    <2>1. UNCHANGED <<active, sessions, samplers, profile, nextTx, pendingReset, pendingAvail,
                        inbound, closes, acked, scheduled, fired, late>>
      BY <1>28 DEF ConsumeApply, slots, history
    <2>2. /\ Head(queue) \in Commands /\ Head(queue).op = "apply" /\ queue' \in Seq(Commands)
          /\ task[w].pc = "idle" /\ w \in Tasks
      BY <1>28, Consumed DEF ConsumeApply
    <2>3. /\ task[w].connector \in Connectors \cup {None} /\ task[w].tx \in Tx \cup {None}
          /\ Head(queue).target \in {"Available", "Unavailable"} /\ "applying" \in Pcs
      BY <2>2, CommandFields DEF IInv, RangeInv, Pcs, Targets
    <2>4. Sets(w, "applying", task[w].connector, task[w].tx) /\ TakenKept
      BY <1>28, <2>2, <2>3, Goes DEF IInv, ConsumeApply
    <2>5. /\ TaskType' /\ RangeInv' /\ ConnectorInv' /\ TxInv' /\ OwnerInv'
          /\ StopInv' /\ SessionInv' /\ DetachInv' /\ ProfileInv' /\ AckInv'
      BY <2>1, <2>2, <2>3, <2>4, Leaves DEF StopPcs
    <2>6. TakenInv'
      BY <2>1, <2>2, <2>3, <2>4, StillTaken
    <2>7. FiredInv'
      BY <2>1, <2>4, FiredKept
    <2>8. /\ ActiveType' /\ SetTypes' /\ ProfileType' /\ NextType'
          /\ SlotTypes' /\ HistoryTypes' /\ InboundType'
      BY <2>1 DEF IInv, ActiveType, SetTypes, ProfileType, NextType, SlotTypes, HistoryTypes,
         InboundType
    <2>9. FreshInv'
      BY <2>1 DEF IInv, FreshInv
    <2>10. EndedAtMostOnce' /\ ClosedIsReported'
      BY <2>1 DEF IInv, EndedAtMostOnce, ClosedIsReported
    <2>11. StatusType'
      BY <1>28, <2>3 DEF IInv, StatusType, ConsumeApply
    <2>12. QueueType'
      BY <2>2 DEF QueueType
    <2>13. QED
      BY <2>5, <2>6, <2>7, <2>8, <2>9, <2>10, <2>11, <2>12 DEF IInv
  <1>29. ASSUME NEW w \in {Consumer}, ResetSnapshot PROVE IInv'
    <2>1. UNCHANGED <<status, active, sessions, samplers, profile, nextTx, queue, pendingReset,
                        pendingAvail, inbound, closes, acked, scheduled,
                        fired, late>>
      BY <1>29 DEF ResetSnapshot, store, slots, history
    <2>2. w \in Tasks /\ task[w].pc = "snapshot"
      BY <1>29 DEF ResetSnapshot, At, Tasks
    <2>3. /\ task[w].connector \in Connectors \cup {None} /\ task[w].tx \in Tx \cup {None}
          /\ ActiveTx \in SUBSET Tx /\ "stopping" \in Pcs
      BY <2>2 DEF IInv, RangeInv, Pcs, ActiveTx
    <2>4. Sets(w, "stopping", task[w].connector, task[w].tx) /\ TakenKept
      BY <1>29, <2>2, <2>3, Listing DEF IInv, ResetSnapshot
    <2>5. /\ TaskType' /\ RangeInv' /\ ConnectorInv' /\ TxInv' /\ OwnerInv'
          /\ StopInv' /\ SessionInv' /\ DetachInv' /\ ProfileInv' /\ AckInv'
      BY <2>1, <2>2, <2>3, <2>4, Leaves DEF StopPcs
    <2>6. TakenInv'
      BY <2>1, <2>2, <2>3, <2>4, StillTaken
    <2>7. FiredInv'
      BY <2>1, <2>4, FiredKept
    <2>8. /\ StatusType' /\ ActiveType' /\ SetTypes' /\ ProfileType' /\ NextType'
          /\ QueueType' /\ SlotTypes' /\ HistoryTypes' /\ InboundType'
      BY <2>1 DEF IInv, StatusType, ActiveType, SetTypes, ProfileType, NextType, QueueType,
         SlotTypes, HistoryTypes, InboundType
    <2>9. FreshInv'
      BY <2>1 DEF IInv, FreshInv
    <2>10. EndedAtMostOnce' /\ ClosedIsReported'
      BY <2>1 DEF IInv, EndedAtMostOnce, ClosedIsReported
    <2>11. QED
      BY <2>5, <2>6, <2>7, <2>8, <2>9, <2>10 DEF IInv
  <1>30. ASSUME NEW w \in {Consumer}, NEW t \in Tx, ResetStop(t) PROVE IInv'
    <2>1. UNCHANGED <<status, active, sessions, samplers, profile, nextTx, queue, pendingReset,
                        pendingAvail, inbound, closes, acked, scheduled,
                        fired, late>>
      BY <1>30 DEF ResetStop, store, slots, history
    <2>2. w \in Tasks /\ task[w].pc = "stopping"
      BY <1>30 DEF ResetStop, At, Tasks
    <2>3. /\ task[w].connector \in Connectors \cup {None} /\ task[w].tx \in Tx \cup {None}
          /\ task[w].todo \ {t} \in SUBSET Tx /\ "lookup" \in Pcs /\ t \in Nat
      BY <2>2 DEF IInv, RangeInv, Pcs, TaskType, TaskRec, Tx
    <2>4. Sets(w, "lookup", task[w].connector, t) /\ TakenKept
      BY <1>30, <2>2, <2>3, Picking DEF IInv, ResetStop
    <2>5. /\ TaskType' /\ RangeInv' /\ ConnectorInv' /\ TxInv' /\ OwnerInv'
          /\ StopInv' /\ SessionInv' /\ DetachInv' /\ ProfileInv' /\ AckInv'
      BY <2>1, <2>2, <2>3, <2>4, Leaves DEF StopPcs
    <2>6. TakenInv'
      BY <2>1, <2>2, <2>3, <2>4, StillTaken
    <2>7. FiredInv'
      BY <2>1, <2>4, FiredKept
    <2>8. /\ StatusType' /\ ActiveType' /\ SetTypes' /\ ProfileType' /\ NextType'
          /\ QueueType' /\ SlotTypes' /\ HistoryTypes' /\ InboundType'
      BY <2>1 DEF IInv, StatusType, ActiveType, SetTypes, ProfileType, NextType, QueueType,
         SlotTypes, HistoryTypes, InboundType
    <2>9. FreshInv'
      BY <2>1 DEF IInv, FreshInv
    <2>10. EndedAtMostOnce' /\ ClosedIsReported'
      BY <2>1 DEF IInv, EndedAtMostOnce, ClosedIsReported
    <2>11. QED
      BY <2>5, <2>6, <2>7, <2>8, <2>9, <2>10 DEF IInv
  <1>31. ASSUME NEW w \in {Consumer}, ResetQuiesce PROVE IInv'
    <2>1. UNCHANGED <<status, active, sessions, profile, nextTx, queue, pendingReset,
                        pendingAvail, inbound, closes, acked, scheduled,
                        fired, late>>
      BY <1>31 DEF ResetQuiesce, slots, history
    <2>2. w \in Tasks /\ task[w].pc = "stopping"
      BY <1>31 DEF ResetQuiesce, At, Tasks
    <2>3. /\ task[w].connector \in Connectors \cup {None} /\ task[w].tx \in Tx \cup {None}
          /\ "rebooting" \in Pcs
      BY <2>2 DEF IInv, RangeInv, Pcs
    <2>4. Sets(w, "rebooting", task[w].connector, task[w].tx) /\ TakenKept
      BY <1>31, <2>2, <2>3, Goes DEF IInv, ResetQuiesce
    <2>5. /\ TaskType' /\ RangeInv' /\ ConnectorInv' /\ TxInv' /\ OwnerInv'
          /\ StopInv' /\ SessionInv' /\ DetachInv' /\ ProfileInv' /\ AckInv'
      BY <2>1, <2>2, <2>3, <2>4, Leaves DEF StopPcs
    <2>6. TakenInv'
      BY <2>1, <2>2, <2>3, <2>4, StillTaken
    <2>7. FiredInv'
      BY <2>1, <2>4, FiredKept
    <2>8. /\ StatusType' /\ ActiveType' /\ ProfileType' /\ NextType'
          /\ QueueType' /\ SlotTypes' /\ HistoryTypes' /\ InboundType'
      BY <2>1 DEF IInv, StatusType, ActiveType, ProfileType, NextType, QueueType, SlotTypes,
         HistoryTypes, InboundType
    <2>9. FreshInv'
      BY <2>1 DEF IInv, FreshInv
    <2>10. EndedAtMostOnce' /\ ClosedIsReported'
      BY <2>1 DEF IInv, EndedAtMostOnce, ClosedIsReported
    <2>11. SetTypes'
      BY <1>31, <2>1 DEF IInv, SetTypes, ResetQuiesce
    <2>12. QED
      BY <2>5, <2>6, <2>7, <2>8, <2>9, <2>10, <2>11 DEF IInv
  <1>32. ASSUME NEW w \in {Consumer}, ResetDone PROVE IInv'
    <2>1. UNCHANGED <<status, active, sessions, samplers, profile, nextTx, queue, pendingReset,
                        pendingAvail, inbound, closes, acked, scheduled,
                        fired, late>>
      BY <1>32 DEF ResetDone, store, slots, history
    <2>2. w \in Tasks /\ task[w].pc = "rebooting"
      BY <1>32 DEF ResetDone, At, Tasks
    <2>3. /\ task[w].connector \in Connectors \cup {None} /\ task[w].tx \in Tx \cup {None}
          /\ task[w].takenReset = "none" /\ "idle" \in Pcs
      BY <2>2 DEF IInv, RangeInv, Pcs, TakenInv
    <2>4. Sets(w, "idle", None, None) /\ TakenKept
      BY <1>32, <2>2, <2>3, Stops DEF IInv, ResetDone
    <2>5. /\ TaskType' /\ RangeInv' /\ ConnectorInv' /\ TxInv' /\ OwnerInv'
          /\ StopInv' /\ SessionInv' /\ DetachInv' /\ ProfileInv' /\ AckInv'
      BY <2>1, <2>2, <2>3, <2>4, Leaves DEF StopPcs
    <2>6. TakenInv'
      BY <2>1, <2>2, <2>3, <2>4, StillTaken
    <2>7. FiredInv'
      BY <2>1, <2>4, FiredKept
    <2>8. /\ StatusType' /\ ActiveType' /\ SetTypes' /\ ProfileType' /\ NextType'
          /\ QueueType' /\ SlotTypes' /\ HistoryTypes' /\ InboundType'
      BY <2>1 DEF IInv, StatusType, ActiveType, SetTypes, ProfileType, NextType, QueueType,
         SlotTypes, HistoryTypes, InboundType
    <2>9. FreshInv'
      BY <2>1 DEF IInv, FreshInv
    <2>10. EndedAtMostOnce' /\ ClosedIsReported'
      BY <2>1 DEF IInv, EndedAtMostOnce, ClosedIsReported
    <2>11. QED
      BY <2>5, <2>6, <2>7, <2>8, <2>9, <2>10 DEF IInv
  <1>33. ASSUME NEW w \in {Consumer}, ApplyDone PROVE IInv'
    <2>1. UNCHANGED <<status, active, sessions, samplers, profile, nextTx, queue, pendingReset,
                        pendingAvail, inbound, closes, acked, scheduled,
                        fired, late>>
      BY <1>33 DEF ApplyDone, store, slots, history
    <2>2. w \in Tasks /\ task[w].pc = "applying"
      BY <1>33 DEF ApplyDone, At, Tasks
    <2>3. /\ task[w].connector \in Connectors \cup {None} /\ task[w].tx \in Tx \cup {None}
          /\ "idle" \in Pcs
      BY <2>2 DEF IInv, RangeInv, Pcs
    <2>4. Sets(w, "idle", task[w].connector, task[w].tx) /\ TakenKept
      BY <1>33, <2>2, <2>3, Goes DEF IInv, ApplyDone
    <2>5. /\ TaskType' /\ RangeInv' /\ ConnectorInv' /\ TxInv' /\ OwnerInv'
          /\ StopInv' /\ SessionInv' /\ DetachInv' /\ ProfileInv' /\ AckInv'
      BY <2>1, <2>2, <2>3, <2>4, Leaves DEF StopPcs
    <2>6. TakenInv'
      BY <2>1, <2>2, <2>3, <2>4, StillTaken
    <2>7. FiredInv'
      BY <2>1, <2>4, FiredKept
    <2>8. /\ StatusType' /\ ActiveType' /\ SetTypes' /\ ProfileType' /\ NextType'
          /\ QueueType' /\ SlotTypes' /\ HistoryTypes' /\ InboundType'
      BY <2>1 DEF IInv, StatusType, ActiveType, SetTypes, ProfileType, NextType, QueueType,
         SlotTypes, HistoryTypes, InboundType
    <2>9. FreshInv'
      BY <2>1 DEF IInv, FreshInv
    <2>10. EndedAtMostOnce' /\ ClosedIsReported'
      BY <2>1 DEF IInv, EndedAtMostOnce, ClosedIsReported
    <2>11. QED
      BY <2>5, <2>6, <2>7, <2>8, <2>9, <2>10 DEF IInv
  <1>34. ASSUME NEW c \in Connectors, NEW p \in BOOLEAN, RemoteStart(c, p) PROVE IInv'
    <2>1. UNCHANGED <<status, active, sessions, samplers, profile, nextTx, pendingReset,
                        pendingAvail, task, inbound, closes, acked,
                        scheduled, fired, late>>
      BY <1>34 DEF RemoteStart, store, slots, history
    <2>2. StartCommand(c, p) \in Commands
      BY DEF Commands
    <2>3. queue' = Append(queue, StartCommand(c, p))
      BY <1>34 DEF RemoteStart
    <2>4. /\ StatusType' /\ ActiveType' /\ SetTypes' /\ ProfileType' /\ NextType'
          /\ SlotTypes' /\ TaskType' /\ HistoryTypes' /\ InboundType'
      BY <2>1 DEF IInv, StatusType, ActiveType, SetTypes, ProfileType, NextType, SlotTypes,
         TaskType, HistoryTypes, InboundType
    <2>5. RangeInv' /\ ConnectorInv' /\ TxInv' /\ TakenInv' /\ FreshInv' /\ OwnerInv' /\ StopInv'
      BY <2>1 DEF IInv, RangeInv, ConnectorInv, TxInv, Unregistered, TakenInv, FreshInv, OwnerInv,
         Unregistered, StopInv
    <2>6. /\ SessionInv' /\ DetachInv' /\ ProfileInv'
          /\ AckInv' /\ EndedAtMostOnce' /\ ClosedIsReported'
      BY <2>1 DEF IInv, SessionInv, DetachInv, ProfileInv, AckInv, EndedAtMostOnce, ClosedIsReported
    <2>7. FiredInv'
      BY <2>1 DEF IInv, FiredInv, Taken, FiredOnce
    <2>8. QueueType'
      BY <2>2, <2>3 DEF IInv, QueueType
    <2>9. QED
      BY <2>4, <2>5, <2>6, <2>7, <2>8 DEF IInv
  <1>35. ASSUME NEW t \in Tx, RemoteStop(t) PROVE IInv'
    <2>1. UNCHANGED <<status, active, sessions, samplers, profile, nextTx, pendingReset,
                        pendingAvail, task, inbound, closes, acked,
                        scheduled, fired, late>>
      BY <1>35 DEF RemoteStop, store, slots, history
    <2>2. StopCommand(t) \in Commands
      BY DEF Commands
    <2>3. queue' = Append(queue, StopCommand(t))
      BY <1>35 DEF RemoteStop
    <2>4. /\ StatusType' /\ ActiveType' /\ SetTypes' /\ ProfileType' /\ NextType'
          /\ SlotTypes' /\ TaskType' /\ HistoryTypes' /\ InboundType'
      BY <2>1 DEF IInv, StatusType, ActiveType, SetTypes, ProfileType, NextType, SlotTypes,
         TaskType, HistoryTypes, InboundType
    <2>5. RangeInv' /\ ConnectorInv' /\ TxInv' /\ TakenInv' /\ FreshInv' /\ OwnerInv' /\ StopInv'
      BY <2>1 DEF IInv, RangeInv, ConnectorInv, TxInv, Unregistered, TakenInv, FreshInv, OwnerInv,
         Unregistered, StopInv
    <2>6. /\ SessionInv' /\ DetachInv' /\ ProfileInv'
          /\ AckInv' /\ EndedAtMostOnce' /\ ClosedIsReported'
      BY <2>1 DEF IInv, SessionInv, DetachInv, ProfileInv, AckInv, EndedAtMostOnce, ClosedIsReported
    <2>7. FiredInv'
      BY <2>1 DEF IInv, FiredInv, Taken, FiredOnce
    <2>8. QueueType'
      BY <2>2, <2>3 DEF IInv, QueueType
    <2>9. QED
      BY <2>4, <2>5, <2>6, <2>7, <2>8 DEF IInv
  <1>36. ASSUME NEW k \in Kinds, ResetNow(k) PROVE IInv'
    <2>1. UNCHANGED <<status, active, sessions, samplers, profile, nextTx, pendingReset,
                        pendingAvail, task, inbound, closes, acked,
                        scheduled, fired, late>>
      BY <1>36 DEF ResetNow, store, slots, history
    <2>2. queue' = Append(queue, ResetCommand(k, FALSE)) /\ FALSE \in BOOLEAN
      BY <1>36, Zenon DEF ResetNow
    <2>3. queue \in Seq(Commands)
      BY DEF IInv, QueueType
    <2>4. /\ StatusType' /\ ActiveType' /\ SetTypes' /\ ProfileType' /\ NextType'
          /\ SlotTypes' /\ TaskType' /\ HistoryTypes' /\ InboundType'
      BY <2>1 DEF IInv, StatusType, ActiveType, SetTypes, ProfileType, NextType, SlotTypes,
         TaskType, HistoryTypes, InboundType
    <2>5. RangeInv' /\ ConnectorInv' /\ TxInv' /\ TakenInv' /\ FreshInv' /\ OwnerInv' /\ StopInv'
      BY <2>1 DEF IInv, RangeInv, ConnectorInv, TxInv, Unregistered, TakenInv, FreshInv, OwnerInv,
         Unregistered, StopInv
    <2>6. /\ SessionInv' /\ DetachInv' /\ ProfileInv'
          /\ AckInv' /\ EndedAtMostOnce' /\ ClosedIsReported'
      BY <2>1 DEF IInv, SessionInv, DetachInv, ProfileInv, AckInv, EndedAtMostOnce, ClosedIsReported
    <2>7. FiredInv'
      BY <2>1 DEF IInv, FiredInv, Taken, FiredOnce
    <2>8. QueueType'
      BY <2>2, <2>3, ResetIsSeq, Zenon DEF QueueType
    <2>9. QED
      BY <2>4, <2>5, <2>6, <2>7, <2>8 DEF IInv
  <1>37. ASSUME ResetOnIdle PROVE IInv'
    <2>1. UNCHANGED <<status, active, sessions, samplers, profile, nextTx, queue, pendingReset,
                        pendingAvail, task, closes, acked, scheduled, fired, late>>
      BY <1>37 DEF ResetOnIdle, store, slots, history
    <2>2. inbound'.pc = "reset"
      BY <1>37 DEF ResetOnIdle
    <2>3. /\ StatusType' /\ ActiveType' /\ SetTypes' /\ ProfileType' /\ NextType'
          /\ QueueType' /\ SlotTypes' /\ TaskType' /\ HistoryTypes'
      BY <2>1 DEF IInv, StatusType, ActiveType, SetTypes, ProfileType, NextType, QueueType,
         SlotTypes, TaskType, HistoryTypes
    <2>4. RangeInv' /\ ConnectorInv' /\ TxInv' /\ TakenInv' /\ FreshInv' /\ OwnerInv' /\ StopInv'
      BY <2>1 DEF IInv, RangeInv, ConnectorInv, TxInv, Unregistered, TakenInv, FreshInv, OwnerInv,
         Unregistered, StopInv
    <2>5. /\ SessionInv' /\ DetachInv' /\ ProfileInv'
          /\ AckInv' /\ EndedAtMostOnce' /\ ClosedIsReported'
      BY <2>1 DEF IInv, SessionInv, DetachInv, ProfileInv, AckInv, EndedAtMostOnce, ClosedIsReported
    <2>6. FiredInv'
      BY <2>1 DEF IInv, FiredInv, Taken, FiredOnce
    <2>7. InboundType'
      BY <2>2 DEF InboundType
    <2>8. QED
      BY <2>3, <2>4, <2>5, <2>6, <2>7 DEF IInv
  <1>38. ASSUME NEW a \in Avail, ChangeAvailability(a) PROVE IInv'
    <2>1. UNCHANGED <<status, active, sessions, samplers, profile, nextTx, queue, pendingReset,
                        pendingAvail, task, closes, acked, scheduled, fired, late>>
      BY <1>38 DEF ChangeAvailability, store, slots, history
    <2>2. inbound'.pc = "avail" /\ inbound'.req = a
      BY <1>38 DEF ChangeAvailability
    <2>3. /\ StatusType' /\ ActiveType' /\ SetTypes' /\ ProfileType' /\ NextType'
          /\ QueueType' /\ SlotTypes' /\ TaskType' /\ HistoryTypes'
      BY <2>1 DEF IInv, StatusType, ActiveType, SetTypes, ProfileType, NextType, QueueType,
         SlotTypes, TaskType, HistoryTypes
    <2>4. RangeInv' /\ ConnectorInv' /\ TxInv' /\ TakenInv' /\ FreshInv' /\ OwnerInv' /\ StopInv'
      BY <2>1 DEF IInv, RangeInv, ConnectorInv, TxInv, Unregistered, TakenInv, FreshInv, OwnerInv,
         Unregistered, StopInv
    <2>5. /\ SessionInv' /\ DetachInv' /\ ProfileInv'
          /\ AckInv' /\ EndedAtMostOnce' /\ ClosedIsReported'
      BY <2>1 DEF IInv, SessionInv, DetachInv, ProfileInv, AckInv, EndedAtMostOnce, ClosedIsReported
    <2>6. FiredInv'
      BY <2>1 DEF IInv, FiredInv, Taken, FiredOnce
    <2>7. InboundType'
      BY <2>2 DEF InboundType
    <2>8. QED
      BY <2>3, <2>4, <2>5, <2>6, <2>7 DEF IInv
  <1>39. ASSUME ResetOnIdleDecided, inbound.busy PROVE IInv'
    <2>1. UNCHANGED <<status, active, sessions, samplers, profile, nextTx, queue, pendingAvail,
                        task, closes, acked, fired, late>>
      BY <1>39 DEF ResetOnIdleDecided, store
    <2>2. inbound'.pc = "idle" /\ pendingReset' = "Soft" /\ scheduled' = scheduled + 1
      BY <1>39 DEF ResetOnIdleDecided
    <2>3. /\ StatusType' /\ ActiveType' /\ SetTypes' /\ ProfileType'
          /\ NextType' /\ QueueType' /\ TaskType'
      BY <2>1 DEF IInv, StatusType, ActiveType, SetTypes, ProfileType, NextType, QueueType, TaskType
    <2>4. RangeInv' /\ ConnectorInv' /\ TxInv' /\ TakenInv' /\ FreshInv' /\ OwnerInv' /\ StopInv'
      BY <2>1 DEF IInv, RangeInv, ConnectorInv, TxInv, Unregistered, TakenInv, FreshInv, OwnerInv,
         Unregistered, StopInv
    <2>5. /\ SessionInv' /\ DetachInv' /\ ProfileInv'
          /\ AckInv' /\ EndedAtMostOnce' /\ ClosedIsReported'
      BY <2>1 DEF IInv, SessionInv, DetachInv, ProfileInv, AckInv, EndedAtMostOnce, ClosedIsReported
    <2>6. SlotTypes'
      BY <2>1, <2>2 DEF IInv, SlotTypes, Resets
    <2>7. HistoryTypes'
      BY <2>1, <2>2 DEF IInv, HistoryTypes
    <2>8. InboundType'
      BY <2>2 DEF InboundType
    <2>9. FiredInv'
      <3>1. Taken' = Taken
        BY <2>1 DEF Taken
      <3>2. IsFiniteSet(Taken) /\ Cardinality(Taken) \in Nat
        BY FS_CardinalityType DEF IInv, FiredInv
      <3>3. PICK p \in Nat : p = IF pendingReset = "none" THEN 0 ELSE 1
        OBVIOUS
      <3>4. fired + p + Cardinality(Taken) <= scheduled
        BY <3>3 DEF IInv, FiredInv, FiredOnce, Taken
      <3>5. fired' + 1 + Cardinality(Taken') <= scheduled'
        BY <2>1, <2>2, <3>1, <3>2, <3>4 DEF IInv, HistoryTypes
      <3>6. QED
        BY <2>2, <3>1, <3>2, <3>5 DEF FiredInv, FiredOnce, Taken
    <2>10. QED
      BY <2>3, <2>4, <2>5, <2>6, <2>7, <2>8, <2>9 DEF IInv
  <1>40. ASSUME ResetOnIdleDecided, ~inbound.busy PROVE IInv'
    <2>1. UNCHANGED <<status, active, sessions, samplers, profile, nextTx, pendingReset,
                        pendingAvail, task, closes, acked, scheduled, fired, late>>
      BY <1>40 DEF ResetOnIdleDecided, store
    <2>2. inbound'.pc = "idle" /\ queue' = Append(queue, ResetCommand("Soft", FALSE))
      BY <1>40 DEF ResetOnIdleDecided
    <2>3. queue \in Seq(Commands) /\ "Soft" \in Kinds /\ FALSE \in BOOLEAN
      BY DEF IInv, QueueType, Kinds
    <2>4. /\ StatusType' /\ ActiveType' /\ SetTypes' /\ ProfileType'
          /\ NextType' /\ SlotTypes' /\ TaskType' /\ HistoryTypes'
      BY <2>1 DEF IInv, StatusType, ActiveType, SetTypes, ProfileType, NextType, SlotTypes,
         TaskType, HistoryTypes
    <2>5. RangeInv' /\ ConnectorInv' /\ TxInv' /\ TakenInv' /\ FreshInv' /\ OwnerInv' /\ StopInv'
      BY <2>1 DEF IInv, RangeInv, ConnectorInv, TxInv, Unregistered, TakenInv, FreshInv, OwnerInv,
         Unregistered, StopInv
    <2>6. /\ SessionInv' /\ DetachInv' /\ ProfileInv'
          /\ AckInv' /\ EndedAtMostOnce' /\ ClosedIsReported'
      BY <2>1 DEF IInv, SessionInv, DetachInv, ProfileInv, AckInv, EndedAtMostOnce, ClosedIsReported
    <2>7. FiredInv'
      BY <2>1 DEF IInv, FiredInv, Taken, FiredOnce
    <2>8. QueueType'
      BY <2>2, <2>3, ResetIsSeq, Zenon DEF QueueType
    <2>9. InboundType'
      BY <2>2 DEF InboundType
    <2>10. QED
      BY <2>4, <2>5, <2>6, <2>7, <2>8, <2>9 DEF IInv
  <1>41. ASSUME ChangeAvailabilityDecided, inbound.busy PROVE IInv'
    <2>1. UNCHANGED <<status, active, sessions, samplers, profile, nextTx, queue, pendingReset,
                        task, closes, acked, scheduled, fired, late>>
      BY <1>41 DEF ChangeAvailabilityDecided, store, history
    <2>2. inbound'.pc = "idle" /\ pendingAvail' \in Avail
      BY <1>41 DEF IInv, InboundType, ChangeAvailabilityDecided
    <2>3. /\ StatusType' /\ ActiveType' /\ SetTypes' /\ ProfileType'
          /\ NextType' /\ QueueType' /\ TaskType' /\ HistoryTypes'
      BY <2>1 DEF IInv, StatusType, ActiveType, SetTypes, ProfileType, NextType, QueueType,
         TaskType, HistoryTypes
    <2>4. RangeInv' /\ ConnectorInv' /\ TxInv' /\ TakenInv' /\ FreshInv' /\ OwnerInv' /\ StopInv'
      BY <2>1 DEF IInv, RangeInv, ConnectorInv, TxInv, Unregistered, TakenInv, FreshInv, OwnerInv,
         Unregistered, StopInv
    <2>5. /\ SessionInv' /\ DetachInv' /\ ProfileInv'
          /\ AckInv' /\ EndedAtMostOnce' /\ ClosedIsReported'
      BY <2>1 DEF IInv, SessionInv, DetachInv, ProfileInv, AckInv, EndedAtMostOnce, ClosedIsReported
    <2>6. FiredInv'
      BY <2>1 DEF IInv, FiredInv, Taken, FiredOnce
    <2>7. SlotTypes'
      BY <2>1, <2>2 DEF IInv, SlotTypes, Avails
    <2>8. InboundType'
      BY <2>2 DEF InboundType
    <2>9. QED
      BY <2>3, <2>4, <2>5, <2>6, <2>7, <2>8 DEF IInv
  <1>42. ASSUME ChangeAvailabilityDecided, ~inbound.busy PROVE IInv'
    <2>1. UNCHANGED <<status, active, sessions, samplers, profile, nextTx, pendingReset,
                        pendingAvail, task, closes, acked, scheduled, fired, late>>
      BY <1>42 DEF ChangeAvailabilityDecided, store, history
    <2>2. /\ inbound'.pc = "idle" /\ queue' = queue \o ApplyCommands(inbound.req)
          /\ inbound.req \in Avail
      BY <1>42 DEF IInv, InboundType, ChangeAvailabilityDecided
    <2>3. /\ StatusType' /\ ActiveType' /\ SetTypes' /\ ProfileType'
          /\ NextType' /\ SlotTypes' /\ TaskType' /\ HistoryTypes'
      BY <2>1 DEF IInv, StatusType, ActiveType, SetTypes, ProfileType, NextType, SlotTypes,
         TaskType, HistoryTypes
    <2>4. RangeInv' /\ ConnectorInv' /\ TxInv' /\ TakenInv' /\ FreshInv' /\ OwnerInv' /\ StopInv'
      BY <2>1 DEF IInv, RangeInv, ConnectorInv, TxInv, Unregistered, TakenInv, FreshInv, OwnerInv,
         Unregistered, StopInv
    <2>5. /\ SessionInv' /\ DetachInv' /\ ProfileInv'
          /\ AckInv' /\ EndedAtMostOnce' /\ ClosedIsReported'
      BY <2>1 DEF IInv, SessionInv, DetachInv, ProfileInv, AckInv, EndedAtMostOnce, ClosedIsReported
    <2>6. FiredInv'
      BY <2>1 DEF IInv, FiredInv, Taken, FiredOnce
    <2>7. QueueType'
      <3>1. ApplyCommands(inbound.req) \in Seq(Commands)
        BY <2>2, ApplyIsSeq
      <3>2. QED
        BY <2>2, <3>1, ConcatProperties DEF IInv, QueueType
    <2>8. InboundType'
      BY <2>2 DEF InboundType
    <2>9. QED
      BY <2>3, <2>4, <2>5, <2>6, <2>7, <2>8 DEF IInv
  <1>43. ASSUME NEW t \in Tx, SetTxProfile(t) PROVE IInv'
    <2>1. UNCHANGED <<status, active, sessions, samplers, profile, nextTx, queue, pendingReset,
                        pendingAvail, task, closes, acked, scheduled, fired, late>>
      BY <1>43 DEF SetTxProfile, store, slots, history
    <2>2. inbound'.pc = "profile" /\ inbound'.evse \in Connectors /\ inbound'.tx \in Tx
      BY <1>43 DEF SetTxProfile, IInv, ActiveType
    <2>3. /\ StatusType' /\ ActiveType' /\ SetTypes' /\ ProfileType' /\ NextType'
          /\ QueueType' /\ SlotTypes' /\ TaskType' /\ HistoryTypes'
      BY <2>1 DEF IInv, StatusType, ActiveType, SetTypes, ProfileType, NextType, QueueType,
         SlotTypes, TaskType, HistoryTypes
    <2>4. RangeInv' /\ ConnectorInv' /\ TxInv' /\ TakenInv' /\ FreshInv' /\ OwnerInv' /\ StopInv'
      BY <2>1 DEF IInv, RangeInv, ConnectorInv, TxInv, Unregistered, TakenInv, FreshInv, OwnerInv,
         Unregistered, StopInv
    <2>5. /\ SessionInv' /\ DetachInv' /\ ProfileInv'
          /\ AckInv' /\ EndedAtMostOnce' /\ ClosedIsReported'
      BY <2>1 DEF IInv, SessionInv, DetachInv, ProfileInv, AckInv, EndedAtMostOnce, ClosedIsReported
    <2>6. FiredInv'
      BY <2>1 DEF IInv, FiredInv, Taken, FiredOnce
    <2>7. InboundType'
      BY <2>2 DEF InboundType
    <2>8. QED
      BY <2>3, <2>4, <2>5, <2>6, <2>7 DEF IInv
  <1>44. ASSUME SetTxProfileDecided PROVE IInv'
    <2>1. UNCHANGED <<status, active, sessions, samplers, nextTx, queue, pendingReset,
                        pendingAvail, task, closes, acked, scheduled, fired>>
      BY <1>44 DEF SetTxProfileDecided, slots
    <2>2. inbound'.pc = "idle" /\ inbound.evse \in Connectors /\ inbound.tx \in Tx
      BY <1>44 DEF SetTxProfileDecided, IInv, InboundType
    <2>3. PICK e, t : /\ e = inbound.evse /\ t = inbound.tx
                      /\ profile' = [profile EXCEPT ![e] = t]
                      /\ late' = IF t \in sessions /\ active[t] = e THEN late
                                 ELSE late \cup {t}
      BY <1>44 DEF SetTxProfileDecided
    <2>4. /\ StatusType' /\ ActiveType' /\ SetTypes' /\ NextType'
          /\ QueueType' /\ SlotTypes' /\ TaskType' /\ HistoryTypes'
      BY <2>1 DEF IInv, StatusType, ActiveType, SetTypes, NextType, QueueType,
         SlotTypes, TaskType, HistoryTypes
    <2>5. RangeInv' /\ ConnectorInv' /\ TxInv' /\ TakenInv' /\ FreshInv' /\ OwnerInv' /\ StopInv'
      BY <2>1 DEF IInv, RangeInv, ConnectorInv, TxInv, Unregistered, TakenInv, FreshInv, OwnerInv,
         Unregistered, StopInv
    <2>6. SessionInv' /\ DetachInv' /\ AckInv' /\ EndedAtMostOnce' /\ ClosedIsReported'
      BY <2>1 DEF IInv, SessionInv, DetachInv, AckInv, EndedAtMostOnce, ClosedIsReported
    <2>7. FiredInv'
      BY <2>1 DEF IInv, FiredInv, Taken, FiredOnce
    <2>8. ProfileType'
      BY <2>2, <2>3 DEF IInv, ProfileType
    <2>9. ProfileInv'
      <3>1. SUFFICES ASSUME NEW c \in Connectors, profile'[c] # None, profile'[c] \notin late'
                   PROVE  /\ profile'[c] \in sessions
                          /\ \/ active[profile'[c]] = c
                             \/ \E w \in Tasks : /\ task[w].pc = "register"
                                                 /\ task[w].tx = profile'[c]
                                                 /\ task[w].connector = c
        BY <2>1 DEF ProfileInv
      <3>2. CASE c = e
        BY <2>2, <2>3, <3>1, <3>2 DEF IInv, ProfileType
      <3>3. CASE c # e
        <4>1. profile'[c] = profile[c] /\ profile[c] \notin late
          BY <2>2, <2>3, <3>1, <3>3 DEF IInv, ProfileType
        <4>2. QED
          BY <3>1, <4>1 DEF IInv, ProfileInv
      <3>4. QED
        BY <3>2, <3>3
    <2>10. InboundType'
      BY <2>2 DEF InboundType
    <2>11. QED
      BY <2>4, <2>5, <2>6, <2>7, <2>8, <2>9, <2>10 DEF IInv
  <1>45. CASE UNCHANGED vars
    <2>1. UNCHANGED <<status, active, sessions, samplers, profile, nextTx, queue, pendingReset,
                      pendingAvail, task, inbound, closes, acked, scheduled, fired, late>>
      BY <1>45 DEF vars, store, slots, history
    <2>2. /\ StatusType' /\ ActiveType' /\ SetTypes' /\ ProfileType' /\ NextType' /\ QueueType'
          /\ SlotTypes' /\ TaskType' /\ HistoryTypes' /\ InboundType'
      BY <2>1 DEF IInv, StatusType, ActiveType, SetTypes, ProfileType, NextType, QueueType,
         SlotTypes, TaskType, HistoryTypes, InboundType
    <2>3. RangeInv' /\ ConnectorInv' /\ TxInv' /\ TakenInv' /\ FreshInv' /\ OwnerInv' /\ StopInv'
      BY <2>1 DEF IInv, RangeInv, ConnectorInv, TxInv, TakenInv, FreshInv, OwnerInv, StopInv,
         Unregistered
    <2>4. /\ SessionInv' /\ DetachInv' /\ ProfileInv' /\ AckInv' /\ EndedAtMostOnce'
          /\ ClosedIsReported'
      BY <2>1 DEF IInv, SessionInv, DetachInv, ProfileInv, AckInv, EndedAtMostOnce, ClosedIsReported
    <2>5. FiredInv'
      BY <2>1 DEF IInv, FiredInv, Taken, FiredOnce
    <2>6. QED
      BY <2>2, <2>3, <2>4, <2>5 DEF IInv
  <1>46. \A w \in Tasks : StartStep(w) => IInv'
    BY <1>3, <1>4, <1>5, <1>6, <1>7, <1>8, <1>9, <1>10 DEF StartStep
  <1>47. \A w \in Tasks : StopStep(w) => IInv'
    BY <1>11, <1>12, <1>13, <1>14, <1>15, <1>16, <1>17, <1>18, <1>19, <1>20, <1>21, <1>22, <1>23,
       <1>24 DEF StopStep
  <1>48. ConsumerStep => IInv'
    BY <1>25, <1>26, <1>27, <1>28, <1>29, <1>30, <1>31, <1>32, <1>33 DEF ConsumerStep
  <1>49. Request \/ Decide => IInv'
    BY <1>34, <1>35, <1>36, <1>37, <1>38, <1>39, <1>40, <1>41, <1>42, <1>43,
       <1>44 DEF Request, Decide
  <1>50. QED
    BY <1>1, <1>2, <1>45, <1>46, <1>47, <1>48, <1>49 DEF Next

-----------------------------------------------------------------------------
(* Theorems *)

\* The invariant holds in every reachable state.
LEMMA Invariance == Spec => []IInv
  BY InitInv, StepInv, PTL DEF Spec

\* The shared state of the station, its channel and its tasks keep their types.
THEOREM TypeCorrect == Spec => []TypeOK
  <1>1. IInv => TypeOK
    <2> SUFFICES ASSUME IInv PROVE TypeOK
      OBVIOUS
    <2>1. /\ version \in {"V16J", "V201"}
          /\ status \in [Connectors -> {"Available", "Charging", "Unavailable"}]
          /\ active \in [Tx -> Connectors \cup {None}]
          /\ sessions \subseteq Tx /\ samplers \subseteq Tx
          /\ profile \in [Connectors -> Tx \cup {None}]
          /\ queue \in Seq(Commands)
      BY DEF IInv, VersionType, StatusType, ActiveType, SetTypes, ProfileType, QueueType
    <2>2. nextTx \in 1..MaxTx + 1
      BY BoundsAssumption DEF IInv, NextType
    <2>3. pendingReset \in Kinds \cup {"none"} /\ pendingAvail \in Avail \cup {NoAvail}
      BY DEF IInv, SlotTypes, Kinds, Resets, Avails
    <2>4. task \in [Tasks -> [pc : Pcs, connector : Connectors \cup {None},
                              tx : Tx \cup {None}, profile : BOOLEAN,
                              reset : Kinds \cup {"none"}, todo : SUBSET Tx,
                              takenReset : Kinds \cup {"none"},
                              takenAvail : Avail \cup {NoAvail}]]
      <3>1. Resets = Kinds \cup {"none"} /\ Avails = Avail \cup {NoAvail}
        BY DEF Resets, Kinds, Avails
      <3>2. QED
        BY <3>1 DEF IInv, TaskType, TaskRec, RangeInv
    <2>5. QED
      BY <2>1, <2>2, <2>3, <2>4 DEF TypeOK
  <1>2. QED
    BY <1>1, Invariance, PTL

\* Whatever stops, resets and failed CALLs do, a session record belongs to a
\* transaction that is active or about to be registered.
THEOREM SessionIsLiveHolds == Spec => []SessionIsLive
  <1>1. IInv => SessionIsLive
    BY DEF IInv, SessionInv, SetTypes, SessionIsLive, ActiveTx, Opening, At
  <1>2. QED
    BY <1>1, Invariance, PTL

\* A TxProfile installed while its transaction runs goes with that transaction's
\* session, by whichever request it came and also when two transactions share its
\* EVSE; only a SetChargingProfile carried out too late is left behind.
THEOREM ProfileHasSessionHolds == Spec => []ProfileHasSession
  <1>1. IInv => ProfileHasSession
    BY DEF IInv, ProfileInv, ProfileHasSession
  <1>2. QED
    BY <1>1, Invariance, PTL

\* However many stops of a transaction race, its Ended is sent at most once.
THEOREM EndedAtMostOnceHolds == Spec => []EndedAtMostOnce
  <1>1. IInv => EndedAtMostOnce
    BY DEF IInv
  <1>2. QED
    BY <1>1, Invariance, PTL

\* A 1.6J station forgets a transaction only after its StopTransaction was answered.
THEOREM ClosedIsReportedHolds == Spec => []ClosedIsReported
  <1>1. IInv => ClosedIsReported
    BY DEF IInv
  <1>2. QED
    BY <1>1, Invariance, PTL

\* A Scheduled reset is put on the command channel at most once, however many
\* tasks stop transactions at the same time.
THEOREM FiredOnceHolds == Spec => []FiredOnce
  <1>1. IInv => FiredOnce
    BY DEF IInv, FiredInv
  <1>2. QED
    BY <1>1, Invariance, PTL

=============================================================================
