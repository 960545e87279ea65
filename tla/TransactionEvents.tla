------------------------- MODULE TransactionEvents -------------------------
(***************************************************************************)
(* The TransactionEvent stream of one EVSE of a 2.0.1 charge point whose   *)
(* TxStartPoint includes EVConnected (ocpp-cp/src/lib.rs,                  *)
(* v201_transaction.rs).  A transaction is opened by plug_in_cable or by   *)
(* start_transaction; a start on a plug-opened transaction folds its       *)
(* authorization onto it.  Its Updated events come from four independent   *)
(* sources: state transitions, the fold, the periodic meter sampler and    *)
(* TriggerMessage.  All draw their seqNo from one atomic counter; state    *)
(* changes are serialised by the session's own charging_state mutex, which *)
(* is held across the CALL.                                                *)
(*                                                                         *)
(* An emitter finds the transaction in active_transactions and then clones *)
(* the Arcs of its session.  The model reads both maps in one step: a stop *)
(* removes the session first, so a session that is found is active still.  *)
(* An emitter keeps its clones after the session is removed.               *)
(*                                                                         *)
(* Left out: what the events carry beside the charging state, and what a   *)
(* start and a stop do to the connector and to deferred requests           *)
(* (Transactions, Reservations).                                           *)
(***************************************************************************)
EXTENDS Integers, FiniteSets, Sequences

CONSTANTS
    Tasks,        \* tasks that call the public API, the command consumer included
    None,         \* no task
    MaxTx,        \* bound: transaction ids handed out
    MaxOps,       \* bound: operations begun
    MaxTicks,     \* bound: numbers drawn by samplers
    MaxFaults     \* bound: CALLs that fail

ASSUME EventsAssumption ==
    /\ None \notin Tasks
    /\ MaxTx \in Nat /\ MaxOps \in Nat /\ MaxTicks \in Nat /\ MaxFaults \in Nat

Tx == 1..MaxTx
States == {"EVConnected", "Charging", "SuspendedEV"}

VARIABLES
    active,       \* keys of active_transactions on this EVSE
    sessions,     \* keys of v201_sessions on this EVSE
    plug,         \* V201Session::plug_initiated
    cstate,       \* V201Session::charging_state
    lock,         \* the task that holds the charging_state mutex
    seq,          \* V201Session::next_seq_no
    samplers,     \* keys of meter_sampler_handles
    ticks,        \* <<tx, seqNo>> drawn by a sampler and not yet sent
    nextTx,       \* next_v201_transaction_id
    task,         \* the operation each task is in
    ops, ticked, faults,   \* counters of the bounds
    sent,         \* history: the events each transaction put on the wire
    acks          \* history: the charging states the CSMS acknowledged, in order

session == <<active, sessions, plug, cstate, lock, seq>>
bounds == <<ops, ticked, faults>>
vars == <<session, samplers, ticks, nextTx, task, bounds, sent, acks>>

Idle == [pc |-> "idle", op |-> "none", tx |-> 0, want |-> "Charging", no |-> 0, todo |-> {}]

At(w, pc) == task[w].pc = pc
Goto(w, pc) == task' = [task EXCEPT ![w].pc = pc]
Done(w) == task' = [task EXCEPT ![w] = Idle]

Init ==
    /\ active = {} /\ sessions = {} /\ samplers = {} /\ ticks = {}
    /\ plug = [t \in Tx |-> FALSE]
    /\ cstate = [t \in Tx |-> "EVConnected"]
    /\ lock = [t \in Tx |-> None]
    /\ seq = [t \in Tx |-> 0]
    /\ nextTx = 1
    /\ task = [w \in Tasks |-> Idle]
    /\ ops = 0 /\ ticked = 0 /\ faults = 0
    /\ sent = [t \in Tx |-> {}]
    /\ acks = [t \in Tx |-> <<>>]

Begin(w, op, want, t) ==
    /\ At(w, "idle")
    /\ ops < MaxOps
    /\ ops' = ops + 1
    /\ task' = [task EXCEPT ![w] = [Idle EXCEPT !.pc = IF op = "stop" THEN "detach" ELSE "lookup",
                                                !.op = op, !.want = want, !.tx = t]]
    /\ UNCHANGED <<session, samplers, ticks, nextTx, ticked, faults, sent, acks>>

\* transition_charging_state (the SuspendedEVSE case is like SuspendedEV).
Transition(w, s) == s # "EVConnected" /\ Begin(w, "state", s, 0)

\* The ids suffice for everyone who may still open a transaction.
IdLeft == nextTx + Cardinality({w \in Tasks : /\ task[w].op \in {"plug", "start"}
                                              /\ task[w].pc \in {"lookup", "open"}}) <= MaxTx

PlugInCable(w) == IdLeft /\ Begin(w, "plug", "EVConnected", 0)

StartTransaction(w) == IdLeft /\ Begin(w, "start", "Charging", 0)

StopTransaction(w, t) == t \in active /\ Begin(w, "stop", "EVConnected", t)

Trigger(w) == Begin(w, "trigger", "EVConnected", 0)

-----------------------------------------------------------------------------
(* Looking the transaction up *)

\* The transaction a state change or a fold applies to: a plug, a start or a
\* transition takes any live one of the EVSE, a fold only a plug-opened one.
Found(w) == {t \in active \cap sessions : task[w].op = "start" => plug[t]}

\* A transition or a plug on the EVSE, or a start that may fold.
LookupFound(w, t) ==
    /\ At(w, "lookup")
    /\ task[w].op \in {"state", "plug", "start"}
    /\ t \in Found(w)
    /\ task' = [task EXCEPT ![w].pc = "lock", ![w].tx = t]
    /\ UNCHANGED <<session, samplers, ticks, nextTx, bounds, sent, acks>>

\* find_map stops at the first transaction of the EVSE, in no particular order;
\* none, or one without a usable session, leaves a transition with nothing to do,
\* while a plug or a start opens a transaction.
LookupNone(w) ==
    /\ At(w, "lookup")
    /\ task[w].op \in {"state", "plug", "start"}
    /\ active = {} \/ active \ Found(w) # {}
    /\ IF task[w].op = "state" THEN Done(w) ELSE Goto(w, "open")
    /\ UNCHANGED <<session, samplers, ticks, nextTx, bounds, sent, acks>>

LookupTargets(w) ==
    /\ At(w, "lookup")
    /\ task[w].op = "trigger"
    /\ task' = [task EXCEPT ![w].pc = "trigger", ![w].todo = active]
    /\ UNCHANGED <<session, samplers, ticks, nextTx, bounds, sent, acks>>

-----------------------------------------------------------------------------
(* Opening a transaction *)

\* After StatusNotification(Preparing) (start only): a fresh id, Started, seqNo 0.
Open(w) ==
    /\ At(w, "open")
    /\ nextTx \in Tx
    /\ nextTx' = nextTx + 1
    /\ sent' = [sent EXCEPT ![nextTx] = {[no |-> 0, kind |-> "Started"]}]
    /\ task' = [task EXCEPT ![w].pc = "opening", ![w].tx = nextTx]
    /\ UNCHANGED <<session, samplers, ticks, bounds, acks>>

\* Started is acknowledged (and accepted): the session is inserted, its counter at 1.
Opened(w) ==
    /\ At(w, "opening")
    /\ LET t == task[w].tx
       IN /\ sessions' = sessions \cup {t}
          /\ plug' = [plug EXCEPT ![t] = task[w].op = "plug"]
          /\ cstate' = [cstate EXCEPT ![t] = task[w].want]
          /\ seq' = [seq EXCEPT ![t] = 1]
          /\ acks' = [acks EXCEPT ![t] = <<task[w].want>>]
    /\ Goto(w, "register")
    /\ UNCHANGED <<active, lock, samplers, ticks, nextTx, bounds, sent>>

Register(w) ==
    /\ At(w, "register")
    /\ active' = active \cup {task[w].tx}
    /\ IF task[w].op = "plug" THEN Done(w) ELSE Goto(w, "energize")
    /\ UNCHANGED <<sessions, plug, cstate, lock, seq, samplers, ticks, nextTx, bounds, sent,
                   acks>>

\* energize_connector: StatusNotification(Charging) is answered, the sampler starts.
Energize(w) ==
    /\ At(w, "energize")
    /\ samplers' = samplers \cup {task[w].tx}
    /\ Done(w)
    /\ UNCHANGED <<session, ticks, nextTx, bounds, sent, acks>>

-----------------------------------------------------------------------------
(* State transitions and the fold, under the charging_state mutex *)

\* Is there anything to emit: a transition to another state, a fold of EVConnected?
Real(w) ==
    LET t == task[w].tx
    IN IF task[w].op = "start" THEN cstate[t] = "EVConnected" ELSE cstate[t] # task[w].want

\* Mutant: the state is compared before the mutex is taken.
LockUnheld(w) ==
    /\ At(w, "lock")
    /\ IF Real(w) THEN Goto(w, "draw") ELSE Done(w)
    /\ UNCHANGED <<session, samplers, ticks, nextTx, bounds, sent, acks>>

\* Mutant: the redundant path keeps the guard.
LockKept(w) ==
    /\ At(w, "lock")
    /\ lock[task[w].tx] = None
    /\ lock' = [lock EXCEPT ![task[w].tx] = w]
    /\ IF Real(w) THEN Goto(w, "draw") ELSE Done(w)
    /\ UNCHANGED <<active, sessions, plug, cstate, seq, samplers, ticks, nextTx, bounds,
                   sent, acks>>

\* The mutex is taken and the state compared; a redundant change releases it at once.
Lock(w) ==
    /\ At(w, "lock")
    /\ lock[task[w].tx] = None
    /\ IF Real(w)
       THEN lock' = [lock EXCEPT ![task[w].tx] = w] /\ Goto(w, "draw")
       ELSE Done(w) /\ UNCHANGED lock
    /\ UNCHANGED <<active, sessions, plug, cstate, seq, samplers, ticks, nextTx, bounds,
                   sent, acks>>

\* Mutant: the number is read from the counter but not taken.
DrawPeek(w) ==
    /\ At(w, "draw")
    /\ task' = [task EXCEPT ![w].pc = "send", ![w].no = seq[task[w].tx]]
    /\ UNCHANGED <<session, samplers, ticks, nextTx, bounds, sent, acks>>

\* fetch_add; a fold has first had its StatusNotification(Preparing) answered.
Draw(w) ==
    /\ At(w, "draw")
    /\ task' = [task EXCEPT ![w].pc = "send", ![w].no = seq[task[w].tx]]
    /\ seq' = [seq EXCEPT ![task[w].tx] = @ + 1]
    /\ UNCHANGED <<active, sessions, plug, cstate, lock, samplers, ticks, nextTx, bounds,
                   sent, acks>>

\* call() hands the frame over some time after the number was drawn.
Send(w) ==
    /\ At(w, "send")
    /\ sent' = [sent EXCEPT ![task[w].tx] = @ \cup {[no |-> task[w].no, kind |-> task[w].op]}]
    /\ Goto(w, "await")
    /\ UNCHANGED <<session, samplers, ticks, nextTx, bounds, acks>>

\* The CSMS acknowledged: the state is stored and the mutex released; a fold goes on.
Acked(w) ==
    /\ At(w, "await")
    /\ task[w].op \in {"state", "plug", "start"}
    /\ LET t == task[w].tx
       IN /\ cstate' = [cstate EXCEPT ![t] = task[w].want]
          /\ acks' = [acks EXCEPT ![t] = Append(@, task[w].want)]
          /\ lock' = [lock EXCEPT ![t] = None]
    /\ IF task[w].op = "start" THEN Goto(w, "energize") ELSE Done(w)
    /\ UNCHANGED <<active, sessions, plug, seq, samplers, ticks, nextTx, bounds, sent>>

-----------------------------------------------------------------------------
(* stop_transaction *)

\* Mutant: the session is looked up, not removed, before Ended is numbered.
DetachLookup(w) ==
    /\ At(w, "detach")
    /\ samplers' = samplers \ {task[w].tx}
    /\ IF task[w].tx \in sessions THEN Goto(w, "draw") ELSE Goto(w, "finish")
    /\ UNCHANGED <<session, ticks, nextTx, bounds, sent, acks>>

\* The sampler is aborted and the session removed; only then Ended is numbered.
Detach(w) ==
    /\ At(w, "detach")
    /\ samplers' = samplers \ {task[w].tx}
    /\ sessions' = sessions \ {task[w].tx}
    /\ IF task[w].tx \in sessions THEN Goto(w, "draw") ELSE Goto(w, "finish")
    /\ UNCHANGED <<active, plug, cstate, lock, seq, ticks, nextTx, bounds, sent, acks>>

EndedAcked(w) ==
    /\ At(w, "await")
    /\ task[w].op = "stop"
    /\ Goto(w, "finish")
    /\ UNCHANGED <<session, samplers, ticks, nextTx, bounds, sent, acks>>

\* StatusNotification(Finishing) is answered; the transaction is forgotten.
Finish(w) ==
    /\ At(w, "finish")
    /\ samplers' = samplers \ {task[w].tx}
    /\ active' = active \ {task[w].tx}
    /\ Done(w)
    /\ UNCHANGED <<sessions, plug, cstate, lock, seq, ticks, nextTx, bounds, sent, acks>>

-----------------------------------------------------------------------------
(* TriggerMessage(TransactionEvent) and the samplers: numbered under the map's guard *)

TriggerNext(w, t) ==
    /\ At(w, "trigger")
    /\ t \in task[w].todo
    /\ task' = [task EXCEPT ![w].todo = @ \ {t}, ![w].tx = t, ![w].no = seq[t],
                            ![w].pc = IF t \in sessions THEN "send" ELSE "trigger"]
    /\ seq' = IF t \in sessions THEN [seq EXCEPT ![t] = @ + 1] ELSE seq
    /\ UNCHANGED <<active, sessions, plug, cstate, lock, samplers, ticks, nextTx, bounds,
                   sent, acks>>

TriggerAcked(w) ==
    /\ At(w, "await")
    /\ task[w].op = "trigger"
    /\ Goto(w, "trigger")
    /\ UNCHANGED <<session, samplers, ticks, nextTx, bounds, sent, acks>>

TriggerDone(w) ==
    /\ At(w, "trigger")
    /\ task[w].todo = {}
    /\ Done(w)
    /\ UNCHANGED <<session, samplers, ticks, nextTx, bounds, sent, acks>>

SamplerDraw(t) ==
    /\ t \in samplers
    /\ t \in sessions
    /\ ticked < MaxTicks
    /\ ticked' = ticked + 1
    /\ ticks' = ticks \cup {<<t, seq[t]>>}
    /\ seq' = [seq EXCEPT ![t] = @ + 1]
    /\ UNCHANGED <<active, sessions, plug, cstate, lock, samplers, nextTx, task, ops, faults,
                   sent, acks>>

\* The sampler does not await an answer.  One aborted meanwhile may still send.
SamplerSend(e) ==
    /\ e \in ticks
    /\ ticks' = ticks \ {e}
    /\ sent' = [sent EXCEPT ![e[1]] = @ \cup {[no |-> e[2], kind |-> "meter"]}]
    /\ UNCHANGED <<session, samplers, nextTx, task, bounds, acks>>

\* abort() reaches the sampler at one of its awaits: the number is lost.
SamplerDies(e) ==
    /\ e \in ticks
    /\ e[1] \notin samplers
    /\ ticks' = ticks \ {e}
    /\ UNCHANGED <<session, samplers, nextTx, task, bounds, sent, acks>>

-----------------------------------------------------------------------------
\* A CALL fails, before or after its frame went out: the operation returns, the
\* guard is dropped, the state is left and the number spent; a trigger goes on.
CallFails(w) ==
    /\ task[w].pc \in {"opening", "energize", "send", "await", "finish"}
          \/ (task[w].pc \in {"open", "draw"} /\ task[w].op = "start")
    /\ faults < MaxFaults
    /\ faults' = faults + 1
    /\ lock' = [t \in Tx |-> IF lock[t] = w THEN None ELSE lock[t]]
    /\ IF task[w].op = "trigger" THEN Goto(w, "trigger") ELSE Done(w)
    /\ UNCHANGED <<active, sessions, plug, cstate, seq, samplers, ticks, nextTx, ops, ticked,
                   sent, acks>>

Step(w) ==
    \/ \E t \in Tx : LookupFound(w, t) \/ TriggerNext(w, t)
    \/ LookupNone(w) \/ LookupTargets(w)
    \/ Open(w) \/ Opened(w) \/ Register(w) \/ Energize(w)
    \/ Lock(w) \/ Draw(w) \/ Send(w) \/ Acked(w)
    \/ Detach(w) \/ EndedAcked(w) \/ Finish(w)
    \/ TriggerAcked(w) \/ TriggerDone(w)
    \/ CallFails(w)

Next ==
    \/ \E w \in Tasks :
          \/ \E s \in States : Transition(w, s)
          \/ PlugInCable(w)
          \/ StartTransaction(w)
          \/ \E t \in Tx : StopTransaction(w, t)
          \/ Trigger(w)
          \/ Step(w)
    \/ \E t \in Tx : SamplerDraw(t)
    \/ \E e \in ticks : SamplerSend(e) \/ SamplerDies(e)

Spec == Init /\ [][Next]_vars

\* CALLs return and ready tasks run; tokio's Mutex serves its waiters in order.
\* Nothing makes a sampler tick or an application call an operation.
FairSpec == Spec /\ \A w \in Tasks : WF_vars(Step(w))

-----------------------------------------------------------------------------
(* Properties *)

\* Type correctness of the session records, the samplers and the running operations.
TypeOK ==
    /\ active \subseteq Tx /\ sessions \subseteq Tx /\ samplers \subseteq Tx
    /\ plug \in [Tx -> BOOLEAN]
    /\ cstate \in [Tx -> States]
    /\ lock \in [Tx -> Tasks \cup {None}]
    /\ seq \in [Tx -> Nat]
    /\ ticks \subseteq Tx \X Nat
    /\ nextTx \in 1..MaxTx + 1
    /\ \A w \in Tasks : task[w].tx \in Tx \cup {0} /\ task[w].want \in States

\* No two events of a transaction carry the same seqNo, although state changes, fold,
\* sampler, trigger and stop number their events independently and some still hold
\* the counter of a session that is gone.
SeqUnique == \A t \in Tx : \A e, f \in sent[t] : e.no = f.no => e = f

\* "a redundant transition is a true no-op and two concurrent transitions can't both
\* emit": consecutive charging states acknowledged by the CSMS differ.
TransitionsReal ==
    \A t \in Tx : \A i \in 1..Len(acks[t]) - 1 : acks[t][i] # acks[t][i + 1]

\* No meter reading, periodic or triggered, is numbered after the Ended event of its
\* transaction, even one whose sampler was aborted between drawing and sending.
MeteringBeforeEnded ==
    \A t \in Tx : \A e, f \in sent[t] :
        e.kind \in {"meter", "trigger"} /\ f.kind = "stop" => e.no < f.no

\* Every operation returns: the mutex held across a CALL never blocks the EVSE for ever.
OpsFinish == \A w \in Tasks : ~At(w, "idle") ~> At(w, "idle")
=============================================================================
