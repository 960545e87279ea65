---------------------- MODULE TransactionEvents_proofs ----------------------
(***************************************************************************)
(* Proofs about TransactionEvents, for any number of tasks, transactions   *)
(* and operations: the seqNo of an event is its own, readings come before  *)
(* Ended, and the charging states the CSMS acknowledges really change.     *)
(***************************************************************************)
EXTENDS TransactionEvents, TLAPS

Pcs == {"idle", "lookup", "open", "opening", "register", "energize", "lock", "draw", "send",
        "await", "detach", "finish", "trigger"}
Changes == {"state", "plug", "start"}
Ops == Changes \cup {"none", "stop", "trigger"}
Kinds == Ops \cup {"Started", "meter"}
TaskRec == [pc : Pcs, op : Ops, tx : Nat, want : States, no : Nat, todo : SUBSET Tx]
EventRec == [no : Nat, kind : Kinds]

(* Types *)

TaskType == task \in [Tasks -> TaskRec]
MapTypes == active \subseteq Tx /\ sessions \subseteq Tx /\ samplers \subseteq Tx
            /\ nextTx \in 1..(MaxTx + 1)
PlugType == plug \in [Tx -> BOOLEAN]
CellTypes == cstate \in [Tx -> States] /\ lock \in [Tx -> Tasks \cup {None}]
SeqTypes == seq \in [Tx -> Nat] /\ ticks \subseteq Tx \X Nat
SentType == sent \in [Tx -> SUBSET EventRec]
AckType == acks \in [Tx -> Seq(States)]

\* Which operations get to which point.
StageInv ==
    \A w \in Tasks :
        /\ task[w].tx \in Tx \cup {0}
        /\ task[w].pc \in {"open", "opening", "register"} => task[w].op \in {"plug", "start"}
        /\ task[w].pc = "energize" => task[w].op = "start"
        /\ task[w].pc = "lock" => task[w].op \in Changes
        /\ task[w].pc = "draw" => task[w].op \in Changes \cup {"stop"}
        /\ task[w].pc \in {"detach", "finish"} => task[w].op = "stop"
        /\ task[w].pc = "trigger" => task[w].op = "trigger"
        /\ task[w].op = "start" => task[w].want = "Charging"

\* A transaction is known, from the acknowledgement of Started on, by its counter.
\* Whoever works on a transaction works on a known one, except for its opener.
TxInv ==
    \A w \in Tasks :
        /\ task[w].pc \in {"register", "energize", "lock", "draw", "send", "await", "detach",
                           "finish"} => task[w].tx \in Tx /\ seq[task[w].tx] >= 1
        /\ task[w].pc = "opening" =>
              task[w].tx \in Tx /\ seq[task[w].tx] = 0 /\ task[w].tx < nextTx
        /\ \A t \in task[w].todo : seq[t] >= 1

\* An id is opened by one task.
OpenerInv ==
    \A v, w \in Tasks :
        task[v].pc = "opening" /\ task[w].pc = "opening" /\ task[v].tx = task[w].tx => v = w

KnownInv ==
    /\ \A t \in active \cup sessions \cup samplers : seq[t] >= 1
    /\ \A t \in Tx : t >= nextTx => seq[t] = 0

(* A number drawn is in one place only: with a task, with a sampler or on the wire. *)

Carries(w, t, n) == task[w].pc = "send" /\ task[w].tx = t /\ task[w].no = n

CarryInv ==
    /\ \A w \in Tasks, t \in Tx, n \in Nat : Carries(w, t, n) => 1 <= n /\ n < seq[t]
    /\ \A v, w \in Tasks, t \in Tx, n \in Nat : Carries(v, t, n) /\ Carries(w, t, n) => v = w

TickInv ==
    \A t \in Tx, n \in Nat : <<t, n>> \in ticks =>
        /\ 1 <= n /\ n < seq[t]
        /\ \A w \in Tasks : ~Carries(w, t, n)

SentNo(t, n) == \E e \in sent[t] : e.no = n

SentInv ==
    \A t \in Tx, n \in Nat : SentNo(t, n) =>
        /\ n = 0 \/ n < seq[t]
        /\ <<t, n>> \notin ticks
        /\ \A w \in Tasks : ~Carries(w, t, n)

(* The number of Ended is drawn after the session is gone, those of readings before. *)

StopNo(t, n) ==
    \/ \E w \in Tasks : Carries(w, t, n) /\ task[w].op = "stop"
    \/ \E e \in sent[t] : e.no = n /\ e.kind = "stop"

MeterNo(t, n) ==
    \/ <<t, n>> \in ticks
    \/ \E w \in Tasks : Carries(w, t, n) /\ task[w].op = "trigger"
    \/ \E e \in sent[t] : e.no = n /\ e.kind \in {"meter", "trigger"}

StopInv ==
    /\ \A w \in Tasks : task[w].pc \in {"draw", "send"} /\ task[w].op = "stop" =>
                           task[w].tx \notin sessions
    /\ \A t \in Tx : \A e \in sent[t] : e.kind = "stop" => t \notin sessions /\ seq[t] >= 1
    /\ \A t \in Tx : \A e \in sent[t] : e.kind \in {"meter", "trigger"} => seq[t] >= 1

MeterInv == \A t \in Tx, m, n \in Nat : MeterNo(t, m) /\ StopNo(t, n) => m < n

(* Changes of the charging state are serialised by the mutex. *)

\* Who is emitting a change holds the mutex, and the change is a real one.
LockInv ==
    \A w \in Tasks : task[w].pc \in {"draw", "send", "await"} /\ task[w].op \in Changes =>
        lock[task[w].tx] = w /\ cstate[task[w].tx] # task[w].want

\* The state stored is the one the CSMS acknowledged last.
AckInv ==
    \A t \in Tx : seq[t] >= 1 => Len(acks[t]) >= 1 /\ acks[t][Len(acks[t])] = cstate[t]

IInv ==
    /\ TaskType /\ MapTypes /\ PlugType /\ CellTypes /\ SeqTypes /\ SentType /\ AckType
    /\ StageInv /\ TxInv /\ OpenerInv /\ KnownInv
    /\ CarryInv /\ TickInv /\ SentInv /\ SeqUnique
    /\ StopInv /\ MeterInv /\ LockInv /\ AckInv /\ TransitionsReal

-----------------------------------------------------------------------------
(* Initial states *)

\* No transaction, every task idle.
LEMMA InitInv == Init => IInv
  <1> SUFFICES ASSUME Init PROVE IInv
    OBVIOUS
  <1>1. task = [w \in Tasks |-> Idle] /\ \A w \in Tasks : task[w] = Idle
    BY DEF Init
  <1>2. /\ Idle \in TaskRec /\ Idle.pc = "idle" /\ Idle.op = "none" /\ Idle.tx = 0
        /\ Idle.todo = {}
    BY DEF Idle, TaskRec, Pcs, Ops, States
  <1>3. active = {} /\ sessions = {} /\ samplers = {} /\ ticks = {} /\ nextTx = 1
    BY DEF Init
  <1>4. seq = [t \in Tx |-> 0] /\ sent = [t \in Tx |-> {}] /\ acks = [t \in Tx |-> <<>>]
    BY DEF Init
  <1>5. TaskType /\ StageInv /\ OpenerInv /\ LockInv
    BY <1>1, <1>2 DEF TaskType, StageInv, OpenerInv, LockInv, Changes
  <1>6. MapTypes /\ SeqTypes
    BY <1>3, <1>4, EventsAssumption DEF MapTypes, SeqTypes
  <1>7. PlugType
    BY DEF Init, PlugType
  <1>8. CellTypes
    BY DEF Init, CellTypes, States
  <1>9. SentType
    BY <1>4 DEF SentType
  <1>10. AckType
    BY <1>4 DEF AckType
  <1>11. TxInv
    BY <1>1, <1>2 DEF TxInv
  <1>12. KnownInv
    BY <1>3, <1>4 DEF KnownInv
  <1>13. CarryInv /\ \A w \in Tasks, t \in Tx, n \in Nat : ~Carries(w, t, n)
    BY <1>1, <1>2 DEF CarryInv, Carries
  <1>14. TickInv /\ SentInv /\ SeqUnique
    BY <1>3, <1>4 DEF TickInv, SentInv, SentNo, SeqUnique
  <1>15. StopInv
    BY <1>1, <1>2, <1>4 DEF StopInv
  <1>16. MeterInv
    BY <1>3, <1>4, <1>13 DEF MeterInv, MeterNo
  <1>17. AckInv
    BY <1>4 DEF AckInv
  <1>18. TransitionsReal
    <2>1. \A t \in Tx : Len(acks[t]) = 0
      BY <1>4
    <2>2. QED
      BY <2>1 DEF TransitionsReal
  <1>19. QED
    BY <1>5, <1>6, <1>7, <1>8, <1>9, <1>10, <1>11, <1>12, <1>13, <1>14, <1>15, <1>16, <1>17,
       <1>18 DEF IInv

-----------------------------------------------------------------------------
(* Steps *)

\* What every step of a task says of the records of the tasks.
TaskBecomes(w, pc, op, tx, want, todo) ==
    /\ TaskType'
    /\ \A v \in Tasks : v # w => task'[v] = task[v]
    /\ task'[w].pc = pc /\ task'[w].op = op /\ task'[w].tx = tx
    /\ task'[w].want = want /\ task'[w].todo = todo

Returned(w) == TaskBecomes(w, "idle", "none", 0, "Charging", {})
Moved(w, pc) == TaskBecomes(w, pc, task[w].op, task[w].tx, task[w].want, task[w].todo)

\* An operation returns.
LEMMA Done_Returned == ASSUME IInv, NEW w \in Tasks, Done(w) PROVE Returned(w)
  <1>1. /\ Idle \in TaskRec /\ Idle.pc = "idle" /\ Idle.op = "none" /\ Idle.tx = 0
        /\ Idle.want = "Charging" /\ Idle.todo = {}
    BY DEF Idle, TaskRec, Pcs, Ops, States
  <1>2. task' = [task EXCEPT ![w] = Idle]
    BY DEF Done
  <1>3. QED
    BY <1>1, <1>2 DEF IInv, TaskType, Returned, TaskBecomes

\* An operation goes on.
LEMMA Goto_Moved == ASSUME IInv, NEW w \in Tasks, NEW pc \in Pcs, Goto(w, pc) PROVE Moved(w, pc)
  <1>1. task' = [task EXCEPT ![w].pc = pc]
    BY DEF Goto
  <1>2. QED
    BY <1>1 DEF IInv, TaskType, TaskRec, Moved, TaskBecomes

\* Every step preserves the invariant.
LEMMA StepInv == IInv /\ [Next]_vars => IInv'
  <1> SUFFICES ASSUME IInv, [Next]_vars PROVE IInv'
    OBVIOUS
  <1> USE EventsAssumption
  <1>1. CASE UNCHANGED vars
    <2>1. UNCHANGED <<active, sessions, plug, cstate, lock, seq, samplers, ticks, nextTx,
                      sent, acks, task>>
      BY <1>1 DEF vars, session
    <2>2. TaskType' /\ MapTypes' /\ PlugType' /\ CellTypes' /\ SeqTypes' /\ SentType' /\ AckType'
      BY <2>1 DEF IInv, TaskType, MapTypes, PlugType, CellTypes, SeqTypes, SentType, AckType
    <2>3. StageInv' /\ TxInv' /\ OpenerInv' /\ KnownInv' /\ LockInv'
      BY <2>1 DEF IInv, StageInv, TxInv, OpenerInv, KnownInv, LockInv
    <2>4. CarryInv' /\ TickInv' /\ SentInv' /\ SeqUnique' /\ StopInv'
      BY <2>1 DEF IInv, CarryInv, Carries, TickInv, Carries, SentInv, SentNo, Carries, SeqUnique,
         StopInv
    <2>5. MeterInv'
      BY <2>1 DEF IInv, MeterInv, MeterNo, StopNo, Carries
    <2>6. AckInv' /\ TransitionsReal'
      BY <2>1 DEF IInv, AckInv, TransitionsReal
    <2>7. QED
      BY <2>2, <2>3, <2>4, <2>5, <2>6 DEF IInv
  <1>2. ASSUME NEW w \in Tasks, NEW op \in Changes \cup {"stop", "trigger"}, NEW want \in States,
               NEW t \in Tx \cup {0}, Begin(w, op, want, t),
               op = "start" => want = "Charging", op = "stop" => t \in active
        PROVE  IInv'
    <2>1. UNCHANGED <<active, sessions, plug, cstate, lock, seq, samplers, ticks, nextTx,
                      sent, acks>>
      BY <1>2 DEF Begin, session
    <2>2. TaskBecomes(w, IF op = "stop" THEN "detach" ELSE "lookup", op, t, want, {})
      <3>1. t \in Nat
        BY DEF Tx
      <3>2. QED
        BY <1>2, <3>1 DEF IInv, Begin, Idle, TaskType, TaskRec, TaskBecomes, Pcs, Ops
    <2>3. \A v \in Tasks, u \in Tx, n \in Nat :
            Carries(v, u, n)' => Carries(v, u, n) /\ task'[v].op = task[v].op
      BY <2>2 DEF Carries, TaskBecomes, Returned, Moved
    <2>4. MapTypes' /\ PlugType' /\ CellTypes' /\ SeqTypes' /\ SentType' /\ AckType'
      BY <2>1 DEF IInv, MapTypes, PlugType, CellTypes, SeqTypes, SentType, AckType
    <2>5. KnownInv'
      BY <2>1 DEF IInv, KnownInv
    <2>6. SeqUnique'
      BY <2>1 DEF IInv, SeqUnique
    <2>7. AckInv' /\ TransitionsReal'
      BY <2>1 DEF IInv, AckInv, TransitionsReal
    <2>8. TaskType'
      BY <2>2 DEF TaskBecomes, Returned, Moved
    <2>9. StageInv'
      BY <1>2, <2>2 DEF IInv, StageInv, TaskBecomes, Changes
    <2>10. TxInv'
      BY <1>2, <2>1, <2>2 DEF IInv, TxInv, TaskBecomes, KnownInv, MapTypes
    <2>11. OpenerInv'
      BY <2>2 DEF IInv, OpenerInv, TaskBecomes, Returned, Moved
    <2>12. CarryInv'
      BY <2>1, <2>3 DEF IInv, CarryInv
    <2>13. TickInv'
      BY <2>1, <2>3 DEF IInv, TickInv
    <2>14. SentInv'
      BY <2>1, <2>3 DEF IInv, SentInv, SentNo
    <2>15. StopInv'
      BY <2>1, <2>2 DEF IInv, StopInv, TaskBecomes, Returned, Moved
    <2>16. MeterInv'
      <3>1. \A u \in Tx, n \in Nat : MeterNo(u, n)' => MeterNo(u, n)
        BY <2>1, <2>3 DEF MeterNo
      <3>2. \A u \in Tx, n \in Nat : StopNo(u, n)' => StopNo(u, n)
        BY <2>1, <2>3 DEF StopNo
      <3>3. QED
        BY <3>1, <3>2 DEF IInv, MeterInv
    <2>17. LockInv'
      BY <2>1, <2>2 DEF IInv, LockInv, TaskBecomes, Returned, Moved, Changes
    <2>18. QED
      BY <2>4, <2>5, <2>6, <2>7, <2>8, <2>9, <2>10, <2>11, <2>12, <2>13, <2>14, <2>15, <2>16,
         <2>17 DEF IInv
  <1>3. ASSUME NEW w \in Tasks, NEW t \in Tx, LookupFound(w, t) PROVE IInv'
    <2>1. UNCHANGED <<active, sessions, plug, cstate, lock, seq, samplers, ticks, nextTx,
                      sent, acks>>
      BY <1>3 DEF LookupFound, session
    <2>2. /\ TaskBecomes(w, "lock", task[w].op, t, task[w].want, task[w].todo)
          /\ task[w].op \in Changes /\ t \in active
      <3>1. t \in Nat
        BY DEF Tx
      <3>2. QED
        BY <1>3, <3>1 DEF IInv, LookupFound, Found, TaskType, TaskRec, TaskBecomes, Pcs, Changes
    <2>3. \A v \in Tasks, u \in Tx, n \in Nat :
            Carries(v, u, n)' => Carries(v, u, n) /\ task'[v].op = task[v].op
      BY <2>2 DEF Carries, TaskBecomes, Returned, Moved
    <2>4. MapTypes' /\ PlugType' /\ CellTypes' /\ SeqTypes' /\ SentType' /\ AckType'
      BY <2>1 DEF IInv, MapTypes, PlugType, CellTypes, SeqTypes, SentType, AckType
    <2>5. KnownInv'
      BY <2>1 DEF IInv, KnownInv
    <2>6. SeqUnique'
      BY <2>1 DEF IInv, SeqUnique
    <2>7. AckInv' /\ TransitionsReal'
      BY <2>1 DEF IInv, AckInv, TransitionsReal
    <2>8. TaskType'
      BY <2>2 DEF TaskBecomes, Returned, Moved
    <2>9. StageInv'
      BY <2>2 DEF IInv, StageInv, TaskBecomes, Returned, Moved, Changes
    <2>10. TxInv'
      BY <2>1, <2>2 DEF IInv, TxInv, TaskBecomes, KnownInv
    <2>11. OpenerInv'
      BY <2>2 DEF IInv, OpenerInv, TaskBecomes, Returned, Moved
    <2>12. CarryInv'
      BY <2>1, <2>3 DEF IInv, CarryInv
    <2>13. TickInv'
      BY <2>1, <2>3 DEF IInv, TickInv
    <2>14. SentInv'
      BY <2>1, <2>3 DEF IInv, SentInv, SentNo
    <2>15. StopInv'
      BY <2>1, <2>2 DEF IInv, StopInv, TaskBecomes, Returned, Moved
    <2>16. MeterInv'
      <3>1. \A u \in Tx, n \in Nat : MeterNo(u, n)' => MeterNo(u, n)
        BY <2>1, <2>3 DEF MeterNo
      <3>2. \A u \in Tx, n \in Nat : StopNo(u, n)' => StopNo(u, n)
        BY <2>1, <2>3 DEF StopNo
      <3>3. QED
        BY <3>1, <3>2 DEF IInv, MeterInv
    <2>17. LockInv'
      BY <2>1, <2>2 DEF IInv, LockInv, TaskBecomes, Returned, Moved, Changes
    <2>18. QED
      BY <2>4, <2>5, <2>6, <2>7, <2>8, <2>9, <2>10, <2>11, <2>12, <2>13, <2>14, <2>15, <2>16,
         <2>17 DEF IInv
  <1>4. ASSUME NEW w \in Tasks, LookupNone(w) PROVE IInv'
    <2>1. UNCHANGED <<active, sessions, plug, cstate, lock, seq, samplers, ticks, nextTx,
                      sent, acks>>
      BY <1>4 DEF LookupNone, session
    <2>2. \/ Returned(w)
          \/ Moved(w, "open") /\ task[w].op \in {"plug", "start"}
      BY <1>4, Done_Returned, Goto_Moved DEF LookupNone, Pcs
    <2>3. \A v \in Tasks, u \in Tx, n \in Nat :
            Carries(v, u, n)' => Carries(v, u, n) /\ task'[v].op = task[v].op
      BY <2>2 DEF Carries, TaskBecomes, Returned, Moved
    <2>4. MapTypes' /\ PlugType' /\ CellTypes' /\ SeqTypes' /\ SentType' /\ AckType'
      BY <2>1 DEF IInv, MapTypes, PlugType, CellTypes, SeqTypes, SentType, AckType
    <2>5. KnownInv'
      BY <2>1 DEF IInv, KnownInv
    <2>6. SeqUnique'
      BY <2>1 DEF IInv, SeqUnique
    <2>7. AckInv' /\ TransitionsReal'
      BY <2>1 DEF IInv, AckInv, TransitionsReal
    <2>8. TaskType'
      BY <2>2 DEF TaskBecomes, Returned, Moved
    <2>9. StageInv'
      BY <2>2 DEF IInv, StageInv, TaskBecomes, Returned, Moved, Changes
    <2>10. TxInv'
      BY <2>1, <2>2 DEF IInv, TxInv, TaskBecomes, Returned, Moved
    <2>11. OpenerInv'
      BY <2>2 DEF IInv, OpenerInv, TaskBecomes, Returned, Moved
    <2>12. CarryInv'
      BY <2>1, <2>3 DEF IInv, CarryInv
    <2>13. TickInv'
      BY <2>1, <2>3 DEF IInv, TickInv
    <2>14. SentInv'
      BY <2>1, <2>3 DEF IInv, SentInv, SentNo
    <2>15. StopInv'
      BY <2>1, <2>2 DEF IInv, StopInv, TaskBecomes, Returned, Moved
    <2>16. MeterInv'
      <3>1. \A u \in Tx, n \in Nat : MeterNo(u, n)' => MeterNo(u, n)
        BY <2>1, <2>3 DEF MeterNo
      <3>2. \A u \in Tx, n \in Nat : StopNo(u, n)' => StopNo(u, n)
        BY <2>1, <2>3 DEF StopNo
      <3>3. QED
        BY <3>1, <3>2 DEF IInv, MeterInv
    <2>17. LockInv'
      BY <2>1, <2>2 DEF IInv, LockInv, TaskBecomes, Returned, Moved, Changes
    <2>18. QED
      BY <2>4, <2>5, <2>6, <2>7, <2>8, <2>9, <2>10, <2>11, <2>12, <2>13, <2>14, <2>15, <2>16,
         <2>17 DEF IInv
  <1>5. ASSUME NEW w \in Tasks, LookupTargets(w) PROVE IInv'
    <2>1. UNCHANGED <<active, sessions, plug, cstate, lock, seq, samplers, ticks, nextTx,
                      sent, acks>>
      BY <1>5 DEF LookupTargets, session
    <2>2. /\ TaskBecomes(w, "trigger", task[w].op, task[w].tx, task[w].want, active)
          /\ task[w].op = "trigger"
      BY <1>5 DEF IInv, LookupTargets, TaskType, TaskRec, TaskBecomes, Pcs, MapTypes
    <2>3. \A v \in Tasks, u \in Tx, n \in Nat :
            Carries(v, u, n)' => Carries(v, u, n) /\ task'[v].op = task[v].op
      BY <2>2 DEF Carries, TaskBecomes, Returned, Moved
    <2>4. MapTypes' /\ PlugType' /\ CellTypes' /\ SeqTypes' /\ SentType' /\ AckType'
      BY <2>1 DEF IInv, MapTypes, PlugType, CellTypes, SeqTypes, SentType, AckType
    <2>5. KnownInv'
      BY <2>1 DEF IInv, KnownInv
    <2>6. SeqUnique'
      BY <2>1 DEF IInv, SeqUnique
    <2>7. AckInv' /\ TransitionsReal'
      BY <2>1 DEF IInv, AckInv, TransitionsReal
    <2>8. TaskType'
      BY <2>2 DEF TaskBecomes, Returned, Moved
    <2>9. StageInv'
      BY <2>2 DEF IInv, StageInv, TaskBecomes, Returned, Moved, Changes
    <2>10. TxInv'
      BY <2>1, <2>2 DEF IInv, TxInv, TaskBecomes, KnownInv
    <2>11. OpenerInv'
      BY <2>2 DEF IInv, OpenerInv, TaskBecomes, Returned, Moved
    <2>12. CarryInv'
      BY <2>1, <2>3 DEF IInv, CarryInv
    <2>13. TickInv'
      BY <2>1, <2>3 DEF IInv, TickInv
    <2>14. SentInv'
      BY <2>1, <2>3 DEF IInv, SentInv, SentNo
    <2>15. StopInv'
      BY <2>1, <2>2 DEF IInv, StopInv, TaskBecomes, Returned, Moved
    <2>16. MeterInv'
      <3>1. \A u \in Tx, n \in Nat : MeterNo(u, n)' => MeterNo(u, n)
        BY <2>1, <2>3 DEF MeterNo
      <3>2. \A u \in Tx, n \in Nat : StopNo(u, n)' => StopNo(u, n)
        BY <2>1, <2>3 DEF StopNo
      <3>3. QED
        BY <3>1, <3>2 DEF IInv, MeterInv
    <2>17. LockInv'
      BY <2>1, <2>2 DEF IInv, LockInv, TaskBecomes, Returned, Moved, Changes
    <2>18. QED
      BY <2>4, <2>5, <2>6, <2>7, <2>8, <2>9, <2>10, <2>11, <2>12, <2>13, <2>14, <2>15, <2>16,
         <2>17 DEF IInv
  <1>6. ASSUME NEW w \in Tasks, Open(w) PROVE IInv'
    <2>1. UNCHANGED <<active, sessions, plug, cstate, lock, seq, samplers, ticks, acks>>
      BY <1>6 DEF Open, session
    <2>2. nextTx \in Tx /\ nextTx' = nextTx + 1
      BY <1>6 DEF Open
    <2>3. /\ sent'[nextTx] = {[no |-> 0, kind |-> "Started"]}
          /\ \A t \in Tx : t # nextTx => sent'[t] = sent[t]
          /\ sent' = [sent EXCEPT ![nextTx] = {[no |-> 0, kind |-> "Started"]}]
      BY <1>6, <2>2 DEF IInv, Open, SentType
    <2>4. /\ TaskBecomes(w, "opening", task[w].op, nextTx, task[w].want, task[w].todo)
          /\ task[w].op \in {"plug", "start"}
      <3>1. nextTx \in Nat
        BY <2>2 DEF Tx
      <3>2. QED
        BY <1>6, <3>1 DEF IInv, Open, At, TaskType, TaskRec, TaskBecomes, Pcs, StageInv
    <2>5. \A v \in Tasks, u \in Tx, n \in Nat :
            Carries(v, u, n)' => Carries(v, u, n) /\ task'[v].op = task[v].op
      BY <2>4 DEF Carries, TaskBecomes, Returned, Moved
    <2>6. PlugType' /\ CellTypes' /\ SeqTypes' /\ AckType'
      BY <2>1 DEF IInv, PlugType, CellTypes, SeqTypes, AckType
    <2>7. AckInv' /\ TransitionsReal'
      BY <2>1 DEF IInv, AckInv, TransitionsReal
    <2>8. TaskType'
      BY <2>4 DEF TaskBecomes, Returned, Moved
    <2>9. MapTypes'
      BY <2>1, <2>2 DEF IInv, MapTypes, Tx
    <2>10. SentType'
      BY <2>2, <2>3 DEF IInv, SentType, EventRec, Kinds
    <2>11. StageInv'
      BY <2>2, <2>4 DEF IInv, StageInv, TaskBecomes, Changes
    <2>12. TxInv'
      BY <2>1, <2>2, <2>4 DEF IInv, TxInv, TaskBecomes, KnownInv, Tx
    <2>13. OpenerInv'
      BY <2>2, <2>4 DEF IInv, OpenerInv, TxInv, TaskBecomes, Tx
    <2>14. KnownInv'
      BY <2>1, <2>2 DEF IInv, KnownInv, Tx
    <2>15. CarryInv'
      BY <2>1, <2>5 DEF IInv, CarryInv
    <2>16. TickInv'
      BY <2>1, <2>5 DEF IInv, TickInv
    <2>17. SentInv'
      <3>1. \A n \in Nat, v \in Tasks : <<nextTx, n>> \notin ticks /\ ~Carries(v, nextTx, n)
        BY <2>2, <2>3 DEF IInv, TickInv, CarryInv, KnownInv, SeqTypes, Tx
      <3>2. \A t \in Tx, n \in Nat : t = nextTx /\ SentNo(t, n)' => n = 0
        BY <2>3 DEF SentNo
      <3>3. \A t \in Tx, n \in Nat : t # nextTx => (SentNo(t, n)' <=> SentNo(t, n))
        BY <2>3 DEF SentNo
      <3>4. QED
        BY <2>1, <3>1, <3>2, <3>3, <2>5 DEF IInv, SentInv
    <2>18. SeqUnique'
      BY <2>3 DEF IInv, SeqUnique, SentType
    <2>19. StopInv'
      BY <2>1, <2>3, <2>4 DEF IInv, StopInv, TaskBecomes, SentType
    <2>20. MeterInv'
      <3>1. \A t \in Tx : \A e \in sent'[t] : e.kind # "Started" => e \in sent[t]
        BY <2>3 DEF IInv, SentType
      <3>2. \A t \in Tx, n \in Nat : MeterNo(t, n)' => MeterNo(t, n)
        BY <2>1, <3>1, <2>5 DEF MeterNo
      <3>3. \A t \in Tx, n \in Nat : StopNo(t, n)' => StopNo(t, n)
        BY <2>1, <3>1, <2>5 DEF StopNo
      <3>4. QED
        BY <3>2, <3>3 DEF IInv, MeterInv
    <2>21. LockInv'
      BY <2>1, <2>4 DEF IInv, LockInv, TaskBecomes, Returned, Moved, Changes
    <2>22. QED
      BY <2>6, <2>7, <2>8, <2>9, <2>10, <2>11, <2>12, <2>13, <2>14, <2>15, <2>16, <2>17, <2>18,
         <2>19, <2>20, <2>21 DEF IInv
  <1>7. ASSUME NEW w \in Tasks, Opened(w) PROVE IInv'
    <2> DEFINE tx == task[w].tx
    <2> HIDE DEF tx
    <2>1. UNCHANGED <<active, lock, samplers, ticks, nextTx, sent>>
      BY <1>7 DEF Opened, session
    <2>2. tx \in Tx /\ seq[tx] = 0 /\ task[w].pc = "opening" /\ task[w].tx = tx
      BY <1>7 DEF IInv, Opened, At, TxInv, tx
    <2>3. /\ seq' = [seq EXCEPT ![tx] = 1]
          /\ sessions' = sessions \cup {tx}
      BY <1>7 DEF Opened, tx
    <2>4. /\ cstate' = [cstate EXCEPT ![tx] = task[w].want] /\ task[w].want \in States
          /\ cstate'[tx] = task[w].want /\ \A t \in Tx : t # tx => cstate'[t] = cstate[t]
      BY <1>7, <2>2 DEF IInv, Opened, TaskType, TaskRec, CellTypes, tx
    <2>5. /\ acks' = [acks EXCEPT ![tx] = <<task[w].want>>] /\ <<task[w].want>> \in Seq(States)
          /\ acks'[tx] = <<task[w].want>> /\ \A t \in Tx : t # tx => acks'[t] = acks[t]
      BY <1>7, <2>2, <2>4 DEF IInv, Opened, AckType, tx
    <2>6. /\ seq'[tx] = 1
          /\ \A t \in Tx : /\ seq[t] \in Nat /\ seq'[t] \in Nat /\ seq'[t] >= seq[t]
                           /\ t # tx => seq'[t] = seq[t]
      BY <2>2, <2>3 DEF IInv, SeqTypes
    <2>7. Moved(w, "register") /\ task[w].op \in {"plug", "start"}
      BY <1>7, Goto_Moved DEF IInv, Opened, At, Pcs, StageInv
    <2>8. \A v \in Tasks, u \in Tx, n \in Nat :
            Carries(v, u, n)' => Carries(v, u, n) /\ task'[v].op = task[v].op
      BY <2>7 DEF Carries, TaskBecomes, Returned, Moved
    <2>9. SentType'
      BY <2>1 DEF IInv, SentType
    <2>10. SeqUnique'
      BY <2>1 DEF IInv, SeqUnique
    <2>11. TaskType'
      BY <2>7 DEF TaskBecomes, Returned, Moved
    <2>12. MapTypes'
      BY <2>1, <2>2, <2>3 DEF IInv, MapTypes
    <2>13. PlugType'
      <3>1. plug' = [plug EXCEPT ![tx] = task[w].op = "plug"]
        BY <1>7 DEF Opened, tx
      <3>2. QED
        BY <3>1 DEF IInv, PlugType
    <2>14. CellTypes'
      BY <2>1, <2>4, <2>5 DEF IInv, CellTypes
    <2>15. SeqTypes'
      BY <2>1, <2>3 DEF IInv, SeqTypes
    <2>16. AckType'
      BY <2>4, <2>5 DEF IInv, AckType
    <2>17. StageInv'
      BY <2>7 DEF IInv, StageInv, TaskBecomes, Returned, Moved, Changes
    <2>18. TxInv'
      <3>1. \A v \in Tasks : \A t \in task[v].todo : t \in Tx
        BY DEF IInv, TaskType, TaskRec
      <3>2. QED
        BY <2>1, <2>2, <2>6, <3>1, <2>7 DEF IInv, TxInv, OpenerInv, TaskBecomes, Moved
    <2>19. OpenerInv'
      BY <2>7 DEF IInv, OpenerInv, TaskBecomes, Returned, Moved
    <2>20. KnownInv'
      <3>1. tx < nextTx /\ nextTx \in Nat /\ tx \in Nat
        BY <2>2 DEF IInv, TxInv, MapTypes, Tx
      <3>2. QED
        BY <2>1, <2>2, <2>3, <2>6, <3>1 DEF IInv, KnownInv, MapTypes
    <2>21. CarryInv'
      BY <2>6, <2>8 DEF IInv, CarryInv
    <2>22. TickInv'
      BY <2>1, <2>6, <2>8 DEF IInv, TickInv
    <2>23. SentInv'
      BY <2>1, <2>6, <2>8 DEF IInv, SentInv, SentNo
    <2>24. StopInv'
      BY <2>1, <2>2, <2>3, <2>6, <2>7 DEF IInv, StopInv, TxInv, SeqTypes, TaskBecomes, Returned,
         Moved
    <2>25. MeterInv'
      <3>1. \A u \in Tx, n \in Nat : MeterNo(u, n)' => MeterNo(u, n)
        BY <2>1, <2>8 DEF MeterNo
      <3>2. \A u \in Tx, n \in Nat : StopNo(u, n)' => StopNo(u, n)
        BY <2>1, <2>8 DEF StopNo
      <3>3. QED
        BY <3>1, <3>2 DEF IInv, MeterInv
    <2>26. LockInv'
      BY <2>1, <2>2, <2>4, <2>7 DEF IInv, LockInv, TxInv, Changes, TaskBecomes, Returned, Moved
    <2>27. AckInv'
      <3>1. Len(acks'[tx]) = 1 /\ acks'[tx][1] = cstate'[tx]
        BY <2>4, <2>5
      <3>2. \A t \in Tx : t # tx => seq'[t] = seq[t] /\ acks'[t] = acks[t] /\ cstate'[t] = cstate[t]
        BY <2>3, <2>4, <2>5 DEF IInv, CellTypes
      <3>3. QED
        BY <3>1, <3>2 DEF IInv, AckInv
    <2>28. TransitionsReal'
      <3>1. Len(acks'[tx]) = 1
        BY <2>5
      <3>2. QED
        BY <2>5, <3>1 DEF IInv, TransitionsReal
    <2>29. QED
      BY <2>9, <2>10, <2>11, <2>12, <2>13, <2>14, <2>15, <2>16, <2>17, <2>18, <2>19, <2>20, <2>21,
         <2>22, <2>23, <2>24, <2>25, <2>26, <2>27, <2>28 DEF IInv
  <1>8. ASSUME NEW w \in Tasks, Register(w) PROVE IInv'
    <2>1. UNCHANGED <<sessions, plug, cstate, lock, seq, samplers, ticks, nextTx, sent, acks>>
      BY <1>8 DEF Register, session
    <2>2. /\ active' = active \cup {task[w].tx}
          /\ task[w].pc = "register" /\ task[w].tx \in Tx /\ seq[task[w].tx] >= 1
      BY <1>8 DEF IInv, Register, At, TxInv
    <2>3. \/ Returned(w)
          \/ Moved(w, "energize") /\ task[w].op = "start"
      BY <1>8, Done_Returned, Goto_Moved DEF IInv, Register, At, Pcs, StageInv
    <2>4. \A v \in Tasks, u \in Tx, n \in Nat :
            Carries(v, u, n)' => Carries(v, u, n) /\ task'[v].op = task[v].op
      BY <2>3 DEF Carries, TaskBecomes, Returned, Moved
    <2>5. PlugType' /\ CellTypes' /\ SeqTypes' /\ SentType' /\ AckType'
      BY <2>1 DEF IInv, PlugType, CellTypes, SeqTypes, SentType, AckType
    <2>6. SeqUnique'
      BY <2>1 DEF IInv, SeqUnique
    <2>7. AckInv' /\ TransitionsReal'
      BY <2>1 DEF IInv, AckInv, TransitionsReal
    <2>8. TaskType'
      BY <2>3 DEF TaskBecomes, Returned, Moved
    <2>9. MapTypes'
      BY <2>1, <2>2 DEF IInv, MapTypes
    <2>10. StageInv'
      BY <2>3 DEF IInv, StageInv, TaskBecomes, Returned, Moved, Changes
    <2>11. TxInv'
      BY <2>1, <2>2, <2>3 DEF IInv, TxInv, TaskBecomes, Returned, Moved
    <2>12. OpenerInv'
      BY <2>3 DEF IInv, OpenerInv, TaskBecomes, Returned, Moved
    <2>13. KnownInv'
      BY <2>1, <2>2 DEF IInv, KnownInv
    <2>14. CarryInv'
      BY <2>1, <2>4 DEF IInv, CarryInv
    <2>15. TickInv'
      BY <2>1, <2>4 DEF IInv, TickInv
    <2>16. SentInv'
      BY <2>1, <2>4 DEF IInv, SentInv, SentNo
    <2>17. StopInv'
      BY <2>1, <2>3 DEF IInv, StopInv, TaskBecomes, Returned, Moved
    <2>18. MeterInv'
      <3>1. \A u \in Tx, n \in Nat : MeterNo(u, n)' => MeterNo(u, n)
        BY <2>1, <2>4 DEF MeterNo
      <3>2. \A u \in Tx, n \in Nat : StopNo(u, n)' => StopNo(u, n)
        BY <2>1, <2>4 DEF StopNo
      <3>3. QED
        BY <3>1, <3>2 DEF IInv, MeterInv
    <2>19. LockInv'
      BY <2>1, <2>3 DEF IInv, LockInv, TaskBecomes, Returned, Moved, Changes
    <2>20. QED
      BY <2>5, <2>6, <2>7, <2>8, <2>9, <2>10, <2>11, <2>12, <2>13, <2>14, <2>15, <2>16, <2>17,
         <2>18, <2>19 DEF IInv
  <1>9. ASSUME NEW w \in Tasks, Energize(w) PROVE IInv'
    <2>1. UNCHANGED <<active, sessions, plug, cstate, lock, seq, ticks, nextTx, sent, acks>>
      BY <1>9 DEF Energize, session
    <2>2. /\ samplers' = samplers \cup {task[w].tx}
          /\ task[w].tx \in Tx /\ seq[task[w].tx] >= 1
      BY <1>9 DEF IInv, Energize, At, TxInv
    <2>3. Returned(w)
      BY <1>9, Done_Returned DEF Energize
    <2>4. \A v \in Tasks, u \in Tx, n \in Nat :
            Carries(v, u, n)' => Carries(v, u, n) /\ task'[v].op = task[v].op
      BY <2>3 DEF Carries, TaskBecomes, Returned, Moved
    <2>5. PlugType' /\ CellTypes' /\ SeqTypes' /\ SentType' /\ AckType'
      BY <2>1 DEF IInv, PlugType, CellTypes, SeqTypes, SentType, AckType
    <2>6. SeqUnique'
      BY <2>1 DEF IInv, SeqUnique
    <2>7. AckInv' /\ TransitionsReal'
      BY <2>1 DEF IInv, AckInv, TransitionsReal
    <2>8. TaskType'
      BY <2>3 DEF TaskBecomes, Returned, Moved
    <2>9. MapTypes'
      BY <2>1, <2>2 DEF IInv, MapTypes
    <2>10. StageInv'
      BY <2>3 DEF IInv, StageInv, TaskBecomes, Returned, Moved, Changes
    <2>11. TxInv'
      BY <2>1, <2>2, <2>3 DEF IInv, TxInv, TaskBecomes, Returned, Moved
    <2>12. OpenerInv'
      BY <2>3 DEF IInv, OpenerInv, TaskBecomes, Returned, Moved
    <2>13. KnownInv'
      BY <2>1, <2>2 DEF IInv, KnownInv
    <2>14. CarryInv'
      BY <2>1, <2>4 DEF IInv, CarryInv
    <2>15. TickInv'
      BY <2>1, <2>4 DEF IInv, TickInv
    <2>16. SentInv'
      BY <2>1, <2>4 DEF IInv, SentInv, SentNo
    <2>17. StopInv'
      BY <2>1, <2>3 DEF IInv, StopInv, TaskBecomes, Returned, Moved
    <2>18. MeterInv'
      <3>1. \A u \in Tx, n \in Nat : MeterNo(u, n)' => MeterNo(u, n)
        BY <2>1, <2>4 DEF MeterNo
      <3>2. \A u \in Tx, n \in Nat : StopNo(u, n)' => StopNo(u, n)
        BY <2>1, <2>4 DEF StopNo
      <3>3. QED
        BY <3>1, <3>2 DEF IInv, MeterInv
    <2>19. LockInv'
      BY <2>1, <2>3 DEF IInv, LockInv, TaskBecomes, Returned, Moved, Changes
    <2>20. QED
      BY <2>5, <2>6, <2>7, <2>8, <2>9, <2>10, <2>11, <2>12, <2>13, <2>14, <2>15, <2>16, <2>17,
         <2>18, <2>19 DEF IInv
  <1>10. ASSUME NEW w \in Tasks, Lock(w) PROVE IInv'
    <2>1. UNCHANGED <<active, sessions, plug, cstate, seq, samplers, ticks, nextTx, sent, acks>>
      BY <1>10 DEF Lock, session
    <2>2. /\ task[w].pc = "lock" /\ task[w].op \in Changes /\ lock[task[w].tx] = None
          /\ task[w].tx \in Tx /\ seq[task[w].tx] >= 1
      BY <1>10 DEF IInv, Lock, At, TxInv, StageInv
    <2>3. \/ Returned(w) /\ lock' = lock
          \/ /\ Moved(w, "draw") /\ lock' = [lock EXCEPT ![task[w].tx] = w]
             /\ cstate[task[w].tx] # task[w].want
      <3>1. CASE Real(w)
        <4>1. Moved(w, "draw") /\ lock' = [lock EXCEPT ![task[w].tx] = w]
          BY <1>10, <3>1, Goto_Moved DEF Lock, Pcs
        <4>2. cstate[task[w].tx] # task[w].want
          BY <2>2, <3>1 DEF IInv, Real, StageInv
        <4>3. QED
          BY <4>1, <4>2
      <3>2. CASE ~Real(w)
        BY <1>10, <3>2, Done_Returned DEF Lock
      <3>3. QED
        BY <3>1, <3>2
    <2>4. \A v \in Tasks, u \in Tx, n \in Nat :
            Carries(v, u, n)' => Carries(v, u, n) /\ task'[v].op = task[v].op
      BY <2>3 DEF Carries, TaskBecomes, Returned, Moved
    <2>5. MapTypes' /\ PlugType' /\ SeqTypes' /\ SentType' /\ AckType'
      BY <2>1 DEF IInv, MapTypes, PlugType, SeqTypes, SentType, AckType
    <2>6. KnownInv'
      BY <2>1 DEF IInv, KnownInv
    <2>7. SeqUnique'
      BY <2>1 DEF IInv, SeqUnique
    <2>8. AckInv' /\ TransitionsReal'
      BY <2>1 DEF IInv, AckInv, TransitionsReal
    <2>9. TaskType'
      BY <2>3 DEF TaskBecomes, Returned, Moved
    <2>10. CellTypes'
      BY <2>1, <2>3 DEF IInv, CellTypes
    <2>11. StageInv'
      BY <2>2, <2>3 DEF IInv, StageInv, TaskBecomes, Returned, Moved, Changes
    <2>12. TxInv'
      BY <2>1, <2>2, <2>3 DEF IInv, TxInv, TaskBecomes, Returned, Moved
    <2>13. OpenerInv'
      BY <2>3 DEF IInv, OpenerInv, TaskBecomes, Returned, Moved
    <2>14. CarryInv'
      BY <2>1, <2>4 DEF IInv, CarryInv
    <2>15. TickInv'
      BY <2>1, <2>4 DEF IInv, TickInv
    <2>16. SentInv'
      BY <2>1, <2>4 DEF IInv, SentInv, SentNo
    <2>17. StopInv'
      BY <2>1, <2>2, <2>3 DEF IInv, StopInv, TaskBecomes, Returned, Moved, Changes
    <2>18. MeterInv'
      <3>1. \A u \in Tx, n \in Nat : MeterNo(u, n)' => MeterNo(u, n)
        BY <2>1, <2>4 DEF MeterNo
      <3>2. \A u \in Tx, n \in Nat : StopNo(u, n)' => StopNo(u, n)
        BY <2>1, <2>4 DEF StopNo
      <3>3. QED
        BY <3>1, <3>2 DEF IInv, MeterInv
    <2>19. LockInv'
      <3>1. \A v \in Tasks : v # w => task'[v] = task[v]
        BY <2>3 DEF TaskBecomes, Returned, Moved
      <3>2. ASSUME NEW v \in Tasks, v # w, task[v].pc \in {"draw", "send", "await"},
                   task[v].op \in Changes
            PROVE  lock'[task[v].tx] = v /\ cstate'[task[v].tx] # task[v].want
        <4>1. lock[task[v].tx] = v /\ cstate[task[v].tx] # task[v].want /\ v # None
          BY <3>2 DEF IInv, LockInv
        <4>2. task[v].tx \in Tx /\ task[v].tx # task[w].tx
          BY <2>2, <3>2, <4>1 DEF IInv, TxInv
        <4>3. QED
          BY <2>1, <2>2, <4>1, <4>2, <2>3 DEF IInv, CellTypes
      <3>3. ASSUME task'[w].pc \in {"draw", "send", "await"}
            PROVE  lock'[task'[w].tx] = w /\ cstate'[task'[w].tx] # task'[w].want
        BY <2>1, <2>2, <3>3, <2>3 DEF IInv, CellTypes, TaskBecomes, Returned, Moved
      <3>4. QED
        BY <3>1, <3>2, <3>3 DEF LockInv
    <2>20. QED
      BY <2>5, <2>6, <2>7, <2>8, <2>9, <2>10, <2>11, <2>12, <2>13, <2>14, <2>15, <2>16, <2>17,
         <2>18, <2>19 DEF IInv
  <1>11. ASSUME NEW w \in Tasks, Draw(w) PROVE IInv'
    <2>1. UNCHANGED <<active, sessions, plug, cstate, lock, samplers, ticks, nextTx, sent, acks>>
      BY <1>11 DEF Draw, session
    <2>2. /\ task[w].pc = "draw" /\ task[w].op \in Changes \cup {"stop"}
          /\ task[w].tx \in Tx /\ seq[task[w].tx] \in Nat /\ seq[task[w].tx] >= 1
      BY <1>11 DEF IInv, Draw, At, StageInv, TxInv, SeqTypes
    <2>3. /\ TaskBecomes(w, "send", task[w].op, task[w].tx, task[w].want, task[w].todo)
          /\ task'[w].no = seq[task[w].tx]
      BY <1>11, <2>2 DEF IInv, Draw, TaskType, TaskRec, TaskBecomes, Pcs
    <2>4. /\ seq' = [seq EXCEPT ![task[w].tx] = @ + 1]
          /\ seq'[task[w].tx] = seq[task[w].tx] + 1
          /\ \A t \in Tx : t # task[w].tx => seq'[t] = seq[t]
      BY <1>11, <2>2 DEF IInv, Draw, SeqTypes
    <2>5. \A v \in Tasks, t \in Tx, n \in Nat : Carries(v, t, n)' =>
             \/ Carries(v, t, n) /\ v # w /\ task'[v].op = task[v].op
             \/ v = w /\ t = task[w].tx /\ n = seq[t]
      BY <2>3 DEF Carries, TaskBecomes
    <2>6. \A v \in Tasks, n \in Nat : Carries(v, task[w].tx, n) => n < seq[task[w].tx]
      BY <2>2 DEF IInv, CarryInv
    <2>7. MapTypes' /\ PlugType' /\ CellTypes' /\ SentType' /\ AckType'
      BY <2>1 DEF IInv, MapTypes, PlugType, CellTypes, SentType, AckType
    <2>8. SeqUnique'
      BY <2>1 DEF IInv, SeqUnique
    <2>9. TransitionsReal'
      BY <2>1 DEF IInv, TransitionsReal
    <2>10. TaskType'
      BY <2>3 DEF TaskBecomes
    <2>11. SeqTypes'
      BY <2>1, <2>2, <2>4 DEF IInv, SeqTypes
    <2>12. StageInv'
      BY <2>2, <2>3 DEF IInv, StageInv, TaskBecomes, Changes
    <2>13. TxInv'
      <3>1. \A t \in Tx : /\ seq[t] \in Nat /\ seq'[t] \in Nat /\ seq'[t] >= seq[t]
                          /\ seq[t] = 0 => seq'[t] = 0
        BY <2>2, <2>4 DEF IInv, SeqTypes
      <3>2. \A v \in Tasks : \A t \in task[v].todo : t \in Tx /\ seq'[t] >= 1
        BY <3>1 DEF IInv, TaskType, TaskRec, TxInv
      <3>3. ASSUME NEW v \in Tasks, v # w
            PROVE  /\ task[v].pc \in {"register", "energize", "lock", "draw", "send", "await",
                           "detach", "finish"} => task[v].tx \in Tx /\ seq'[task[v].tx] >= 1
                   /\ task[v].pc = "opening" => /\ task[v].tx \in Tx /\ seq'[task[v].tx] = 0
                                                /\ task[v].tx < nextTx'
        BY <2>1, <3>1 DEF IInv, TxInv
      <3>4. QED
        BY <2>2, <2>3, <2>4, <3>2, <3>3 DEF TxInv, TaskBecomes
    <2>14. OpenerInv'
      BY <2>3 DEF IInv, OpenerInv, TaskBecomes
    <2>15. KnownInv'
      BY <2>1, <2>2, <2>4 DEF IInv, KnownInv, SeqTypes, MapTypes
    <2>16. CarryInv'
      BY <2>2, <2>4, <2>5, <2>6 DEF IInv, CarryInv, SeqTypes
    <2>17. TickInv'
      BY <2>1, <2>2, <2>4, <2>5 DEF IInv, TickInv, SeqTypes
    <2>18. SentInv'
      <3>1. \A u \in Tx, n \in Nat : SentNo(u, n)' => SentNo(u, n)
        BY <2>1 DEF SentNo
      <3>2. \A u \in Tx : seq[u] \in Nat /\ seq'[u] \in Nat /\ seq'[u] >= seq[u]
        BY <2>2, <2>4 DEF IInv, SeqTypes
      <3>3. QED
        BY <2>1, <2>2, <2>5, <3>1, <3>2 DEF IInv, SentInv
    <2>19. StopInv'
      BY <2>1, <2>2, <2>3, <2>4 DEF IInv, StopInv, SeqTypes, TaskBecomes
    <2>20. MeterInv'
      <3>1. \A t \in Tx, n \in Nat : MeterNo(t, n)' => MeterNo(t, n) /\ n < seq[t]
        <4>1. \A t \in Tx, n \in Nat : MeterNo(t, n)' => MeterNo(t, n)
          BY <2>1, <2>2, <2>3, <2>5 DEF MeterNo, TaskBecomes, Changes
        <4>2. \A t \in Tx, n \in Nat : MeterNo(t, n) => n < seq[t]
          BY DEF IInv, MeterNo, TickInv, CarryInv, SentInv, SentNo, StopInv, SeqTypes
        <4>3. QED
          BY <4>1, <4>2
      <3>2. \A t \in Tx, n \in Nat : StopNo(t, n)' => StopNo(t, n) \/ n = seq[t]
        BY <2>1, <2>5 DEF StopNo
      <3>3. QED
        BY <3>1, <3>2 DEF IInv, MeterInv
    <2>21. LockInv'
      BY <2>1, <2>2, <2>3 DEF IInv, LockInv, TaskBecomes
    <2>22. AckInv'
      BY <2>1, <2>2, <2>4 DEF IInv, AckInv
    <2>23. QED
      BY <2>7, <2>8, <2>9, <2>10, <2>11, <2>12, <2>13, <2>14, <2>15, <2>16, <2>17, <2>18, <2>19,
         <2>20, <2>21, <2>22 DEF IInv
  <1>12. ASSUME NEW w \in Tasks, Send(w) PROVE IInv'
    <2>1. UNCHANGED <<active, sessions, plug, cstate, lock, seq, samplers, ticks, nextTx, acks>>
      BY <1>12 DEF Send, session
    <2>2. /\ task[w].pc = "send" /\ task[w].tx \in Tx /\ task[w].no \in Nat /\ task[w].op \in Ops
          /\ Carries(w, task[w].tx, task[w].no)
      BY <1>12 DEF IInv, Send, At, TxInv, TaskType, TaskRec, Carries
    <2>3. Moved(w, "await")
      BY <1>12, Goto_Moved DEF Send, Pcs
    <2>4. PICK f \in EventRec : f.no = task[w].no /\ f.kind = task[w].op
            /\ sent' = [sent EXCEPT ![task[w].tx] = @ \cup {f}]
      <3>1. [no |-> task[w].no, kind |-> task[w].op] \in EventRec
        BY <2>2 DEF EventRec, Kinds
      <3>2. QED
        BY <1>12, <3>1 DEF Send
    <2>5. /\ sent'[task[w].tx] = sent[task[w].tx] \cup {f}
          /\ \A t \in Tx : t # task[w].tx => sent'[t] = sent[t]
      BY <2>2, <2>4 DEF IInv, SentType
    <2>6. \A v \in Tasks, t \in Tx, n \in Nat :
            Carries(v, t, n)' => Carries(v, t, n) /\ v # w /\ task'[v].op = task[v].op
      BY <2>3 DEF Carries, Moved, TaskBecomes
    <2>7. MapTypes' /\ PlugType' /\ CellTypes' /\ SeqTypes' /\ AckType'
      BY <2>1 DEF IInv, MapTypes, PlugType, CellTypes, SeqTypes, AckType
    <2>8. KnownInv'
      BY <2>1 DEF IInv, KnownInv
    <2>9. AckInv' /\ TransitionsReal'
      BY <2>1 DEF IInv, AckInv, TransitionsReal
    <2>10. TaskType'
      BY <2>3 DEF Moved, TaskBecomes
    <2>11. SentType'
      BY <2>2, <2>4 DEF IInv, SentType
    <2>12. StageInv'
      BY <2>2, <2>3 DEF IInv, StageInv, Moved, TaskBecomes, Changes
    <2>13. TxInv'
      BY <2>1, <2>2, <2>3 DEF IInv, TxInv, Moved, TaskBecomes
    <2>14. OpenerInv'
      BY <2>3 DEF IInv, OpenerInv, Moved, TaskBecomes
    <2>15. CarryInv'
      BY <2>1, <2>6 DEF IInv, CarryInv
    <2>16. TickInv'
      BY <2>1, <2>6 DEF IInv, TickInv
    <2>17. SentInv'
      <3>1. /\ f.no < seq[task[w].tx] /\ <<task[w].tx, f.no>> \notin ticks
            /\ \A v \in Tasks : v # w => ~Carries(v, task[w].tx, f.no)
        BY <2>2, <2>4 DEF IInv, CarryInv, TickInv
      <3>2. \A t \in Tx, n \in Nat :
               SentNo(t, n)' => SentNo(t, n) \/ (t = task[w].tx /\ n = f.no)
        BY <2>5 DEF SentNo
      <3>3. QED
        BY <2>1, <2>5, <2>6, <3>1, <3>2 DEF IInv, SentInv
    <2>18. SeqUnique'
      <3>1. \A e \in sent[task[w].tx] : e.no # f.no
        BY <2>2, <2>4 DEF IInv, SentInv, SentNo
      <3>2. QED
        BY <2>5, <3>1 DEF IInv, SeqUnique
    <2>19. StopInv'
      BY <2>1, <2>2, <2>3, <2>4, <2>5 DEF IInv, StopInv, TxInv, Moved, TaskBecomes
    <2>20. MeterInv'
      <3>1. \A t \in Tx, n \in Nat : MeterNo(t, n)' => MeterNo(t, n)
        BY <2>1, <2>2, <2>4, <2>5, <2>6 DEF MeterNo, Ops, Changes
      <3>2. \A t \in Tx, n \in Nat : StopNo(t, n)' => StopNo(t, n)
        BY <2>1, <2>2, <2>4, <2>5, <2>6 DEF StopNo
      <3>3. QED
        BY <3>1, <3>2 DEF IInv, MeterInv
    <2>21. LockInv'
      BY <2>1, <2>2, <2>3 DEF IInv, LockInv, Moved, TaskBecomes
    <2>22. QED
      BY <2>7, <2>8, <2>9, <2>10, <2>11, <2>12, <2>13, <2>14, <2>15, <2>16, <2>17, <2>18, <2>19,
         <2>20, <2>21 DEF IInv
  <1>13. ASSUME NEW w \in Tasks, Acked(w) PROVE IInv'
    <2> DEFINE tx == task[w].tx
    <2> HIDE DEF tx
    <2>1. UNCHANGED <<active, sessions, plug, seq, samplers, ticks, nextTx, sent>>
      BY <1>13 DEF Acked, session
    <2>2. /\ task[w].pc = "await" /\ task[w].op \in Changes /\ task[w].tx = tx
          /\ tx \in Tx /\ seq[tx] >= 1 /\ lock[tx] = w
          /\ cstate[tx] # task[w].want /\ task[w].want \in States
      BY <1>13 DEF IInv, Acked, At, TxInv, LockInv, TaskType, TaskRec, Changes, tx
    <2>3. /\ cstate' = [cstate EXCEPT ![tx] = task[w].want]
          /\ acks' = [acks EXCEPT ![tx] = Append(acks[tx], task[w].want)]
          /\ lock' = [lock EXCEPT ![tx] = None]
      BY <1>13 DEF Acked, tx
    <2>4. Returned(w) \/ (Moved(w, "energize") /\ task[w].op = "start")
      BY <1>13, Done_Returned, Goto_Moved DEF Acked, Pcs
    <2>5. \A v \in Tasks, u \in Tx, n \in Nat :
            Carries(v, u, n)' => Carries(v, u, n) /\ task'[v].op = task[v].op
      BY <2>4 DEF Carries, TaskBecomes, Returned, Moved
    <2>6. MapTypes' /\ PlugType' /\ SeqTypes' /\ SentType'
      BY <2>1 DEF IInv, MapTypes, PlugType, SeqTypes, SentType
    <2>7. KnownInv'
      BY <2>1 DEF IInv, KnownInv
    <2>8. SeqUnique'
      BY <2>1 DEF IInv, SeqUnique
    <2>9. TaskType'
      BY <2>4 DEF TaskBecomes, Returned, Moved
    <2>10. CellTypes'
      BY <2>2, <2>3 DEF IInv, CellTypes
    <2>11. AckType'
      BY <2>2, <2>3 DEF IInv, AckType
    <2>12. StageInv'
      BY <2>4 DEF IInv, StageInv, TaskBecomes, Returned, Moved, Changes
    <2>13. TxInv'
      BY <2>1, <2>2, <2>4 DEF IInv, TxInv, TaskBecomes, Returned, Moved
    <2>14. OpenerInv'
      BY <2>4 DEF IInv, OpenerInv, TaskBecomes, Returned, Moved
    <2>15. CarryInv'
      BY <2>1, <2>5 DEF IInv, CarryInv
    <2>16. TickInv'
      BY <2>1, <2>5 DEF IInv, TickInv
    <2>17. SentInv'
      BY <2>1, <2>5 DEF IInv, SentInv, SentNo
    <2>18. StopInv'
      BY <2>1, <2>4 DEF IInv, StopInv, TaskBecomes, Returned, Moved
    <2>19. MeterInv'
      <3>1. \A u \in Tx, n \in Nat : MeterNo(u, n)' => MeterNo(u, n)
        BY <2>1, <2>5 DEF MeterNo
      <3>2. \A u \in Tx, n \in Nat : StopNo(u, n)' => StopNo(u, n)
        BY <2>1, <2>5 DEF StopNo
      <3>3. QED
        BY <3>1, <3>2 DEF IInv, MeterInv
    <2>20. LockInv'
      BY <2>2, <2>3, <2>4 DEF IInv, LockInv, CellTypes, TaskBecomes, Returned, Moved, Changes
    <2>21. AckInv'
      <3>1. /\ Len(acks'[tx]) = Len(acks[tx]) + 1
            /\ acks'[tx][Len(acks[tx]) + 1] = cstate'[tx] /\ Len(acks[tx]) \in Nat
        BY <2>2, <2>3 DEF IInv, AckType, CellTypes
      <3>2. \A t \in Tx : t # tx => acks'[t] = acks[t] /\ cstate'[t] = cstate[t]
        BY <2>2, <2>3 DEF IInv, AckType, CellTypes
      <3>3. QED
        BY <2>1, <2>2, <3>1, <3>2 DEF IInv, AckInv
    <2>22. TransitionsReal'
      <3>1. /\ Len(acks[tx]) \in Nat /\ Len(acks[tx]) >= 1
            /\ acks[tx][Len(acks[tx])] # task[w].want
        BY <2>2 DEF IInv, AckType, AckInv
      <3>2. /\ Len(acks'[tx]) = Len(acks[tx]) + 1
            /\ acks'[tx][Len(acks[tx]) + 1] = task[w].want
            /\ \A i \in 1..Len(acks[tx]) : acks'[tx][i] = acks[tx][i]
        BY <2>2, <2>3 DEF IInv, AckType
      <3>3. \A t \in Tx : t # tx => acks'[t] = acks[t]
        BY <2>2, <2>3 DEF IInv, AckType
      <3>4. ASSUME NEW i \in 1..(Len(acks'[tx]) - 1) PROVE acks'[tx][i] # acks'[tx][i + 1]
        <4>1. CASE i = Len(acks[tx])
          BY <3>1, <3>2, <4>1
        <4>2. CASE i # Len(acks[tx])
          BY <2>2, <3>1, <3>2, <4>2 DEF IInv, TransitionsReal
        <4>3. QED
          BY <4>1, <4>2
      <3>5. QED
        BY <3>3, <3>4 DEF IInv, TransitionsReal
    <2>23. QED
      BY <2>6, <2>7, <2>8, <2>9, <2>10, <2>11, <2>12, <2>13, <2>14, <2>15, <2>16, <2>17, <2>18,
         <2>19, <2>20, <2>21, <2>22 DEF IInv
  <1>14. ASSUME NEW w \in Tasks, Detach(w) PROVE IInv'
    <2>1. UNCHANGED <<active, plug, cstate, lock, seq, ticks, nextTx, sent, acks>>
      BY <1>14 DEF Detach, session
    <2>2. /\ task[w].pc = "detach" /\ task[w].op = "stop"
          /\ sessions' = sessions \ {task[w].tx} /\ samplers' = samplers \ {task[w].tx}
      BY <1>14 DEF IInv, Detach, At, StageInv
    <2>3. Moved(w, "draw") \/ Moved(w, "finish")
      BY <1>14, Goto_Moved DEF Detach, Pcs
    <2>4. \A v \in Tasks, u \in Tx, n \in Nat :
            Carries(v, u, n)' => Carries(v, u, n) /\ task'[v].op = task[v].op
      BY <2>3 DEF Carries, TaskBecomes, Returned, Moved
    <2>5. PlugType' /\ CellTypes' /\ SeqTypes' /\ SentType' /\ AckType'
      BY <2>1 DEF IInv, PlugType, CellTypes, SeqTypes, SentType, AckType
    <2>6. SeqUnique'
      BY <2>1 DEF IInv, SeqUnique
    <2>7. AckInv' /\ TransitionsReal'
      BY <2>1 DEF IInv, AckInv, TransitionsReal
    <2>8. TaskType'
      BY <2>3 DEF TaskBecomes, Returned, Moved
    <2>9. MapTypes'
      BY <2>1, <2>2 DEF IInv, MapTypes
    <2>10. StageInv'
      BY <2>2, <2>3 DEF IInv, StageInv, TaskBecomes, Returned, Moved, Changes
    <2>11. TxInv'
      BY <2>1, <2>2, <2>3 DEF IInv, TxInv, TaskBecomes, Returned, Moved
    <2>12. OpenerInv'
      BY <2>3 DEF IInv, OpenerInv, TaskBecomes, Returned, Moved
    <2>13. KnownInv'
      BY <2>1, <2>2 DEF IInv, KnownInv
    <2>14. CarryInv'
      BY <2>1, <2>4 DEF IInv, CarryInv
    <2>15. TickInv'
      BY <2>1, <2>4 DEF IInv, TickInv
    <2>16. SentInv'
      BY <2>1, <2>4 DEF IInv, SentInv, SentNo
    <2>17. StopInv'
      BY <2>1, <2>2, <2>3 DEF IInv, StopInv, TaskBecomes, Returned, Moved
    <2>18. MeterInv'
      <3>1. \A u \in Tx, n \in Nat : MeterNo(u, n)' => MeterNo(u, n)
        BY <2>1, <2>4 DEF MeterNo
      <3>2. \A u \in Tx, n \in Nat : StopNo(u, n)' => StopNo(u, n)
        BY <2>1, <2>4 DEF StopNo
      <3>3. QED
        BY <3>1, <3>2 DEF IInv, MeterInv
    <2>19. LockInv'
      BY <2>1, <2>2, <2>3 DEF IInv, LockInv, TaskBecomes, Returned, Moved, Changes
    <2>20. QED
      BY <2>5, <2>6, <2>7, <2>8, <2>9, <2>10, <2>11, <2>12, <2>13, <2>14, <2>15, <2>16, <2>17,
         <2>18, <2>19 DEF IInv
  <1>15. ASSUME NEW w \in Tasks, EndedAcked(w) PROVE IInv'
    <2>1. UNCHANGED <<active, sessions, plug, cstate, lock, seq, samplers, ticks, nextTx,
                      sent, acks>>
      BY <1>15 DEF EndedAcked, session
    <2>2. Moved(w, "finish") /\ task[w].op = "stop" /\ task[w].pc = "await"
      BY <1>15, Goto_Moved DEF EndedAcked, At, Pcs
    <2>3. \A v \in Tasks, u \in Tx, n \in Nat :
            Carries(v, u, n)' => Carries(v, u, n) /\ task'[v].op = task[v].op
      BY <2>2 DEF Carries, TaskBecomes, Returned, Moved
    <2>4. MapTypes' /\ PlugType' /\ CellTypes' /\ SeqTypes' /\ SentType' /\ AckType'
      BY <2>1 DEF IInv, MapTypes, PlugType, CellTypes, SeqTypes, SentType, AckType
    <2>5. KnownInv'
      BY <2>1 DEF IInv, KnownInv
    <2>6. SeqUnique'
      BY <2>1 DEF IInv, SeqUnique
    <2>7. AckInv' /\ TransitionsReal'
      BY <2>1 DEF IInv, AckInv, TransitionsReal
    <2>8. TaskType'
      BY <2>2 DEF TaskBecomes, Returned, Moved
    <2>9. StageInv'
      BY <2>2 DEF IInv, StageInv, TaskBecomes, Returned, Moved, Changes
    <2>10. TxInv'
      BY <2>1, <2>2 DEF IInv, TxInv, TaskBecomes, Returned, Moved
    <2>11. OpenerInv'
      BY <2>2 DEF IInv, OpenerInv, TaskBecomes, Returned, Moved
    <2>12. CarryInv'
      BY <2>1, <2>3 DEF IInv, CarryInv
    <2>13. TickInv'
      BY <2>1, <2>3 DEF IInv, TickInv
    <2>14. SentInv'
      BY <2>1, <2>3 DEF IInv, SentInv, SentNo
    <2>15. StopInv'
      BY <2>1, <2>2 DEF IInv, StopInv, TaskBecomes, Returned, Moved
    <2>16. MeterInv'
      <3>1. \A u \in Tx, n \in Nat : MeterNo(u, n)' => MeterNo(u, n)
        BY <2>1, <2>3 DEF MeterNo
      <3>2. \A u \in Tx, n \in Nat : StopNo(u, n)' => StopNo(u, n)
        BY <2>1, <2>3 DEF StopNo
      <3>3. QED
        BY <3>1, <3>2 DEF IInv, MeterInv
    <2>17. LockInv'
      BY <2>1, <2>2 DEF IInv, LockInv, TaskBecomes, Returned, Moved, Changes
    <2>18. QED
      BY <2>4, <2>5, <2>6, <2>7, <2>8, <2>9, <2>10, <2>11, <2>12, <2>13, <2>14, <2>15, <2>16,
         <2>17 DEF IInv
  <1>16. ASSUME NEW w \in Tasks, Finish(w) PROVE IInv'
    <2>1. UNCHANGED <<sessions, plug, cstate, lock, seq, ticks, nextTx, sent, acks>>
      BY <1>16 DEF Finish, session
    <2>2. active' = active \ {task[w].tx} /\ samplers' = samplers \ {task[w].tx}
      BY <1>16 DEF Finish
    <2>3. Returned(w)
      BY <1>16, Done_Returned DEF Finish
    <2>4. \A v \in Tasks, u \in Tx, n \in Nat :
            Carries(v, u, n)' => Carries(v, u, n) /\ task'[v].op = task[v].op
      BY <2>3 DEF Carries, TaskBecomes, Returned, Moved
    <2>5. PlugType' /\ CellTypes' /\ SeqTypes' /\ SentType' /\ AckType'
      BY <2>1 DEF IInv, PlugType, CellTypes, SeqTypes, SentType, AckType
    <2>6. SeqUnique'
      BY <2>1 DEF IInv, SeqUnique
    <2>7. AckInv' /\ TransitionsReal'
      BY <2>1 DEF IInv, AckInv, TransitionsReal
    <2>8. TaskType'
      BY <2>3 DEF TaskBecomes, Returned, Moved
    <2>9. MapTypes'
      BY <2>1, <2>2 DEF IInv, MapTypes
    <2>10. StageInv'
      BY <2>3 DEF IInv, StageInv, TaskBecomes, Returned, Moved, Changes
    <2>11. TxInv'
      BY <2>1, <2>2, <2>3 DEF IInv, TxInv, TaskBecomes, Returned, Moved
    <2>12. OpenerInv'
      BY <2>3 DEF IInv, OpenerInv, TaskBecomes, Returned, Moved
    <2>13. KnownInv'
      BY <2>1, <2>2 DEF IInv, KnownInv
    <2>14. CarryInv'
      BY <2>1, <2>4 DEF IInv, CarryInv
    <2>15. TickInv'
      BY <2>1, <2>4 DEF IInv, TickInv
    <2>16. SentInv'
      BY <2>1, <2>4 DEF IInv, SentInv, SentNo
    <2>17. StopInv'
      BY <2>1, <2>3 DEF IInv, StopInv, TaskBecomes, Returned, Moved
    <2>18. MeterInv'
      <3>1. \A u \in Tx, n \in Nat : MeterNo(u, n)' => MeterNo(u, n)
        BY <2>1, <2>4 DEF MeterNo
      <3>2. \A u \in Tx, n \in Nat : StopNo(u, n)' => StopNo(u, n)
        BY <2>1, <2>4 DEF StopNo
      <3>3. QED
        BY <3>1, <3>2 DEF IInv, MeterInv
    <2>19. LockInv'
      BY <2>1, <2>3 DEF IInv, LockInv, TaskBecomes, Returned, Moved, Changes
    <2>20. QED
      BY <2>5, <2>6, <2>7, <2>8, <2>9, <2>10, <2>11, <2>12, <2>13, <2>14, <2>15, <2>16, <2>17,
         <2>18, <2>19 DEF IInv
  <1>17. ASSUME NEW w \in Tasks, NEW t \in Tx, TriggerNext(w, t), t \notin sessions PROVE IInv'
    <2>1. UNCHANGED <<active, sessions, plug, cstate, lock, seq, samplers, ticks, nextTx,
                      sent, acks>>
      BY <1>17 DEF TriggerNext, session
    <2>2. task[w].pc = "trigger"
      BY <1>17 DEF TriggerNext, At
    <2>3. /\ TaskBecomes(w, "trigger", task[w].op, t, task[w].want, task[w].todo \ {t})
          /\ task[w].pc = "trigger"
      <3>1. t \in Nat /\ seq[t] \in Nat
        BY DEF IInv, SeqTypes, Tx
      <3>2. task' = [task EXCEPT ![w].todo = @ \ {t}, ![w].tx = t, ![w].no = seq[t],
                                 ![w].pc = "trigger"]
        BY <1>17 DEF TriggerNext
      <3>3. PICK r \in TaskRec : r = [task[w] EXCEPT !.todo = @ \ {t}, !.tx = t, !.no = seq[t],
                                                     !.pc = "trigger"]
        BY <3>1 DEF IInv, TaskType, TaskRec, Pcs
      <3>4. task' = [task EXCEPT ![w] = r]
        BY <3>2, <3>3
      <3>5. r.pc = "trigger" /\ r.tx = t /\ r.op = task[w].op /\ r.want = task[w].want
            /\ r.todo = task[w].todo \ {t}
        BY <3>3 DEF IInv, TaskType, TaskRec
      <3>6. TaskType'
        BY <3>4 DEF IInv, TaskType
      <3>7. QED
        BY <2>2, <3>4, <3>5, <3>6 DEF IInv, TaskType, TaskBecomes
    <2>4. \A v \in Tasks, u \in Tx, n \in Nat :
            Carries(v, u, n)' => Carries(v, u, n) /\ task'[v].op = task[v].op
      BY <2>3 DEF Carries, TaskBecomes, Returned, Moved
    <2>5. MapTypes' /\ PlugType' /\ CellTypes' /\ SeqTypes' /\ SentType' /\ AckType'
      BY <2>1 DEF IInv, MapTypes, PlugType, CellTypes, SeqTypes, SentType, AckType
    <2>6. KnownInv'
      BY <2>1 DEF IInv, KnownInv
    <2>7. SeqUnique'
      BY <2>1 DEF IInv, SeqUnique
    <2>8. AckInv' /\ TransitionsReal'
      BY <2>1 DEF IInv, AckInv, TransitionsReal
    <2>9. TaskType'
      BY <2>3 DEF TaskBecomes, Returned, Moved
    <2>10. StageInv'
      BY <2>3 DEF IInv, StageInv, TaskBecomes, Returned, Moved, Changes
    <2>11. TxInv'
      BY <2>1, <2>2, <2>3 DEF IInv, TxInv, TaskBecomes, Returned, Moved
    <2>12. OpenerInv'
      BY <2>3 DEF IInv, OpenerInv, TaskBecomes, Returned, Moved
    <2>13. CarryInv'
      BY <2>1, <2>4 DEF IInv, CarryInv
    <2>14. TickInv'
      BY <2>1, <2>4 DEF IInv, TickInv
    <2>15. SentInv'
      BY <2>1, <2>4 DEF IInv, SentInv, SentNo
    <2>16. StopInv'
      BY <2>1, <2>3 DEF IInv, StopInv, TaskBecomes, Returned, Moved
    <2>17. MeterInv'
      <3>1. \A u \in Tx, n \in Nat : MeterNo(u, n)' => MeterNo(u, n)
        BY <2>1, <2>4 DEF MeterNo
      <3>2. \A u \in Tx, n \in Nat : StopNo(u, n)' => StopNo(u, n)
        BY <2>1, <2>4 DEF StopNo
      <3>3. QED
        BY <3>1, <3>2 DEF IInv, MeterInv
    <2>18. LockInv'
      BY <2>1, <2>3 DEF IInv, LockInv, TaskBecomes, Returned, Moved, Changes
    <2>19. QED
      BY <2>5, <2>6, <2>7, <2>8, <2>9, <2>10, <2>11, <2>12, <2>13, <2>14, <2>15, <2>16, <2>17,
         <2>18 DEF IInv
  <1>18. ASSUME NEW w \in Tasks, NEW t \in Tx, TriggerNext(w, t), t \in sessions PROVE IInv'
    <2>1. UNCHANGED <<active, sessions, plug, cstate, lock, samplers, ticks, nextTx, sent, acks>>
      BY <1>18 DEF TriggerNext, session
    <2>2. /\ task[w].pc = "trigger" /\ task[w].op = "trigger" /\ t \in Nat /\ seq[t] \in Nat
          /\ seq[t] >= 1
      BY <1>18 DEF IInv, TriggerNext, At, StageInv, KnownInv, SeqTypes, Tx
    <2>3. /\ TaskBecomes(w, "send", task[w].op, t, task[w].want, task[w].todo \ {t})
          /\ task'[w].no = seq[t]
      <3>1. task' = [task EXCEPT ![w].todo = @ \ {t}, ![w].tx = t, ![w].no = seq[t],
                                 ![w].pc = "send"]
        BY <1>18 DEF TriggerNext
      <3>2. QED
        BY <2>2, <3>1 DEF IInv, TaskType, TaskRec, TaskBecomes, Pcs
    <2>4. /\ seq' = [seq EXCEPT ![t] = @ + 1]
          /\ seq'[t] = seq[t] + 1
          /\ \A u \in Tx : u # t => seq'[u] = seq[u]
      BY <1>18 DEF IInv, TriggerNext, SeqTypes
    <2>5. \A v \in Tasks, u \in Tx, n \in Nat : Carries(v, u, n)' =>
             \/ Carries(v, u, n) /\ v # w /\ task'[v].op = task[v].op
             \/ v = w /\ u = t /\ n = seq[t]
      BY <2>3 DEF Carries, TaskBecomes
    <2>6. \A v \in Tasks, n \in Nat : Carries(v, t, n) => n < seq[t]
      BY DEF IInv, CarryInv
    <2>7. MapTypes' /\ PlugType' /\ CellTypes' /\ SentType' /\ AckType'
      BY <2>1 DEF IInv, MapTypes, PlugType, CellTypes, SentType, AckType
    <2>8. SeqUnique'
      BY <2>1 DEF IInv, SeqUnique
    <2>9. TransitionsReal'
      BY <2>1 DEF IInv, TransitionsReal
    <2>10. TaskType'
      BY <2>3 DEF TaskBecomes
    <2>11. SeqTypes'
      BY <2>1, <2>2, <2>4 DEF IInv, SeqTypes
    <2>12. StageInv'
      BY <2>2, <2>3 DEF IInv, StageInv, TaskBecomes, Changes
    <2>13. TxInv'
      <3>1. ASSUME NEW u \in Tx
            PROVE  /\ seq[u] \in Nat /\ seq'[u] \in Nat /\ seq'[u] >= seq[u]
                   /\ seq[u] = 0 => seq'[u] = 0
        <4>1. seq[u] \in Nat
          BY DEF IInv, SeqTypes
        <4>2. CASE u = t
          BY <2>2, <2>4, <4>1, <4>2
        <4>3. CASE u # t
          BY <2>4, <4>1, <4>3
        <4>4. QED
          BY <4>2, <4>3
      <3>2. \A v \in Tasks : \A u \in task[v].todo : u \in Tx /\ seq'[u] >= 1
        BY <3>1 DEF IInv, TaskType, TaskRec, TxInv
      <3>3. ASSUME NEW v \in Tasks, v # w
            PROVE  /\ task[v].pc \in {"register", "energize", "lock", "draw", "send", "await",
                           "detach", "finish"} => task[v].tx \in Tx /\ seq'[task[v].tx] >= 1
                   /\ task[v].pc = "opening" => /\ task[v].tx \in Tx /\ seq'[task[v].tx] = 0
                                                /\ task[v].tx < nextTx'
        BY <2>1, <3>1 DEF IInv, TxInv
      <3>4. QED
        BY <2>2, <2>3, <2>4, <3>2, <3>3 DEF TxInv, TaskBecomes
    <2>14. OpenerInv'
      BY <2>3 DEF IInv, OpenerInv, TaskBecomes
    <2>15. KnownInv'
      BY <2>1, <2>2, <2>4 DEF IInv, KnownInv, SeqTypes, MapTypes
    <2>16. CarryInv'
      BY <2>2, <2>4, <2>5, <2>6 DEF IInv, CarryInv, SeqTypes
    <2>17. TickInv'
      BY <2>1, <2>2, <2>4, <2>5 DEF IInv, TickInv, SeqTypes
    <2>18. SentInv'
      <3>1. \A u \in Tx, n \in Nat : SentNo(u, n)' => SentNo(u, n)
        BY <2>1 DEF SentNo
      <3>2. \A u \in Tx : seq[u] \in Nat /\ seq'[u] \in Nat /\ seq'[u] >= seq[u]
        BY <2>2, <2>4 DEF IInv, SeqTypes
      <3>3. QED
        BY <2>1, <2>2, <2>5, <3>1, <3>2 DEF IInv, SentInv
    <2>19. StopInv'
      BY <2>1, <2>2, <2>3, <2>4 DEF IInv, StopInv, SeqTypes, TaskBecomes
    <2>20. MeterInv'
      <3>1. \A u \in Tx, n \in Nat : MeterNo(u, n)' => MeterNo(u, n) \/ u = t
        BY <2>1, <2>5 DEF MeterNo
      <3>2. \A u \in Tx, n \in Nat : StopNo(u, n)' => StopNo(u, n) /\ u # t
        <4>1. \A u \in Tx, n \in Nat : StopNo(u, n)' => StopNo(u, n)
          BY <2>1, <2>2, <2>3, <2>5 DEF StopNo, TaskBecomes
        <4>2. \A n \in Nat : ~StopNo(t, n)
          BY <1>18 DEF IInv, StopNo, StopInv, Carries
        <4>3. QED
          BY <4>1, <4>2
      <3>3. QED
        BY <3>1, <3>2 DEF IInv, MeterInv
    <2>21. LockInv'
      BY <2>1, <2>2, <2>3 DEF IInv, LockInv, TaskBecomes, Changes
    <2>22. AckInv'
      BY <2>1, <2>2, <2>4 DEF IInv, AckInv
    <2>23. QED
      BY <2>7, <2>8, <2>9, <2>10, <2>11, <2>12, <2>13, <2>14, <2>15, <2>16, <2>17, <2>18, <2>19,
         <2>20, <2>21, <2>22 DEF IInv
  <1>19. ASSUME NEW w \in Tasks, TriggerAcked(w) PROVE IInv'
    <2>1. UNCHANGED <<active, sessions, plug, cstate, lock, seq, samplers, ticks, nextTx,
                      sent, acks>>
      BY <1>19 DEF TriggerAcked, session
    <2>2. Moved(w, "trigger") /\ task[w].op = "trigger"
      BY <1>19, Goto_Moved DEF TriggerAcked, Pcs
    <2>3. \A v \in Tasks, u \in Tx, n \in Nat :
            Carries(v, u, n)' => Carries(v, u, n) /\ task'[v].op = task[v].op
      BY <2>2 DEF Carries, TaskBecomes, Returned, Moved
    <2>4. MapTypes' /\ PlugType' /\ CellTypes' /\ SeqTypes' /\ SentType' /\ AckType'
      BY <2>1 DEF IInv, MapTypes, PlugType, CellTypes, SeqTypes, SentType, AckType
    <2>5. KnownInv'
      BY <2>1 DEF IInv, KnownInv
    <2>6. SeqUnique'
      BY <2>1 DEF IInv, SeqUnique
    <2>7. AckInv' /\ TransitionsReal'
      BY <2>1 DEF IInv, AckInv, TransitionsReal
    <2>8. TaskType'
      BY <2>2 DEF TaskBecomes, Returned, Moved
    <2>9. StageInv'
      BY <2>2 DEF IInv, StageInv, TaskBecomes, Returned, Moved, Changes
    <2>10. TxInv'
      BY <2>1, <2>2 DEF IInv, TxInv, TaskBecomes, Returned, Moved
    <2>11. OpenerInv'
      BY <2>2 DEF IInv, OpenerInv, TaskBecomes, Returned, Moved
    <2>12. CarryInv'
      BY <2>1, <2>3 DEF IInv, CarryInv
    <2>13. TickInv'
      BY <2>1, <2>3 DEF IInv, TickInv
    <2>14. SentInv'
      BY <2>1, <2>3 DEF IInv, SentInv, SentNo
    <2>15. StopInv'
      BY <2>1, <2>2 DEF IInv, StopInv, TaskBecomes, Returned, Moved
    <2>16. MeterInv'
      <3>1. \A u \in Tx, n \in Nat : MeterNo(u, n)' => MeterNo(u, n)
        BY <2>1, <2>3 DEF MeterNo
      <3>2. \A u \in Tx, n \in Nat : StopNo(u, n)' => StopNo(u, n)
        BY <2>1, <2>3 DEF StopNo
      <3>3. QED
        BY <3>1, <3>2 DEF IInv, MeterInv
    <2>17. LockInv'
      BY <2>1, <2>2 DEF IInv, LockInv, TaskBecomes, Returned, Moved, Changes
    <2>18. QED
      BY <2>4, <2>5, <2>6, <2>7, <2>8, <2>9, <2>10, <2>11, <2>12, <2>13, <2>14, <2>15, <2>16,
         <2>17 DEF IInv
  <1>20. ASSUME NEW w \in Tasks, TriggerDone(w) PROVE IInv'
    <2>1. UNCHANGED <<active, sessions, plug, cstate, lock, seq, samplers, ticks, nextTx,
                      sent, acks>>
      BY <1>20 DEF TriggerDone, session
    <2>2. Returned(w)
      BY <1>20, Done_Returned DEF TriggerDone
    <2>3. \A v \in Tasks, u \in Tx, n \in Nat :
            Carries(v, u, n)' => Carries(v, u, n) /\ task'[v].op = task[v].op
      BY <2>2 DEF Carries, TaskBecomes, Returned, Moved
    <2>4. MapTypes' /\ PlugType' /\ CellTypes' /\ SeqTypes' /\ SentType' /\ AckType'
      BY <2>1 DEF IInv, MapTypes, PlugType, CellTypes, SeqTypes, SentType, AckType
    <2>5. KnownInv'
      BY <2>1 DEF IInv, KnownInv
    <2>6. SeqUnique'
      BY <2>1 DEF IInv, SeqUnique
    <2>7. AckInv' /\ TransitionsReal'
      BY <2>1 DEF IInv, AckInv, TransitionsReal
    <2>8. TaskType'
      BY <2>2 DEF TaskBecomes, Returned, Moved
    <2>9. StageInv'
      BY <2>2 DEF IInv, StageInv, TaskBecomes, Returned, Moved, Changes
    <2>10. TxInv'
      BY <2>1, <2>2 DEF IInv, TxInv, TaskBecomes, Returned, Moved
    <2>11. OpenerInv'
      BY <2>2 DEF IInv, OpenerInv, TaskBecomes, Returned, Moved
    <2>12. CarryInv'
      BY <2>1, <2>3 DEF IInv, CarryInv
    <2>13. TickInv'
      BY <2>1, <2>3 DEF IInv, TickInv
    <2>14. SentInv'
      BY <2>1, <2>3 DEF IInv, SentInv, SentNo
    <2>15. StopInv'
      BY <2>1, <2>2 DEF IInv, StopInv, TaskBecomes, Returned, Moved
    <2>16. MeterInv'
      <3>1. \A u \in Tx, n \in Nat : MeterNo(u, n)' => MeterNo(u, n)
        BY <2>1, <2>3 DEF MeterNo
      <3>2. \A u \in Tx, n \in Nat : StopNo(u, n)' => StopNo(u, n)
        BY <2>1, <2>3 DEF StopNo
      <3>3. QED
        BY <3>1, <3>2 DEF IInv, MeterInv
    <2>17. LockInv'
      BY <2>1, <2>2 DEF IInv, LockInv, TaskBecomes, Returned, Moved, Changes
    <2>18. QED
      BY <2>4, <2>5, <2>6, <2>7, <2>8, <2>9, <2>10, <2>11, <2>12, <2>13, <2>14, <2>15, <2>16,
         <2>17 DEF IInv
  <1>21. ASSUME NEW w \in Tasks, CallFails(w) PROVE IInv'
    <2>1. UNCHANGED <<active, sessions, plug, cstate, seq, samplers, ticks, nextTx, sent, acks>>
      BY <1>21 DEF CallFails, session
    <2>2. lock' = [t \in Tx |-> IF lock[t] = w THEN None ELSE lock[t]]
      BY <1>21 DEF CallFails
    <2>3. \/ Returned(w)
          \/ Moved(w, "trigger") /\ task[w].op = "trigger"
      BY <1>21, Goto_Moved, Done_Returned DEF CallFails, Pcs
    <2>4. \A v \in Tasks, u \in Tx, n \in Nat :
            Carries(v, u, n)' => Carries(v, u, n) /\ task'[v].op = task[v].op
      BY <2>3 DEF Carries, TaskBecomes, Returned, Moved
    <2>5. MapTypes' /\ PlugType' /\ SeqTypes' /\ SentType' /\ AckType'
      BY <2>1 DEF IInv, MapTypes, PlugType, SeqTypes, SentType, AckType
    <2>6. KnownInv'
      BY <2>1 DEF IInv, KnownInv
    <2>7. SeqUnique'
      BY <2>1 DEF IInv, SeqUnique
    <2>8. AckInv' /\ TransitionsReal'
      BY <2>1 DEF IInv, AckInv, TransitionsReal
    <2>9. TaskType'
      BY <2>3 DEF TaskBecomes, Returned, Moved
    <2>10. CellTypes'
      BY <2>1, <2>2 DEF IInv, CellTypes
    <2>11. StageInv'
      BY <2>3 DEF IInv, StageInv, TaskBecomes, Returned, Moved, Changes
    <2>12. TxInv'
      BY <2>1, <2>2, <2>3 DEF IInv, TxInv, TaskBecomes, Returned, Moved
    <2>13. OpenerInv'
      BY <2>3 DEF IInv, OpenerInv, TaskBecomes, Returned, Moved
    <2>14. CarryInv'
      BY <2>1, <2>4 DEF IInv, CarryInv
    <2>15. TickInv'
      BY <2>1, <2>4 DEF IInv, TickInv
    <2>16. SentInv'
      BY <2>1, <2>4 DEF IInv, SentInv, SentNo
    <2>17. StopInv'
      BY <2>1, <2>3 DEF IInv, StopInv, TaskBecomes, Returned, Moved
    <2>18. MeterInv'
      <3>1. \A u \in Tx, n \in Nat : MeterNo(u, n)' => MeterNo(u, n)
        BY <2>1, <2>4 DEF MeterNo
      <3>2. \A u \in Tx, n \in Nat : StopNo(u, n)' => StopNo(u, n)
        BY <2>1, <2>4 DEF StopNo
      <3>3. QED
        BY <3>1, <3>2 DEF IInv, MeterInv
    <2>19. LockInv'
      BY <2>1, <2>2, <2>3 DEF IInv, LockInv, TxInv, CellTypes, TaskBecomes, Returned, Moved, Changes
    <2>20. QED
      BY <2>5, <2>6, <2>7, <2>8, <2>9, <2>10, <2>11, <2>12, <2>13, <2>14, <2>15, <2>16, <2>17,
         <2>18, <2>19 DEF IInv
  <1>22. ASSUME NEW t \in Tx, SamplerDraw(t) PROVE IInv'
    <2>1. UNCHANGED <<active, sessions, plug, cstate, lock, samplers, nextTx, sent, acks, task>>
      BY <1>22 DEF SamplerDraw, session
    <2>2. /\ t \in sessions /\ seq[t] \in Nat /\ seq[t] >= 1
          /\ ticks' = ticks \cup {<<t, seq[t]>>}
      BY <1>22 DEF IInv, SamplerDraw, KnownInv, SeqTypes
    <2>3. /\ seq' = [seq EXCEPT ![t] = @ + 1]
          /\ seq'[t] = seq[t] + 1
          /\ \A u \in Tx : u # t => seq'[u] = seq[u]
      BY <1>22 DEF IInv, SamplerDraw, SeqTypes
    <2>4. \A v \in Tasks, u \in Tx, n \in Nat : Carries(v, u, n)' <=> Carries(v, u, n)
      BY <2>1 DEF Carries
    <2>5. \A u \in Tx, n \in Nat : <<u, n>> \in ticks' => <<u, n>> \in ticks \/ (u = t /\ n = seq[t])
      BY <2>2
    <2>6. TaskType' /\ MapTypes' /\ PlugType' /\ CellTypes' /\ SentType' /\ AckType'
      BY <2>1 DEF IInv, TaskType, MapTypes, PlugType, CellTypes, SentType, AckType
    <2>7. StageInv' /\ OpenerInv' /\ LockInv'
      BY <2>1 DEF IInv, StageInv, OpenerInv, LockInv
    <2>8. SeqUnique'
      BY <2>1 DEF IInv, SeqUnique
    <2>9. TransitionsReal'
      BY <2>1 DEF IInv, TransitionsReal
    <2>10. SeqTypes'
      BY <2>2, <2>3 DEF IInv, SeqTypes
    <2>11. TxInv'
      <3>1. \A u \in Tx : /\ seq[u] \in Nat /\ seq'[u] \in Nat /\ seq'[u] >= seq[u]
                          /\ seq[u] = 0 => seq'[u] = 0
        BY <2>2, <2>3 DEF IInv, SeqTypes
      <3>2. \A v \in Tasks : \A u \in task[v].todo : u \in Tx /\ seq'[u] >= 1
        BY <3>1 DEF IInv, TaskType, TaskRec, TxInv
      <3>3. ASSUME NEW v \in Tasks
            PROVE  /\ task[v].pc \in {"register", "energize", "lock", "draw", "send", "await",
                           "detach", "finish"} => task[v].tx \in Tx /\ seq'[task[v].tx] >= 1
                   /\ task[v].pc = "opening" => /\ task[v].tx \in Tx /\ seq'[task[v].tx] = 0
                                                /\ task[v].tx < nextTx'
        BY <2>1, <3>1 DEF IInv, TxInv
      <3>4. QED
        BY <2>1, <3>2, <3>3 DEF TxInv
    <2>12. KnownInv'
      BY <2>1, <2>2, <2>3 DEF IInv, KnownInv, SeqTypes, MapTypes
    <2>13. CarryInv'
      BY <2>2, <2>3, <2>4 DEF IInv, CarryInv, SeqTypes
    <2>14. TickInv'
      BY <2>2, <2>3, <2>4, <2>5 DEF IInv, TickInv, CarryInv, SeqTypes
    <2>15. SentInv'
      BY <2>1, <2>2, <2>3, <2>4, <2>5 DEF IInv, SentInv, SentNo, SeqTypes
    <2>16. StopInv'
      BY <2>1, <2>2, <2>3 DEF IInv, StopInv, SeqTypes
    <2>17. MeterInv'
      <3>1. \A u \in Tx, n \in Nat : MeterNo(u, n)' => MeterNo(u, n) \/ u = t
        BY <2>1, <2>4, <2>5 DEF MeterNo
      <3>2. \A u \in Tx, n \in Nat : StopNo(u, n)' => StopNo(u, n) /\ u # t
        <4>1. \A u \in Tx, n \in Nat : StopNo(u, n)' => StopNo(u, n)
          BY <2>1, <2>4 DEF StopNo
        <4>2. \A n \in Nat : ~StopNo(t, n)
          BY <2>2 DEF IInv, StopNo, StopInv, Carries
        <4>3. QED
          BY <4>1, <4>2
      <3>3. QED
        BY <3>1, <3>2 DEF IInv, MeterInv
    <2>18. AckInv'
      BY <2>1, <2>2, <2>3 DEF IInv, AckInv
    <2>19. QED
      BY <2>6, <2>7, <2>8, <2>9, <2>10, <2>11, <2>12, <2>13, <2>14, <2>15, <2>16, <2>17,
         <2>18 DEF IInv
  <1>23. ASSUME NEW t \in Tx, NEW k \in Nat, SamplerSend(<<t, k>>) PROVE IInv'
    <2>1. UNCHANGED <<active, sessions, plug, cstate, lock, seq, samplers, nextTx, acks, task>>
      BY <1>23 DEF SamplerSend, session
    <2>2. <<t, k>> \in ticks /\ ticks' = ticks \ {<<t, k>>}
      BY <1>23 DEF SamplerSend
    <2>3. PICK f \in EventRec : f.no = k /\ f.kind = "meter" /\ sent' = [sent EXCEPT ![t] = @ \cup {f}]
      <3>1. [no |-> k, kind |-> "meter"] \in EventRec
        BY DEF EventRec, Kinds
      <3>2. QED
        BY <1>23, <3>1 DEF SamplerSend
    <2>4. /\ sent'[t] = sent[t] \cup {f}
          /\ \A u \in Tx : u # t => sent'[u] = sent[u]
      BY <2>3 DEF IInv, SentType
    <2>5. \A v \in Tasks, u \in Tx, n \in Nat : Carries(v, u, n)' <=> Carries(v, u, n)
      BY <2>1 DEF Carries
    <2>6. \A u \in Tx, n \in Nat : <<u, n>> \in ticks' => <<u, n>> \in ticks /\ (u = t => n # k)
      BY <2>2
    <2>7. TaskType' /\ MapTypes' /\ PlugType' /\ CellTypes' /\ AckType'
      BY <2>1 DEF IInv, TaskType, MapTypes, PlugType, CellTypes, AckType
    <2>8. StageInv' /\ TxInv' /\ OpenerInv' /\ KnownInv' /\ LockInv'
      BY <2>1 DEF IInv, StageInv, TxInv, OpenerInv, KnownInv, LockInv
    <2>9. CarryInv'
      BY <2>1 DEF IInv, CarryInv, Carries
    <2>10. AckInv' /\ TransitionsReal'
      BY <2>1 DEF IInv, AckInv, TransitionsReal
    <2>11. SeqTypes'
      BY <2>1, <2>2 DEF IInv, SeqTypes
    <2>12. SentType'
      BY <2>3 DEF IInv, SentType
    <2>13. TickInv'
      BY <2>1, <2>5, <2>6 DEF IInv, TickInv
    <2>14. SentInv'
      <3>1. k < seq[t] /\ \A v \in Tasks : ~Carries(v, t, k)
        BY <2>2 DEF IInv, TickInv
      <3>2. \A u \in Tx, n \in Nat : SentNo(u, n)' => SentNo(u, n) \/ (u = t /\ n = k)
        BY <2>3, <2>4 DEF SentNo
      <3>3. QED
        BY <2>1, <2>5, <2>6, <3>1, <3>2 DEF IInv, SentInv
    <2>15. SeqUnique'
      <3>1. \A e \in sent[t] : e.no # f.no
        BY <2>2, <2>3 DEF IInv, SentInv, SentNo
      <3>2. QED
        BY <2>4, <3>1 DEF IInv, SeqUnique
    <2>16. StopInv'
      <3>1. seq[t] >= 1
        BY <2>2 DEF IInv, TickInv, SeqTypes
      <3>2. QED
        BY <2>1, <2>3, <2>4, <3>1 DEF IInv, StopInv
    <2>17. MeterInv'
      <3>1. \A u \in Tx, n \in Nat : MeterNo(u, n)' => MeterNo(u, n)
        BY <2>1, <2>2, <2>3, <2>4, <2>5, <2>6 DEF MeterNo
      <3>2. \A u \in Tx, n \in Nat : StopNo(u, n)' => StopNo(u, n)
        BY <2>1, <2>3, <2>4, <2>5 DEF StopNo
      <3>3. QED
        BY <3>1, <3>2 DEF IInv, MeterInv
    <2>18. QED
      BY <2>7, <2>8, <2>9, <2>10, <2>11, <2>12, <2>13, <2>14, <2>15, <2>16, <2>17 DEF IInv
  <1>24. ASSUME NEW e \in ticks, SamplerDies(e) PROVE IInv'
    <2>1. UNCHANGED <<active, sessions, plug, cstate, lock, seq, samplers, nextTx, sent, acks,
                      task>>
      BY <1>24 DEF SamplerDies, session
    <2>2. \A u \in Tx, n \in Nat : <<u, n>> \in ticks' => <<u, n>> \in ticks
      BY <1>24 DEF SamplerDies
    <2>3. \A v \in Tasks, u \in Tx, n \in Nat : Carries(v, u, n)' <=> Carries(v, u, n)
      BY <2>1 DEF Carries
    <2>4. TaskType' /\ MapTypes' /\ PlugType' /\ CellTypes' /\ SentType' /\ AckType'
      BY <2>1 DEF IInv, TaskType, MapTypes, PlugType, CellTypes, SentType, AckType
    <2>5. StageInv' /\ TxInv' /\ OpenerInv' /\ KnownInv' /\ LockInv'
      BY <2>1 DEF IInv, StageInv, TxInv, OpenerInv, KnownInv, LockInv
    <2>6. CarryInv' /\ SeqUnique' /\ StopInv'
      BY <2>1 DEF IInv, CarryInv, Carries, SeqUnique, StopInv
    <2>7. AckInv' /\ TransitionsReal'
      BY <2>1 DEF IInv, AckInv, TransitionsReal
    <2>8. SeqTypes'
      BY <1>24, <2>1 DEF IInv, SeqTypes, SamplerDies
    <2>9. TickInv'
      BY <2>1, <2>2, <2>3 DEF IInv, TickInv
    <2>10. SentInv'
      BY <2>1, <2>2, <2>3 DEF IInv, SentInv, SentNo
    <2>11. MeterInv'
      <3>1. \A u \in Tx, n \in Nat : MeterNo(u, n)' => MeterNo(u, n)
        BY <2>1, <2>2, <2>3 DEF MeterNo
      <3>2. \A u \in Tx, n \in Nat : StopNo(u, n)' => StopNo(u, n)
        BY <2>1, <2>3 DEF StopNo
      <3>3. QED
        BY <3>1, <3>2 DEF IInv, MeterInv
    <2>12. QED
      BY <2>4, <2>5, <2>6, <2>7, <2>8, <2>9, <2>10, <2>11 DEF IInv
  <1>25. ASSUME NEW w \in Tasks, Step(w) PROVE IInv'
    BY <1>3, <1>4, <1>5, <1>6, <1>7, <1>8, <1>9, <1>10, <1>11, <1>12, <1>13, <1>14, <1>15, <1>16,
       <1>17, <1>18, <1>19, <1>20, <1>21, <1>25 DEF Step
  <1>26. ASSUME NEW w \in Tasks, NEW s \in States, Transition(w, s) PROVE IInv'
    BY <1>2, <1>26 DEF Transition, Changes
  <1>27. ASSUME NEW w \in Tasks, PlugInCable(w) \/ StartTransaction(w) \/ Trigger(w) PROVE IInv'
    BY <1>2, <1>27 DEF PlugInCable, StartTransaction, Trigger, Changes, States
  <1>28. ASSUME NEW w \in Tasks, NEW t \in Tx, StopTransaction(w, t) PROVE IInv'
    BY <1>2, <1>28 DEF StopTransaction, States
  <1>29. ASSUME NEW e \in ticks, SamplerSend(e) PROVE IInv'
    <2>1. PICK t \in Tx, k \in Nat : e = <<t, k>>
      BY DEF IInv, SeqTypes
    <2>2. QED
      BY <1>23, <1>29, <2>1
  <1>30. QED
    BY <1>1, <1>22, <1>24, <1>25, <1>26, <1>27, <1>28, <1>29 DEF Next

\* The invariant holds in every state of every behaviour.
LEMMA Invariance == Spec => []IInv
  BY InitInv, StepInv, PTL DEF Spec

-----------------------------------------------------------------------------
(* Theorems *)

\* The session records, the counters and the running operations have their types.
THEOREM TypeCorrect == Spec => []TypeOK
  <1>1. IInv => TypeOK
    <2> SUFFICES ASSUME IInv PROVE TypeOK
      OBVIOUS
    <2>1. \A w \in Tasks : task[w].want \in States
      BY DEF IInv, TaskType, TaskRec
    <2>2. \A w \in Tasks : task[w].tx \in Tx \cup {0}
      BY DEF IInv, StageInv
    <2>3. QED
      BY <2>1, <2>2 DEF IInv, TypeOK, MapTypes, PlugType, CellTypes, SeqTypes
  <1>2. QED
    BY <1>1, Invariance, PTL

\* However the four emitters and the stop interleave, no seqNo is used twice.
THEOREM SeqUniqueHolds == Spec => []SeqUnique
  <1>1. IInv => SeqUnique
    BY DEF IInv
  <1>2. QED
    BY <1>1, Invariance, PTL

\* Two transitions that race, or a fold that races with one, never report the same state twice.
THEOREM TransitionsRealHolds == Spec => []TransitionsReal
  <1>1. IInv => TransitionsReal
    BY DEF IInv
  <1>2. QED
    BY <1>1, Invariance, PTL

\* Ended has a higher seqNo than every reading of its transaction.
THEOREM MeteringBeforeEndedHolds == Spec => []MeteringBeforeEnded
  <1>1. IInv => MeteringBeforeEnded
    <2> SUFFICES ASSUME IInv, NEW t \in Tx, NEW e \in sent[t], NEW f \in sent[t],
                        e.kind \in {"meter", "trigger"}, f.kind = "stop"
                 PROVE  e.no < f.no
      BY DEF MeteringBeforeEnded
    <2>1. e.no \in Nat /\ f.no \in Nat
      BY DEF IInv, SentType, EventRec
    <2>2. MeterNo(t, e.no) /\ StopNo(t, f.no)
      BY DEF MeterNo, StopNo
    <2>3. QED
      BY <2>1, <2>2 DEF IInv, MeterInv
  <1>2. QED
    BY <1>1, Invariance, PTL
=============================================================================
