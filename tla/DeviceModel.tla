---------------------------- MODULE DeviceModel ----------------------------
(***************************************************************************)
(* The 2.0.1 device model (ocpp-cp/src/v201_device_model.rs and its        *)
(* handlers in lib.rs): station variables with a write policy, the         *)
(* monitors the CSMS installs on them, and the NotifyEvents that a write   *)
(* crossing a monitor, or the application, sets off.                       *)
(*                                                                         *)
(* SetVariables decides which monitors a write trips under the lock of the *)
(* model and queues them as they then are; the command consumer emits the  *)
(* event later, when monitors may have been cleared or replaced and the    *)
(* monitoring level changed.                                               *)
(*                                                                         *)
(* A value is a number, or Text, which does not parse as a finite one.     *)
(***************************************************************************)
EXTENDS Integers, Sequences, FiniteSets

CONSTANTS
    StationVars,     \* variables of the standard profile
    ReadOnlyVars,    \* those with a read-only policy
    Values,          \* numeric values a variable is given
    MonitorKinds,    \* MonitorEnumType
    Thresholds,      \* monitor values
    Severities,      \* severities of monitors, levels asked for
    MaxMonitorId,    \* bound: monitors installed
    MaxTrips         \* bound: trips on the channel

Text == -1           \* any value that is not a finite number
NoMonitor == [var |-> "none", kind |-> "none", threshold |-> 0, severity |-> 0]
LevelRange == 0..9   \* MONITORING_LEVEL_RANGE

ASSUME DeviceAssumption ==
    /\ ReadOnlyVars \subseteq StationVars
    /\ Values \subseteq Nat /\ Values # {}
    /\ MaxMonitorId \in Nat
    /\ MaxTrips \in Nat

VARIABLES
    value,       \* the Actual attribute of each variable
    monitors,    \* MonitorIds -> the monitor, or NoMonitor
    lastId,      \* last_monitor_id
    level,       \* active_monitoring_level
    trips,       \* V201MonitorTrip commands on the channel
    emitting,    \* each emitter: the monitors it is about to report
    named,       \* history: the variable the CSMS was told each monitor id is about
    events       \* history: the events of the last NotifyEvent

deviceVars == <<value, monitors, lastId, level, trips, emitting, named, events>>

MonitorIds == 1..MaxMonitorId
Emitters == {"consumer", "app"}
Installed == {i \in MonitorIds : monitors[i] # NoMonitor}

DeviceInit ==
    /\ value = [v \in StationVars |-> CHOOSE x \in Values : \A y \in Values : x <= y]
    /\ monitors = [i \in MonitorIds |-> NoMonitor]
    /\ lastId = 0
    /\ level = 9                                  \* DEFAULT_MONITORING_LEVEL
    /\ trips = <<>>
    /\ emitting = [e \in Emitters |-> {}]
    /\ named = [i \in MonitorIds |-> "none"]
    /\ events = {}

---------------------------------------------------------------------------
(* Variables *)

\* V201DeviceModel::set, for an attribute the variable has.
SetStatus(v) ==
    CASE v \notin StationVars -> "UnknownVariable"
      [] v \in ReadOnlyVars -> "Rejected"
      [] OTHER -> "Accepted"                      \* RebootRequired likewise takes effect

\* monitor_write_trips: a crossing in either direction, or a jump; the periodic
\* kinds are never tripped by a write.
WriteTrips(m, prev, next) ==
    CASE m.kind = "UpperThreshold" -> (prev > m.threshold) # (next > m.threshold)
      [] m.kind = "LowerThreshold" -> (prev < m.threshold) # (next < m.threshold)
      [] m.kind = "Delta" -> prev - next >= m.threshold \/ next - prev >= m.threshold
      [] OTHER -> FALSE

\* monitors_tripped_by_write: a value that is not a number crosses nothing.
TrippedByWrite(v, prev, next) ==
    IF prev = Text \/ next = Text THEN {}
    ELSE {i \in Installed : monitors[i].var = v /\ WriteTrips(monitors[i], prev, next)}

\* A TrippedMonitor is a copy: id, variable and severity as they are now.
Tripped(ids) == {[id |-> i, var |-> monitors[i].var, severity |-> monitors[i].severity] : i \in ids}

\* SetVariables, one write of it.
SetVariable(v, x) ==
    /\ LET crossed == TrippedByWrite(v, value[v], x)
       IN  IF SetStatus(v) = "Accepted"
           THEN /\ value' = [value EXCEPT ![v] = x]
                /\ crossed # {} => Len(trips) < MaxTrips
                /\ trips' = IF value[v] # x /\ crossed # {}
                            THEN Append(trips, Tripped(crossed)) ELSE trips
           ELSE UNCHANGED <<value, trips>>
    /\ UNCHANGED <<monitors, lastId, level, emitting, named, events>>

---------------------------------------------------------------------------
(* Monitors *)

IsDuplicate(m) == \E i \in Installed : monitors[i] = m

\* Mutant: the lowest id that is free.
FreshIdReused ==
    CHOOSE i \in MonitorIds : i \notin Installed /\ \A j \in 1..(i - 1) : j \in Installed

\* last_monitor_id += 1: an id is never given twice.
FreshId == lastId + 1

\* install_monitor without an id.
InstallMonitor(m) ==
    /\ m.var \in StationVars                      \* else UnknownComponent or UnknownVariable
    /\ ~IsDuplicate(m)
    /\ lastId < MaxMonitorId
    /\ lastId' = lastId + 1
    /\ monitors' = [monitors EXCEPT ![FreshId] = m]
    /\ named' = [named EXCEPT ![FreshId] = m.var]
    /\ UNCHANGED <<value, level, trips, emitting, events>>

\* install_monitor with the id of a monitor on the same variable: it is replaced,
\* and not looked at for a duplicate.
ReplaceMonitor(i, m) ==
    /\ i \in Installed
    /\ monitors[i].var = m.var                    \* else Rejected
    /\ monitors' = [monitors EXCEPT ![i] = m]
    /\ UNCHANGED <<value, lastId, level, trips, emitting, named, events>>

\* clear_monitors; an id that is not installed is NotFound.
ClearVariableMonitoring(ids) ==
    /\ monitors' = [i \in MonitorIds |-> IF i \in ids THEN NoMonitor ELSE monitors[i]]
    /\ UNCHANGED <<value, lastId, level, trips, emitting, named, events>>

\* set_monitoring_level
SetMonitoringLevel(severity) ==
    /\ level' = IF severity \in LevelRange THEN severity ELSE level
    /\ UNCHANGED <<value, monitors, lastId, trips, emitting, named, events>>

\* monitor_matches_criterion
MatchesCriterion(kind, criterion) ==
    CASE criterion = "ThresholdMonitoring" -> kind \in {"UpperThreshold", "LowerThreshold"}
      [] criterion = "DeltaMonitoring" -> kind = "Delta"
      [] criterion = "PeriodicMonitoring" -> kind \in {"Periodic", "PeriodicClockAligned"}

\* monitoring_snapshot: an empty filter, or none, restricts nothing.
MonitoringSnapshot(asked, criteria) ==
    {i \in Installed :
        /\ asked # {} => monitors[i].var \in asked
        /\ criteria # {} => \E c \in criteria : MatchesCriterion(monitors[i].kind, c)}

\* GetMonitoringReport tells the CSMS once more what each monitor is about.
GetMonitoringReport(asked, criteria) ==
    /\ named' = [i \in MonitorIds |-> IF i \in MonitoringSnapshot(asked, criteria)
                                     THEN monitors[i].var ELSE named[i]]
    /\ UNCHANGED <<value, monitors, lastId, level, trips, emitting, events>>

---------------------------------------------------------------------------
(* Events *)

\* The consumer takes a trip from the channel.
TakeTrip ==
    /\ trips # <<>>
    /\ emitting["consumer"] = {}
    /\ emitting' = [emitting EXCEPT !["consumer"] = Head(trips)]
    /\ trips' = Tail(trips)
    /\ UNCHANGED <<value, monitors, lastId, level, named, events>>

\* trip_variable_monitor: the application reports the monitors of a variable.
TripVariableMonitor(v) ==
    /\ emitting["app"] = {}
    /\ emitting' = [emitting EXCEPT !["app"] = Tripped({i \in Installed : monitors[i].var = v})]
    /\ UNCHANGED <<value, monitors, lastId, level, trips, named, events>>

\* emit_monitor_notify_event: those the level lets through now, in one NotifyEvent;
\* none if there are none.
EmitMonitorNotifyEvent(e) ==
    /\ emitting[e] # {}
    /\ LET reportable == {m \in emitting[e] : m.severity <= level}
       IN  events' = IF reportable = {} THEN events ELSE reportable
    /\ emitting' = [emitting EXCEPT ![e] = {}]
    /\ UNCHANGED <<value, monitors, lastId, level, trips, named>>

Monitors == [var: StationVars, kind: MonitorKinds, threshold: Thresholds, severity: Severities]

DeviceNext ==
    \/ \E v \in StationVars, x \in Values \cup {Text} : SetVariable(v, x)
    \/ \E m \in Monitors : InstallMonitor(m)
    \/ \E i \in MonitorIds, m \in Monitors : ReplaceMonitor(i, m)
    \/ \E i \in MonitorIds : ClearVariableMonitoring({i})
    \/ \E severity \in Severities \cup {0, 10} : SetMonitoringLevel(severity)
    \/ \E asked \in SUBSET StationVars, criteria \in
            {{}, {"ThresholdMonitoring"}, {"DeltaMonitoring", "PeriodicMonitoring"}} :
            GetMonitoringReport(asked, criteria)
    \/ TakeTrip
    \/ \E v \in StationVars : TripVariableMonitor(v)
    \/ \E e \in Emitters : EmitMonitorNotifyEvent(e)

DeviceSpec == DeviceInit /\ [][DeviceNext]_deviceVars

---------------------------------------------------------------------------
(* Properties *)

DeviceTypeOK ==
    /\ value \in [StationVars -> Values \cup {Text}]
    /\ monitors \in [MonitorIds -> Monitors \cup {NoMonitor}]
    /\ lastId \in 0..MaxMonitorId
    /\ level \in LevelRange

\* The CSMS can attribute every event: the monitor id it names is about the variable
\* the station reported for that id, also when the monitor was cleared, and another
\* installed, between the write that tripped it and the NotifyEvent (TrippedMonitor
\* copies, install_monitor's ids).
EventsAreAttributable == \A m \in events : named[m.id] = m.var
============================================================================
