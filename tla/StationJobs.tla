---------------------------- MODULE StationJobs ----------------------------
(***************************************************************************)
(* The long-running requests of a charge point (ocpp-cp/src/lib.rs and the *)
(* v201_log_upload, _firmware_update, _publish_firmware and                *)
(* _customer_information stores): a handler on the receive loop accepts a  *)
(* GetLog, UpdateFirmware, PublishFirmware, CustomerInformation, report or *)
(* TriggerMessage request and puts a command on the channel; the single    *)
(* consumer task takes the commands one by one and streams notifications.  *)
(* The two meet in the in-flight stores, each behind a lock of its own.    *)
(*                                                                         *)
(* A command is run as a sequence of steps, one per CALL or store          *)
(* operation; handlers may run between any two.  Whether a CALL succeeds   *)
(* is left out: every failure is only logged.  What a frame says is its    *)
(* status or its page.  Sleeps are gaps between two steps.                 *)
(*                                                                         *)
(* Left out here: the commands that start, stop and reset (Transactions),  *)
(* the charging-profile report (ChargingProfiles), the transaction event   *)
(* and signing triggers (TransactionEvents, Certificates).                 *)
(***************************************************************************)
EXTENDS Integers, Sequences, FiniteSets

CONSTANTS
    Configs,        \* the configurations to run: version and injected faults
    MaxId,          \* request ids are 1..MaxId
    Connectors,     \* 1..config.connector_count
    Targets,        \* the connectors a TriggerMessage names: Whole, some, an unknown one
    EntriesPerPage, \* V201_REPORT_ENTRIES_PER_PAGE
    MaxEntries,     \* bound: entries of a report
    MaxRequests     \* bound: requests served

Config == [version: {"V16J", "V201"}, uploadFails: BOOLEAN,
           firmware: {"Success", "DownloadFailed", "InstallationFailed"}]

ASSUME JobsAssumption ==
    /\ Configs \subseteq Config
    /\ MaxId \in Nat
    /\ Connectors \subseteq Nat \ {0} /\ IsFiniteSet(Connectors)
    /\ Targets \subseteq Nat \cup {-1}
    /\ EntriesPerPage \in Nat \ {0}
    /\ MaxEntries \in Nat
    /\ MaxRequests \in Nat

NoId == 0
Ids == 1..MaxId
Whole == -1                      \* a TriggerMessage that names no connector

\* The kinds that keep a status, and those that track their requests.
StatusKinds == {"Log", "Firmware", "Publish", "Diagnostics", "Firmware16"}
Slots == {"Log", "Firmware"}     \* one request in flight, superseded by another
Streams == {"Publish", "Customer"}   \* any number in flight

VARIABLES
    config,
    consumer,    \* the command consumer: "alive", or "gone" after stop()
    queue,       \* the command channel
    run,         \* the command being run and the steps left of it
    inbound,     \* a GetLog or UpdateFirmware handler that has seen its slot
    slot,        \* Slots: the request id in flight, or NoId
    streaming,   \* Streams: the request ids in flight
    reported,    \* StatusKinds: last_reported, the status and its request id
    latest,      \* history, Slots: the request accepted last
    report,      \* history: what the CSMS made of the pages of the last report
    served       \* requests so far

vars == <<config, consumer, queue, run, inbound, slot, streaming, reported, latest, report,
          served>>

---------------------------------------------------------------------------
(* Commands and their steps *)

Cmd(kind, id, n) == [kind |-> kind, id |-> id, n |-> n]
NoCmd == Cmd("none", NoId, 0)
Idle == [cmd |-> NoCmd, steps |-> <<>>]
NoInbound == [kind |-> "none", id |-> NoId, ack |-> "none"]
NoReport == [entries |-> 0, of |-> 0, open |-> FALSE]

\* One step: what is done, about which kind, with which status or page.
Step(op, kind, status) == [op |-> op, kind |-> kind, status |-> status, seq |-> 0, size |-> 0,
                           tbc |-> FALSE]
Report(kind, status) == Step("status", kind, status)
PageStep(seq, size, tbc) == [Step("page", "Report", "none") EXCEPT
                                 !.seq = seq, !.size = size, !.tbc = tbc]

\* Mutant: the last page of an exact multiple is flagged to be continued.
PagesLastOpen(n, per) ==
    [i \in 1..(IF n = 0 THEN 1 ELSE (n + per - 1) \div per) |->
        PageStep(i - 1, IF i * per <= n THEN per ELSE n % per, i * per <= n)]

\* v201_report_pages: full pages and a rest, seqNo from 0, all but the last to be
\* continued; an empty report is one empty page.
Pages(n, per) ==
    LET count == IF n = 0 THEN 1 ELSE (n + per - 1) \div per
    IN  [i \in 1..count |->
            PageStep(i - 1, IF i * per <= n THEN per ELSE n % per, i < count)]

\* run_v201_firmware_update and run_firmware_update up to the terminal status.
FirmwareProgress(kind) ==
    IF config.firmware = "DownloadFailed"
    THEN <<Report(kind, "Downloading")>>
    ELSE <<Report(kind, "Downloading"), Report(kind, "Downloaded"), Report(kind, "Installing")>>

FirmwareTerminal ==
    CASE config.firmware = "DownloadFailed" -> "DownloadFailed"
      [] config.firmware = "InstallationFailed" -> "InstallationFailed"
      [] OTHER -> "Installed"

\* v201_log_upload_terminal_status
LogTerminal(owner) ==
    <<Report("Log", CASE ~owner -> "AcceptedCanceled"
                      [] owner /\ config.uploadFails -> "UploadFailure"
                      [] OTHER -> "Uploaded")>>

\* The connectors a triggered StatusNotification is sent for: the one named, or
\* all of them and, in 1.6J, connector 0; an unknown one is ignored.
TriggerTargets(evse) ==
    LET known == Connectors \cup IF config.version = "V16J" THEN {0} ELSE {}
    IN  IF evse = Whole THEN known ELSE known \cap {evse}

\* send_triggered_message and send_v201_triggered_message
TriggerSteps(kind, evse) ==
    CASE kind = "TriggerStatus" ->
            [i \in 1..Cardinality(TriggerTargets(evse)) |-> Step("frame", kind, "none")]
      [] kind = "TriggerLog" -> <<Step("again", "Log", "none")>>
      [] kind = "TriggerPublish" -> <<Step("again", "Publish", "none")>>
      [] kind = "TriggerDiagnostics" -> <<Step("again", "Diagnostics", "none")>>
      [] kind = "TriggerFirmware" ->
            <<Step("again", IF config.version = "V16J" THEN "Firmware16" ELSE "Firmware", "none")>>
      [] OTHER -> <<Step("frame", kind, "none")>>

\* What the consumer does for each request.
LogUpload == <<Report("Log", "Uploading"), Step("complete", "Log", "none")>>

FirmwareUpdate == FirmwareProgress("Firmware") \o <<Step("complete", "Firmware", "none")>>

PublishStatus ==
    <<Report("Publish", "Idle"), Report("Publish", "DownloadScheduled"),
      Report("Publish", "Downloading"), Report("Publish", "Downloaded"),
      Report("Publish", "Published"), Step("complete", "Publish", "none")>>

CustomerPages == 2               \* V201_SIMULATED_CUSTOMER_INFORMATION_PAGES

CustomerReport == Pages(CustomerPages, 1) \o <<Step("complete", "Customer", "none")>>

DiagnosticsUpload ==
    <<Report("Diagnostics", "Uploading"),
      Report("Diagnostics", IF config.uploadFails THEN "UploadFailed" ELSE "Uploaded")>>

FirmwareUpdate16 == FirmwareProgress("Firmware16") \o <<Report("Firmware16", FirmwareTerminal)>>

\* A message to a page.
DisplayPages(n) == Pages(n, 1)

\* The consumer's match: the steps of a command.
Program(c) ==
    CASE c.kind = "Log" -> LogUpload
      [] c.kind = "Firmware" -> FirmwareUpdate
      [] c.kind = "Publish" -> PublishStatus
      [] c.kind = "Customer" -> CustomerReport
      [] c.kind = "Report" -> Pages(c.n, EntriesPerPage)
      [] c.kind = "Display" -> DisplayPages(c.n)
      [] c.kind = "Diagnostics" -> DiagnosticsUpload
      [] c.kind = "Firmware16" -> FirmwareUpdate16
      [] OTHER -> TriggerSteps(c.kind, c.n)

---------------------------------------------------------------------------
Init ==
    /\ config \in Configs
    /\ consumer = "alive"
    /\ queue = <<>>
    /\ run = Idle
    /\ inbound = NoInbound
    /\ slot = [k \in Slots |-> NoId]
    /\ streaming = [k \in Streams |-> {}]
    /\ reported = [k \in StatusKinds |-> [status |-> "Idle", id |-> NoId]]
    /\ latest = [k \in Slots |-> NoId]
    /\ report = NoReport
    /\ served = 0

\* The receive loop runs one handler at a time.
Serve(version) ==
    /\ config.version = version
    /\ inbound = NoInbound
    /\ served < MaxRequests
    /\ served' = served + 1

\* command_sender.send: fails once the consumer and its receiver are gone.
Send(c) == queue' = IF consumer = "alive" THEN Append(queue, c) ELSE queue

\* GetLog: look at the slot and decide.  The CSMS uses a new id, or repeats the
\* last one when the answer was lost.
GetLog(r) ==
    /\ Serve("V201")
    /\ r >= latest["Log"]
    /\ inbound' = [kind |-> "Log", id |-> r,
                   ack |-> IF slot["Log"] \in {NoId, r} THEN "Accepted" ELSE "AcceptedCanceled"]
    /\ UNCHANGED <<config, consumer, queue, run, slot, streaming, reported, latest, report>>

\* UpdateFirmware (2.0.1): refused for an unusable signing certificate.
UpdateFirmware(r) ==
    /\ Serve("V201")
    /\ r >= latest["Firmware"]
    /\ \E usable \in BOOLEAN :
        inbound' = IF ~usable THEN NoInbound        \* InvalidCertificate
                   ELSE [kind |-> "Firmware", id |-> r,
                         ack |-> IF slot["Firmware"] \in {NoId, r}
                                 THEN "Accepted" ELSE "AcceptedCanceled"]
    /\ UNCHANGED <<config, consumer, queue, run, slot, streaming, reported, latest, report>>

\* The second half of both handlers: begin the request, and queue its stream
\* unless the request it displaced is itself (a retry).
Begin ==
    /\ inbound # NoInbound
    /\ LET k == inbound.kind
           r == inbound.id
       IN  /\ slot' = [slot EXCEPT ![k] = r]
           /\ latest' = [latest EXCEPT ![k] = r]
           /\ IF slot[k] # r THEN Send(Cmd(k, r, 0)) ELSE UNCHANGED queue
    /\ inbound' = NoInbound
    /\ UNCHANGED <<config, consumer, run, streaming, reported, report, served>>

\* PublishFirmware and CustomerInformation: begin unless it is in flight already,
\* and roll the mark back when the stream cannot be queued.
BeginStream(k, r) ==
    /\ Serve("V201")
    /\ \E wanted \in BOOLEAN :     \* well-formed and, for a customer, to be reported
        IF wanted /\ r \notin streaming[k]
        THEN /\ Send(Cmd(k, r, 0))
             /\ streaming' = IF consumer = "alive"
                             THEN [streaming EXCEPT ![k] = @ \cup {r}] ELSE streaming
        ELSE UNCHANGED <<queue, streaming>>
    /\ UNCHANGED <<config, consumer, run, inbound, slot, reported, latest, report>>

PublishFirmware(r) == BeginStream("Publish", r)
CustomerInformation(r) == BeginStream("Customer", r)

\* Queue the entries that match now; nothing when there are none.
QueueReport(k, n) ==
    /\ Serve("V201")
    /\ IF n > 0 THEN Send(Cmd(k, NoId, n)) ELSE UNCHANGED queue
    /\ UNCHANGED <<config, consumer, run, inbound, slot, streaming, reported, latest, report>>

GetBaseReport(n) == QueueReport("Report", n)
GetReport(n) == QueueReport("Report", n)
GetMonitoringReport(n) == QueueReport("Report", n)
GetDisplayMessages(n) == QueueReport("Display", n)

\* The messages a 1.6J and a 2.0.1 station can be asked to send; the 1.6J station
\* knows two more, which it does not implement.
Triggers(version) ==
    {"TriggerBoot", "TriggerStatus", "TriggerFirmware"} \cup
    IF version = "V16J" THEN {"TriggerDiagnostics"} ELSE {"TriggerLog", "TriggerPublish"}

Unimplemented(version) == IF version = "V16J" THEN {"TriggerLog", "TriggerSign"} ELSE {}

TriggerMessage(version, what, evse) ==
    /\ Serve(version)
    /\ IF what \in Triggers(version) THEN Send(Cmd(what, NoId, evse)) ELSE UNCHANGED queue
    /\ UNCHANGED <<config, consumer, run, inbound, slot, streaming, reported, latest, report>>

\* GetDiagnostics is registered for both versions, the 1.6J UpdateFirmware for its own.
GetDiagnostics ==
    /\ Serve(config.version)
    /\ Send(Cmd("Diagnostics", NoId, 0))
    /\ UNCHANGED <<config, consumer, run, inbound, slot, streaming, reported, latest, report>>

UpdateFirmware16 ==
    /\ Serve("V16J")
    /\ Send(Cmd("Firmware16", NoId, 0))
    /\ UNCHANGED <<config, consumer, run, inbound, slot, streaming, reported, latest, report>>

---------------------------------------------------------------------------
(* The consumer *)

\* Mutant: an upload or rollout waits for its slot, which its own request holds.
TakeWhenIdle ==
    /\ consumer = "alive"
    /\ run = Idle
    /\ queue # <<>>
    /\ Head(queue).kind \in Slots => slot[Head(queue).kind] = NoId
    /\ LET steps == Program(Head(queue))
       IN  run' = IF steps = <<>> THEN Idle ELSE [cmd |-> Head(queue), steps |-> steps]
    /\ queue' = Tail(queue)
    /\ UNCHANGED <<config, consumer, inbound, slot, streaming, reported, latest, report, served>>

\* The loop awaits a command before it takes the next.
Take ==
    /\ consumer = "alive"
    /\ run = Idle
    /\ queue # <<>>
    /\ LET steps == Program(Head(queue))
       IN  run' = IF steps = <<>> THEN Idle ELSE [cmd |-> Head(queue), steps |-> steps]
    /\ queue' = Tail(queue)
    /\ UNCHANGED <<config, consumer, inbound, slot, streaming, reported, latest, report, served>>

Doing(op) == run.steps # <<>> /\ Head(run.steps).op = op

\* The rest of the command, with the steps `more` put in front.
Advance(more) ==
    LET left == more \o Tail(run.steps)
    IN  run' = IF left = <<>> THEN Idle ELSE [run EXCEPT !.steps = left]

\* record_reported, then the notification.
SendStatus ==
    /\ Doing("status")
    /\ LET s == Head(run.steps)
       IN  reported' = [reported EXCEPT ![s.kind] = [status |-> s.status, id |-> run.cmd.id]]
    /\ Advance(<<>>)
    /\ UNCHANGED <<config, consumer, queue, inbound, slot, streaming, latest, report, served>>

\* A triggered notification: last_reported once more, or a message without state.
SendTriggered ==
    /\ Doing("again") \/ Doing("frame")
    /\ Advance(<<>>)
    /\ UNCHANGED <<config, consumer, queue, inbound, slot, streaming, reported, latest, report,
                   served>>

\* A page goes out.  The CSMS starts anew at the first one and ends at the page that is
\* not to be continued.
SendPage ==
    /\ Doing("page")
    /\ LET p == Head(run.steps)
           whole == IF run.cmd.kind = "Customer" THEN CustomerPages ELSE run.cmd.n
           sofar == IF p.seq = 0 THEN NoReport ELSE report
       IN  report' = [entries |-> sofar.entries + p.size, of |-> whole, open |-> p.tbc]
    /\ Advance(<<>>)
    /\ UNCHANGED <<config, consumer, queue, inbound, slot, streaming, reported, latest, served>>

\* complete: only the owner of the slot clears it.
Owns(k, r) == slot[k] = r

\* Mutant: clear() in place of complete().
CompleteClears ==
    /\ Doing("complete")
    /\ LET k == Head(run.steps).kind
           r == run.cmd.id
           owner == Owns(k, r)
       IN  \/ /\ k \in Slots
              /\ slot' = [slot EXCEPT ![k] = NoId]
              /\ Advance(CASE k = "Log" -> LogTerminal(owner)
                           [] k = "Firmware" /\ owner -> <<Report("Firmware", FirmwareTerminal)>>
                           [] OTHER -> <<>>)
              /\ UNCHANGED streaming
           \/ /\ k \in Streams
              /\ streaming' = [streaming EXCEPT ![k] = @ \ {r}]
              /\ Advance(<<>>)
              /\ UNCHANGED slot
    /\ UNCHANGED <<config, consumer, queue, inbound, reported, latest, report, served>>

\* The end of an upload or rollout: clear the slot if it is still ours, then report
\* the terminal status; a rollout that was superseded reports none.
Complete ==
    /\ Doing("complete")
    /\ LET k == Head(run.steps).kind
           r == run.cmd.id
           owner == Owns(k, r)
       IN  \/ /\ k \in Slots
              /\ slot' = IF owner THEN [slot EXCEPT ![k] = NoId] ELSE slot
              /\ Advance(CASE k = "Log" -> LogTerminal(owner)
                           [] k = "Firmware" /\ owner -> <<Report("Firmware", FirmwareTerminal)>>
                           [] OTHER -> <<>>)
              /\ UNCHANGED streaming
           \/ /\ k \in Streams
              /\ streaming' = [streaming EXCEPT ![k] = @ \ {r}]
              /\ Advance(<<>>)
              /\ UNCHANGED slot
    /\ UNCHANGED <<config, consumer, queue, inbound, reported, latest, report, served>>

\* ChargePoint::stop aborts the consumer, at whatever it awaits; the channel goes
\* with it.
Stop ==
    /\ consumer = "alive"
    /\ consumer' = "gone"
    /\ run' = Idle
    /\ queue' = <<>>
    /\ UNCHANGED <<config, inbound, slot, streaming, reported, latest, report, served>>

Next ==
    \/ \E r \in Ids : GetLog(r)
    \/ \E r \in Ids : UpdateFirmware(r)
    \/ Begin
    \/ \E r \in Ids : PublishFirmware(r) \/ CustomerInformation(r)
    \/ \E n \in 0..MaxEntries :
        \/ GetBaseReport(n)
        \/ GetReport(n)
        \/ GetMonitoringReport(n)
        \/ GetDisplayMessages(n)
    \/ \E v \in {"V16J", "V201"} : \E what \in Triggers(v) \cup Unimplemented(v) :
            \E evse \in IF what = "TriggerStatus" THEN Targets ELSE {Whole} :
                TriggerMessage(v, what, evse)
    \/ GetDiagnostics
    \/ UpdateFirmware16
    \/ Take
    \/ SendStatus
    \/ SendTriggered
    \/ SendPage
    \/ Complete
    \/ Stop

Spec == Init /\ [][Next]_vars

\* tokio runs the consumer and a handler again whenever what they await is ready;
\* a CALL returns at the latest with its timeout.
FairSpec ==
    /\ Spec
    /\ WF_vars(Begin)
    /\ WF_vars(Take)
    /\ WF_vars(SendStatus)
    /\ WF_vars(SendTriggered)
    /\ WF_vars(SendPage)
    /\ WF_vars(Complete)

---------------------------------------------------------------------------
(* Properties *)

TypeOK ==
    /\ config \in Config
    /\ consumer \in {"alive", "gone"}
    /\ \A i \in DOMAIN queue : queue[i].id \in Ids \cup {NoId}
    /\ run.cmd.id \in Ids \cup {NoId}
    /\ slot \in [Slots -> Ids \cup {NoId}]
    /\ latest \in [Slots -> Ids \cup {NoId}]
    /\ streaming \in [Streams -> SUBSET Ids]
    /\ DOMAIN reported = StatusKinds
    /\ served \in 0..MaxRequests

\* Once the consumer has worked off what handlers queued, whatever retries and
\* supersessions they raced it with, the station is idle again and the last word
\* on the latest GetLog and UpdateFirmware is a terminal status of that very
\* request: it was not taken for the superseded one, nor left in flight with no
\* stream to end it (begin and complete of the two stores, lib.rs 2572-2605,
\* 3083-3118, 9398-9403, 9508).
DrainedIsSettled ==
    (consumer = "alive" /\ run = Idle /\ queue = <<>> /\ inbound = NoInbound) =>
        /\ \A k \in Slots : slot[k] = NoId
        /\ \A k \in Streams : streaming[k] = {}
        /\ \A k \in Slots : latest[k] # NoId =>
              /\ reported[k].id = latest[k]
              /\ reported[k].status \in
                    IF k = "Log" THEN {"Uploaded", "UploadFailure"}
                    ELSE {"Installed", "InstallationFailed", "DownloadFailed"}

\* A report, read page by page as the paging contract says, is closed when its
\* stream ends and then holds every entry of the snapshot, exact multiples of the
\* page size included (v201_report_pages).
ReportAssembles ==
    run = Idle /\ consumer = "alive" => ~report.open /\ report.entries = report.of

\* A request in flight is settled in the end: the slot or mark it holds is freed,
\* or taken over by another request, unless stop() ends the consumer.
JobsSettle ==
    /\ \A k \in Slots, r \in Ids : slot[k] = r ~> (slot[k] # r \/ consumer = "gone")
    /\ \A k \in Streams, r \in Ids :
        r \in streaming[k] ~> (r \notin streaming[k] \/ consumer = "gone")
============================================================================
