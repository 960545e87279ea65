------------------------- MODULE StationJobs_proofs -------------------------
(***************************************************************************)
(* Proofs about StationJobs, for any number of request ids, connectors,    *)
(* entries and requests, any page size and any injected fault.             *)
(*                                                                         *)
(* A slot and the stream of its request meet in one place, `complete`.     *)
(* What has to be known in between is that the commands of a kind stand in *)
(* the channel in the order of their requests, and that the slot is held   *)
(* exactly as long as the command of its own request is still to come or   *)
(* has not yet reached its `complete`.                                     *)
(***************************************************************************)
EXTENDS StationJobs, FiniteSetTheorems, SequenceTheorems, TLAPS

CmdKinds == {"Log", "Firmware", "Publish", "Customer", "Report", "Display", "Diagnostics",
             "Firmware16", "TriggerBoot", "TriggerStatus", "TriggerFirmware",
             "TriggerDiagnostics", "TriggerLog", "TriggerPublish"}
CmdRec == [kind : CmdKinds, id : Nat, n : Int]
AnyCmd == CmdRec \cup {NoCmd}

Ops == {"status", "complete", "page", "again", "frame"}
Statuses == {"none", "Idle", "Uploading", "Uploaded", "UploadFailure", "UploadFailed",
             "AcceptedCanceled", "DownloadScheduled", "Downloading", "Downloaded", "Installing",
             "Installed", "InstallationFailed", "DownloadFailed", "Published"}
StepRec == [op : Ops, kind : CmdKinds, status : Statuses, seq : Nat, size : Nat, tbc : BOOLEAN]

PageKinds == {"Customer", "Report", "Display"}

StepSeqs == Seq(StepRec)
RunRec == [cmd : AnyCmd, steps : StepSeqs]

Terminal(k) == IF k = "Log" THEN {"Uploaded", "UploadFailure"}
               ELSE {"Installed", "InstallationFailed", "DownloadFailed"}

Busy == run.steps # <<>>
Last == run.steps[Len(run.steps)]

\* The command being run is of kind k, and its `complete` is still to come.
Ahead(k) == Busy /\ run.cmd.kind = k /\ Last.op = "complete"

(* Types *)

ConfigType == config \in Config
ConsumerType == consumer \in {"alive", "gone"}
QueueType == queue \in Seq(CmdRec)
RunType ==
    /\ run \in RunRec
    /\ run.steps = <<>> => run = Idle
    /\ run.steps # <<>> => run.cmd \in CmdRec
IdType ==
    /\ \A i \in 1..Len(queue) : queue[i].id \in Ids \cup {NoId}
    /\ run.cmd.id \in Ids \cup {NoId}
SlotType == slot \in [Slots -> Ids \cup {NoId}] /\ latest \in [Slots -> Ids \cup {NoId}]
StreamType == streaming \in [Streams -> SUBSET Ids]
ReportedType == reported \in [StatusKinds -> [status : Statuses, id : Nat]]
ServedType == served \in 0..MaxRequests

\* A handler between its two halves has an id no older than the latest.
InboundInv ==
    inbound # NoInbound =>
        /\ inbound.kind \in Slots /\ inbound.id \in Ids
        /\ inbound.id >= latest[inbound.kind]

\* With the consumer the channel and the command are gone.
GoneInv == consumer = "gone" => queue = <<>> /\ run = Idle

\* The steps p that are left of a command c: a status is about the kind of the
\* command, and only the last step of a tracked request is its `complete`, after
\* which an upload or rollout has one status to report.
Shape(c, p) ==
    /\ \A j \in 1..Len(p) :
          /\ p[j].op = "status" => p[j].kind = c.kind
          /\ p[j].op = "complete" =>
                j = Len(p) /\ p[j].kind = c.kind /\ c.kind \in Slots \cup Streams
          /\ p[j].op = "page" => c.kind \in PageKinds
    /\ c.kind \in Streams => p[Len(p)].op = "complete"
    /\ c.kind \in Slots /\ p[Len(p)].op # "complete" => Len(p) = 1 /\ p[1].op = "status"

ShapeInv == Busy => Shape(run.cmd, run.steps)

(* Slots *)

\* The commands of a kind stand in the order of their requests.
OrderInv ==
    \A k \in Slots :
        /\ \A i \in 1..Len(queue) : queue[i].kind = k =>
              /\ queue[i].id \in Ids /\ queue[i].id <= latest[k]
              /\ Ahead(k) => run.cmd.id < queue[i].id
              /\ \A j \in 1..Len(queue) : i < j /\ queue[j].kind = k => queue[i].id < queue[j].id
        /\ Busy /\ run.cmd.kind = k => run.cmd.id \in Ids /\ run.cmd.id <= latest[k]

\* A slot in use is that of the latest request, whose command is still to come.
HeldInv ==
    \A k \in Slots : slot[k] # NoId /\ consumer = "alive" =>
        /\ slot[k] = latest[k]
        /\ \/ \E i \in 1..Len(queue) : queue[i].kind = k /\ queue[i].id = slot[k]
           \/ Ahead(k) /\ run.cmd.id = slot[k]

\* A free slot: no command is to come, and the latest request has its terminal
\* status, or has it as its last step.
FreeInv ==
    \A k \in Slots : slot[k] = NoId /\ consumer = "alive" =>
        /\ \A i \in 1..Len(queue) : queue[i].kind # k
        /\ ~Ahead(k)
        /\ latest[k] # NoId =>
              \/ Busy /\ run.cmd.kind = k /\ run.cmd.id = latest[k] /\ Last.status \in Terminal(k)
              \/ /\ Busy => run.cmd.kind # k
                 /\ reported[k].id = latest[k] /\ reported[k].status \in Terminal(k)
        /\ latest[k] = NoId => ~(Busy /\ run.cmd.kind = k)

\* A request in flight has its command in the channel or in the consumer's hands.
StreamInv ==
    \A k \in Streams : consumer = "alive" => \A r \in streaming[k] :
        \/ \E i \in 1..Len(queue) : queue[i].kind = k /\ queue[i].id = r
        \/ Busy /\ run.cmd.kind = k /\ run.cmd.id = r

(* Reports *)

Total(c) == IF c.kind = "Customer" THEN CustomerPages ELSE c.n
PerPage(c) == IF c.kind = "Report" THEN EntriesPerPage ELSE 1
Count(n, per) == IF n = 0 THEN 1 ELSE (n + per - 1) \div per

\* The entries on the first i pages.
Sent(n, per, i) == IF i * per <= n THEN i * per ELSE n

Closed == ~report.open /\ report.entries = report.of

ReportType == report \in [entries : Nat, of : Nat, open : BOOLEAN]

\* Entries are counted from one.
CountInv ==
    /\ \A i \in 1..Len(queue) : queue[i].kind \in PageKinds \ {"Customer"} => queue[i].n \in Nat
    /\ run.cmd.kind \in PageKinds \ {"Customer"} => run.cmd.n \in Nat

\* The steps p are the pages of the report c after the first i, and what follows
\* the pages of a customer report.
PagesLeft(c, p, i) ==
    LET n == Total(c)
        per == PerPage(c)
        count == Count(n, per)
    IN  /\ Len(p) = count - i + (IF c.kind = "Customer" THEN 1 ELSE 0)
        /\ \A j \in 1..(count - i) :
              /\ p[j].op = "page"
              /\ p[j].seq = i + j - 1
              /\ p[j].size = IF (i + j) * per <= n THEN per ELSE n % per
              /\ p[j].tbc = (i + j < count)

\* The CSMS has the entries of the first i pages of the report c.
Received(c, i) ==
    IF i = 0 THEN Closed
    ELSE /\ report.entries = Sent(Total(c), PerPage(c), i)
         /\ report.of = Total(c)
         /\ report.open = (i < Count(Total(c), PerPage(c)))

Paging == Busy /\ run.cmd.kind \in PageKinds

PagingInv ==
    Paging => \E i \in 0..Count(Total(run.cmd), PerPage(run.cmd)) :
                  PagesLeft(run.cmd, run.steps, i) /\ Received(run.cmd, i)
ClosedInv == consumer = "alive" /\ ~Paging => Closed

IInv ==
    /\ ConfigType /\ ConsumerType /\ QueueType /\ RunType /\ IdType /\ SlotType /\ StreamType
    /\ ReportedType /\ ServedType /\ ReportType
    /\ InboundInv /\ GoneInv /\ ShapeInv
    /\ OrderInv /\ HeldInv /\ FreeInv /\ StreamInv
    /\ CountInv /\ PagingInv /\ ClosedInv

-----------------------------------------------------------------------------
(* The arithmetic of the pages *)

\* The number of pages of n entries: at least one, enough for all entries, and no
\* page but the only one of an empty report is empty.
LEMMA CountBounds ==
    ASSUME NEW n \in Nat, NEW per \in Nat \ {0}
    PROVE  /\ Count(n, per) \in Nat /\ Count(n, per) >= 1
           /\ Count(n, per) * per >= n
           /\ \A i \in Nat : i < Count(n, per) => i * per < n \/ (i = 0 /\ n = 0)
  <1>1. CASE n = 0
    <2>1. Count(n, per) = 1
      BY <1>1 DEF Count
    <2>2. QED
      BY <1>1, <2>1
  <1>2. CASE n # 0
    <2>1. PICK q : q = (n + per - 1) \div per
      OBVIOUS
    <2>2. q \in Nat /\ q * per <= n + per - 1 /\ n + per - 1 < q * per + per
      BY <2>1
    <2>3. q * per >= n
      BY <2>2
    <2>4. q >= 1
      BY <1>2, <2>2, <2>3
    <2>5. ASSUME NEW i \in Nat, i < q PROVE i * per < n
      <3>1. (i + 1) * per <= q * per
        BY <2>2, <2>5
      <3>2. (i + 1) * per = i * per + per
        OBVIOUS
      <3>3. i * per \in Nat /\ q * per \in Nat
        BY <2>2
      <3>4. QED
        BY <2>2, <3>1, <3>2, <3>3
    <2>6. Count(n, per) = q
      BY <1>2, <2>1 DEF Count
    <2>7. QED
      BY <2>2, <2>3, <2>4, <2>5, <2>6
  <1>3. QED
    BY <1>1, <1>2

\* What a page that is not full carries.
LEMMA Remainder ==
    ASSUME NEW n \in Nat, NEW per \in Nat \ {0}, NEW i \in Nat,
           i * per <= n, n < (i + 1) * per
    PROVE  n % per = n - i * per
  <1>1. PICK q, r : q = n \div per /\ r = n % per
    OBVIOUS
  <1>2. q \in Nat /\ r \in Nat /\ r < per /\ n = q * per + r
    BY <1>1
  <1>3. q = i
    <2>1. ASSUME q < i PROVE FALSE
      <3>1. (q + 1) * per <= i * per
        BY <1>2, <2>1
      <3>2. (q + 1) * per = q * per + per
        BY <1>2
      <3>3. QED
        BY <1>2, <3>1, <3>2
    <2>2. ASSUME i < q PROVE FALSE
      <3>1. (i + 1) * per <= q * per
        BY <1>2, <2>2
      <3>2. QED
        BY <1>2, <3>1
    <2>3. QED
      BY <1>2, <2>1, <2>2
  <1>4. QED
    BY <1>1, <1>2, <1>3

\* A page adds its own entries to those before it, and the last one completes them.
LEMMA PageAdds ==
    ASSUME NEW n \in Nat, NEW per \in Nat \ {0}, NEW i \in Nat, i < Count(n, per), NEW size,
           size = IF (i + 1) * per <= n THEN per ELSE n % per
    PROVE  size \in Nat /\ Sent(n, per, i) + size = Sent(n, per, i + 1)
  <1>1. i * per \in Nat /\ (i + 1) * per = i * per + per
    OBVIOUS
  <1>2. CASE (i + 1) * per <= n
    BY <1>1, <1>2 DEF Sent
  <1>3. CASE ~((i + 1) * per <= n)
    <2>1. i * per <= n /\ n < (i + 1) * per
      BY <1>1, <1>3, CountBounds
    <2>2. n % per = n - i * per
      BY <2>1, Remainder
    <2>3. size = n - i * per
      BY <1>3, <2>2
    <2>4. QED
      BY <1>1, <1>3, <2>1, <2>3 DEF Sent
  <1>4. QED
    BY <1>2, <1>3

\* All pages together carry all entries, and none before the first.
LEMMA AllSent ==
    ASSUME NEW n \in Nat, NEW per \in Nat \ {0}
    PROVE  Sent(n, per, Count(n, per)) = n /\ Sent(n, per, 0) = 0
  <1>1. Count(n, per) \in Nat /\ Count(n, per) * per >= n
    BY CountBounds
  <1>2. Count(n, per) * per \in Nat
    BY <1>1
  <1>3. QED
    BY <1>1, <1>2 DEF Sent

-----------------------------------------------------------------------------
(* Programs *)

\* The fields of a step of the consumer.
LEMMA StepFields ==
    ASSUME NEW op \in Ops, NEW kind \in CmdKinds, NEW status \in Statuses
    PROVE  /\ Step(op, kind, status) \in StepRec
           /\ Step(op, kind, status).op = op /\ Step(op, kind, status).kind = kind
           /\ Step(op, kind, status).status = status
  BY DEF Step, StepRec

\* The fields of the step that sends a page.
LEMMA PageFields ==
    ASSUME NEW seq \in Nat, NEW size \in Nat, NEW tbc \in BOOLEAN
    PROVE  /\ PageStep(seq, size, tbc) \in StepRec
           /\ PageStep(seq, size, tbc).op = "page"
           /\ PageStep(seq, size, tbc).seq = seq
           /\ PageStep(seq, size, tbc).size = size
           /\ PageStep(seq, size, tbc).tbc = tbc
  <1>1. "page" \in Ops /\ "Report" \in CmdKinds /\ "none" \in Statuses
    BY DEF Ops, CmdKinds, Statuses
  <1>2. PICK s : s = Step("page", "Report", "none")
    OBVIOUS
  <1>3. s \in StepRec /\ s.op = "page"
    BY <1>1, <1>2, StepFields
  <1>4. PICK r : r = [s EXCEPT !.seq = seq, !.size = size, !.tbc = tbc]
    OBVIOUS
  <1>5. r \in StepRec
    BY <1>3, <1>4 DEF StepRec
  <1>6. r.op = "page" /\ r.seq = seq /\ r.size = size
    BY <1>3, <1>4 DEF StepRec
  <1>7. r.tbc = tbc
    BY <1>3, <1>4 DEF StepRec
  <1>8. PageStep(seq, size, tbc) = r
    BY <1>2, <1>4 DEF PageStep
  <1>9. QED
    BY <1>5, <1>6, <1>7, <1>8, Zenon

\* A program of one step.
LEMMA OneStep ==
    ASSUME NEW a \in StepRec
    PROVE  <<a>> \in StepSeqs /\ Len(<<a>>) = 1 /\ <<a>>[1] = a /\ <<a>> # <<>>
  BY DEF StepSeqs

\* A program followed by one more step.
LEMMA Closing ==
    ASSUME NEW q, NEW t, q \in StepSeqs, t \in StepSeqs, Len(t) = 1, NEW p, p = q \o t
    PROVE  p \in StepSeqs /\ Len(p) = Len(q) + 1 /\ \A j \in 1..Len(q) : p[j] = q[j]
  <1>1. q \in Seq(StepRec) /\ t \in Seq(StepRec) /\ Len(q) \in Nat
    BY DEF StepSeqs
  <1>2. /\ p \in Seq(StepRec) /\ Len(p) = Len(q) + Len(t)
        /\ \A i \in 1 .. Len(q) + Len(t) : p[i] = IF i <= Len(q) THEN q[i] ELSE t[i - Len(q)]
    BY <1>1, ConcatProperties
  <1>3. QED
    BY <1>1, <1>2 DEF StepSeqs

\* The last step of such a program.
LEMMA ClosingLast ==
    ASSUME NEW q, NEW t, q \in StepSeqs, t \in StepSeqs, Len(t) = 1, NEW p, p = q \o t
    PROVE  p[Len(p)] = t[1]
  <1>1. q \in Seq(StepRec) /\ t \in Seq(StepRec) /\ Len(q) \in Nat
    BY DEF StepSeqs
  <1>2. /\ Len(p) = Len(q) + Len(t)
        /\ \A i \in 1 .. Len(q) + Len(t) : p[i] = IF i <= Len(q) THEN q[i] ELSE t[i - Len(q)]
    BY <1>1, ConcatProperties
  <1>3. QED
    BY <1>1, <1>2

\* The pages of a report are numbered from 0, and all but the last say tbc.
LEMMA PageSteps ==
    ASSUME NEW n \in Nat, NEW per \in Nat \ {0}
    PROVE  /\ Pages(n, per) \in StepSeqs /\ Len(Pages(n, per)) = Count(n, per)
           /\ \A j \in 1..Count(n, per) :
                 /\ Pages(n, per)[j].op = "page"
                 /\ Pages(n, per)[j].seq = j - 1
                 /\ Pages(n, per)[j].size = IF j * per <= n THEN per ELSE n % per
                 /\ Pages(n, per)[j].tbc = (j < Count(n, per))
  <1>1. PICK k : k = Count(n, per)
    OBVIOUS
  <1>2. k \in Nat /\ k >= 1
    BY <1>1, CountBounds
  <1>3. PICK p : p = [i \in 1..k |->
                        PageStep(i - 1, IF i * per <= n THEN per ELSE n % per, i < k)]
    OBVIOUS
  <1>4. Pages(n, per) = p
    BY <1>1, <1>3 DEF Pages, Count
  <1>5. ASSUME NEW j \in 1..k
        PROVE  /\ p[j] \in StepRec /\ p[j].op = "page" /\ p[j].seq = j - 1
               /\ p[j].size = IF j * per <= n THEN per ELSE n % per
               /\ p[j].tbc = (j < k)
    <2>1. PICK size : size = IF j * per <= n THEN per ELSE n % per
      OBVIOUS
    <2>2. size \in Nat /\ j - 1 \in Nat
      BY <2>1
    <2>3. PICK b : b = (j < k)
      OBVIOUS
    <2>4. b \in BOOLEAN
      <3>1. CASE j < k
        BY <2>3, <3>1
      <3>2. CASE ~(j < k)
        BY <2>3, <3>2
      <3>3. QED
        BY <3>1, <3>2
    <2>5. PICK m : m = j - 1
      OBVIOUS
    <2>6. p[j] = PageStep(m, size, b)
      BY <1>3, <2>1, <2>3, <2>5, Zenon
    <2>7. m \in Nat
      BY <2>2, <2>5
    <2>8. /\ p[j] \in StepRec /\ p[j].op = "page" /\ p[j].seq = m
          /\ p[j].size = size /\ p[j].tbc = b
      <3>1. /\ PageStep(m, size, b) \in StepRec
            /\ PageStep(m, size, b).op = "page"
            /\ PageStep(m, size, b).seq = m
            /\ PageStep(m, size, b).size = size
            /\ PageStep(m, size, b).tbc = b
        BY <2>2, <2>4, <2>7, PageFields
      <3>2. QED
        BY <2>6, <3>1, Zenon
    <2>9. QED
      BY <2>1, <2>3, <2>5, <2>8, Zenon
  <1>6. p \in [1..k -> StepRec] /\ DOMAIN p = 1..k
    BY <1>3, <1>5
  <1>7. p \in Seq(StepRec) /\ Len(p) = k
    BY <1>2, <1>6, SeqDef
  <1>8. QED
    BY <1>1, <1>4, <1>5, <1>7, Zenon DEF StepSeqs

\* What the consumer makes of a command c: its steps p.
Fits(c, p) ==
    /\ p \in StepSeqs
    /\ p # <<>> => Shape(c, p)
    /\ c.kind \in Slots \cup Streams \cup PageKinds => p # <<>>
    /\ c.kind \in Slots => p[Len(p)].op = "complete"
    /\ c.kind \in PageKinds => PagesLeft(c, p, 0)

\* Statuses of the kind of the command, and then its `complete`.
LEMMA TrackedFits ==
    ASSUME NEW c \in CmdRec, c.kind \in Slots \cup {"Publish"}, NEW p \in StepSeqs, p # <<>>,
           \A j \in 1..Len(p) : /\ j < Len(p) => p[j].op = "status"
                                /\ p[j].kind = c.kind,
           p[Len(p)].op = "complete"
    PROVE  Fits(c, p)
  <1>1. Len(p) \in Nat
    BY DEF StepSeqs
  <1>2. c.kind \notin PageKinds /\ c.kind \in Slots \cup Streams
    BY DEF PageKinds, Slots, Streams
  <1>3. Shape(c, p)
    BY <1>1, <1>2 DEF Shape
  <1>4. QED
    BY <1>2, <1>3 DEF Fits

\* Steps of an untracked command: statuses of its kind, repeats and frames.
LEMMA UntrackedFits ==
    ASSUME NEW c \in CmdRec, c.kind \notin Slots \cup Streams \cup PageKinds, NEW p \in StepSeqs,
           \A j \in 1..Len(p) : /\ p[j].op \in {"status", "again", "frame"}
                                /\ p[j].op = "status" => p[j].kind = c.kind
    PROVE  Fits(c, p)
  BY DEF Fits, Shape

\* A report sends its pages and nothing else.
LEMMA PagesFit ==
    ASSUME NEW c \in CmdRec, c.kind \in {"Report", "Display"}, c.n \in Nat, NEW p,
           p = Pages(c.n, PerPage(c))
    PROVE  Fits(c, p)
  <1>1. PerPage(c) \in Nat \ {0} /\ Total(c) = c.n /\ c.kind # "Customer"
    BY JobsAssumption DEF PerPage, Total
  <1>2. PICK n, per : n = c.n /\ per = PerPage(c)
    OBVIOUS
  <1>3. n \in Nat /\ per \in Nat \ {0} /\ Count(n, per) \in Nat /\ Count(n, per) >= 1
    BY <1>1, <1>2, CountBounds
  <1>4. /\ p \in StepSeqs /\ Len(p) = Count(n, per)
        /\ \A j \in 1..Count(n, per) :
              /\ p[j].op = "page"
              /\ p[j].seq = j - 1
              /\ p[j].size = IF j * per <= n THEN per ELSE n % per
              /\ p[j].tbc = (j < Count(n, per))
    <2>1. p = Pages(n, per)
      BY <1>2
    <2>2. n \in Nat /\ per \in Nat \ {0}
      BY <1>3
    <2>3. /\ Pages(n, per) \in StepSeqs /\ Len(Pages(n, per)) = Count(n, per)
          /\ \A j \in 1..Count(n, per) :
                /\ Pages(n, per)[j].op = "page"
                /\ Pages(n, per)[j].seq = j - 1
                /\ Pages(n, per)[j].size = IF j * per <= n THEN per ELSE n % per
                /\ Pages(n, per)[j].tbc = (j < Count(n, per))
      BY <2>2, PageSteps, Zenon
    <2>4. QED
      BY <2>1, <2>3, Zenon
  <1>5. p # <<>>
    BY <1>3, <1>4
  <1>6. c.kind \in PageKinds /\ c.kind \notin Slots /\ c.kind \notin Streams
    BY DEF PageKinds, Slots, Streams
  <1>7. Shape(c, p)
    BY <1>4, <1>6 DEF Shape
  <1>8. PagesLeft(c, p, 0)
    <2>1. Len(p) = Count(n, per) - 0 + 0
      BY <1>3, <1>4
    <2>2. ASSUME NEW j \in 1..(Count(n, per) - 0)
          PROVE  /\ p[j].op = "page"
                 /\ p[j].seq = 0 + j - 1
                 /\ p[j].size = IF (0 + j) * per <= n THEN per ELSE n % per
                 /\ p[j].tbc = (0 + j < Count(n, per))
      <3>1. j \in 1..Count(n, per) /\ 0 + j = j
        BY <1>3
      <3>2. /\ p[j].op = "page" /\ p[j].seq = j - 1
            /\ p[j].size = IF j * per <= n THEN per ELSE n % per
            /\ p[j].tbc = (j < Count(n, per))
        BY <1>4, <3>1, Zenon
      <3>3. p[j].tbc = (0 + j < Count(n, per))
        BY <3>1, <3>2, Zenon
      <3>4. /\ p[j].seq = 0 + j - 1
            /\ p[j].size = IF (0 + j) * per <= n THEN per ELSE n % per
        BY <3>1, <3>2
      <3>5. QED
        BY <3>2, <3>3, <3>4, Zenon
    <2>3. QED
      BY <1>1, <1>2, <2>1, <2>2, Zenon DEF PagesLeft
  <1>9. QED
    BY <1>4, <1>5, <1>6, <1>7, <1>8 DEF Fits

\* A customer report sends its pages, then leaves the in-flight set.
LEMMA CustomerFits ==
    ASSUME NEW c \in CmdRec, c.kind = "Customer"
    PROVE  Fits(c, CustomerReport)
  <1>1. PICK p : p = CustomerReport
    OBVIOUS
  <1>2. PICK q, a : q = Pages(CustomerPages, 1) /\ a = Step("complete", "Customer", "none")
    OBVIOUS
  <1>3. PICK n, per : n = Total(c) /\ per = PerPage(c)
    OBVIOUS
  <1>4. n = 2 /\ per = 1 /\ n = CustomerPages
    BY <1>3 DEF Total, PerPage, CustomerPages
  <1>5. n \in Nat /\ per \in Nat \ {0} /\ Count(n, per) = 2
    BY <1>4 DEF Count
  <1>6. q = Pages(n, per)
    BY <1>2, <1>4
  <1>7. /\ q \in StepSeqs /\ Len(q) = Count(n, per)
        /\ \A j \in 1..Count(n, per) :
              /\ q[j].op = "page"
              /\ q[j].seq = j - 1
              /\ q[j].size = IF j * per <= n THEN per ELSE n % per
              /\ q[j].tbc = (j < Count(n, per))
    BY <1>5, <1>6, PageSteps, Zenon
  <1>8. a \in StepRec /\ a.op = "complete" /\ a.kind = "Customer"
    <2>1. "complete" \in Ops /\ "Customer" \in CmdKinds /\ "none" \in Statuses
      BY DEF Ops, CmdKinds, Statuses
    <2>2. QED
      BY <1>2, <2>1, StepFields
  <1>9. p = q \o <<a>>
    BY <1>1, <1>2 DEF CustomerReport
  <1>10. /\ p \in StepSeqs /\ Len(p) = Len(q) + 1 /\ p[Len(p)] = a /\ p # <<>>
         /\ \A j \in 1..Len(q) : p[j] = q[j]
    <2>1. PICK t : t = <<a>>
      OBVIOUS
    <2>2. t \in StepSeqs /\ Len(t) = 1 /\ t[1] = a
      BY <1>8, <2>1, OneStep
    <2>3. p = q \o t
      BY <1>9, <2>1
    <2>4. q \in StepSeqs /\ t \in StepSeqs /\ Len(t) = 1
      BY <1>7, <2>2
    <2>5. p \in StepSeqs /\ Len(p) = Len(q) + 1 /\ \A j \in 1..Len(q) : p[j] = q[j]
      BY <2>3, <2>4, Closing, Zenon
    <2>6. p[Len(p)] = t[1]
      BY <2>3, <2>4, ClosingLast, Zenon
    <2>7. Len(q) \in Nat
      BY <2>4 DEF StepSeqs
    <2>8. QED
      BY <2>2, <2>5, <2>6, <2>7
  <1>11. c.kind \in PageKinds /\ c.kind \notin Slots /\ c.kind \in Streams
    BY DEF PageKinds, Slots, Streams
  <1>12. Shape(c, p)
    <2>1. \A j \in 1..Len(p) : j # Len(p) => p[j].op = "page"
      BY <1>5, <1>7, <1>10
    <2>2. QED
      BY <1>8, <1>10, <1>11, <2>1 DEF Shape
  <1>13. PagesLeft(c, p, 0)
    <2>1. Len(p) = Count(n, per) - 0 + 1
      BY <1>5, <1>7, <1>10
    <2>2. ASSUME NEW j \in 1..(Count(n, per) - 0)
          PROVE  /\ p[j].op = "page"
                 /\ p[j].seq = 0 + j - 1
                 /\ p[j].size = IF (0 + j) * per <= n THEN per ELSE n % per
                 /\ p[j].tbc = (0 + j < Count(n, per))
      <3>1. j \in 1..Count(n, per) /\ j \in 1..Len(q) /\ 0 + j = j
        BY <1>5, <1>7
      <3>2. p[j] = q[j]
        BY <1>10, <3>1
      <3>3. /\ p[j].op = "page" /\ p[j].seq = j - 1
            /\ p[j].size = IF j * per <= n THEN per ELSE n % per
            /\ p[j].tbc = (j < Count(n, per))
        BY <1>7, <3>1, <3>2, Zenon
      <3>4. p[j].tbc = (0 + j < Count(n, per))
        BY <3>1, <3>3, Zenon
      <3>5. /\ p[j].seq = 0 + j - 1
            /\ p[j].size = IF (0 + j) * per <= n THEN per ELSE n % per
        BY <3>1, <3>3
      <3>6. QED
        BY <3>3, <3>4, <3>5, Zenon
    <2>3. QED
      BY <1>3, <2>1, <2>2, Zenon DEF PagesLeft
  <1>14. QED
    BY <1>1, <1>10, <1>11, <1>12, <1>13 DEF Fits

\* The progress statuses of a firmware update.
LEMMA ProgressSteps ==
    ASSUME NEW kind \in CmdKinds
    PROVE  /\ FirmwareProgress(kind) \in StepSeqs
           /\ \A j \in 1..Len(FirmwareProgress(kind)) :
                 /\ FirmwareProgress(kind)[j].op = "status"
                 /\ FirmwareProgress(kind)[j].kind = kind
  <1>1. PICK a, b, d : /\ a = Report(kind, "Downloading") /\ b = Report(kind, "Downloaded")
                       /\ d = Report(kind, "Installing")
    OBVIOUS
  <1>2. "status" \in Ops /\ "Downloading" \in Statuses /\ "Downloaded" \in Statuses
        /\ "Installing" \in Statuses
    BY DEF Ops, Statuses
  <1>3. /\ a \in StepRec /\ a.op = "status" /\ a.kind = kind
        /\ b \in StepRec /\ b.op = "status" /\ b.kind = kind
        /\ d \in StepRec /\ d.op = "status" /\ d.kind = kind
    BY <1>1, <1>2, StepFields DEF Report
  <1>4. CASE FirmwareProgress(kind) = <<a>>
    BY <1>3, <1>4, OneStep
  <1>5. CASE FirmwareProgress(kind) = <<a, b, d>>
    <2>1. PICK q : q = <<a, b, d>>
      OBVIOUS
    <2>2. q \in Seq(StepRec) /\ Len(q) = 3 /\ q[1] = a /\ q[2] = b /\ q[3] = d
      BY <1>3, <2>1
    <2>3. \A j \in 1..3 : j = 1 \/ j = 2 \/ j = 3
      OBVIOUS
    <2>4. QED
      BY <1>3, <1>5, <2>1, <2>2, <2>3 DEF StepSeqs
  <1>6. QED
    BY <1>1, <1>4, <1>5 DEF FirmwareProgress

\* The status a firmware update ends with is a terminal one.
LEMMA TerminalStatus ==
    /\ FirmwareTerminal \in Terminal("Firmware")
    /\ FirmwareTerminal \in Statuses
  BY DEF FirmwareTerminal, Terminal, Statuses

\* A 2.0.1 firmware update reports progress and ends with its `complete`.
LEMMA FirmwareFits ==
    ASSUME NEW c \in CmdRec, c.kind = "Firmware"
    PROVE  Fits(c, FirmwareUpdate)
  <1>1. PICK p : p = FirmwareUpdate
    OBVIOUS
  <1>2. PICK q, a : /\ q = FirmwareProgress("Firmware")
                    /\ a = Step("complete", "Firmware", "none")
    OBVIOUS
  <1>3. /\ "Firmware" \in CmdKinds /\ "complete" \in Ops /\ "none" \in Statuses
        /\ "Firmware" \in Slots
    BY DEF CmdKinds, Ops, Statuses, Slots
  <1>4. /\ q \in StepSeqs /\ Len(q) \in Nat
        /\ \A j \in 1..Len(q) : q[j].op = "status" /\ q[j].kind = "Firmware"
    <2>1. /\ q \in StepSeqs
          /\ \A j \in 1..Len(q) : q[j].op = "status" /\ q[j].kind = "Firmware"
      BY <1>2, <1>3, ProgressSteps
    <2>2. QED
      BY <2>1 DEF StepSeqs
  <1>5. a \in StepRec /\ a.op = "complete" /\ a.kind = "Firmware"
    BY <1>2, <1>3, StepFields
  <1>6. PICK t : t = <<a>>
    OBVIOUS
  <1>7. t \in StepSeqs /\ Len(t) = 1 /\ t[1] = a
    BY <1>5, <1>6, OneStep
  <1>8. p = q \o t
    BY <1>1, <1>2, <1>6 DEF FirmwareUpdate
  <1>9. /\ p \in StepSeqs /\ Len(p) = Len(q) + 1 /\ p[Len(p)] = a /\ p # <<>>
        /\ \A j \in 1..Len(q) : p[j] = q[j]
    <2>1. q \in StepSeqs /\ t \in StepSeqs /\ Len(t) = 1
      BY <1>4, <1>7
    <2>2. p \in StepSeqs /\ Len(p) = Len(q) + 1 /\ \A j \in 1..Len(q) : p[j] = q[j]
      BY <1>8, <2>1, Closing, Zenon
    <2>3. p[Len(p)] = t[1]
      BY <1>8, <2>1, ClosingLast, Zenon
    <2>4. Len(q) \in Nat
      BY <2>1 DEF StepSeqs
    <2>5. QED
      BY <1>7, <2>2, <2>3, <2>4
  <1>10. \A j \in 1..Len(p) : (j < Len(p) => p[j].op = "status") /\ p[j].kind = c.kind
    BY <1>4, <1>5, <1>9
  <1>11. QED
    BY <1>1, <1>3, <1>5, <1>9, <1>10, TrackedFits

\* A 1.6J firmware update has no slot: it only reports.
LEMMA Firmware16Fits ==
    ASSUME NEW c \in CmdRec, c.kind = "Firmware16"
    PROVE  Fits(c, FirmwareUpdate16)
  <1>1. PICK p : p = FirmwareUpdate16
    OBVIOUS
  <1>2. PICK q, a : /\ q = FirmwareProgress("Firmware16")
                    /\ a = Report("Firmware16", FirmwareTerminal)
    OBVIOUS
  <1>3. "Firmware16" \in CmdKinds /\ "status" \in Ops
    BY DEF CmdKinds, Ops
  <1>4. /\ q \in StepSeqs /\ Len(q) \in Nat
        /\ \A j \in 1..Len(q) : q[j].op = "status" /\ q[j].kind = "Firmware16"
    <2>1. /\ q \in StepSeqs
          /\ \A j \in 1..Len(q) : q[j].op = "status" /\ q[j].kind = "Firmware16"
      BY <1>2, <1>3, ProgressSteps
    <2>2. QED
      BY <2>1 DEF StepSeqs
  <1>5. a \in StepRec /\ a.op = "status" /\ a.kind = "Firmware16"
    BY <1>2, <1>3, StepFields, TerminalStatus DEF Report
  <1>6. PICK t : t = <<a>>
    OBVIOUS
  <1>7. t \in StepSeqs /\ Len(t) = 1 /\ t[1] = a
    BY <1>5, <1>6, OneStep
  <1>8. p = q \o t
    BY <1>1, <1>2, <1>6 DEF FirmwareUpdate16
  <1>9. /\ p \in StepSeqs /\ Len(p) = Len(q) + 1 /\ p[Len(p)] = a /\ p # <<>>
        /\ \A j \in 1..Len(q) : p[j] = q[j]
    <2>1. q \in StepSeqs /\ t \in StepSeqs /\ Len(t) = 1
      BY <1>4, <1>7
    <2>2. p \in StepSeqs /\ Len(p) = Len(q) + 1 /\ \A j \in 1..Len(q) : p[j] = q[j]
      BY <1>8, <2>1, Closing, Zenon
    <2>3. p[Len(p)] = t[1]
      BY <1>8, <2>1, ClosingLast, Zenon
    <2>4. Len(q) \in Nat
      BY <2>1 DEF StepSeqs
    <2>5. QED
      BY <1>7, <2>2, <2>3, <2>4
  <1>10. \A j \in 1..Len(p) : p[j].op = "status" /\ p[j].kind = c.kind
    BY <1>4, <1>5, <1>9
  <1>11. c.kind \notin Slots \cup Streams \cup PageKinds
    BY DEF Slots, Streams, PageKinds
  <1>12. QED
    BY <1>1, <1>9, <1>10, <1>11, UntrackedFits

\* A log upload reports Uploading and ends with its `complete`.
LEMMA LogFits ==
    ASSUME NEW c \in CmdRec, c.kind = "Log", NEW p, p = LogUpload
    PROVE  Fits(c, p)
  <1>1. PICK a, b : a = Report("Log", "Uploading") /\ b = Step("complete", "Log", "none")
    OBVIOUS
  <1>2. /\ "Log" \in CmdKinds /\ "status" \in Ops /\ "complete" \in Ops /\ "none" \in Statuses
        /\ "Uploading" \in Statuses /\ "Log" \in Slots
    BY DEF CmdKinds, Ops, Statuses, Slots
  <1>3. /\ a \in StepRec /\ a.op = "status" /\ a.kind = "Log"
        /\ b \in StepRec /\ b.op = "complete" /\ b.kind = "Log"
    BY <1>1, <1>2, StepFields DEF Report
  <1>4. p = <<a, b>>
    BY <1>1 DEF LogUpload
  <1>5. p \in Seq(StepRec) /\ Len(p) = 2 /\ p[1] = a /\ p[2] = b /\ p # <<>>
    BY <1>3, <1>4
  <1>6. \A j \in 1..2 : j = 1 \/ j = 2
    OBVIOUS
  <1>7. \A j \in 1..Len(p) : (j < Len(p) => p[j].op = "status") /\ p[j].kind = c.kind
    BY <1>3, <1>5, <1>6
  <1>8. p \in StepSeqs
    BY <1>5 DEF StepSeqs
  <1>9. QED
    BY <1>2, <1>3, <1>5, <1>7, <1>8, TrackedFits

\* A publication reports its statuses, then leaves the in-flight set.
LEMMA PublishFits ==
    ASSUME NEW c \in CmdRec, c.kind = "Publish", NEW p, p = PublishStatus
    PROVE  Fits(c, p)
  <1>1. PICK a, b, d, e, f, g :
            /\ a = Report("Publish", "Idle") /\ b = Report("Publish", "DownloadScheduled")
            /\ d = Report("Publish", "Downloading") /\ e = Report("Publish", "Downloaded")
            /\ f = Report("Publish", "Published") /\ g = Step("complete", "Publish", "none")
    OBVIOUS
  <1>2. /\ "Publish" \in CmdKinds /\ "status" \in Ops /\ "complete" \in Ops /\ "none" \in Statuses
        /\ "Idle" \in Statuses /\ "DownloadScheduled" \in Statuses
        /\ "Downloading" \in Statuses /\ "Downloaded" \in Statuses /\ "Published" \in Statuses
    BY DEF CmdKinds, Ops, Statuses
  <1>3. /\ a \in StepRec /\ a.op = "status" /\ a.kind = "Publish"
        /\ b \in StepRec /\ b.op = "status" /\ b.kind = "Publish"
        /\ d \in StepRec /\ d.op = "status" /\ d.kind = "Publish"
        /\ e \in StepRec /\ e.op = "status" /\ e.kind = "Publish"
        /\ f \in StepRec /\ f.op = "status" /\ f.kind = "Publish"
        /\ g \in StepRec /\ g.op = "complete" /\ g.kind = "Publish"
    BY <1>1, <1>2, StepFields DEF Report
  <1>4. p = <<a, b, d, e, f, g>>
    BY <1>1 DEF PublishStatus
  <1>5. /\ p \in Seq(StepRec) /\ Len(p) = 6 /\ p # <<>>
        /\ p[1] = a /\ p[2] = b /\ p[3] = d /\ p[4] = e /\ p[5] = f /\ p[6] = g
    BY <1>3, <1>4
  <1>6. \A j \in 1..6 : j = 1 \/ j = 2 \/ j = 3 \/ j = 4 \/ j = 5 \/ j = 6
    OBVIOUS
  <1>7. \A j \in 1..Len(p) : (j < Len(p) => p[j].op = "status") /\ p[j].kind = c.kind
    BY <1>3, <1>5, <1>6
  <1>8. p \in StepSeqs
    BY <1>5 DEF StepSeqs
  <1>9. QED
    BY <1>3, <1>5, <1>7, <1>8, TrackedFits

\* A 1.6J diagnostics upload has no slot: it only reports.
LEMMA DiagnosticsFits ==
    ASSUME NEW c \in CmdRec, c.kind = "Diagnostics", NEW p, p = DiagnosticsUpload
    PROVE  Fits(c, p)
  <1>1. PICK s : s = IF config.uploadFails THEN "UploadFailed" ELSE "Uploaded"
    OBVIOUS
  <1>2. PICK a, b : a = Report("Diagnostics", "Uploading") /\ b = Report("Diagnostics", s)
    OBVIOUS
  <1>3. "Diagnostics" \in CmdKinds /\ "status" \in Ops /\ "Uploading" \in Statuses /\ s \in Statuses
    BY <1>1 DEF CmdKinds, Ops, Statuses
  <1>4. /\ a \in StepRec /\ a.op = "status" /\ a.kind = "Diagnostics"
        /\ b \in StepRec /\ b.op = "status" /\ b.kind = "Diagnostics"
    BY <1>2, <1>3, StepFields DEF Report
  <1>5. p = <<a, b>>
    BY <1>1, <1>2, Zenon DEF DiagnosticsUpload
  <1>6. p \in Seq(StepRec) /\ Len(p) = 2 /\ p[1] = a /\ p[2] = b
    BY <1>4, <1>5
  <1>7. \A j \in 1..2 : j = 1 \/ j = 2
    OBVIOUS
  <1>8. \A j \in 1..Len(p) : p[j].op = "status" /\ p[j].kind = c.kind
    BY <1>4, <1>6, <1>7
  <1>9. c.kind \notin Slots \cup Streams \cup PageKinds
    BY DEF Slots, Streams, PageKinds
  <1>10. p \in StepSeqs
    BY <1>6 DEF StepSeqs
  <1>11. QED
    BY <1>8, <1>9, <1>10, UntrackedFits

TriggerKinds == {"TriggerBoot", "TriggerStatus", "TriggerFirmware", "TriggerDiagnostics",
                 "TriggerLog", "TriggerPublish"}

\* A trigger addresses finitely many connectors.
LEMMA TargetsFinite == ASSUME NEW e PROVE Cardinality(TriggerTargets(e)) \in Nat
  <1>1. IsFiniteSet(Connectors) /\ IsFiniteSet({0}) /\ IsFiniteSet({})
    BY JobsAssumption, FS_Singleton, FS_EmptySet
  <1>2. IsFiniteSet(Connectors \cup {0}) /\ IsFiniteSet(Connectors \cup {})
    BY <1>1, FS_Union
  <1>3. PICK known : known = Connectors \cup IF config.version = "V16J" THEN {0} ELSE {}
    OBVIOUS
  <1>4. IsFiniteSet(known)
    BY <1>2, <1>3
  <1>5. TriggerTargets(e) = known \/ TriggerTargets(e) = known \cap {e}
    BY <1>3 DEF TriggerTargets
  <1>6. TriggerTargets(e) \subseteq known
    BY <1>5
  <1>7. IsFiniteSet(TriggerTargets(e))
    BY <1>4, <1>6, FS_Subset
  <1>8. QED
    BY <1>7, FS_CardinalityType

\* A TriggerMessage sends its messages and completes nothing.
LEMMA TriggerFits ==
    ASSUME NEW c \in CmdRec, c.kind \in TriggerKinds
    PROVE  Fits(c, TriggerSteps(c.kind, c.n))
  <1>1. PICK p : p = TriggerSteps(c.kind, c.n)
    OBVIOUS
  <1>2. c.kind \notin Slots \cup Streams \cup PageKinds
    BY DEF Slots, Streams, PageKinds, TriggerKinds
  <1>3. /\ "frame" \in Ops /\ "again" \in Ops /\ "none" \in Statuses /\ c.kind \in CmdKinds
        /\ "Log" \in CmdKinds /\ "Publish" \in CmdKinds /\ "Diagnostics" \in CmdKinds
        /\ "Firmware16" \in CmdKinds /\ "Firmware" \in CmdKinds
    BY DEF Ops, Statuses, CmdKinds, TriggerKinds
  <1>4. CASE c.kind = "TriggerStatus"
    <2>1. PICK a, m : a = Step("frame", c.kind, "none") /\ m = Cardinality(TriggerTargets(c.n))
      OBVIOUS
    <2>2. a \in StepRec /\ a.op = "frame" /\ m \in Nat
      BY <1>3, <2>1, StepFields, TargetsFinite
    <2>3. p = [i \in 1..m |-> a]
      BY <1>1, <1>4, <2>1 DEF TriggerSteps
    <2>4. p \in [1..m -> StepRec] /\ \A j \in 1..m : p[j] = a
      BY <2>2, <2>3
    <2>5. p \in Seq(StepRec) /\ Len(p) = m
      BY <2>2, <2>4, SeqDef
    <2>6. p \in StepSeqs /\ \A j \in 1..Len(p) : p[j].op = "frame"
      BY <2>2, <2>4, <2>5 DEF StepSeqs
    <2>7. QED
      BY <1>1, <1>2, <2>6, UntrackedFits
  <1>5. CASE c.kind # "TriggerStatus"
    <2>1. PICK x : x = IF config.version = "V16J" THEN "Firmware16" ELSE "Firmware"
      OBVIOUS
    <2>2. PICK a : /\ p = <<a>>
                   /\ \/ a = Step("frame", c.kind, "none") \/ a = Step("again", "Log", "none")
                      \/ a = Step("again", "Publish", "none") \/ a = Step("again", x, "none")
                      \/ a = Step("again", "Diagnostics", "none")
      BY <1>1, <1>5, <2>1 DEF TriggerSteps, TriggerKinds
    <2>3. x \in CmdKinds
      BY <1>3, <2>1
    <2>4. a \in StepRec /\ a.op \in {"again", "frame"}
      BY <1>3, <2>2, <2>3, StepFields
    <2>5. p \in StepSeqs /\ Len(p) = 1 /\ p[1] = a
      BY <2>2, <2>4, OneStep
    <2>6. \A j \in 1..Len(p) : p[j].op \in {"again", "frame"}
      BY <2>4, <2>5
    <2>7. QED
      BY <1>1, <1>2, <2>5, <2>6, UntrackedFits
  <1>6. QED
    BY <1>4, <1>5

\* Every command runs a program of its own kind.
LEMMA Programs ==
    ASSUME NEW c \in CmdRec, c.kind \in PageKinds \ {"Customer"} => c.n \in Nat
    PROVE  Fits(c, Program(c))
  <1>1. CASE c.kind = "Log"
    BY <1>1, LogFits DEF Program
  <1>2. CASE c.kind = "Firmware"
    BY <1>2, FirmwareFits DEF Program
  <1>3. CASE c.kind = "Publish"
    BY <1>3, PublishFits DEF Program
  <1>4. CASE c.kind = "Customer"
    BY <1>4, CustomerFits DEF Program
  <1>5. CASE c.kind \in {"Report", "Display"}
    <2>1. Program(c) = Pages(c.n, PerPage(c))
      BY <1>5 DEF Program, DisplayPages, PerPage
    <2>2. c.n \in Nat
      BY <1>5 DEF PageKinds
    <2>3. QED
      BY <1>5, <2>1, <2>2, PagesFit
  <1>6. CASE c.kind = "Diagnostics"
    BY <1>6, DiagnosticsFits DEF Program
  <1>7. CASE c.kind = "Firmware16"
    BY <1>7, Firmware16Fits DEF Program
  <1>8. CASE c.kind \in TriggerKinds
    BY <1>8, TriggerFits DEF Program, TriggerKinds
  <1>9. c.kind \in CmdKinds
    BY DEF CmdRec
  <1>10. QED
    BY <1>1, <1>2, <1>3, <1>4, <1>5, <1>6, <1>7, <1>8, <1>9 DEF CmdKinds, TriggerKinds

-----------------------------------------------------------------------------
(* The command that is run *)

\* The record of a consumer between two commands.
LEMMA IdleFields ==
    /\ Idle \in RunRec /\ Idle.steps = <<>> /\ Idle.cmd = NoCmd
    /\ NoCmd.kind = "none" /\ NoCmd.id = NoId
  <1>1. <<>> \in StepSeqs
    BY DEF StepSeqs
  <1>2. NoCmd \in AnyCmd
    BY DEF AnyCmd
  <1>3. Idle \in RunRec /\ Idle.steps = <<>> /\ Idle.cmd = NoCmd
    BY <1>1, <1>2 DEF Idle, RunRec
  <1>4. QED
    BY <1>3 DEF NoCmd, Cmd

\* The consumer is between two commands when no step is left.
LEMMA IdleIsNotBusy == ASSUME RunType PROVE (run = Idle) = ~Busy
  BY IdleFields DEF RunType, Busy

\* The steps left, and the one to do next.
LEMMA StepTypes ==
    ASSUME RunType
    PROVE  /\ run.steps \in StepSeqs /\ run.steps \in Seq(StepRec) /\ Len(run.steps) \in Nat
           /\ Busy => Len(run.steps) >= 1 /\ Head(run.steps) = run.steps[1]
           /\ \A j \in 1..Len(run.steps) : run.steps[j] \in StepRec
  <1>1. run.steps \in StepSeqs
    BY DEF RunType, RunRec
  <1>2. run.steps \in Seq(StepRec)
    BY <1>1 DEF StepSeqs
  <1>3. PICK p : p = run.steps
    OBVIOUS
  <1>4. /\ Len(p) \in Nat /\ (p # <<>> => Len(p) >= 1 /\ Head(p) = p[1])
        /\ \A j \in 1..Len(p) : p[j] \in StepRec
    BY <1>2, <1>3
  <1>5. QED
    BY <1>1, <1>2, <1>3, <1>4 DEF Busy

\* The run goes on with the steps q.
GoesOn(q) ==
    /\ RunType'
    /\ run'.steps = q
    /\ q # <<>> => run'.cmd = run.cmd
    /\ q = <<>> => run' = Idle

\* The consumer goes on with the steps left, or is idle when there is none.
LEMMA Continues ==
    ASSUME RunType, Busy, NEW q, q \in StepSeqs,
           run' = IF q = <<>> THEN Idle ELSE [run EXCEPT !.steps = q]
    PROVE  GoesOn(q)
  <1>1. CASE q = <<>>
    BY <1>1, IdleFields DEF GoesOn, RunType
  <1>2. CASE q # <<>>
    <2>1. run' = [run EXCEPT !.steps = q]
      BY <1>2
    <2>2. run'.steps = q /\ run'.cmd = run.cmd /\ run' \in RunRec
      BY <2>1 DEF RunType, RunRec
    <2>3. run.cmd \in CmdRec
      BY DEF RunType, Busy
    <2>4. QED
      BY <1>2, <2>2, <2>3 DEF GoesOn, RunType
  <1>3. QED
    BY <1>1, <1>2

\* A step without steps put in front of the rest.
LEMMA Advances ==
    ASSUME RunType, Busy, Advance(<<>>)
    PROVE  GoesOn(Tail(run.steps))
  <1>1. PICK q : q = Tail(run.steps)
    OBVIOUS
  <1>2. q \in Seq(StepRec)
    BY <1>1, StepTypes DEF Busy
  <1>3. q \in StepSeqs
    BY <1>2 DEF StepSeqs
  <1>4. <<>> \o q = q
    BY <1>2, ConcatEmptySeq
  <1>5. run' = IF q = <<>> THEN Idle ELSE [run EXCEPT !.steps = q]
    BY <1>1, <1>4, Zenon DEF Advance
  <1>6. QED
    BY <1>1, <1>3, <1>5, Continues

\* The last step of an upload or rollout is followed by what it leads to.
LEMMA AdvancesTo ==
    ASSUME RunType, Busy, Len(run.steps) = 1, NEW more \in StepSeqs, Advance(more)
    PROVE  GoesOn(more)
  <1>1. Tail(run.steps) = <<>>
    <2>1. PICK p : p = run.steps
      OBVIOUS
    <2>2. p \in Seq(StepRec) /\ Len(p) = 1 /\ p # <<>>
      BY <2>1, StepTypes DEF Busy
    <2>3. Tail(p) \in Seq(StepRec) /\ Len(Tail(p)) = 0
      BY <2>2
    <2>4. Tail(p) = <<>>
      BY <2>3, EmptySeq
    <2>5. QED
      BY <2>1, <2>4
  <1>2. more \in Seq(StepRec)
    BY DEF StepSeqs
  <1>3. more \o <<>> = more
    BY <1>2, ConcatEmptySeq
  <1>4. run' = IF more = <<>> THEN Idle ELSE [run EXCEPT !.steps = more]
    BY <1>1, <1>3, Zenon DEF Advance
  <1>5. QED
    BY <1>4, Continues

\* Doing one step shifts the rest by one and keeps the last.
LEMMA TailSteps ==
    ASSUME RunType, Busy, GoesOn(Tail(run.steps))
    PROVE  /\ Len(run'.steps) = Len(run.steps) - 1
           /\ \A j \in 1..Len(run'.steps) : run'.steps[j] = run.steps[j + 1]
           /\ Busy' => run'.cmd = run.cmd /\ Len(run.steps) >= 2 /\ Last' = Last
           /\ ~Busy' => run' = Idle /\ Len(run.steps) = 1
  <1>1. PICK p, q : p = run.steps /\ q = run'.steps
    OBVIOUS
  <1>2. p \in Seq(StepRec) /\ p # <<>> /\ q = Tail(p)
    BY <1>1, StepTypes DEF Busy, GoesOn
  <1>3. Len(p) \in Nat /\ Len(p) >= 1 /\ q \in Seq(StepRec) /\ Len(q) = Len(p) - 1
    BY <1>2
  <1>4. \A j \in 1..Len(q) : q[j] = p[j + 1]
    BY <1>2, <1>3
  <1>5. q # <<>> => Len(q) >= 1 /\ q[Len(q)] = p[Len(p)]
    BY <1>3, <1>4
  <1>6. q = <<>> => Len(p) = 1
    BY <1>3
  <1>7. QED
    BY <1>1, <1>3, <1>4, <1>5, <1>6 DEF GoesOn, Busy, Last

\* The steps left still end as the command must end.
LEMMA TailShape ==
    ASSUME RunType, ShapeInv, Busy, GoesOn(Tail(run.steps))
    PROVE  ShapeInv'
  <1>1. SUFFICES ASSUME Busy' PROVE Shape(run.cmd, run'.steps)
    BY TailSteps DEF ShapeInv
  <1>2. PICK c, p, q : c = run.cmd /\ p = run.steps /\ q = run'.steps
    OBVIOUS
  <1>3. /\ Len(p) \in Nat /\ Len(p) >= 2 /\ Len(q) = Len(p) - 1 /\ q[Len(q)] = p[Len(p)]
        /\ \A j \in 1..Len(q) : q[j] = p[j + 1]
    BY <1>1, <1>2, TailSteps, StepTypes DEF Last
  <1>4. Shape(c, p)
    BY <1>2 DEF ShapeInv
  <1>5. Shape(c, q)
    BY <1>3, <1>4 DEF Shape
  <1>6. QED
    BY <1>2, <1>5

\* A report that is being sent has a positive number of pages.
LEMMA PagesPositive ==
    ASSUME RunType, CountInv, Paging
    PROVE  /\ Total(run.cmd) \in Nat /\ PerPage(run.cmd) \in Nat \ {0}
           /\ Count(Total(run.cmd), PerPage(run.cmd)) \in Nat
           /\ Count(Total(run.cmd), PerPage(run.cmd)) >= 1
  <1>1. Total(run.cmd) \in Nat /\ PerPage(run.cmd) \in Nat \ {0}
    BY JobsAssumption DEF Paging, PageKinds, CountInv, Total, PerPage, CustomerPages
  <1>2. QED
    BY <1>1, CountBounds

\* A report consists of pages and, for a customer, the `complete` behind them.
LEMMA PagingHead ==
    ASSUME RunType, CountInv, ShapeInv, Paging, NEW i \in Nat,
           i <= Count(Total(run.cmd), PerPage(run.cmd)), PagesLeft(run.cmd, run.steps, i)
    PROVE  /\ i < Count(Total(run.cmd), PerPage(run.cmd)) => run.steps[1].op = "page"
           /\ i = Count(Total(run.cmd), PerPage(run.cmd)) =>
                 run.steps[1].op = "complete" /\ run.cmd.kind = "Customer" /\ Len(run.steps) = 1
  <1>1. PICK count : count = Count(Total(run.cmd), PerPage(run.cmd))
    OBVIOUS
  <1>2. count \in Nat
    BY <1>1, PagesPositive
  <1>3. /\ Len(run.steps) = count - i + (IF run.cmd.kind = "Customer" THEN 1 ELSE 0)
        /\ \A j \in 1..(count - i) : run.steps[j].op = "page"
    BY <1>1 DEF PagesLeft
  <1>4. Len(run.steps) >= 1
    BY StepTypes DEF Paging
  <1>5. CASE i < count
    <2>1. 1 \in 1..(count - i)
      BY <1>2, <1>5
    <2>2. run.steps[1].op = "page" /\ i # count
      BY <1>2, <1>3, <1>5, <2>1
    <2>3. QED
      BY <1>1, <2>2
  <1>6. CASE i = count
    <2>1. run.cmd.kind = "Customer" /\ Len(run.steps) = 1
      BY <1>2, <1>3, <1>4, <1>6
    <2>2. run.steps[1].op = "complete"
      BY <2>1 DEF ShapeInv, Shape, Paging, Streams
    <2>3. QED
      BY <1>1, <1>6, <2>1, <2>2
  <1>7. QED
    BY <1>1, <1>2, <1>5, <1>6

\* When all pages are sent the report is closed.
LEMMA AllReceived ==
    ASSUME NEW n \in Nat, NEW per \in Nat \ {0},
           report.entries = Sent(n, per, Count(n, per)), report.of = n,
           report.open = (Count(n, per) < Count(n, per))
    PROVE  Closed
  <1>1. Sent(n, per, Count(n, per)) = n /\ ~(Count(n, per) < Count(n, per))
    BY AllSent, CountBounds
  <1>2. ~report.open
    BY <1>1, Zenon
  <1>3. QED
    BY <1>1, <1>2, Zenon DEF Closed

-----------------------------------------------------------------------------
(* A step of the command that is not its `complete` *)

\* A step that is not a `complete` disturbs neither the channel nor the slots.
LEMMA Onward ==
    ASSUME IInv, Busy, GoesOn(Tail(run.steps)), run.steps[1].op # "complete",
           UNCHANGED <<consumer, queue, slot, latest, streaming>>
    PROVE  /\ RunType' /\ IdType' /\ GoneInv' /\ ShapeInv' /\ OrderInv' /\ HeldInv' /\ StreamInv'
           /\ CountInv'
           /\ \A k \in Slots : Ahead(k)' = Ahead(k)
  <1>1. RunType /\ ShapeInv
    BY DEF IInv
  <1>2. /\ RunType' /\ ShapeInv'
        /\ Busy' => run'.cmd = run.cmd /\ Len(run.steps) >= 2 /\ Last' = Last
        /\ ~Busy' => run' = Idle /\ Len(run.steps) = 1
    BY <1>1, TailSteps, TailShape DEF GoesOn
  <1>3. Len(run.steps) = 1 => Last.op # "complete"
    BY DEF Last
  <1>4. ASSUME NEW k PROVE Ahead(k)' = Ahead(k)
    BY <1>2, <1>3 DEF Ahead
  <1>5. ASSUME NEW k, Ahead(k) PROVE Busy' /\ run'.cmd = run.cmd
    BY <1>2, <1>3, <1>5 DEF Ahead
  <1>6. IdType' /\ CountInv'
    BY <1>2, IdleFields DEF IInv, IdType, CountInv, Busy, PageKinds, NoId
  <1>7. GoneInv'
    BY <1>1, IdleIsNotBusy DEF IInv, GoneInv, ConsumerType
  <1>8. OrderInv'
    BY <1>2, <1>4, <1>5 DEF IInv, OrderInv
  <1>9. HeldInv'
    BY <1>4, <1>5 DEF IInv, HeldInv
  <1>10. StreamInv'
    <2>1. Busy /\ run.cmd.kind \in Streams => Last.op = "complete"
      BY <1>1 DEF ShapeInv, Shape, Last
    <2>2. run.cmd.kind \in Streams => Busy' /\ run'.cmd = run.cmd
      BY <1>2, <1>3, <2>1
    <2>3. QED
      BY <2>2 DEF IInv, StreamInv
  <1>11. QED
    BY <1>2, <1>4, <1>6, <1>7, <1>8, <1>9, <1>10

(* The inductive invariant *)

\* A free slot stays settled: its request reports its last status, or others run.
LEMMA FreeOnward ==
    ASSUME IInv, Busy, GoesOn(Tail(run.steps)), run.steps[1].op # "complete",
           UNCHANGED <<consumer, queue, slot, latest, streaming>>,
           \A k \in Slots : run.cmd.kind # k => reported'[k] = reported[k],
           run.steps[1].op = "status" /\ run.cmd.kind \in Slots =>
               /\ reported'[run.cmd.kind].id = run.cmd.id
               /\ reported'[run.cmd.kind].status = run.steps[1].status
    PROVE  FreeInv'
  <1>1. RunType /\ ShapeInv
    BY DEF IInv
  <1>2. /\ Busy' => run'.cmd = run.cmd /\ Len(run.steps) >= 2 /\ Last' = Last
        /\ ~Busy' => run' = Idle /\ Len(run.steps) = 1
        /\ \A k \in Slots : Ahead(k)' = Ahead(k)
    BY <1>1, TailSteps, Onward
  <1>3. SUFFICES ASSUME NEW k \in Slots, slot[k] = NoId, consumer = "alive"
                 PROVE  /\ ~Ahead(k)
                        /\ latest[k] # NoId =>
                              \/ /\ Busy' /\ run'.cmd.kind = k /\ run'.cmd.id = latest[k]
                                 /\ Last'.status \in Terminal(k)
                              \/ /\ Busy' => run'.cmd.kind # k
                                 /\ reported'[k].id = latest[k]
                                 /\ reported'[k].status \in Terminal(k)
                        /\ latest[k] = NoId => ~(Busy' /\ run'.cmd.kind = k)
    BY <1>2 DEF IInv, FreeInv
  <1>4. /\ ~Ahead(k)
        /\ latest[k] # NoId =>
              \/ Busy /\ run.cmd.kind = k /\ run.cmd.id = latest[k] /\ Last.status \in Terminal(k)
              \/ /\ Busy => run.cmd.kind # k
                 /\ reported[k].id = latest[k] /\ reported[k].status \in Terminal(k)
        /\ latest[k] = NoId => ~(Busy /\ run.cmd.kind = k)
    BY <1>3 DEF IInv, FreeInv
  <1>5. CASE run.cmd.kind # k
    BY <1>2, <1>4, <1>5
  <1>6. CASE run.cmd.kind = k
    <2>1. Last.op # "complete"
      BY <1>4, <1>6 DEF Ahead
    <2>2. Len(run.steps) = 1 /\ run.steps[1].op = "status"
      BY <1>1, <1>6, <2>1 DEF ShapeInv, Shape, Last
    <2>3. ~Busy' /\ reported'[k].id = run.cmd.id /\ reported'[k].status = Last.status
      BY <1>2, <1>6, <2>2 DEF Last
    <2>4. QED
      BY <1>4, <1>6, <2>3
  <1>7. QED
    BY <1>5, <1>6

\* Where nothing is paged, nothing is after the step either.
LEMMA StillClosed ==
    ASSUME IInv, Busy, GoesOn(Tail(run.steps)), run.steps[1].op \notin {"page", "complete"},
           UNCHANGED <<consumer, report>>
    PROVE  PagingInv' /\ ClosedInv' /\ ReportType'
  <1>1. ~Paging
    <2>1. ASSUME Paging PROVE FALSE
      <3>1. RunType /\ CountInv /\ ShapeInv
        BY DEF IInv
      <3>2. PICK i \in 0..Count(Total(run.cmd), PerPage(run.cmd)) :
                    PagesLeft(run.cmd, run.steps, i)
        BY <2>1 DEF IInv, PagingInv
      <3>3. Count(Total(run.cmd), PerPage(run.cmd)) \in Nat
        BY <2>1, <3>1, PagesPositive
      <3>4. /\ i \in Nat /\ i <= Count(Total(run.cmd), PerPage(run.cmd))
            /\ i < Count(Total(run.cmd), PerPage(run.cmd))
                  \/ i = Count(Total(run.cmd), PerPage(run.cmd))
        BY <3>2, <3>3
      <3>5. QED
        BY <2>1, <3>1, <3>2, <3>4, PagingHead
    <2>2. QED
      BY <2>1
  <1>2. ~Paging'
    BY <1>1 DEF Paging, GoesOn, Busy
  <1>3. QED
    BY <1>1, <1>2 DEF IInv, PagingInv, ClosedInv, Closed, ReportType

\* After a page one more is received, and after the last the report is closed.
LEMMA PageSent ==
    ASSUME IInv, SendPage
    PROVE  Busy /\ GoesOn(Tail(run.steps)) /\ PagingInv' /\ ClosedInv' /\ ReportType'
  <1>1. RunType /\ CountInv /\ ShapeInv /\ ReportType
    BY DEF IInv
  <1>2. Busy /\ run.steps[1].op = "page" /\ Head(run.steps) = run.steps[1]
    BY <1>1, StepTypes DEF SendPage, Doing, Busy
  <1>3. Paging /\ GoesOn(Tail(run.steps)) /\ Len(run.steps) \in Nat /\ Len(run.steps) >= 1
    <2>1. Len(run.steps) \in Nat /\ Len(run.steps) >= 1
      BY <1>1, <1>2, StepTypes
    <2>2. Paging
      BY <1>1, <1>2, <2>1 DEF ShapeInv, Shape, Paging
    <2>3. QED
      BY <1>1, <1>2, <2>1, <2>2, Advances DEF SendPage
  <1>4. PICK n, per, count : /\ n = Total(run.cmd) /\ per = PerPage(run.cmd)
                             /\ count = Count(n, per)
    OBVIOUS
  <1>5. n \in Nat /\ per \in Nat \ {0} /\ count \in Nat /\ count >= 1
    BY <1>1, <1>3, <1>4, PagesPositive
  <1>6. PICK i \in 0..count : PagesLeft(run.cmd, run.steps, i) /\ Received(run.cmd, i)
    BY <1>3, <1>4 DEF IInv, PagingInv
  <1>7. i \in Nat /\ i <= count /\ (i < count \/ i = count)
    BY <1>5, <1>6
  <1>8. i < count
    BY <1>1, <1>2, <1>3, <1>4, <1>6, <1>7, PagingHead
  <1>9. /\ Len(run.steps) = count - i + (IF run.cmd.kind = "Customer" THEN 1 ELSE 0)
        /\ \A j \in 1..(count - i) :
              /\ run.steps[j].op = "page"
              /\ run.steps[j].seq = i + j - 1
              /\ run.steps[j].size = IF (i + j) * per <= n THEN per ELSE n % per
              /\ run.steps[j].tbc = (i + j < count)
    BY <1>4, <1>6, Zenon DEF PagesLeft
  <1>10. PICK size, more : size = run.steps[1].size /\ more = run.steps[1].tbc
    OBVIOUS
  <1>11. /\ run.steps[1].seq = i /\ more = (i + 1 < count)
         /\ size = IF (i + 1) * per <= n THEN per ELSE n % per
    <2>1. 1 \in 1..(count - i) /\ i + 1 - 1 = i
      BY <1>5, <1>7, <1>8
    <2>2. run.steps[1].seq = i + 1 - 1 /\ run.steps[1].tbc = (i + 1 < count)
      BY <1>9, <2>1, Zenon
    <2>3. size = IF (i + 1) * per <= n THEN per ELSE n % per
      BY <1>9, <1>10, <2>1
    <2>4. QED
      BY <1>10, <2>1, <2>2, <2>3, Zenon
  <1>12. size \in Nat /\ Sent(n, per, i) + size = Sent(n, per, i + 1)
    <2>1. i < Count(n, per)
      BY <1>4, <1>8
    <2>2. size = IF (i + 1) * per <= n THEN per ELSE n % per
      BY <1>11
    <2>3. n \in Nat /\ per \in Nat \ {0} /\ i \in Nat
      BY <1>5, <1>7
    <2>4. QED
      BY <2>1, <2>2, <2>3, PageAdds
  <1>13. Total(run.cmd) = IF run.cmd.kind = "Customer" THEN CustomerPages ELSE run.cmd.n
    BY DEF Total
  <1>14. PICK sofar : sofar = IF i = 0 THEN NoReport ELSE report
    OBVIOUS
  <1>15. sofar.entries = Sent(n, per, i) /\ sofar.entries \in Nat
    <2>1. CASE i = 0
      <3>1. sofar.entries = 0
        BY <1>14, <2>1 DEF NoReport
      <3>2. QED
        BY <1>5, <2>1, <3>1, AllSent
    <2>2. CASE i # 0
      <3>1. report.entries = Sent(n, per, i)
        BY <1>4, <1>6, <2>2 DEF Received
      <3>2. report.entries \in Nat
        BY <1>1 DEF ReportType
      <3>3. QED
        BY <1>14, <2>2, <3>1, <3>2
    <2>3. QED
      BY <2>1, <2>2
  <1>16. report' = [entries |-> sofar.entries + size, of |-> n, open |-> more]
    BY <1>2, <1>4, <1>10, <1>11, <1>13, <1>14, Zenon DEF SendPage
  <1>17. more \in BOOLEAN
    <2>1. run.steps[1] \in StepRec
      BY <1>1, <1>3, StepTypes
    <2>2. QED
      BY <1>10, <2>1 DEF StepRec
  <1>18. /\ report'.entries = Sent(n, per, i + 1) /\ report'.of = n
         /\ report' \in [entries : Nat, of : Nat, open : BOOLEAN]
    BY <1>5, <1>12, <1>15, <1>16, <1>17
  <1>19. report'.open = (i + 1 < count)
    <2>1. report'.open = more
      BY <1>16
    <2>2. QED
      BY <1>11, <2>1, Zenon
  <1>20. ReportType'
    BY <1>18 DEF ReportType
  <1>21. /\ Len(run'.steps) = Len(run.steps) - 1
         /\ \A j \in 1..Len(run'.steps) : run'.steps[j] = run.steps[j + 1]
         /\ Busy' => run'.cmd = run.cmd /\ Len(run.steps) >= 2
         /\ ~Busy' => run' = Idle /\ Len(run.steps) = 1
    BY <1>1, <1>2, <1>3, TailSteps
  <1>22. ASSUME Busy' PROVE PagingInv' /\ ClosedInv'
    <2>1. run'.cmd = run.cmd
      BY <1>21, <1>22
    <2>2. Paging'
      BY <1>3, <1>22, <2>1 DEF Paging
    <2>3. PICK k : k = i + 1
      OBVIOUS
    <2>4. k \in 0..count /\ k # 0
      BY <1>5, <1>7, <1>8, <2>3
    <2>5. Len(run'.steps) = count - k + (IF run.cmd.kind = "Customer" THEN 1 ELSE 0)
      BY <1>5, <1>7, <1>8, <1>9, <1>21, <2>3
    <2>6. ASSUME NEW j \in 1..(count - k)
          PROVE  /\ run'.steps[j].op = "page"
                 /\ run'.steps[j].seq = k + j - 1
                 /\ run'.steps[j].size = IF (k + j) * per <= n THEN per ELSE n % per
                 /\ run'.steps[j].tbc = (k + j < count)
      <3>1. j + 1 \in 1..(count - i) /\ i + (j + 1) = k + j /\ j \in 1..Len(run'.steps)
        BY <1>5, <1>7, <1>8, <2>3, <2>5
      <3>2. run'.steps[j] = run.steps[j + 1]
        BY <1>21, <3>1
      <3>3. run.steps[j + 1].op = "page" /\ run.steps[j + 1].seq = i + (j + 1) - 1
        BY <1>9, <3>1, Zenon
      <3>4. run.steps[j + 1].tbc = (i + (j + 1) < count)
        BY <1>9, <3>1, Zenon
      <3>5. run'.steps[j].tbc = (k + j < count)
        BY <3>1, <3>2, <3>4, Zenon
      <3>6. run'.steps[j].op = "page" /\ run'.steps[j].seq = k + j - 1
        <4>1. i + (j + 1) - 1 = k + j - 1
          BY <1>5, <1>7, <2>3, <2>4
        <4>2. QED
          BY <3>2, <3>3, <4>1, Zenon
      <3>7. run'.steps[j].size = IF (k + j) * per <= n THEN per ELSE n % per
        <4>1. run.steps[j + 1].size = IF (i + (j + 1)) * per <= n THEN per ELSE n % per
          BY <1>9, <3>1
        <4>2. QED
          BY <3>1, <3>2, <4>1, Zenon
      <3>8. QED
        BY <3>5, <3>6, <3>7, Zenon
    <2>7. PagesLeft(run.cmd, run'.steps, k)
      BY <1>4, <2>5, <2>6, Zenon DEF PagesLeft
    <2>8. Received(run.cmd, k)'
      <3>1. report'.open = (k < count)
        BY <1>19, <2>3, Zenon
      <3>2. report'.entries = Sent(n, per, k)
        BY <1>18, <2>3
      <3>3. QED
        BY <1>4, <1>18, <2>1, <2>4, <3>1, <3>2, Zenon DEF Received
    <2>9. QED
      BY <1>4, <2>1, <2>2, <2>4, <2>7, <2>8, Zenon DEF PagingInv, ClosedInv
  <1>23. ASSUME ~Busy' PROVE PagingInv' /\ ClosedInv'
    <2>1. i + 1 = count
      BY <1>5, <1>7, <1>8, <1>9, <1>21, <1>23
    <2>2. report'.open = (count < count) /\ report'.entries = Sent(n, per, count)
      BY <1>18, <1>19, <2>1, Zenon
    <2>3. Sent(n, per, count) = n /\ ~(count < count)
      BY <1>4, <1>5, AllSent
    <2>4. ~report'.open
      BY <2>2, <2>3, Zenon
    <2>5. Closed'
      BY <1>18, <2>2, <2>3, <2>4, Zenon DEF Closed
    <2>6. ~Paging'
      BY <1>23 DEF Paging
    <2>7. QED
      BY <2>5, <2>6 DEF PagingInv, ClosedInv
  <1>24. QED
    BY <1>2, <1>3, <1>20, <1>22, <1>23

-----------------------------------------------------------------------------
(* The `complete` of a command *)

\* The upload that still owns its slot reports a terminal status; one that was
\* superseded reports AcceptedCanceled.
LEMMA TerminalSteps ==
    ASSUME NEW owner \in BOOLEAN
    PROVE  \E a \in StepRec : /\ LogTerminal(owner) = <<a>>
                              /\ a.op = "status" /\ a.kind = "Log"
                              /\ owner => a.status \in Terminal("Log")
  <1>1. PICK s : s = CASE ~owner -> "AcceptedCanceled"
                       [] owner /\ config.uploadFails -> "UploadFailure"
                       [] OTHER -> "Uploaded"
    OBVIOUS
  <1>2. s \in Statuses /\ (owner => s \in Terminal("Log"))
    BY <1>1 DEF Statuses, Terminal
  <1>3. PICK a : a = Report("Log", s)
    OBVIOUS
  <1>4. "status" \in Ops /\ "Log" \in CmdKinds
    BY DEF Ops, CmdKinds
  <1>5. a \in StepRec /\ a.op = "status" /\ a.kind = "Log" /\ a.status = s
    BY <1>2, <1>3, <1>4, StepFields DEF Report
  <1>6. LogTerminal(owner) = <<a>>
    BY <1>1, <1>3, Zenon DEF LogTerminal
  <1>7. QED
    BY <1>2, <1>5, <1>6

\* One status is left, a terminal one if the slot was still held.
OneLeft(k, owner) ==
    /\ run'.cmd = run.cmd
    /\ \E a \in StepRec : /\ run'.steps = <<a>>
                          /\ a.op = "status" /\ a.kind = k
                          /\ owner => a.status \in Terminal(k)

\* `complete` frees the slot only if the request still owns it, and leaves at most
\* the terminal status to send.
LEMMA Completes ==
    ASSUME IInv, Complete
    PROVE  /\ Busy /\ Len(run.steps) = 1 /\ run.steps[1].op = "complete" /\ RunType'
           /\ Last.op = "complete"
           /\ \/ /\ run.cmd.kind \in Slots /\ Ahead(run.cmd.kind) /\ streaming' = streaming
                 /\ slot' = IF slot[run.cmd.kind] = run.cmd.id
                            THEN [slot EXCEPT ![run.cmd.kind] = NoId] ELSE slot
                 /\ \/ OneLeft(run.cmd.kind, slot[run.cmd.kind] = run.cmd.id)
                    \/ run' = Idle /\ slot[run.cmd.kind] # run.cmd.id
              \/ /\ run.cmd.kind \in Streams /\ run' = Idle /\ slot' = slot
                 /\ streaming' = [streaming EXCEPT ![run.cmd.kind] = @ \ {run.cmd.id}]
  <1>1. RunType /\ ShapeInv
    BY DEF IInv
  <1>2. Busy /\ Head(run.steps) = run.steps[1] /\ run.steps[1].op = "complete"
    BY <1>1, StepTypes DEF Complete, Doing, Busy
  <1>3. PICK k : k = run.cmd.kind
    OBVIOUS
  <1>4. /\ Len(run.steps) = 1 /\ run.steps[1].kind = k /\ k \in Slots \cup Streams
        /\ Last.op = "complete"
    <2>1. Len(run.steps) \in Nat /\ Len(run.steps) >= 1
      BY <1>1, <1>2, StepTypes
    <2>2. Len(run.steps) = 1 /\ run.steps[1].kind = k /\ k \in Slots \cup Streams
      <3>1. Shape(run.cmd, run.steps) /\ 1 \in 1..Len(run.steps)
        BY <1>1, <1>2, <2>1 DEF ShapeInv
      <3>2. 1 = Len(run.steps) /\ run.steps[1].kind = k /\ k \in Slots \cup Streams
        BY <1>2, <1>3, <3>1, Zenon DEF Shape
      <3>3. QED
        BY <3>2
    <2>3. QED
      BY <1>2, <2>2 DEF Last
  <1>5. Ahead(k)
    BY <1>2, <1>3, <1>4 DEF Ahead
  <1>6. PICK owner \in BOOLEAN : owner = Owns(k, run.cmd.id)
    BY DEF Owns
  <1>7. owner = (slot[k] = run.cmd.id)
    BY <1>6 DEF Owns
  <1>8. PICK more : more = CASE k = "Log" -> LogTerminal(owner)
                             [] k = "Firmware" /\ owner -> <<Report("Firmware", FirmwareTerminal)>>
                             [] OTHER -> <<>>
    OBVIOUS
  <1>9. CASE k \in Slots
    <2>1. k \notin Streams
      BY <1>9 DEF Slots, Streams
    <2>2. /\ streaming' = streaming /\ Advance(more)
          /\ slot' = IF owner THEN [slot EXCEPT ![k] = NoId] ELSE slot
      BY <1>2, <1>4, <1>6, <1>8, <2>1, Zenon DEF Complete
    <2>3. \/ \E a \in StepRec : /\ more = <<a>>
                                /\ a.op = "status" /\ a.kind = k
                                /\ owner => a.status \in Terminal(k)
          \/ more = <<>> /\ ~owner
      <3>1. CASE k = "Log"
        BY <1>6, <1>8, <3>1, TerminalSteps
      <3>2. CASE k = "Firmware" /\ owner
        <4>1. PICK a : a = Report("Firmware", FirmwareTerminal)
          OBVIOUS
        <4>2. "status" \in Ops /\ "Firmware" \in CmdKinds
          BY DEF Ops, CmdKinds
        <4>3. /\ a \in StepRec /\ a.op = "status" /\ a.kind = "Firmware"
              /\ a.status \in Terminal("Firmware")
          BY <4>1, <4>2, StepFields, TerminalStatus DEF Report
        <4>4. more = <<a>>
          BY <1>8, <3>2, <4>1
        <4>5. QED
          BY <3>2, <4>3, <4>4
      <3>3. CASE k = "Firmware" /\ ~owner
        BY <1>8, <3>3
      <3>4. QED
        BY <1>9, <3>1, <3>2, <3>3 DEF Slots
    <2>4. more \in StepSeqs
      BY <2>3, OneStep, EmptySeq DEF StepSeqs
    <2>5. GoesOn(more)
      BY <1>1, <1>2, <1>4, <2>2, <2>4, AdvancesTo
    <2>6. RunType'
      BY <2>5 DEF GoesOn
    <2>7. OneLeft(k, owner) \/ (run' = Idle /\ ~owner)
      <3>1. CASE more = <<>> /\ ~owner
        BY <2>5, <3>1 DEF GoesOn
      <3>2. ASSUME NEW a \in StepRec, more = <<a>>, a.op = "status", a.kind = k,
                   owner => a.status \in Terminal(k)
            PROVE  OneLeft(k, owner)
        <4>1. more # <<>>
          BY <3>2, OneStep
        <4>2. run'.steps = <<a>> /\ run'.cmd = run.cmd
          BY <2>5, <3>2, <4>1 DEF GoesOn
        <4>3. QED
          BY <3>2, <4>2 DEF OneLeft
      <3>3. QED
        BY <2>3, <3>1, <3>2
    <2>8. OneLeft(k, slot[k] = run.cmd.id) \/ (run' = Idle /\ slot[k] # run.cmd.id)
      BY <1>7, <2>7, Zenon
    <2>9. slot' = IF slot[k] = run.cmd.id THEN [slot EXCEPT ![k] = NoId] ELSE slot
      BY <1>7, <2>2, Zenon
    <2>10. QED
      BY <1>2, <1>3, <1>4, <1>5, <1>9, <2>2, <2>6, <2>8, <2>9, Zenon
  <1>10. CASE k \in Streams
    <2>1. k \notin Slots
      BY <1>10 DEF Slots, Streams
    <2>2. /\ slot' = slot /\ Advance(<<>>)
          /\ streaming' = [streaming EXCEPT ![k] = @ \ {run.cmd.id}]
      BY <1>2, <1>4, <2>1, Zenon DEF Complete
    <2>3. <<>> \in StepSeqs
      BY EmptySeq DEF StepSeqs
    <2>4. GoesOn(<<>>)
      BY <1>1, <1>2, <1>4, <2>2, <2>3, AdvancesTo
    <2>5. run' = Idle /\ RunType'
      BY <2>4 DEF GoesOn
    <2>6. QED
      BY <1>2, <1>3, <1>4, <1>10, <2>2, <2>5, Zenon
  <1>11. QED
    BY <1>4, <1>9, <1>10

-----------------------------------------------------------------------------
(* The channel *)

\* The consumer takes the command c, whose steps are p.
Began(c, p) ==
    /\ c \in CmdRec /\ Fits(c, p) /\ ~Busy /\ consumer = "alive" /\ Len(queue) >= 1
    /\ c = queue[1] /\ queue' \in Seq(CmdRec) /\ Len(queue') = Len(queue) - 1
    /\ \A i \in 1..Len(queue') : queue'[i] = queue[i + 1]
    /\ RunType' /\ run'.steps = p
    /\ p # <<>> => run'.cmd = c
    /\ p = <<>> => run' = Idle

\* The consumer takes the head of its channel and begins that command's program.
LEMMA Begins == ASSUME IInv, Take PROVE \E c, p : Began(c, p)
  <1>1. PICK q, c : q = queue /\ c = Head(queue)
    OBVIOUS
  <1>2. q \in Seq(CmdRec) /\ q # <<>> /\ ~Busy /\ consumer = "alive"
    BY <1>1, IdleIsNotBusy DEF IInv, QueueType, Take
  <1>3. /\ c \in CmdRec /\ c = q[1] /\ Len(q) \in Nat /\ Len(q) >= 1
        /\ Tail(q) \in Seq(CmdRec) /\ Len(Tail(q)) = Len(q) - 1
        /\ \A i \in 1..Len(Tail(q)) : Tail(q)[i] = q[i + 1]
    BY <1>1, <1>2
  <1>4. PICK p : p = Program(c)
    OBVIOUS
  <1>5. c.kind \in PageKinds \ {"Customer"} => c.n \in Nat
    BY <1>1, <1>3 DEF IInv, CountInv
  <1>6. Fits(c, p)
    BY <1>3, <1>4, <1>5, Programs
  <1>7. run' = (IF p = <<>> THEN Idle ELSE [cmd |-> c, steps |-> p]) /\ queue' = Tail(q)
    BY <1>1, <1>4, Zenon DEF Take
  <1>8. p \in StepSeqs /\ c \in AnyCmd
    BY <1>3, <1>6 DEF Fits, AnyCmd
  <1>9. /\ RunType' /\ run'.steps = p
        /\ p # <<>> => run'.cmd = c
        /\ p = <<>> => run' = Idle
    <2>1. CASE p = <<>>
      BY <1>7, <2>1, IdleFields DEF RunType
    <2>2. CASE p # <<>>
      <3>1. run' = [cmd |-> c, steps |-> p]
        BY <1>7, <2>2
      <3>2. run'.steps = p /\ run'.cmd = c /\ run' \in RunRec
        BY <1>8, <3>1 DEF RunRec
      <3>3. QED
        BY <1>3, <2>2, <3>2 DEF RunType
    <2>3. QED
      BY <2>1, <2>2
  <1>10. Began(c, p)
    BY <1>1, <1>2, <1>3, <1>6, <1>7, <1>9 DEF Began
  <1>11. QED
    BY <1>10

\* A command sent is appended to the channel of a living consumer, else dropped.
LEMMA Sent1 ==
    ASSUME QueueType, NEW c \in CmdRec, Send(c)
    PROVE  /\ queue' \in Seq(CmdRec) /\ Len(queue) \in Nat
           /\ \A i \in 1..Len(queue) : i \in 1..Len(queue') /\ queue'[i] = queue[i]
           /\ \A i \in 1..Len(queue') :
                 i \in 1..Len(queue) \/ (i = Len(queue) + 1 /\ queue'[i] = c)
           /\ consumer = "alive" => /\ Len(queue) + 1 \in 1..Len(queue')
                                    /\ queue'[Len(queue) + 1] = c
           /\ consumer # "alive" => queue' = queue
  <1>1. CASE consumer = "alive"
    <2>1. queue' = Append(queue, c)
      BY <1>1 DEF Send
    <2>2. QED
      BY <1>1, <2>1 DEF QueueType
  <1>2. CASE consumer # "alive"
    <2>1. queue' = queue
      BY <1>2 DEF Send
    <2>2. QED
      BY <1>2, <2>1 DEF QueueType
  <1>3. QED
    BY <1>1, <1>2

\* A command that has no slot.
LEMMA Sends ==
    ASSUME IInv, NEW c \in CmdRec, Send(c), c.kind \notin Slots, c.id \in Ids \cup {NoId},
           c.kind \in PageKinds \ {"Customer"} => c.n \in Nat,
           UNCHANGED <<consumer, run, slot, latest, reported>>
    PROVE  /\ QueueType' /\ IdType' /\ GoneInv' /\ OrderInv' /\ HeldInv' /\ FreeInv' /\ CountInv'
  <1>1. /\ queue' \in Seq(CmdRec) /\ Len(queue) \in Nat
        /\ \A i \in 1..Len(queue) : i \in 1..Len(queue') /\ queue'[i] = queue[i]
        /\ \A i \in 1..Len(queue') :
              i \in 1..Len(queue) \/ (i = Len(queue) + 1 /\ queue'[i] = c)
        /\ consumer # "alive" => queue' = queue
    BY Sent1 DEF IInv
  <1>2. \A k \in Slots : Ahead(k)' = Ahead(k)
    BY DEF Ahead, Busy, Last
  <1>3. \A i \in 1..Len(queue') : queue'[i].kind \in Slots =>
              i \in 1..Len(queue) /\ queue'[i] = queue[i]
    BY <1>1
  <1>4. QueueType' /\ IdType' /\ CountInv'
    BY <1>1 DEF IInv, QueueType, IdType, CountInv
  <1>5. GoneInv'
    BY <1>1 DEF IInv, GoneInv
  <1>6. OrderInv'
    BY <1>2, <1>3 DEF IInv, OrderInv, Busy
  <1>7. HeldInv'
    BY <1>1, <1>2 DEF IInv, HeldInv
  <1>8. FreeInv'
    BY <1>2, <1>3 DEF IInv, FreeInv, Busy, Last
  <1>9. QED
    BY <1>4, <1>5, <1>6, <1>7, <1>8

\* Requests in flight keep their command when one is sent.
LEMMA StreamsKept ==
    ASSUME IInv, NEW c \in CmdRec, Send(c), UNCHANGED <<consumer, run>>,
           \A k \in Streams : \A r \in streaming'[k] :
               r \in streaming[k] \/ (consumer = "alive" /\ c.kind = k /\ c.id = r)
    PROVE  StreamInv'
  <1>1. /\ \A i \in 1..Len(queue) : i \in 1..Len(queue') /\ queue'[i] = queue[i]
        /\ consumer = "alive" => /\ Len(queue) + 1 \in 1..Len(queue')
                                 /\ queue'[Len(queue) + 1] = c
    BY Sent1 DEF IInv
  <1>2. SUFFICES ASSUME NEW k \in Streams, consumer = "alive", NEW r \in streaming'[k]
                 PROVE  \/ \E i \in 1..Len(queue') : queue'[i].kind = k /\ queue'[i].id = r
                        \/ Busy /\ run.cmd.kind = k /\ run.cmd.id = r
    BY DEF StreamInv, Busy
  <1>3. CASE r \in streaming[k]
    BY <1>1, <1>2, <1>3 DEF IInv, StreamInv
  <1>4. CASE c.kind = k /\ c.id = r
    BY <1>1, <1>2, <1>4
  <1>5. QED
    BY <1>2, <1>3, <1>4

\* Every step keeps the invariant.
LEMMA StepInv == ASSUME IInv, [Next]_vars PROVE IInv'
  <1>1. ASSUME NEW r \in Ids, GetLog(r) PROVE IInv'
    <2>1. UNCHANGED <<config, consumer, queue, run, slot, streaming, reported, latest, report>>
      BY <1>1 DEF GetLog, Serve
    <2>2. \/ inbound' = NoInbound
          \/ inbound'.kind = "Log" /\ inbound'.id = r /\ r >= latest["Log"]
      BY <1>1 DEF GetLog
    <2>3. /\ ConfigType' /\ ConsumerType' /\ QueueType' /\ RunType' /\ IdType'
          /\ SlotType' /\ StreamType' /\ ReportedType' /\ ReportType'
      BY <2>1 DEF IInv, ConfigType, ConsumerType, QueueType, RunType, IdType, SlotType, StreamType,
         ReportedType, ReportType
    <2>4. GoneInv' /\ ShapeInv' /\ CountInv'
      BY <2>1 DEF IInv, GoneInv, ShapeInv, Busy, CountInv
    <2>5. OrderInv' /\ HeldInv' /\ FreeInv' /\ StreamInv'
      BY <2>1 DEF IInv, OrderInv, Ahead, Busy, Last, HeldInv, FreeInv, StreamInv
    <2>6. PagingInv' /\ ClosedInv'
      BY <2>1 DEF IInv, PagingInv, Paging, Busy, Received, Closed, ClosedInv
    <2>7. ServedType'
      BY <1>1, JobsAssumption DEF IInv, ServedType, GetLog, Serve
    <2>8. InboundInv'
      BY <2>1, <2>2 DEF InboundInv, Slots
    <2>9. QED
      BY <2>3, <2>4, <2>5, <2>6, <2>7, <2>8 DEF IInv
  <1>2. ASSUME NEW r \in Ids, UpdateFirmware(r) PROVE IInv'
    <2>1. UNCHANGED <<config, consumer, queue, run, slot, streaming, reported, latest, report>>
      BY <1>2 DEF UpdateFirmware, Serve
    <2>2. \/ inbound' = NoInbound
          \/ inbound'.kind = "Firmware" /\ inbound'.id = r /\ r >= latest["Firmware"]
      BY <1>2 DEF UpdateFirmware
    <2>3. /\ ConfigType' /\ ConsumerType' /\ QueueType' /\ RunType' /\ IdType'
          /\ SlotType' /\ StreamType' /\ ReportedType' /\ ReportType'
      BY <2>1 DEF IInv, ConfigType, ConsumerType, QueueType, RunType, IdType, SlotType, StreamType,
         ReportedType, ReportType
    <2>4. GoneInv' /\ ShapeInv' /\ CountInv'
      BY <2>1 DEF IInv, GoneInv, ShapeInv, Busy, CountInv
    <2>5. OrderInv' /\ HeldInv' /\ FreeInv' /\ StreamInv'
      BY <2>1 DEF IInv, OrderInv, Ahead, Busy, Last, HeldInv, FreeInv, StreamInv
    <2>6. PagingInv' /\ ClosedInv'
      BY <2>1 DEF IInv, PagingInv, Paging, Busy, Received, Closed, ClosedInv
    <2>7. ServedType'
      BY <1>2, JobsAssumption DEF IInv, ServedType, UpdateFirmware, Serve
    <2>8. InboundInv'
      BY <2>1, <2>2 DEF InboundInv, Slots
    <2>9. QED
      BY <2>3, <2>4, <2>5, <2>6, <2>7, <2>8 DEF IInv
  <1>3. ASSUME Begin PROVE IInv'
    <2>1. UNCHANGED <<config, consumer, run, streaming, reported, report, served>>
      BY <1>3 DEF Begin
    <2>2. PICK k, r : k = inbound.kind /\ r = inbound.id
      OBVIOUS
    <2>3. /\ k \in Slots /\ r \in Ids /\ r >= latest[k] /\ r \in Nat /\ r # NoId /\ latest[k] \in Nat
          /\ k \notin PageKinds
      BY <1>3, <2>2, JobsAssumption DEF IInv, InboundInv, Begin, Ids, SlotType, NoId, Slots,
         PageKinds
    <2>4. /\ slot' = [slot EXCEPT ![k] = r] /\ latest' = [latest EXCEPT ![k] = r]
          /\ inbound' = NoInbound
      BY <1>3, <2>2 DEF Begin
    <2>5. /\ slot'[k] = r /\ latest'[k] = r
          /\ \A m \in Slots : m # k => slot'[m] = slot[m] /\ latest'[m] = latest[m]
      BY <2>3, <2>4 DEF IInv, SlotType
    <2>6. PICK c : c = Cmd(k, r, 0)
      OBVIOUS
    <2>7. c \in CmdRec /\ c.kind = k /\ c.id = r
      BY <2>3, <2>6 DEF Cmd, CmdRec, CmdKinds, Slots
    <2>8. /\ slot[k] # r => Send(c)
          /\ slot[k] = r => queue' = queue
      BY <1>3, <2>2, <2>6 DEF Begin
    <2>9. /\ queue' \in Seq(CmdRec) /\ Len(queue) \in Nat
          /\ \A i \in 1..Len(queue) : i \in 1..Len(queue') /\ queue'[i] = queue[i]
          /\ \A i \in 1..Len(queue') :
                i \in 1..Len(queue) \/ (i = Len(queue) + 1 /\ queue'[i] = c /\ slot[k] # r)
          /\ consumer = "alive" /\ slot[k] # r =>
                Len(queue) + 1 \in 1..Len(queue') /\ queue'[Len(queue) + 1] = c
          /\ consumer # "alive" => queue' = queue
      <3>1. CASE slot[k] # r
        BY <2>7, <2>8, <3>1, Sent1 DEF IInv
      <3>2. CASE slot[k] = r
        BY <2>8, <3>2 DEF IInv, QueueType
      <3>3. QED
        BY <3>1, <3>2
    <2>10. \A m : (Ahead(m)' = Ahead(m)) /\ (Busy' = Busy) /\ (Last' = Last)
      BY <2>1 DEF Ahead, Busy, Last
    <2>11. slot[k] # r /\ consumer = "alive" =>
             /\ \A i \in 1..Len(queue) : queue[i].kind = k => queue[i].id < r
             /\ Ahead(k) => run.cmd.id < r
      <3>1. SUFFICES ASSUME slot[k] # r, consumer = "alive"
                     PROVE  /\ \A i \in 1..Len(queue) : queue[i].kind = k => queue[i].id < r
                            /\ Ahead(k) => run.cmd.id < r
        OBVIOUS
      <3>2. CASE slot[k] = NoId
        BY <2>3, <3>1, <3>2 DEF IInv, FreeInv
      <3>3. CASE slot[k] # NoId
        <4>1. latest[k] < r
          BY <2>3, <3>1, <3>3 DEF IInv, HeldInv, Ids
        <4>2. \A i \in 1..Len(queue) : queue[i].kind = k =>
                  queue[i].id \in Nat /\ queue[i].id <= latest[k]
          BY <2>3 DEF IInv, OrderInv, Ids
        <4>3. Ahead(k) => run.cmd.id \in Nat /\ run.cmd.id <= latest[k]
          BY <2>3 DEF IInv, OrderInv, Ahead, Ids
        <4>4. QED
          BY <2>3, <4>1, <4>2, <4>3
      <3>4. QED
        BY <3>2, <3>3
    <2>12. /\ ConfigType' /\ ConsumerType' /\ RunType' /\ StreamType'
           /\ ReportedType' /\ ServedType' /\ ReportType'
      BY <2>1 DEF IInv, ConfigType, ConsumerType, RunType, StreamType, ReportedType, ServedType,
         ReportType
    <2>13. ShapeInv'
      BY <2>1 DEF IInv, ShapeInv, Busy
    <2>14. PagingInv' /\ ClosedInv'
      BY <2>1 DEF IInv, PagingInv, Paging, Busy, Received, Closed, ClosedInv
    <2>15. QueueType'
      BY <2>9 DEF QueueType
    <2>16. IdType'
      BY <2>1, <2>3, <2>7, <2>9 DEF IInv, IdType
    <2>17. SlotType'
      BY <2>3, <2>4 DEF IInv, SlotType
    <2>18. InboundInv'
      BY <2>4 DEF InboundInv
    <2>19. GoneInv'
      BY <2>1, <2>9 DEF IInv, GoneInv
    <2>20. OrderInv'
      <3>1. ASSUME NEW m \in Slots, m # k
            PROVE  \A i \in 1..Len(queue') : queue'[i].kind = m =>
                       i \in 1..Len(queue) /\ queue'[i] = queue[i]
        BY <2>7, <2>9, <3>1
      <3>2. ASSUME NEW m \in Slots, m # k
            PROVE  /\ \A i \in 1..Len(queue') : queue'[i].kind = m =>
                         /\ queue'[i].id \in Ids /\ queue'[i].id <= latest'[m]
                         /\ Ahead(m)' => run'.cmd.id < queue'[i].id
                         /\ \A j \in 1..Len(queue') : i < j /\ queue'[j].kind = m =>
                               queue'[i].id < queue'[j].id
                   /\ Busy' /\ run'.cmd.kind = m => run'.cmd.id \in Ids /\ run'.cmd.id <= latest'[m]
        BY <2>1, <2>5, <2>10, <3>1, <3>2 DEF IInv, OrderInv
      <3>3. /\ \A i \in 1..Len(queue) : queue[i].kind = k => queue[i].id \in Ids /\ queue[i].id <= r
            /\ Busy /\ run.cmd.kind = k => run.cmd.id \in Ids /\ run.cmd.id <= r
        BY <2>3 DEF IInv, OrderInv, Ids
      <3>4. ASSUME NEW i \in 1..Len(queue'), queue'[i].kind = k
            PROVE  /\ queue'[i].id \in Ids /\ queue'[i].id <= latest'[k]
                   /\ Ahead(k)' => run'.cmd.id < queue'[i].id
        <4>1. CASE i \in 1..Len(queue)
          BY <2>1, <2>3, <2>5, <2>9, <2>10, <3>3, <3>4, <4>1 DEF IInv, OrderInv
        <4>2. CASE ~(i \in 1..Len(queue))
          <5>1. queue'[i].id = r /\ slot[k] # r /\ consumer = "alive"
            BY <2>7, <2>9, <4>2 DEF IInv, ConsumerType
          <5>2. QED
            BY <2>1, <2>3, <2>5, <2>10, <2>11, <5>1
        <4>3. QED
          BY <4>1, <4>2
      <3>5. ASSUME NEW i \in 1..Len(queue'), queue'[i].kind = k,
                   NEW j \in 1..Len(queue'), queue'[j].kind = k, i < j
            PROVE  queue'[i].id < queue'[j].id
        <4>1. i \in 1..Len(queue)
          BY <2>9, <3>5
        <4>2. CASE j \in 1..Len(queue)
          BY <2>3, <2>9, <3>5, <4>1, <4>2 DEF IInv, OrderInv
        <4>3. CASE ~(j \in 1..Len(queue))
          <5>1. queue'[j].id = r /\ slot[k] # r /\ consumer = "alive"
            BY <2>7, <2>9, <4>3 DEF IInv, ConsumerType
          <5>2. QED
            BY <2>9, <2>11, <3>5, <4>1, <5>1
        <4>4. QED
          BY <4>2, <4>3
      <3>6. Busy' /\ run'.cmd.kind = k => run'.cmd.id \in Ids /\ run'.cmd.id <= latest'[k]
        BY <2>1, <2>5, <2>10, <3>3
      <3>7. QED
        BY <3>2, <3>4, <3>5, <3>6 DEF OrderInv
    <2>21. HeldInv'
      <3>1. SUFFICES ASSUME NEW m \in Slots, slot'[m] # NoId, consumer = "alive"
                     PROVE  /\ slot'[m] = latest'[m]
                            /\ \/ \E i \in 1..Len(queue') :
                                     queue'[i].kind = m /\ queue'[i].id = slot'[m]
                               \/ Ahead(m)' /\ run'.cmd.id = slot'[m]
        BY <2>1 DEF HeldInv
      <3>2. CASE m # k
        BY <2>1, <2>5, <2>9, <2>10, <3>1, <3>2 DEF IInv, HeldInv
      <3>3. CASE m = k /\ slot[k] # r
        BY <2>5, <2>7, <2>9, <3>1, <3>3
      <3>4. CASE m = k /\ slot[k] = r
        BY <2>1, <2>3, <2>5, <2>9, <2>10, <3>1, <3>4 DEF IInv, HeldInv
      <3>5. QED
        BY <3>2, <3>3, <3>4
    <2>22. FreeInv'
      <3>1. slot'[k] # NoId
        BY <2>3, <2>5
      <3>2. ASSUME NEW m \in Slots, m # k
            PROVE  \A i \in 1..Len(queue') : queue'[i].kind = m =>
                       i \in 1..Len(queue) /\ queue'[i] = queue[i]
        BY <2>7, <2>9, <3>2
      <3>3. QED
        BY <2>1, <2>5, <2>10, <3>1, <3>2 DEF IInv, FreeInv
    <2>23. StreamInv'
      BY <2>1, <2>9, <2>10 DEF IInv, StreamInv
    <2>24. CountInv'
      BY <2>1, <2>3, <2>7, <2>9 DEF IInv, CountInv
    <2>25. QED
      BY <2>12, <2>13, <2>14, <2>15, <2>16, <2>17, <2>18, <2>19, <2>20, <2>21, <2>22, <2>23,
         <2>24 DEF IInv
  <1>4. ASSUME NEW r \in Ids, PublishFirmware(r) PROVE IInv'
    <2>1. UNCHANGED <<config, consumer, run, inbound, slot, reported, latest, report>>
      BY <1>4 DEF PublishFirmware, BeginStream, Serve
    <2>2. PICK c : c = Cmd("Publish", r, 0)
      OBVIOUS
    <2>3. c \in CmdRec /\ c.kind = "Publish" /\ c.id = r /\ c.kind \notin Slots /\ "Publish" \in Streams
      BY <2>2, JobsAssumption DEF Cmd, CmdRec, CmdKinds, Slots, Streams, Ids
    <2>4. \/ /\ Send(c)
             /\ streaming' = IF consumer = "alive"
                             THEN [streaming EXCEPT !["Publish"] = @ \cup {r}] ELSE streaming
          \/ queue' = queue /\ streaming' = streaming
      BY <1>4, <2>2 DEF PublishFirmware, BeginStream
    <2>5. QueueType' /\ IdType' /\ GoneInv' /\ OrderInv' /\ HeldInv' /\ FreeInv' /\ CountInv'
      <3>1. CASE Send(c)
        BY <2>1, <2>3, <3>1, Sends DEF PageKinds
      <3>2. CASE queue' = queue
        BY <2>1, <3>2 DEF IInv, QueueType, IdType, GoneInv, OrderInv, HeldInv, FreeInv,
           CountInv, Ahead,
           Busy, Last
      <3>3. QED
        BY <2>4, <3>1, <3>2
    <2>6. ConfigType' /\ ConsumerType' /\ RunType' /\ SlotType' /\ ReportedType' /\ ReportType'
      BY <2>1 DEF IInv, ConfigType, ConsumerType, RunType, SlotType, ReportedType, ReportType
    <2>7. InboundInv' /\ ShapeInv'
      BY <2>1 DEF IInv, InboundInv, ShapeInv, Busy
    <2>8. PagingInv' /\ ClosedInv'
      BY <2>1 DEF IInv, PagingInv, Paging, Busy, Received, Closed, ClosedInv
    <2>9. StreamType'
      BY <2>3, <2>4 DEF IInv, StreamType
    <2>10. ServedType'
      BY <1>4, JobsAssumption DEF IInv, ServedType, PublishFirmware, BeginStream, Serve
    <2>11. StreamInv'
      <3>1. CASE queue' = queue /\ streaming' = streaming
        BY <2>1, <3>1 DEF IInv, StreamInv, Busy
      <3>2. CASE /\ Send(c)
                 /\ streaming' = IF consumer = "alive"
                                 THEN [streaming EXCEPT !["Publish"] = @ \cup {r}] ELSE streaming
        <4>1. \A k \in Streams : \A s \in streaming'[k] :
                  s \in streaming[k] \/ (consumer = "alive" /\ c.kind = k /\ c.id = s)
          BY <2>3, <3>2 DEF IInv, StreamType
        <4>2. QED
          BY <2>1, <2>3, <3>2, <4>1, StreamsKept
      <3>3. QED
        BY <2>4, <3>1, <3>2
    <2>12. QED
      BY <2>5, <2>6, <2>7, <2>8, <2>9, <2>10, <2>11 DEF IInv
  <1>5. ASSUME NEW r \in Ids, CustomerInformation(r) PROVE IInv'
    <2>1. UNCHANGED <<config, consumer, run, inbound, slot, reported, latest, report>>
      BY <1>5 DEF CustomerInformation, BeginStream, Serve
    <2>2. PICK c : c = Cmd("Customer", r, 0)
      OBVIOUS
    <2>3. c \in CmdRec /\ c.kind = "Customer" /\ c.id = r /\ c.kind \notin Slots /\ "Customer" \in Streams
      BY <2>2, JobsAssumption DEF Cmd, CmdRec, CmdKinds, Slots, Streams, Ids
    <2>4. \/ /\ Send(c)
             /\ streaming' = IF consumer = "alive"
                             THEN [streaming EXCEPT !["Customer"] = @ \cup {r}] ELSE streaming
          \/ queue' = queue /\ streaming' = streaming
      BY <1>5, <2>2 DEF CustomerInformation, BeginStream
    <2>5. QueueType' /\ IdType' /\ GoneInv' /\ OrderInv' /\ HeldInv' /\ FreeInv' /\ CountInv'
      <3>1. CASE Send(c)
        BY <2>1, <2>3, <3>1, Sends DEF PageKinds
      <3>2. CASE queue' = queue
        BY <2>1, <3>2 DEF IInv, QueueType, IdType, GoneInv, OrderInv, HeldInv, FreeInv,
           CountInv, Ahead,
           Busy, Last
      <3>3. QED
        BY <2>4, <3>1, <3>2
    <2>6. ConfigType' /\ ConsumerType' /\ RunType' /\ SlotType' /\ ReportedType' /\ ReportType'
      BY <2>1 DEF IInv, ConfigType, ConsumerType, RunType, SlotType, ReportedType, ReportType
    <2>7. InboundInv' /\ ShapeInv'
      BY <2>1 DEF IInv, InboundInv, ShapeInv, Busy
    <2>8. PagingInv' /\ ClosedInv'
      BY <2>1 DEF IInv, PagingInv, Paging, Busy, Received, Closed, ClosedInv
    <2>9. StreamType'
      BY <2>3, <2>4 DEF IInv, StreamType
    <2>10. ServedType'
      BY <1>5, JobsAssumption DEF IInv, ServedType, CustomerInformation, BeginStream, Serve
    <2>11. StreamInv'
      <3>1. CASE queue' = queue /\ streaming' = streaming
        BY <2>1, <3>1 DEF IInv, StreamInv, Busy
      <3>2. CASE /\ Send(c)
                 /\ streaming' = IF consumer = "alive"
                                 THEN [streaming EXCEPT !["Customer"] = @ \cup {r}] ELSE streaming
        <4>1. \A k \in Streams : \A s \in streaming'[k] :
                  s \in streaming[k] \/ (consumer = "alive" /\ c.kind = k /\ c.id = s)
          BY <2>3, <3>2 DEF IInv, StreamType
        <4>2. QED
          BY <2>1, <2>3, <3>2, <4>1, StreamsKept
      <3>3. QED
        BY <2>4, <3>1, <3>2
    <2>12. QED
      BY <2>5, <2>6, <2>7, <2>8, <2>9, <2>10, <2>11 DEF IInv
  <1>6. ASSUME NEW k \in {"Report", "Display"}, NEW n \in 0..MaxEntries, QueueReport(k, n) PROVE IInv'
    <2>1. UNCHANGED <<config, consumer, run, inbound, slot, streaming, reported, latest, report>>
      BY <1>6 DEF QueueReport, Serve
    <2>2. PICK c : c = Cmd(k, NoId, n)
      OBVIOUS
    <2>3. /\ c \in CmdRec /\ c.kind \notin Slots /\ c.id \in Ids \cup {NoId}
          /\ c.kind \in PageKinds \ {"Customer"} => c.n \in Nat
      BY <1>6, <2>2, JobsAssumption DEF Cmd, CmdRec, CmdKinds, Slots, NoId
    <2>4. Send(c) \/ queue' = queue
      BY <1>6, <2>2 DEF QueueReport
    <2>5. QueueType' /\ IdType' /\ GoneInv' /\ OrderInv' /\ HeldInv' /\ FreeInv' /\ CountInv'
      <3>1. CASE Send(c)
        BY <2>1, <2>3, <3>1, Sends
      <3>2. CASE queue' = queue
        BY <2>1, <3>2 DEF IInv, QueueType, IdType, GoneInv, OrderInv, HeldInv, FreeInv,
           CountInv, Ahead,
           Busy, Last
      <3>3. QED
        BY <2>4, <3>1, <3>2
    <2>6. /\ ConfigType' /\ ConsumerType' /\ RunType' /\ SlotType'
          /\ StreamType' /\ ReportedType' /\ ReportType'
      BY <2>1 DEF IInv, ConfigType, ConsumerType, RunType, SlotType, StreamType, ReportedType,
         ReportType
    <2>7. InboundInv' /\ ShapeInv'
      BY <2>1 DEF IInv, InboundInv, ShapeInv, Busy
    <2>8. PagingInv' /\ ClosedInv'
      BY <2>1 DEF IInv, PagingInv, Paging, Busy, Received, Closed, ClosedInv
    <2>9. ServedType'
      BY <1>6, JobsAssumption DEF IInv, ServedType, QueueReport, Serve
    <2>10. StreamInv'
      <3>1. CASE queue' = queue
        BY <2>1, <3>1 DEF IInv, StreamInv, Busy
      <3>2. CASE Send(c)
        BY <2>1, <2>3, <3>2, StreamsKept
      <3>3. QED
        BY <2>4, <3>1, <3>2
    <2>11. QED
      BY <2>5, <2>6, <2>7, <2>8, <2>9, <2>10 DEF IInv
  <1>7. ASSUME NEW v \in {"V16J", "V201"},
               NEW what \in Triggers(v) \cup Unimplemented(v),
               NEW e \in Targets \cup {Whole}, what \in Triggers(v), TriggerMessage(v, what, e) PROVE IInv'
    <2>1. UNCHANGED <<config, consumer, run, inbound, slot, streaming, reported, latest, report>>
      BY <1>7 DEF TriggerMessage, Serve
    <2>2. PICK c : c = Cmd(what, NoId, e)
      OBVIOUS
    <2>3. /\ c \in CmdRec /\ c.kind \notin Slots /\ c.id \in Ids \cup {NoId}
          /\ c.kind \in PageKinds \ {"Customer"} => c.n \in Nat
      BY <1>7, <2>2, JobsAssumption
      DEF Cmd, CmdRec, CmdKinds, Slots, NoId, PageKinds, Triggers, Whole
    <2>4. Send(c) \/ queue' = queue
      BY <1>7, <2>2 DEF TriggerMessage
    <2>5. QueueType' /\ IdType' /\ GoneInv' /\ OrderInv' /\ HeldInv' /\ FreeInv' /\ CountInv'
      <3>1. CASE Send(c)
        BY <2>1, <2>3, <3>1, Sends
      <3>2. CASE queue' = queue
        BY <2>1, <3>2 DEF IInv, QueueType, IdType, GoneInv, OrderInv, HeldInv, FreeInv,
           CountInv, Ahead,
           Busy, Last
      <3>3. QED
        BY <2>4, <3>1, <3>2
    <2>6. /\ ConfigType' /\ ConsumerType' /\ RunType' /\ SlotType'
          /\ StreamType' /\ ReportedType' /\ ReportType'
      BY <2>1 DEF IInv, ConfigType, ConsumerType, RunType, SlotType, StreamType, ReportedType,
         ReportType
    <2>7. InboundInv' /\ ShapeInv'
      BY <2>1 DEF IInv, InboundInv, ShapeInv, Busy
    <2>8. PagingInv' /\ ClosedInv'
      BY <2>1 DEF IInv, PagingInv, Paging, Busy, Received, Closed, ClosedInv
    <2>9. ServedType'
      BY <1>7, JobsAssumption DEF IInv, ServedType, TriggerMessage, Serve
    <2>10. StreamInv'
      <3>1. CASE queue' = queue
        BY <2>1, <3>1 DEF IInv, StreamInv, Busy
      <3>2. CASE Send(c)
        BY <2>1, <2>3, <3>2, StreamsKept
      <3>3. QED
        BY <2>4, <3>1, <3>2
    <2>11. QED
      BY <2>5, <2>6, <2>7, <2>8, <2>9, <2>10 DEF IInv
  <1>8. ASSUME NEW v \in {"V16J", "V201"}, NEW what, NEW e, what \notin Triggers(v),
               TriggerMessage(v, what, e)
        PROVE IInv'
    <2>1. UNCHANGED <<config, consumer, queue, run, inbound, slot, streaming, reported, latest,
                        report>>
      BY <1>8 DEF TriggerMessage, Serve
    <2>2. /\ ConfigType' /\ ConsumerType' /\ QueueType' /\ RunType' /\ IdType'
          /\ SlotType' /\ StreamType' /\ ReportedType' /\ ReportType'
      BY <2>1 DEF IInv, ConfigType, ConsumerType, QueueType, RunType, IdType, SlotType, StreamType,
         ReportedType, ReportType
    <2>3. InboundInv' /\ GoneInv' /\ ShapeInv' /\ CountInv'
      BY <2>1 DEF IInv, InboundInv, GoneInv, ShapeInv, Busy, CountInv
    <2>4. OrderInv' /\ HeldInv' /\ FreeInv' /\ StreamInv'
      BY <2>1 DEF IInv, OrderInv, Ahead, Busy, Last, HeldInv, FreeInv, StreamInv
    <2>5. PagingInv' /\ ClosedInv'
      BY <2>1 DEF IInv, PagingInv, Paging, Busy, Received, Closed, ClosedInv
    <2>6. ServedType'
      BY <1>8, JobsAssumption DEF IInv, ServedType, TriggerMessage, Serve
    <2>7. QED
      BY <2>2, <2>3, <2>4, <2>5, <2>6 DEF IInv
  <1>9. ASSUME GetDiagnostics PROVE IInv'
    <2>1. UNCHANGED <<config, consumer, run, inbound, slot, streaming, reported, latest, report>>
      BY <1>9 DEF GetDiagnostics, Serve
    <2>2. PICK c : c = Cmd("Diagnostics", NoId, 0)
      OBVIOUS
    <2>3. /\ c \in CmdRec /\ c.kind \notin Slots /\ c.id \in Ids \cup {NoId}
          /\ c.kind \in PageKinds \ {"Customer"} => c.n \in Nat
      BY <2>2 DEF Cmd, CmdRec, CmdKinds, Slots, NoId, PageKinds
    <2>4. Send(c) \/ queue' = queue
      BY <1>9, <2>2 DEF GetDiagnostics
    <2>5. QueueType' /\ IdType' /\ GoneInv' /\ OrderInv' /\ HeldInv' /\ FreeInv' /\ CountInv'
      <3>1. CASE Send(c)
        BY <2>1, <2>3, <3>1, Sends
      <3>2. CASE queue' = queue
        BY <2>1, <3>2 DEF IInv, QueueType, IdType, GoneInv, OrderInv, HeldInv, FreeInv,
           CountInv, Ahead,
           Busy, Last
      <3>3. QED
        BY <2>4, <3>1, <3>2
    <2>6. /\ ConfigType' /\ ConsumerType' /\ RunType' /\ SlotType'
          /\ StreamType' /\ ReportedType' /\ ReportType'
      BY <2>1 DEF IInv, ConfigType, ConsumerType, RunType, SlotType, StreamType, ReportedType,
         ReportType
    <2>7. InboundInv' /\ ShapeInv'
      BY <2>1 DEF IInv, InboundInv, ShapeInv, Busy
    <2>8. PagingInv' /\ ClosedInv'
      BY <2>1 DEF IInv, PagingInv, Paging, Busy, Received, Closed, ClosedInv
    <2>9. ServedType'
      BY <1>9, JobsAssumption DEF IInv, ServedType, GetDiagnostics, Serve
    <2>10. StreamInv'
      <3>1. CASE queue' = queue
        BY <2>1, <3>1 DEF IInv, StreamInv, Busy
      <3>2. CASE Send(c)
        BY <2>1, <2>3, <3>2, StreamsKept
      <3>3. QED
        BY <2>4, <3>1, <3>2
    <2>11. QED
      BY <2>5, <2>6, <2>7, <2>8, <2>9, <2>10 DEF IInv
  <1>10. ASSUME UpdateFirmware16 PROVE IInv'
    <2>1. UNCHANGED <<config, consumer, run, inbound, slot, streaming, reported, latest, report>>
      BY <1>10 DEF UpdateFirmware16, Serve
    <2>2. PICK c : c = Cmd("Firmware16", NoId, 0)
      OBVIOUS
    <2>3. /\ c \in CmdRec /\ c.kind \notin Slots /\ c.id \in Ids \cup {NoId}
          /\ c.kind \in PageKinds \ {"Customer"} => c.n \in Nat
      BY <2>2 DEF Cmd, CmdRec, CmdKinds, Slots, NoId, PageKinds
    <2>4. Send(c) \/ queue' = queue
      BY <1>10, <2>2 DEF UpdateFirmware16
    <2>5. QueueType' /\ IdType' /\ GoneInv' /\ OrderInv' /\ HeldInv' /\ FreeInv' /\ CountInv'
      <3>1. CASE Send(c)
        BY <2>1, <2>3, <3>1, Sends
      <3>2. CASE queue' = queue
        BY <2>1, <3>2 DEF IInv, QueueType, IdType, GoneInv, OrderInv, HeldInv, FreeInv,
           CountInv, Ahead,
           Busy, Last
      <3>3. QED
        BY <2>4, <3>1, <3>2
    <2>6. /\ ConfigType' /\ ConsumerType' /\ RunType' /\ SlotType'
          /\ StreamType' /\ ReportedType' /\ ReportType'
      BY <2>1 DEF IInv, ConfigType, ConsumerType, RunType, SlotType, StreamType, ReportedType,
         ReportType
    <2>7. InboundInv' /\ ShapeInv'
      BY <2>1 DEF IInv, InboundInv, ShapeInv, Busy
    <2>8. PagingInv' /\ ClosedInv'
      BY <2>1 DEF IInv, PagingInv, Paging, Busy, Received, Closed, ClosedInv
    <2>9. ServedType'
      BY <1>10, JobsAssumption DEF IInv, ServedType, UpdateFirmware16, Serve
    <2>10. StreamInv'
      <3>1. CASE queue' = queue
        BY <2>1, <3>1 DEF IInv, StreamInv, Busy
      <3>2. CASE Send(c)
        BY <2>1, <2>3, <3>2, StreamsKept
      <3>3. QED
        BY <2>4, <3>1, <3>2
    <2>11. QED
      BY <2>5, <2>6, <2>7, <2>8, <2>9, <2>10 DEF IInv
  <1>11. ASSUME Take PROVE IInv'
    <2>1. UNCHANGED <<config, consumer, inbound, slot, streaming, reported, latest, report,
                        served>>
      BY <1>11 DEF Take
    <2>2. PICK c, p : Began(c, p)
      BY <1>11, Begins
    <2>3. /\ c \in CmdRec /\ Fits(c, p) /\ ~Busy /\ consumer = "alive" /\ Len(queue) >= 1 /\ c = queue[1]
          /\ RunType' /\ run'.steps = p /\ (p # <<>> => run'.cmd = c) /\ (p = <<>> => run' = Idle)
          /\ Busy' = (p # <<>>)
      BY <2>2 DEF Began, Busy
    <2>4. /\ queue' \in Seq(CmdRec) /\ Len(queue') = Len(queue) - 1 /\ Len(queue) \in Nat
          /\ \A i \in 1..Len(queue') : queue'[i] = queue[i + 1] /\ i + 1 \in 1..Len(queue)
          /\ \A i \in 1..Len(queue) : i = 1 \/ (i - 1 \in 1..Len(queue') /\ queue'[i - 1] = queue[i])
      <3>1. /\ queue' \in Seq(CmdRec) /\ Len(queue') = Len(queue) - 1 /\ Len(queue) \in Nat
            /\ \A i \in 1..Len(queue') : queue'[i] = queue[i + 1]
        BY <2>2 DEF Began, IInv, QueueType
      <3>2. QED
        BY <3>1
    <2>5. \A k \in Slots : ~Ahead(k)
      BY <2>3 DEF Ahead
    <2>6. \A k \in Slots : c.kind = k => Ahead(k)' /\ Busy'
      BY <2>3 DEF Fits, Ahead, Last, Busy
    <2>7. \A k \in Slots : Ahead(k)' => c.kind = k
      BY <2>3 DEF Ahead
    <2>8. /\ ConfigType' /\ ConsumerType' /\ SlotType' /\ StreamType'
          /\ ReportedType' /\ ServedType' /\ ReportType'
      BY <2>1 DEF IInv, ConfigType, ConsumerType, SlotType, StreamType, ReportedType, ServedType,
         ReportType
    <2>9. InboundInv'
      BY <2>1 DEF IInv, InboundInv
    <2>10. QueueType'
      BY <2>4 DEF QueueType
    <2>11. RunType'
      BY <2>3
    <2>12. IdType'
      <3>1. \A i \in 1..Len(queue') : queue'[i].id \in Ids \cup {NoId}
        BY <2>4 DEF IInv, IdType
      <3>2. 1 \in 1..Len(queue)
        BY <2>3, <2>4
      <3>3. c.id \in Ids \cup {NoId}
        BY <2>3, <3>2 DEF IInv, IdType
      <3>4. run'.cmd.id \in Ids \cup {NoId}
        BY <2>3, <3>3, IdleFields
      <3>5. QED
        BY <3>1, <3>4 DEF IdType
    <2>13. GoneInv'
      BY <2>1, <2>3 DEF GoneInv
    <2>14. ShapeInv'
      BY <2>3 DEF ShapeInv, Fits, Busy
    <2>15. OrderInv'
      <3>1. SUFFICES ASSUME NEW k \in Slots
                     PROVE  /\ \A i \in 1..Len(queue') : queue'[i].kind = k =>
                                  /\ queue'[i].id \in Ids /\ queue'[i].id <= latest[k]
                                  /\ Ahead(k)' => run'.cmd.id < queue'[i].id
                                  /\ \A j \in 1..Len(queue') : i < j /\ queue'[j].kind = k =>
                                        queue'[i].id < queue'[j].id
                            /\ Busy' /\ run'.cmd.kind = k =>
                                  run'.cmd.id \in Ids /\ run'.cmd.id <= latest[k]
        BY <2>1 DEF OrderInv
      <3>2. 1 \in 1..Len(queue)
        BY <2>3, <2>4
      <3>3. Busy' => run'.cmd = c
        BY <2>3
      <3>4. c.kind = k => c.id \in Ids /\ c.id <= latest[k]
        BY <2>3, <3>2 DEF IInv, OrderInv
      <3>5. ASSUME NEW i \in 1..Len(queue'), queue'[i].kind = k
            PROVE  /\ queue'[i].id \in Ids /\ queue'[i].id <= latest[k]
                   /\ c.kind = k => c.id < queue'[i].id
                   /\ \A j \in 1..Len(queue') : i < j /\ queue'[j].kind = k =>
                         queue'[i].id < queue'[j].id
        <4>1. i + 1 \in 1..Len(queue) /\ queue'[i] = queue[i + 1] /\ 1 < i + 1
          BY <2>4
        <4>2. \A j \in 1..Len(queue') : i < j =>
                  i + 1 < j + 1 /\ j + 1 \in 1..Len(queue) /\ queue'[j] = queue[j + 1]
          BY <2>4
        <4>3. QED
          BY <2>3, <3>2, <3>5, <4>1, <4>2 DEF IInv, OrderInv
      <3>6. Ahead(k)' => c.kind = k /\ run'.cmd = c
        BY <2>7, <3>3 DEF Ahead
      <3>7. QED
        BY <3>3, <3>4, <3>5, <3>6
    <2>16. HeldInv'
      <3>1. SUFFICES ASSUME NEW k \in Slots, slot[k] # NoId
                     PROVE  /\ slot[k] = latest[k]
                            /\ \/ \E i \in 1..Len(queue') :
                                     queue'[i].kind = k /\ queue'[i].id = slot[k]
                               \/ Ahead(k)' /\ run'.cmd.id = slot[k]
        BY <2>1 DEF HeldInv
      <3>2. /\ slot[k] = latest[k]
            /\ \E i \in 1..Len(queue) : queue[i].kind = k /\ queue[i].id = slot[k]
        BY <2>3, <2>5, <3>1 DEF IInv, HeldInv
      <3>3. PICK i \in 1..Len(queue) : queue[i].kind = k /\ queue[i].id = slot[k]
        BY <3>2
      <3>4. CASE i = 1
        BY <2>3, <2>6, <3>2, <3>3, <3>4
      <3>5. CASE i # 1
        BY <2>4, <3>2, <3>3, <3>5
      <3>6. QED
        BY <3>4, <3>5
    <2>17. FreeInv'
      <3>1. 1 \in 1..Len(queue)
        BY <2>3, <2>4
      <3>2. ASSUME NEW k \in Slots, slot[k] = NoId
            PROVE  /\ c.kind # k
                   /\ \A i \in 1..Len(queue') : queue'[i].kind # k
        BY <2>3, <2>4, <3>1, <3>2 DEF IInv, FreeInv
      <3>3. Busy' => run'.cmd = c
        BY <2>3
      <3>4. QED
        BY <2>1, <2>3, <2>7, <3>2, <3>3 DEF IInv, FreeInv
    <2>18. StreamInv'
      <3>1. SUFFICES ASSUME NEW k \in Streams, NEW r \in streaming[k]
                     PROVE  \/ \E i \in 1..Len(queue') : queue'[i].kind = k /\ queue'[i].id = r
                            \/ Busy' /\ run'.cmd.kind = k /\ run'.cmd.id = r
        BY <2>1 DEF StreamInv
      <3>2. PICK i \in 1..Len(queue) : queue[i].kind = k /\ queue[i].id = r
        BY <2>3, <3>1 DEF IInv, StreamInv
      <3>3. CASE i = 1
        BY <2>3, <3>1, <3>2, <3>3 DEF Fits
      <3>4. CASE i # 1
        BY <2>4, <3>2, <3>4
      <3>5. QED
        BY <3>3, <3>4
    <2>19. CountInv'
      <3>1. 1 \in 1..Len(queue)
        BY <2>3, <2>4
      <3>2. c.kind \in PageKinds \ {"Customer"} => c.n \in Nat
        BY <2>3, <3>1 DEF IInv, CountInv
      <3>3. run'.cmd.kind \in PageKinds \ {"Customer"} => run'.cmd = c
        BY <2>3, IdleFields DEF PageKinds
      <3>4. QED
        BY <2>4, <3>2, <3>3 DEF IInv, CountInv
    <2>20. PagingInv'
      <3>1. Closed
        BY <2>3 DEF IInv, ClosedInv, Paging
      <3>2. Closed'
        BY <2>1, <3>1 DEF Closed
      <3>3. SUFFICES ASSUME Paging'
                     PROVE  \E i \in 0..Count(Total(c), PerPage(c)) :
                                PagesLeft(c, p, i) /\ Received(c, i)'
        BY <2>3 DEF PagingInv, Paging
      <3>4. PagesLeft(c, p, 0)
        BY <2>3, <3>3 DEF Paging, Fits
      <3>5. Received(c, 0)'
        BY <3>2, Zenon DEF Received
      <3>6. RunType' /\ CountInv' /\ run'.cmd = c
        <4>1. Busy' => run'.cmd = c
          BY <2>3
        <4>2. QED
          BY <2>3, <2>19, <3>3, <4>1 DEF Paging
      <3>7. Count(Total(c), PerPage(c)) \in Nat
        <4>1. Total(c) \in Nat /\ PerPage(c) \in Nat \ {0}
          BY <3>3, <3>6, JobsAssumption
             DEF Paging, PageKinds, CountInv, Total, PerPage, CustomerPages
        <4>2. QED
          BY <4>1, CountBounds
      <3>8. 0 \in 0..Count(Total(c), PerPage(c))
        BY <3>7
      <3>9. QED
        BY <3>4, <3>5, <3>8, Zenon
    <2>21. ClosedInv'
      <3>1. Closed
        BY <2>3 DEF IInv, ClosedInv, Paging
      <3>2. QED
        BY <2>1, <3>1 DEF ClosedInv, Closed
    <2>22. QED
      BY <2>8, <2>9, <2>10, <2>11, <2>12, <2>13, <2>14, <2>15, <2>16, <2>17, <2>18, <2>19, <2>20,
         <2>21 DEF IInv
  <1>12. ASSUME SendStatus PROVE IInv'
    <2>1. UNCHANGED <<config, consumer, queue, inbound, slot, streaming, latest, report, served>>
      BY <1>12 DEF SendStatus
    <2>2. /\ Busy /\ run.steps[1].op = "status" /\ Head(run.steps) = run.steps[1]
          /\ run.steps[1] \in StepRec /\ run.steps[1].kind = run.cmd.kind
      <3>1. RunType /\ ShapeInv
        BY DEF IInv
      <3>2. Busy /\ run.steps[1].op = "status" /\ Head(run.steps) = run.steps[1]
        BY <1>12, <3>1, StepTypes DEF SendStatus, Doing, Busy
      <3>3. 1 \in 1..Len(run.steps)
        BY <3>1, <3>2, StepTypes
      <3>4. QED
        BY <3>1, <3>2, <3>3, StepTypes DEF ShapeInv, Shape
    <2>3. GoesOn(Tail(run.steps))
      BY <1>12, <2>2, Advances DEF IInv, SendStatus
    <2>4. PICK k, s : k = run.cmd.kind /\ s = [status |-> run.steps[1].status, id |-> run.cmd.id]
      OBVIOUS
    <2>5. reported' = [reported EXCEPT ![k] = s]
      BY <1>12, <2>2, <2>4 DEF SendStatus
    <2>6. s.status = run.steps[1].status /\ s.id = run.cmd.id /\ s \in [status : Statuses, id : Nat]
      <3>1. run.steps[1].status \in Statuses /\ run.cmd.id \in Nat
        BY <2>2, JobsAssumption DEF StepRec, IInv, IdType, Ids, NoId
      <3>2. QED
        BY <2>4, <3>1
    <2>7. /\ RunType' /\ IdType' /\ GoneInv' /\ ShapeInv'
          /\ OrderInv' /\ HeldInv' /\ StreamInv' /\ CountInv'
      BY <2>1, <2>2, <2>3, Onward
    <2>8. PagingInv' /\ ClosedInv' /\ ReportType'
      BY <2>1, <2>2, <2>3, StillClosed
    <2>9. ConfigType' /\ ConsumerType' /\ QueueType' /\ SlotType' /\ StreamType' /\ ServedType'
      BY <2>1 DEF IInv, ConfigType, ConsumerType, QueueType, SlotType, StreamType, ServedType
    <2>10. InboundInv'
      BY <2>1 DEF IInv, InboundInv
    <2>11. ReportedType'
      BY <2>5, <2>6 DEF IInv, ReportedType
    <2>12. FreeInv'
      <3>1. \A m \in Slots : m # k => reported'[m] = reported[m]
        BY <2>5 DEF IInv, ReportedType, Slots, StatusKinds
      <3>2. k \in Slots => reported'[k] = s
        BY <2>5 DEF IInv, ReportedType, Slots, StatusKinds
      <3>3. QED
        BY <2>1, <2>2, <2>3, <2>4, <2>6, <3>1, <3>2, FreeOnward
    <2>13. QED
      BY <2>7, <2>8, <2>9, <2>10, <2>11, <2>12 DEF IInv
  <1>13. ASSUME SendTriggered PROVE IInv'
    <2>1. UNCHANGED <<config, consumer, queue, inbound, slot, streaming, reported, latest,
                        report, served>>
      BY <1>13 DEF SendTriggered
    <2>2. /\ Busy /\ run.steps[1].op \in {"again", "frame"}
      <3>1. RunType
        BY DEF IInv
      <3>2. QED
        BY <1>13, <3>1, StepTypes DEF SendTriggered, Doing, Busy
    <2>3. GoesOn(Tail(run.steps))
      BY <1>13, <2>2, Advances DEF IInv, SendTriggered
    <2>4. /\ RunType' /\ IdType' /\ GoneInv' /\ ShapeInv'
          /\ OrderInv' /\ HeldInv' /\ StreamInv' /\ CountInv'
      BY <2>1, <2>2, <2>3, Onward
    <2>5. PagingInv' /\ ClosedInv' /\ ReportType'
      BY <2>1, <2>2, <2>3, StillClosed
    <2>6. /\ ConfigType' /\ ConsumerType' /\ QueueType' /\ SlotType'
          /\ StreamType' /\ ReportedType' /\ ServedType'
      BY <2>1 DEF IInv, ConfigType, ConsumerType, QueueType, SlotType, StreamType, ReportedType,
         ServedType
    <2>7. InboundInv'
      BY <2>1 DEF IInv, InboundInv
    <2>8. FreeInv'
      BY <2>1, <2>2, <2>3, FreeOnward
    <2>9. QED
      BY <2>4, <2>5, <2>6, <2>7, <2>8 DEF IInv
  <1>14. ASSUME SendPage PROVE IInv'
    <2>1. UNCHANGED <<config, consumer, queue, inbound, slot, streaming, reported, latest, served>>
      BY <1>14 DEF SendPage
    <2>2. /\ Busy /\ run.steps[1].op = "page"
      <3>1. RunType
        BY DEF IInv
      <3>2. QED
        BY <1>14, <3>1, StepTypes DEF SendPage, Doing, Busy
    <2>3. GoesOn(Tail(run.steps))
      BY <1>14, PageSent
    <2>4. /\ RunType' /\ IdType' /\ GoneInv' /\ ShapeInv'
          /\ OrderInv' /\ HeldInv' /\ StreamInv' /\ CountInv'
      BY <2>1, <2>2, <2>3, Onward
    <2>5. PagingInv' /\ ClosedInv' /\ ReportType'
      BY <1>14, PageSent
    <2>6. /\ ConfigType' /\ ConsumerType' /\ QueueType' /\ SlotType'
          /\ StreamType' /\ ReportedType' /\ ServedType'
      BY <2>1 DEF IInv, ConfigType, ConsumerType, QueueType, SlotType, StreamType, ReportedType,
         ServedType
    <2>7. InboundInv'
      BY <2>1 DEF IInv, InboundInv
    <2>8. FreeInv'
      BY <2>1, <2>2, <2>3, FreeOnward
    <2>9. QED
      BY <2>4, <2>5, <2>6, <2>7, <2>8 DEF IInv
  <1>15. ASSUME Complete, run.cmd.kind \in Slots PROVE IInv'
    <2>1. UNCHANGED <<config, consumer, queue, inbound, reported, latest, report, served>>
      BY <1>15 DEF Complete
    <2>2. /\ Busy /\ Len(run.steps) = 1 /\ run.steps[1].op = "complete" /\ RunType'
          /\ Last.op = "complete"
      BY <1>15, Completes
    <2>3. PICK k : k = run.cmd.kind
      OBVIOUS
    <2>4. k \in Slots /\ k \notin Streams /\ k \notin PageKinds
      BY <1>15, <2>3 DEF Slots, Streams, PageKinds
    <2>5. /\ streaming' = streaming /\ Ahead(k)
          /\ slot' = IF slot[k] = run.cmd.id THEN [slot EXCEPT ![k] = NoId] ELSE slot
          /\ OneLeft(k, slot[k] = run.cmd.id) \/ (run' = Idle /\ slot[k] # run.cmd.id)
      BY <1>15, <2>3, <2>4, Completes, Zenon
    <2>6. /\ \/ /\ Busy' /\ run'.cmd = run.cmd /\ Len(run'.steps) = 1 /\ run'.steps[1].op = "status"
                /\ run'.steps[1].kind = k /\ Last' = run'.steps[1]
                /\ slot[k] = run.cmd.id => Last'.status \in Terminal(k)
             \/ ~Busy' /\ run' = Idle /\ slot[k] # run.cmd.id
          /\ Busy' => run'.cmd = run.cmd
      <3>1. CASE OneLeft(k, slot[k] = run.cmd.id)
        <4>1. run'.cmd = run.cmd
          BY <3>1 DEF OneLeft
        <4>2. PICK a \in StepRec : /\ run'.steps = <<a>>
                                   /\ a.op = "status" /\ a.kind = k
                                   /\ slot[k] = run.cmd.id => a.status \in Terminal(k)
          BY <3>1 DEF OneLeft
        <4>3. run'.steps # <<>> /\ Len(run'.steps) = 1 /\ run'.steps[1] = a
          BY <4>2, OneStep
        <4>4. QED
          BY <4>1, <4>2, <4>3 DEF Busy, Last
      <3>2. CASE run' = Idle /\ slot[k] # run.cmd.id
        BY <3>2, IdleFields DEF Busy
      <3>3. QED
        BY <2>5, <3>1, <3>2
    <2>7. \A m : ~Ahead(m)'
      BY <2>6 DEF Ahead
    <2>8. \A m : Ahead(m) => m = k
      BY <2>3 DEF Ahead
    <2>9. run.cmd.id \in Ids /\ run.cmd.id # NoId
      BY <2>2, <2>3, <2>4 DEF IInv, OrderInv, Ids, NoId
    <2>10. /\ slot[k] = run.cmd.id => slot'[k] = NoId
           /\ slot[k] # run.cmd.id => slot'[k] = slot[k]
           /\ \A m \in Slots : m # k => slot'[m] = slot[m]
      BY <2>4, <2>5 DEF IInv, SlotType
    <2>11. /\ ConfigType' /\ ConsumerType' /\ QueueType'
           /\ ReportedType' /\ ServedType' /\ ReportType'
      BY <2>1 DEF IInv, ConfigType, ConsumerType, QueueType, ReportedType, ServedType, ReportType
    <2>12. InboundInv'
      BY <2>1 DEF IInv, InboundInv
    <2>13. RunType'
      BY <2>2
    <2>14. IdType'
      BY <2>1, <2>6, IdleFields DEF IInv, IdType
    <2>15. SlotType'
      BY <2>1, <2>4, <2>5 DEF IInv, SlotType, NoId
    <2>16. StreamType'
      BY <2>5 DEF IInv, StreamType
    <2>17. GoneInv'
      <3>1. RunType
        BY DEF IInv
      <3>2. QED
        BY <2>1, <2>2, <3>1, IdleIsNotBusy DEF IInv, GoneInv, ConsumerType
    <2>18. ShapeInv'
      <3>1. SUFFICES ASSUME Busy' PROVE Shape(run'.cmd, run'.steps)
        BY DEF ShapeInv
      <3>2. PICK c, p : c = run'.cmd /\ p = run'.steps
        OBVIOUS
      <3>3. Len(p) = 1 /\ p[1].op = "status" /\ p[1].kind = k /\ c.kind = k
        BY <2>3, <2>6, <3>1, <3>2
      <3>4. Shape(c, p)
        BY <2>4, <3>3 DEF Shape
      <3>5. QED
        BY <3>2, <3>4
    <2>19. OrderInv'
      BY <2>1, <2>2, <2>6, <2>7 DEF IInv, OrderInv
    <2>20. HeldInv'
      <3>1. SUFFICES ASSUME NEW m \in Slots, slot'[m] # NoId, consumer = "alive"
                     PROVE  /\ slot'[m] = latest[m]
                            /\ \E i \in 1..Len(queue) : queue[i].kind = m /\ queue[i].id = slot'[m]
        BY <2>1 DEF HeldInv
      <3>2. slot'[m] = slot[m] /\ ~(Ahead(m) /\ run.cmd.id = slot[m])
        <4>1. CASE m = k
          BY <2>10, <3>1, <4>1
        <4>2. CASE m # k
          <5>1. ~Ahead(m)
            BY <2>8, <4>2, Zenon
          <5>2. QED
            BY <2>10, <4>2, <5>1
        <4>3. QED
          BY <4>1, <4>2
      <3>3. QED
        BY <3>1, <3>2 DEF IInv, HeldInv
    <2>21. FreeInv'
      <3>1. SUFFICES ASSUME NEW m \in Slots, slot'[m] = NoId, consumer = "alive"
                     PROVE  /\ \A i \in 1..Len(queue) : queue[i].kind # m
                            /\ latest[m] # NoId =>
                                  \/ /\ Busy' /\ run'.cmd.kind = m /\ run'.cmd.id = latest[m]
                                     /\ Last'.status \in Terminal(m)
                                  \/ /\ Busy' => run'.cmd.kind # m
                                     /\ reported[m].id = latest[m]
                                     /\ reported[m].status \in Terminal(m)
                            /\ latest[m] = NoId => ~(Busy' /\ run'.cmd.kind = m)
        BY <2>1, <2>7 DEF FreeInv
      <3>2. CASE m # k
        <4>1. slot[m] = NoId /\ run.cmd.kind # m
          <5>1. slot[m] = NoId
            BY <2>10, <3>1, <3>2
          <5>2. run.cmd.kind # m
            BY <2>3, <3>2
          <5>3. QED
            BY <5>1, <5>2
        <4>2. QED
          BY <2>6, <3>1, <4>1 DEF IInv, FreeInv
      <3>3. CASE m = k /\ slot[k] # run.cmd.id
        BY <2>4, <2>5, <2>10, <3>1, <3>3 DEF IInv, FreeInv
      <3>4. CASE m = k /\ slot[k] = run.cmd.id
        <4>1. latest[k] = run.cmd.id /\ latest[k] # NoId
          BY <2>4, <2>9, <3>1, <3>4 DEF IInv, HeldInv
        <4>2. ASSUME NEW i \in 1..Len(queue), queue[i].kind = k PROVE FALSE
          <5>1. queue[i].id \in Nat /\ run.cmd.id \in Nat
            BY <2>4, <2>9, <4>2 DEF IInv, OrderInv, Ids
          <5>2. run.cmd.id < queue[i].id /\ queue[i].id <= latest[k]
            BY <2>4, <2>5, <4>2 DEF IInv, OrderInv
          <5>3. QED
            BY <4>1, <5>1, <5>2
        <4>3. QED
          BY <2>3, <2>6, <3>4, <4>1, <4>2
      <3>5. QED
        BY <3>2, <3>3, <3>4
    <2>22. StreamInv'
      <3>1. run.cmd.kind \notin Streams
        BY <2>3, <2>4
      <3>2. QED
        BY <2>1, <2>5, <3>1 DEF IInv, StreamInv
    <2>23. CountInv'
      BY <2>1, <2>6, IdleFields DEF IInv, CountInv, PageKinds
    <2>24. PagingInv'
      BY <2>3, <2>4, <2>6 DEF PagingInv, Paging
    <2>25. ClosedInv'
      <3>1. ~Paging
        BY <2>3, <2>4 DEF Paging
      <3>2. QED
        BY <2>1, <3>1 DEF IInv, ClosedInv, Closed
    <2>26. QED
      BY <2>11, <2>12, <2>13, <2>14, <2>15, <2>16, <2>17, <2>18, <2>19, <2>20, <2>21, <2>22, <2>23,
         <2>24, <2>25 DEF IInv
  <1>16. ASSUME Complete, run.cmd.kind \notin Slots PROVE IInv'
    <2>1. UNCHANGED <<config, consumer, queue, inbound, reported, latest, report, served>>
      BY <1>16 DEF Complete
    <2>2. /\ Busy /\ Len(run.steps) = 1 /\ run.steps[1].op = "complete" /\ RunType'
          /\ Last.op = "complete"
      BY <1>16, Completes
    <2>3. PICK k : k = run.cmd.kind
      OBVIOUS
    <2>4. k \in Streams /\ k \notin Slots
      BY <1>16, <2>3, Completes DEF Slots, Streams
    <2>5. /\ run' = Idle /\ slot' = slot
          /\ streaming' = [streaming EXCEPT ![k] = @ \ {run.cmd.id}]
      BY <1>16, <2>3, <2>4, Completes, Zenon
    <2>6. ~Busy' /\ run'.cmd = NoCmd
      BY <2>5, IdleFields DEF Busy
    <2>7. \A m \in Slots : ~Ahead(m)' /\ ~Ahead(m)
      BY <2>3, <2>4, <2>6 DEF Ahead
    <2>8. \A m \in Streams : \A r \in streaming'[m] :
                r \in streaming[m] /\ ~(run.cmd.kind = m /\ run.cmd.id = r)
      BY <2>3, <2>4, <2>5 DEF IInv, StreamType
    <2>9. ConfigType' /\ ConsumerType' /\ QueueType' /\ ReportedType' /\ ServedType' /\ ReportType'
      BY <2>1 DEF IInv, ConfigType, ConsumerType, QueueType, ReportedType, ServedType, ReportType
    <2>10. InboundInv'
      BY <2>1 DEF IInv, InboundInv
    <2>11. RunType'
      BY <2>2
    <2>12. IdType'
      BY <2>1, <2>6, IdleFields DEF IInv, IdType
    <2>13. SlotType'
      BY <2>1, <2>5 DEF IInv, SlotType
    <2>14. StreamType'
      BY <2>4, <2>5 DEF IInv, StreamType
    <2>15. GoneInv'
      <3>1. RunType
        BY DEF IInv
      <3>2. QED
        BY <2>1, <2>2, <3>1, IdleIsNotBusy DEF IInv, GoneInv, ConsumerType
    <2>16. ShapeInv'
      BY <2>6 DEF ShapeInv
    <2>17. OrderInv'
      BY <2>1, <2>6, <2>7 DEF IInv, OrderInv
    <2>18. HeldInv'
      BY <2>1, <2>5, <2>7 DEF IInv, HeldInv
    <2>19. FreeInv'
      <3>1. \A m \in Slots : run.cmd.kind # m
        BY <2>3, <2>4
      <3>2. QED
        BY <2>1, <2>5, <2>6, <2>7, <3>1 DEF IInv, FreeInv
    <2>20. StreamInv'
      BY <2>1, <2>8 DEF IInv, StreamInv
    <2>21. CountInv'
      BY <2>1, <2>6, IdleFields DEF IInv, CountInv, PageKinds
    <2>22. PagingInv'
      BY <2>6 DEF PagingInv, Paging
    <2>23. ClosedInv'
      <3>1. CASE ~Paging
        BY <2>1, <3>1 DEF IInv, ClosedInv, Closed
      <3>2. CASE Paging
        <4>1. RunType /\ CountInv /\ ShapeInv
          BY DEF IInv
        <4>2. PICK n, per : n = Total(run.cmd) /\ per = PerPage(run.cmd)
          OBVIOUS
        <4>3. n \in Nat /\ per \in Nat \ {0} /\ Count(n, per) \in Nat /\ Count(n, per) >= 1
          BY <3>2, <4>1, <4>2, PagesPositive
        <4>4. PICK i \in 0..Count(n, per) :
                      PagesLeft(run.cmd, run.steps, i) /\ Received(run.cmd, i)
          BY <3>2, <4>2 DEF IInv, PagingInv
        <4>5. i \in Nat /\ i <= Count(n, per) /\ (i < Count(n, per) \/ i = Count(n, per))
          BY <4>3, <4>4
        <4>6. i = Count(n, per)
          BY <2>2, <3>2, <4>1, <4>2, <4>4, <4>5, PagingHead
        <4>7. i # 0
          BY <4>3, <4>6
        <4>8. /\ report.entries = Sent(n, per, Count(n, per)) /\ report.of = n
              /\ report.open = (Count(n, per) < Count(n, per))
          BY <4>2, <4>4, <4>6, <4>7, Zenon DEF Received
        <4>9. Closed
          BY <4>3, <4>8, AllReceived, Zenon
        <4>10. QED
          BY <2>1, <4>9 DEF ClosedInv, Closed
      <3>3. QED
        BY <3>1, <3>2
    <2>24. QED
      BY <2>9, <2>10, <2>11, <2>12, <2>13, <2>14, <2>15, <2>16, <2>17, <2>18, <2>19, <2>20, <2>21,
         <2>22, <2>23 DEF IInv
  <1>17. ASSUME Stop PROVE IInv'
    <2>1. UNCHANGED <<config, inbound, slot, streaming, reported, latest, report, served>>
      BY <1>17 DEF Stop
    <2>2. consumer' = "gone" /\ run' = Idle /\ queue' = <<>> /\ Len(queue') = 0 /\ queue' \in Seq(CmdRec)
      BY <1>17 DEF Stop
    <2>3. run'.steps = <<>> /\ run'.cmd = NoCmd /\ ~Busy' /\ RunType'
      BY <2>2, IdleFields DEF Busy, RunType
    <2>4. ConfigType' /\ SlotType' /\ StreamType' /\ ReportedType' /\ ServedType' /\ ReportType'
      BY <2>1 DEF IInv, ConfigType, SlotType, StreamType, ReportedType, ServedType, ReportType
    <2>5. InboundInv'
      BY <2>1 DEF IInv, InboundInv
    <2>6. ConsumerType'
      BY <2>2 DEF ConsumerType
    <2>7. QueueType'
      BY <2>2 DEF QueueType
    <2>8. RunType'
      BY <2>3
    <2>9. IdType'
      BY <2>2, <2>3, IdleFields DEF IdType
    <2>10. GoneInv'
      BY <2>2 DEF GoneInv
    <2>11. ShapeInv'
      BY <2>3 DEF ShapeInv
    <2>12. OrderInv'
      BY <2>2, <2>3 DEF OrderInv, Ahead
    <2>13. HeldInv'
      BY <2>2 DEF HeldInv
    <2>14. FreeInv'
      BY <2>2 DEF FreeInv
    <2>15. StreamInv'
      BY <2>2 DEF StreamInv
    <2>16. CountInv'
      BY <2>2, <2>3, IdleFields DEF CountInv, PageKinds
    <2>17. PagingInv'
      BY <2>3 DEF PagingInv, Paging
    <2>18. ClosedInv'
      BY <2>2 DEF ClosedInv
    <2>19. QED
      BY <2>4, <2>5, <2>6, <2>7, <2>8, <2>9, <2>10, <2>11, <2>12, <2>13, <2>14, <2>15, <2>16, <2>17,
         <2>18 DEF IInv
  <1>18. ASSUME UNCHANGED vars PROVE IInv'
    <2>1. UNCHANGED <<config, consumer, queue, run, inbound, slot, streaming, reported, latest,
                        report, served>>
      BY <1>18 DEF vars
    <2>2. /\ ConfigType' /\ ConsumerType' /\ QueueType' /\ RunType' /\ IdType'
          /\ SlotType' /\ StreamType' /\ ReportedType' /\ ServedType' /\ ReportType'
      BY <2>1 DEF IInv, ConfigType, ConsumerType, QueueType, RunType, IdType, SlotType, StreamType,
         ReportedType, ServedType, ReportType
    <2>3. InboundInv' /\ GoneInv' /\ ShapeInv' /\ CountInv'
      BY <2>1 DEF IInv, InboundInv, GoneInv, ShapeInv, Busy, CountInv
    <2>4. OrderInv' /\ HeldInv' /\ FreeInv' /\ StreamInv'
      BY <2>1 DEF IInv, OrderInv, Ahead, Busy, Last, HeldInv, FreeInv, StreamInv
    <2>5. PagingInv' /\ ClosedInv'
      BY <2>1 DEF IInv, PagingInv, Paging, Busy, Received, Closed, ClosedInv
    <2>6. QED
      BY <2>2, <2>3, <2>4, <2>5 DEF IInv
  <1>19. QED
    <2>1. CASE \E v \in {"V16J", "V201"} : \E what \in Triggers(v) \cup Unimplemented(v) :
              \E e \in IF what = "TriggerStatus" THEN Targets ELSE {Whole} :
                  TriggerMessage(v, what, e)
      BY <2>1, <1>7, <1>8
    <2>2. CASE \E m \in 0..MaxEntries : \/ GetBaseReport(m) \/ GetReport(m)
                                        \/ GetMonitoringReport(m) \/ GetDisplayMessages(m)
      BY <2>2, <1>6 DEF GetBaseReport, GetReport, GetMonitoringReport, GetDisplayMessages
    <2>3. QED
      BY <2>1, <2>2, <1>1, <1>2, <1>3, <1>4, <1>5, <1>6, <1>7, <1>8, <1>9, <1>10, <1>11, <1>12,
         <1>13, <1>14, <1>15, <1>16, <1>17, <1>18 DEF Next

\* A station that starts has no request and an empty channel.
LEMMA InitInv == ASSUME Init PROVE IInv
  <1>1. run = Idle /\ run.steps = <<>> /\ run.cmd = NoCmd /\ ~Busy /\ RunType
    BY IdleFields DEF Init, Busy, RunType
  <1>2. queue = <<>> /\ Len(queue) = 0 /\ queue \in Seq(CmdRec)
    BY DEF Init
  <1>3. ConfigType /\ ConsumerType /\ QueueType /\ IdType
    BY <1>1, <1>2, IdleFields, JobsAssumption DEF Init, ConfigType, ConsumerType, QueueType, IdType
  <1>4. SlotType /\ StreamType /\ ServedType /\ InboundInv
    BY JobsAssumption DEF Init, SlotType, StreamType, ServedType, InboundInv
  <1>5. ReportedType
    BY DEF Init, ReportedType, Statuses, NoId
  <1>6. ReportType /\ Closed
    BY DEF Init, ReportType, Closed, NoReport
  <1>7. GoneInv /\ ShapeInv /\ CountInv /\ PagingInv /\ ClosedInv
    BY <1>1, <1>2, <1>6, IdleFields
       DEF Init, GoneInv, ShapeInv, CountInv, PagingInv, Paging, ClosedInv, PageKinds
  <1>8. OrderInv /\ HeldInv /\ FreeInv /\ StreamInv
    BY <1>1, <1>2 DEF Init, OrderInv, HeldInv, FreeInv, StreamInv, Ahead
  <1>9. QED
    BY <1>1, <1>3, <1>4, <1>5, <1>6, <1>7, <1>8 DEF IInv

\* The invariant holds in every reachable state.
LEMMA Invariance == Spec => []IInv
  <1>1. IInv /\ [Next]_vars => IInv'
    BY StepInv
  <1>2. QED
    BY <1>1, InitInv, PTL DEF Spec

-----------------------------------------------------------------------------
(* The theorems *)

\* Every variable keeps its type, the ids of the queued and the running command
\* included.
THEOREM TypeCorrect == Spec => []TypeOK
  <1>1. IInv => TypeOK
    <2>1. SUFFICES ASSUME IInv PROVE TypeOK
      OBVIOUS
    <2>2. DOMAIN queue = 1..Len(queue)
      BY <2>1, LenProperties DEF IInv, QueueType
    <2>3. DOMAIN reported = StatusKinds
      BY <2>1 DEF IInv, ReportedType
    <2>4. QED
      BY <2>1, <2>2, <2>3
         DEF IInv, ConfigType, ConsumerType, IdType, SlotType, StreamType, ServedType, TypeOK
  <1>2. QED
    BY <1>1, Invariance, PTL

\* Whatever retries and supersessions race the consumer, a station that has worked
\* off its channel has no request in flight and has reported a terminal status of
\* the very request that came last.
THEOREM DrainedIsSettledHolds == Spec => []DrainedIsSettled
  <1>1. IInv => DrainedIsSettled
    <2>1. SUFFICES ASSUME IInv, consumer = "alive", run = Idle, queue = <<>>
                   PROVE  /\ \A k \in Slots : slot[k] = NoId
                          /\ \A k \in Streams : streaming[k] = {}
                          /\ \A k \in Slots : latest[k] # NoId =>
                                reported[k].id = latest[k] /\ reported[k].status \in Terminal(k)
      BY DEF DrainedIsSettled, Terminal
    <2>2. ~Busy /\ Len(queue) = 0
      BY <2>1, IdleFields DEF Busy
    <2>3. ASSUME NEW k \in Slots PROVE slot[k] = NoId
      BY <2>1, <2>2, <2>3 DEF IInv, HeldInv, Ahead
    <2>4. ASSUME NEW k \in Streams PROVE streaming[k] = {}
      BY <2>1, <2>2, <2>4 DEF IInv, StreamInv
    <2>5. ASSUME NEW k \in Slots, latest[k] # NoId
          PROVE  reported[k].id = latest[k] /\ reported[k].status \in Terminal(k)
      BY <2>1, <2>2, <2>3, <2>5 DEF IInv, FreeInv
    <2>6. QED
      BY <2>3, <2>4, <2>5
  <1>2. QED
    BY <1>1, Invariance, PTL

\* The pages of a report, for any number of entries and any page size, add up to
\* the whole snapshot, and the last one closes it.
THEOREM ReportAssemblesHolds == Spec => []ReportAssembles
  <1>1. IInv => ReportAssembles
    BY IdleFields DEF IInv, ClosedInv, Closed, Paging, Busy, ReportAssembles
  <1>2. QED
    BY <1>1, Invariance, PTL

============================================================================
