# RainScanner in TLA+

RainScanner finds CDN edge addresses that work with a user's proxy link. It
expands the IP ranges of a CDN (or of a target the user added) into hosts, dials
them over TCP, confirms the ones that answer by sending requests through
xray-core processes, and saves the confirmed addresses. It runs from a command
line or behind a local web page.

This directory holds TLA+ modules of that program, TLC configurations that check
them on small instances, and TLAPS proofs. Every module is a translation of the
Go source; `PROJECT.json` names, for each definition, the lines it stands for.
References below are to files under `src/`.

    tlc -workers 2 -config MCJobStream.cfg MCJobStream    # one run
    tlapm JobStreamProofs.tla                             # one proof module

## 1. Inventory

### 1.1 Components

| Component (source) | State it keeps | Operations |
|---|---|---|
| Scan jobs and event streams (`internal/web/server.go`) | per job: `events`, `done`, the channel `ch` that is closed and replaced at every push | `push`, `finish`, `after`, `wait`; the loop of `handleStream` |
| Scan lifecycle (`internal/web/server.go`) | `scanning` (atomic flag), `cancel` (under `cancelMu`), the map `jobs` (under `mu`) | `handleScan`, its goroutine and three defers, `handleStop`, `newJob`, `sweepJobsLocked` |
| TCP sweep, stage 1 (`internal/scan/tcp.go`, `stage1` of `internal/pipeline/pipeline.go`) | semaphore, wait group, channel of survivors, counter, `base` over port passes | `scan.Run` with launcher and workers, `stage1` |
| Xray confirmation, stage 2 (`stage2`, `internal/xray/prober.go`) | semaphore over batches, entries and counter under a mutex; per batch the ports, the process, a semaphore over probes | `stage2`, `TestBatch`, `freePorts`, `waitPort` |
| Probe verdict (`internal/xray/prober.go`) | latencies, failures and attempts of one candidate | `NewProber` defaults, `probeEndpoint`, `median` |
| Target registry (`internal/targets/targets.go`, `internal/storage/storage.go`, parts of `app/service.go`, `web/server.go`) | records, hidden names, built-in names; `ips/<name>.json`, `ips/custom.json` | `Open`, `Upsert`, `Delete`, `Reload`, `RestoreBuiltins`, the store's reads and writes, reload-all |
| Range providers (`internal/providers/providers.go`) | the range file of a CDN | `FetchRanges`, `Refresh`, `LoadOrRefresh`, parsers, mirrors |
| Host expansion (`internal/iprange/iprange.go`) | dedup set, result, reservoir | `Expand` |
| Pipeline and service (`internal/pipeline`, `internal/app`, `internal/output`) | the scan in progress, `results/<name>.json` | `Service.Scan`, `buildConfig`, `Run`, `runOne`, `output.Write` |
| Scan limits (`app`, `pipeline`, `xray`, both front-ends) | the numbers of one request | defaults, lite mode, ceilings |
| Command line (`cmd/cdnscan`) | none between scans | flags, loop over several CDNs, status bar |
| Updater (`runUpdater` of `cmd/cdnscan`) | `inside-api/<name>.json` | one fetch per entry of the manifest |
| Web page (`internal/web/static/index.html`) | the global event source `es`, the button | `start()`, the handlers of the event source |
| Share links (`internal/link`) and xray configuration (`internal/xray/config.go`) | none: functions | `Parse`, `Substitute`, `buildOutbound`, `GenerateBatchConfig` |
| Embedded xray binary (`internal/xray/embedded.go`) | a temporary and a final name in the user's cache directory, shared by every process of the program | `Resolve`, `ExtractEmbedded` |
| Address families (`internal/scan/family.go`), HTTP checks | none | look at the interfaces, checks of single requests |

### 1.2 Interactions

- The page posts a scan; the handler claims `scanning`, creates a job and starts
  a goroutine; the goroutine publishes `s.cancel`, runs `Service.Scan` with hooks
  that **push** events, pushes the result, finishes the job and releases
  everything in defers. Any number of SSE streams read the job's event log.
  A stop request reads `s.cancel` and calls it: **context cancellation** reaches
  both stages. The page sends a stop and forgets it; it names no scan.
- `Service.Scan` reads the registry, builds a configuration and calls
  `pipeline.Run`. This takes ranges from the configuration or through
  `providers` (which read and write `ips/<name>.json`), expands them, runs
  `stage1`, then `stage2`, then `output.Write`. Stages call back with progress.
- Registry and providers **share files**: both write `ips/<name>.json`, a scan that
  fetches without the registry and its lock. The registry reads them only when the
  program starts, and when it restores a built-in that was deleted.
- The manifest `inside-api/index.json` names the built-in CDNs. It is loaded at
  the start and again by reload-all, and may have changed in between.
- The link of a request is parsed for the prober, and rewritten as text for the
  user: what was measured and what is handed out derive from it on **two ways**.
- The updater runs elsewhere, and writes what the mirrors serve.
- Several processes of the program **share the cache directory** of the extracted xray.
- Stage 2 runs `xray` **processes** that meet the program, and each other, on
  loopback ports.

### 1.3 What is hard here

Goroutines meeting at channels, locks, semaphores and flags (job streams, server,
both stages); cancellation in the middle of everything; a lock given up around a
fetch (`Reload`); ports that are free when chosen and taken when used; memory and
files that must agree after failed writes, files cut short and restarts; a page
that acts on replies and streams of its earlier clicks; one file name for several processes; early exits and budgets
whose boundaries decide a verdict. `PROJECT.json` lists the hazards at their
lines, each with the properties that cover it or the reason none does.

## 2. Modules

| Module | Models | Checked by |
|---|---|---|
| `EventFeed` | what a job promises its readers (abstract) | refinement from `JobStream` |
| `JobStream` | one job, its producer, its streams | `MCJobStream` |
| `ScanServer` | admission, stop, end and retention of scans | `MCScanPage` |
| `ScanPage` | the pages' start/stop button over `ScanServer` | `MCScanPage` |
| `TcpSweep` | stage 1 | `MCTcpSweep` |
| `XrayBatches` | stage 2 and the xray processes | `MCXrayBatches` |
| `ProbeVerdict` | the session that measures one candidate | `MCCandidate` |
| `ShareLink` | links, their parsing and substitution, the outbound built from them (operators) | `MCCandidate` |
| `Candidate` | one candidate from the link over `ProbeVerdict` to the link handed out | `MCCandidate` |
| `XrayExtract` | extraction of the embedded binary by several processes | `MCXrayExtract` |
| `TargetRegistry` | registry, its files, manifest, restarts | `MCTargetRegistry` |
| `RangeFetch` | where ranges come from, for the program and the updater, and what is kept | `MCRangeFetch` |
| `HostExpand` | `Expand` | `MCHostExpand` |
| `ScanPipeline` | a request from buildConfig to the results files | `MCScanPipeline` |
| `ScanLimits` | the numbers of a request through all layers (operators, used by `ProbeVerdict`) | `MCCandidate` |
| `*Proofs` | theorems and proofs about the module named; `ScanPageProofs` is also about `ScanServer`, `CandidateProofs` about `ScanLimits` and `ProbeVerdict`, `XrayProofs` about `XrayBatches` and `XrayExtract`, `RangesProofs` about `RangeFetch` and `HostExpand` | TLAPS |

Two modules compose others: `ScanPage` extends `ScanServer` and takes its steps unchanged, and
`Candidate` extends `ProbeVerdict` (with `ScanLimits`) and `ShareLink`. The proofs show that
their behaviours are behaviours of what they extend. The
others meet at abstractions rather than in one product: `ScanServer`'s scan
is one interval that ends by itself or when cancelled; `JobStream` is that scan
as a sequence of pushes; `ScanPipeline` is the scan as a sequence of stages, in
which each stage keeps some of its input and a fetch succeeds or fails. What the
stages, the fetch and the expansion do inside is `TcpSweep`, `XrayBatches` with
`ProbeVerdict`, `RangeFetch` and `HostExpand`. `TargetRegistry` has the registry
with its files; `ScanPipeline` keeps the part of it that a scan reads and writes.

Operators named `...` with a comment "Faulty variant" are not part of any
specification. Each is a plausible bug in the definition that follows it, and
`PROJECT.json` ("mutants") says which property finds it.

### JobStream and EventFeed

`phase` is where the goroutine of `handleScan` is; `events` and `done` are the
job's; `ch` numbers the channels that `job.ch` holds one after the other: a push closes
the current one and makes the next, so a stream that took channel `c` is woken exactly if
`ch` has moved past `c`. A stream polls (`after`: one critical section), writes, and then either
ends, or takes the channel (`wait`: a second critical section) and parks. The
two critical sections are two steps; what lies between them is the subject of a
finding. Streams open at any time, also after the end, and hang up at any time.
`EventFeed` is the promise: an append-only log, readers that each receive a
growing initial part of it, and an end that comes only with the whole log.
`JobStream!IsAFeed` is the refinement: the log is `events`, a reader has what its
stream sent.

### ScanServer

One `pc` per scan request follows the handler and then its goroutine, one step
per shared access: the compare-and-swap, `newJob` with its sweep, the publication
of `s.cancel`, the return of the scan, `finish`, and the defers in the
order Go runs them. A stop request has two steps: it reads `s.cancel` under the
lock, and calls it later. Time is a clock in hours, bounded by `MaxClock`;
creation times and the retention period `Hour` are on it. The sweep spares what is not done, and
runs when the next scan is admitted; that nothing outstays its period by more than that
(`RetentionBounded`) rests on a job being done before the flag is released, and on one scan at a time.

### ScanPage

`es` is the page's global event source, `streams` what the browser keeps open,
`awaited` the requests whose reply `start()` still awaits, `running` the label of the
button. `ClickStop` and `ClickStart` are the two halves of `start()`; `Refused` and `Accepted`
are what follows its `await`. `start()` does not lock the button, so that a page may await
several replies. The handlers of a stream close `es`, whichever stream calls them
(`CloseEs`). A stop that was sent is received later, at any time (`ReceiveStop`). A lost
reply, and a stream that breaks, happen at any time. `early`, `crossed` and `dropped` are
history: stops read before `s.cancel` was published, pages that had two starts under way,
scans whose reply or stream was lost.

### TcpSweep

The launcher takes a slot and starts a worker per host; a worker dials, sends the
host on `out` if the port was open, or drops it when the context is done, then reports and
releases; the launcher waits for the wait group and closes `out`; `stage1` receives.
`pass` counts the places in the list of ports; a port given twice is two passes, each with endpoints
of its own. `opened` is a history variable: what answered. The
channel's capacity `OutCap` and the granularity of progress reports
(`Percent`, 100 in the code, and 3 in the run, where a report is due at every second host) are constants. A worker counts under
the lock and reports outside it, in two steps.

### XrayBatches

Batches of candidates take a slot (`sem`), pick ports (`freePorts`: any distinct
ports nobody listens on *at that moment*), start a process, wait for its last
port, run one probe goroutine per candidate behind a second semaphore, kill the
process and merge. The process is external: it binds its ports if they are all
free and exits otherwise; it may also exit at any moment. `via` is a history variable: whose
outbound answered on the candidate's port.

### ProbeVerdict

`answer` fixes before the session what each of the `N` requests would measure, so
that the run that stops early can be compared with the one that would not. A cancellation
makes requests fail; `spoiled` remembers that it did.

### ShareLink and Candidate

A link is a record of what its URL or payload spells out, `Absent` for what it leaves out;
base64, JSON and URL syntax are not modelled. `Parse` gives the Outbound with its
defaults, `parses` and `builds` say where `Parse` and the configuration fail, `buildOutbound`
gives what xray dials with: the address, the credential, and of transport and
handshake only the fields that the network and the security use. `Candidate` carries a link
through the service (`Configure`), `TestBatch` (`StartXray`), `probeEndpoint` (`Measure`) and
`buildResult` (`List`). `clientDials` is what a client makes of the link handed
out: its own parsing, at the link's own address.

### XrayExtract

Files are nodes with the set of chunks written to them; the names `<dst>.new` and `dst` are links
to nodes, as POSIX has it. A process goes through `Resolve` step by step: `os.Stat`
with its test of the size, `os.OpenFile` that truncates, `io.Copy` chunk by chunk,
`Close`, `os.Rename`, `os.Remove` after an error. Each call may fail and each process may be killed
at every step and start again. `shared` and `broken` are history: two extractions
overlapped, a copy was cut short. The names of the specification (`ExtractSpec`, `ExtractInit`, ...) are
its own, as `XrayProofs` extends `XrayBatches` as well.

### TargetRegistry

Each operation of `Registry` holds the lock over the change in memory and the
writes, so it is one step. A scan that fetches a built-in writes its range file between any two of them
(`ScanRefreshes`); `refetched` is history: the names whose file a scan wrote since the registry last wrote
or read it. A write may fail, which leaves the file as it was or torn, and the
operation then returns with what it had changed so far. A torn range file reads like
a missing one; over a torn `custom.json` every save fails, and the next start is refused (`Refuse`). `Reload` is three steps: copy, fetch
without the lock, upsert of the copy. Names are spellings with `trim` and
`lower`, because lookups ignore case and surrounding spaces in some places and
file names do not. `Only` is the filter of the loops that skip records or entries. `Restart` is `Open` on what the files hold; it may happen
between any two steps.

### RangeFetch

A request has a kind of manifest entry and options; `plan` is the list of sources
the options leave, in order. Servers answer each request with `Down` or a body;
a body has a shape (which parser understands it) and entries that are usable,
special-purpose or junk. `file` is the range file, `published` the one the updater
writes: it makes the same requests without cache and backup, passes over manual entries
and does not filter what it stores. A write may break off and leave a file that reads
like a missing one.

### HostExpand

One step per candidate address, over addresses of a few bits. The striding of
large IPv4 prefixes, the random sample of large IPv6 prefixes with its bound on
collisions, deduplication, the per-prefix caps, the reservoir for `MaxTotal` and
the guard for oversized pools are as in the code; every random choice is any
choice. The guard's sum is the number of pairs of a prefix and a host of it (`Counted`); like the code
it leaves out bare addresses, which the list may have beside prefixes (`bare`). The names of the
specification (`ExpandSpec`, `ExpandInit`, ...) are its own, as `RangesProofs` extends
`RangeFetch` as well.

### ScanPipeline

A request (from a browser: one target, or ranges of its own; from the command
line: a list) is carried out one target at a time: configuration, ranges and
hosts, stage 1, stage 2, results file. `live` remembers whether the context was
live when a stage began. Meanwhile the user edits targets and may cancel. `buildConfig` has its three errors:
a link that does not parse and, with one that does, no xray binary or no prober made of it; each gives up
the targets that are left. The other failures are of one target, and the next one follows. Files are truncated
and then written: a write that fails leaves the old range or results file, or one that is cut short, which for a
range file is as good as missing. `before` is history: the results files when the request was made.

### ScanLimits

The numbers of a scan as operators, one per layer: what the front-end submits
(`submitted`), what `buildConfig` passes on, what `NewProber` and `Run` make of it;
`effective` is their composition. `ProbeVerdict` takes its N, K and budget from it.
Time limits are in milliseconds; the durations' 64 bits are not modelled (see 7).

## 3. Runs

Each run checks what its row names; those over `TargetRegistry`, `RangeFetch`, `HostExpand`,
`ScanPipeline` and `Candidate` also the type invariant. That of the other modules is proved (section 6).

| Run | Instance | Shows |
|---|---|---|
| `job_stream` | 2 streams, up to 1 event besides those every scan pushes | the job implements `EventFeed` (`IsAFeed`); a stream that ended has delivered `result` and `done` (`EndedStreamSawResult`); a stream that polls after the end ends, and one parked on the current channel is woken by the next push (`WakeupsOutsideWindow`) |
| `scan_page` | 2 pages, 2 scan requests, 2 stops, clock 0..2, retention 1 | of the server, under pages: `OneScanAtATime`; `CancelledByItsStop`: a stop cancels no scan but the one whose cancel function it read, once it has read it; `RetentionBounded`: the jobs kept are of one retention period, and that of the running scan is among them; `ScansEnd`: a scan that a stop found, or that finished, frees the server. Of the pages: `PageFollowsItsScan`: where no two starts were under way at once, button, stream and server agree, but for replies and streams that were lost; `StopsReachTheScanShown`: a stop reaches the scan its page showed, outside two named windows |
| `tcp_sweep` | 3 hosts, 2 ports, 2 slots, channel of 1, reports every 2 hosts and at the total | `QuietWhenClosed`, `SurvivorsExact`, `ProgressReachesTotal`, `SweepEnds`, cancelled at any moment or not |
| `xray_batches` | 3 candidates, batches of 2, 2 at a time, 3 ports | `NoStrayProcess`, `EntriesExact`; `MisroutedOnlyByConcurrentBatch`: only another batch that is running can carry a candidate's probes; `StageReturns` |
| `candidate` | 71 links, 6 probes, 4 to confirm, latencies on both sides of the budget | `VerdictIsKofN`, `AcceptedIsFast`; `HandedOutAsProbed`: a client that dials the link handed out makes the connection that was measured; `ProbeTypeOK` has the bounds of the settings |
| `target_registry` | one built-in, two spellings of a custom whose name may be published, one reload, scans that fetch the built-in, one failed or torn write between two starts | `NamesUnique`, `BuiltinsAccounted`, `FilesCurrent`, `RangesSurviveRestart` |
| `range_fetch` | four URLs, six bodies, all options, program and updater | `FirstAnswerWins` (order of sources, and nobody asked whom the options exclude), `FeedsFailIndependently`, `FailureKeepsFile` (the cached and the published one) |
| `xray_extract` | 3 processes, a binary of 2 chunks, 4 nodes; errors and kills at every step | `LoneExtractionIsSafe`: without overlap the binary is whole at every moment; `OverlapSettles`: with overlap it is whole when the last copy is through, unless one was cut short |
| `host_expand` | 4-bit addresses, subnets of 4, 9 lists, 48 strategies | `FullPoolOnce`, `BudgetsKept`, `EverySubnetSampled` |
| `scan_pipeline` | two built-ins, one custom, two hosts of which one is of a family scanned; a list that names both built-ins, one that names one twice, and a single name | `SummaryIsSaved`; `EveryTargetAccounted`: summary, failure or still to come, unless `buildConfig` gave the request up, and then for every target before; `OldResultsKept`: a target without a summary has its old results, or those cut short by its own failed write |

`job_stream_lost` and `xray_batches_two` expect a violation; they are the findings of
section 5.

### Why these bounds are enough

- *Streams* never act on each other; two show that. One event between the first and
  `result` gives every order of poll, park and push; a stream can be behind by any
  number of events already.
- *Scans and pages*: a stop that outlives its scan needs a second scan to hit, which
  also sweeps the job of the first; both may be asked for by one page, one after the other or
  at once, or by two. With retention 1, a clock to 2 has jobs on both sides of the
  cutoff. More scans, stops and pages are covered by the proofs.
- *Sweep*: with 3 hosts, 2 slots and a channel of 1, the launcher waits for a
  slot, workers wait for the channel, and both happen with the receiver idle.
  Two ports give a pass after a cancelled pass. Six dials and a step of two give counts that are reported
  and counts that are not; a step that does not divide the total is covered by the proof.
- *Batches*: 3 candidates in batches of 2 give a full and an incomplete
  batch, both running at once; with 3 ports a port given up by one batch
  is one the other may get. Two candidates and two ports make batches collide.
- *Probes*: 6 and 4 give an even median and both breaks before the bound;
  latencies 1 and 4 and a budget of 2 give medians below and above it, of equal and of
  different middle values. The other settings are absent, negative or too large, so that every
  layer changes one. What holds for all settings is proved (section 6).
- *Links*: every network and security with and without names of their own, for each
  protocol; the options of transport and handshake one at a time, as they do not act on each
  other; each way not to parse and not to build. What holds for every link is proved.
- *Extraction*: two processes give every overlap; a third one restarts while two are at it. Two chunks
  are the least that can leave a gap under a right size. The proofs have any number.
- *Registry*: every hazard needs one built-in, one custom and one reload that is
  overtaken. A second spelling of the custom shows what case does. One write may fail or tear a file
  between two starts, and none after a publication (`MayFail`): after a failure memory and
  files may disagree, and the properties speak of the time before; most of them also speak of
  the time before a publication. One URL besides none (`Urls`, also the manifest's)
  decides whether a target can be reloaded; which URL it is matters to no property. Scans fetch the built-in
  (`Scanned`) at any time, and give it the ranges there are or none.
- *Fetch*: six bodies cover every combination of shape with usable, special and
  junk entries that a parser tells apart.
- *Pipeline*: a target fails in every way before and after another one of the same request; the list that names one
  twice overwrites, or cuts short, the results it has just reported. `mine` has no entry in the manifest. An edit
  after a list waits for the next request.
- *Expansion*: 4 bits and subnets of 2 bits keep the code's cases (a prefix larger
  than, equal to and smaller than a subnet; a sample that does and does not divide
  it; a pool above and below the guard).

State bounds named in the modules: `MaxBody` (events a scan pushes), `MaxClock`
(hours), `MayFail` (failed writes), `Names`, `Scanned`, `Reloaders`, `Queues`, `Inputs`, `Bodies` (what
may be asked or answered). Deadlock is checked wherever the modelled part goes on for ever
(fetch, pipeline, extraction); the others end, or in the registry's case may refuse to start, and their
configurations say so.

## 4. Fairness

- A goroutine that can take a step is scheduled: weak fairness of each step of
  the producer, the streams, the launcher, workers and receivers. Go's scheduler
  is preemptive and none of these steps is in a loop that disables the others.
- A dial, a probe request and `waitPort` each have a timeout, so that the step
  that ends them is fair as well, whatever the network does.
- `Service.Scan` is required to return only when its context is cancelled
  (`ScanServer`); `TcpSweep` and `XrayBatches` show it of the two stages.
- A stop that a page sent arrives (`PageSpec`): the browser delivers it or the page learns nothing of
  it. No reply and no stream is assumed to arrive.
- Nobody has to cancel, stop, open a stream, hang up or edit. Nothing is assumed
  of xray processes: they may never listen, or never exit until killed.
- Liveness is stated where goroutines wait for each other. `ProbeVerdict`, `Candidate`,
  `TargetRegistry`, `RangeFetch`, `HostExpand`, `ScanPipeline` and `XrayExtract` have no fairness.

No run needs strong fairness.

## 5. Findings

Each of these is a run that expects TLC to violate one property, taken from a comment
of the repository.

| Run, property | What the code does |
|---|---|
| `job_stream_lost`, `EveryStreamEnds` | `handleStream` calls `after` and `wait` in two critical sections. A push between them closes a channel the stream has not taken. If it was the last, the stream waits for ever. |
| `xray_batches_two`, `AcceptedOverOwnOutbound` | Two batches at a time may be given the same port; the one that lost it probes through the other's process. |

Writing the modules from the code also showed the following. The models have the
behaviour, unless a note says otherwise, and no run is devoted to it. The properties of section 3
hold in spite of it, either because they do not speak of it or because they name the case they leave out.

- *A stop before the cancel function is published* (`internal/web/server.go:435`, `:481`) is
  answered "stopping" and cancels nothing; the comment at :469 says "cancels the scan
  currently in progress". The page has closed its stream by then and shows "stopped"; its next
  click asks for a scan and is refused until the first is over. `StopsReachTheScanShown` names the
  window (`early`).
- *A stop that is delayed* (`internal/web/server.go:483`) names no scan, and cancels the one that runs when it
  arrives, be it another page's.
- *Two starts at once* (`internal/web/static/index.html:961`): `start()` does not lock the button while
  it awaits, and the handlers close the global `es`. A page whose two requests were both
  accepted keeps one event source open that nothing closes any more. `PageFollowsItsScan` leaves such
  pages (`crossed`) out.
- *Overlapping extractions* (`internal/xray/embedded.go:87`, `:97`): if one process truncates the other's
  temporary file and one of the copies is then cut short, the binary may keep its right size and a
  gap, and is reused for ever, as the size is all that is looked at.
- *Names in links* (`internal/link/link.go:74`): for a link that names neither SNI nor Host, the probe presents the
  server's address; the link handed out no longer has it, and a client presents the candidate's. The comment
  promises to leave "the SNI / Host / path / UUID untouched", which is true of the text.
- *Fields of links that are not used* (`internal/link/link.go:219`): the `type` of a vmess payload is parsed and ignored,
  and a trojan link's reality keys are not parsed.
- *A custom deleted during its reload* (`internal/targets/targets.go:260`) comes back, as
  `Reload` writes back the copy it took before the fetch; :100 says "Deleted customs stay deleted".
- *A torn `custom.json`* (`internal/storage/storage.go:110`) makes every later save fail, as each reads the file first
  (:94), and the next start refuse (`internal/targets/targets.go:59`), until the file is repaired by hand.
- *A backup file without a usable entry* (`internal/providers/providers.go:281`) counts as an answer; the entries are
  filtered afterwards (:503), and the range file that had ranges then has none. With two feeds of which one answers
  (:318) the file loses the other family. `FailureKeepsFile` catches neither.
- *Retention* (`internal/web/server.go:605`) counts from the creation of a job, not
  "after completion" (:598-599): a scan of more than an hour is swept at the next
  request, and so is one that finished a minute ago. `RetentionBounded` states what holds.
- *Progress of a cancelled pass* (`internal/pipeline/pipeline.go:255`): `base` counts all
  hosts of the pass, though :240 says "already processed", and the next pass is started.
- *URLs of built-ins* (`internal/targets/targets.go:73`): the URL a user gave a built-in is
  not saved, and is the manifest's again after a restart.
- *A published name that a custom has* (`internal/targets/targets.go:212`): the reload
  that follows turns the custom into a built-in, and the next start lists the name twice. Hence
  the condition `Unpublished` in the properties of the registry.
- *Casing* (`internal/targets/targets.go:217`): a built-in saved under another spelling
  has its ranges written to a file that `Open` never reads, where :211 says "Preserve the
  canonical name's existing casing".
- *Spaces* (`internal/targets/targets.go:243`): a built-in deleted by a name with a
  space in front is hidden under that name and is back after a restart (:229-231 say it does
  not reappear). `MCTargetRegistry` has neither spelling; `trim` and `lower` allow both.
- *`SamplePer24`* (`internal/iprange/iprange.go:216`) gives more hosts than asked for when it
  does not divide 256, and is ignored for a /24 or smaller; :89-90 says "limits".
  `EverySubnetSampled` states what holds: no subnet gets less.
- *A range file behind the registry* (`internal/providers/providers.go:512`): a scan that
  fetches writes the file of a built-in, and the registry does not learn of it: the file does not
  say what is listed, and a restart brings back what the scan wrote. `FilesCurrent` and
  `RangesSurviveRestart` name these targets (`refetched`) and say that no other differ.
- *A results file cut short* (`internal/output/output.go:75`): `os.WriteFile` truncates first, so that a write
  that fails may destroy the old results of its target, and even those the same request has reported, if it names
  the target twice. `OldResultsKept` and `SummaryIsSaved` name the case.
- *A request given up* (`cmd/cdnscan/main.go:228`): an error of `buildConfig`, for one no xray binary, is
  fatal, and the targets left are not scanned; but `buildConfig` has the same link for all of them.
- *Forced re-fetch of a custom* (`internal/app/service.go:253`): the service names it as
  a CDN, which the manifest does not know, so that the scan fails.

## 6. Proofs

TLAPS checks these for every value of the constants that satisfies the module's
ASSUME. They use the library's theorems on finite sets and sequences.

| Theorem | Statement | Assumes |
|---|---|---|
| `JobStreamProofs!TypeCorrect` | `[]TypeOK` | `MaxBodyAssumption` |
| `JobStreamProofs!EndedStreamsComplete` | `[]EndedStreamSawResult` | same |
| `JobStreamProofs!ImplementsFeed` | `Spec => Feed!Spec`: the refinement | same |
| `ScanPageProofs!PagesUseTheServer`, `PagesTypeCorrect`, `StopsReachTheirScan`, `PagesFollowTheirScans`, `PagesKeepScansApart` | `PageSpec => Spec` of the server; `[]PagesTypeOK`, `[]StopsReachTheScanShown`, `[]PageFollowsItsScan`, `[](OneScanAtATime /\ CancelledByItsStop)` with any number of pages | `ServerAssumption` |
| `ScanPageProofs!TypeCorrect`, `ScansExclude`, `CancelBelongsToRunningScan`, `StopsHitTheirScan`, `JobsRetained` | of the server: `[]TypeOK`, `[]OneScanAtATime`, `[]RunningScanIsStoppable`, `[]CancelledByItsStop`, `[]RetentionBounded` | `ServerAssumption` |
| `TcpSweepProofs!TypeCorrect`, `QuietAfterClose`, `ConcurrencyRespected`, `SurvivorsCorrect`, `ProgressComplete` | `[]TypeOK`, `[]QuietWhenClosed`, `[]DialsBounded`, `[]SurvivorsExact`, `[]ProgressReachesTotal` | `SweepAssumption` |
| `XrayProofs!TypeCorrect`, `ProcessesContained`, `EntriesCorrect`, `MisrouteCorrect` | `[]TypeOK`, `[]NoStrayProcess`, `[]EntriesExact`, `MisroutedOnlyByConcurrentBatch` | `BatchAssumption` |
| `XrayProofs!SequentialBatchesNotMisrouted` | `[]AcceptedOverOwnOutbound` | the same and `XrayConcurrency = 1`, as in lite mode (`internal/pipeline/pipeline.go:26`) |
| `CandidateProofs!LimitsHold`, `FrontendsAgree`, `SlowProbesAreMeasured` | for both front-ends and all integer settings: `Bounded`, the concurrency and batch size that `meant` says, `SlowIsMeasured` | `CPUAssumption` |
| `CandidateProofs!TypeCorrect`, `EarlyExitIsExact`, `RequestsAreNeeded`, `AcceptedFast` | of the probe: `[]ProbeTypeOK`, `[]VerdictIsKofN`, `[]NoWastedProbe`, `[]AcceptedIsFast` | `ProbeAssumption`, `CPUAssumption` |
| `CandidateProofs!CandidateProbes`, `CandidateVerdict`, `HandedOut` | `CandidateSpec => Spec` of the probe; `[]VerdictIsKofN`, `[]HandedOutAsProbed` for every link | these and `CandidateAssumption` |
| `XrayProofs!ExtractTyped`, `LoneExtractionSafe`, `OverlapsSettle` | `[]ExtractTypeOK`, `[]LoneExtractionIsSafe`, `[]OverlapSettles` for any number of processes, nodes and chunks | `ExtractAssumption` |
| `RangesProofs!RangesTyped`, `FirstAnswer`, `FeedsIndependent`, `FilesKept` | of a fetch: `[]TypeOK`, `[]FirstAnswerWins`, `[]FeedsFailIndependently`, `FailureKeepsFile`, for any bodies and entries | `FetchAssumption` |
| `RangesProofs!ExpandTyped`, `PoolScanned`, `BudgetsHold`, `SubnetsSampled` | of an expansion: `[]ExpandTypeOK`, `[]FullPoolOnce`, `[]BudgetsKept`, `[]EverySubnetSampled`, for addresses of any width, any list and any strategy | `ExpandAssumption` |
| `ScanPipelineProofs!TypeCorrect`, `SummariesBacked`, `TargetsAccounted`, `ResultsKept` | `[]TypeOK`, `[]SummaryIsSaved`, `[]EveryTargetAccounted`, `[]OldResultsKept`, for any targets, hosts and requests | `PipelineAssumption` |
| `TargetRegistryProofs!TypeCorrect`, `NamesStayUnique`, `FilesFollow` | `[]TypeOK`, `[]NamesUnique`, `[]FilesCurrent`, for any manifest, spellings, ranges, scans and number of requests | `RegistryAssumption` |
| `TargetRegistryProofs!BuiltinsStayAccounted` | `[]BuiltinsAccounted` | the same and `Unpadded`: no request puts spaces around the name of a built-in |
| `TargetRegistryProofs!RangesRestart` | `RangesSurviveRestart` | the same and `OneSpelling`: requests spell a built-in as the manifest does |

The instance of `target_registry` satisfies `Unpadded` and `OneSpelling`; the notes on casing and spaces
in section 5 say what happens without them. `RegistryAssumption` asks of the names in manifests what
`inside-api/index.json` has: no spaces around them, and no two the same up to case.

`RunningScanIsStoppable`, `DialsBounded`, `NoWastedProbe` and the type invariants of the modules whose runs
do not name one are proved and not checked by a run.

For each state machine a proof module states one inductive invariant (`IInv`, in the modules about two
machines also `PInv`, `ExtractInv` or `ExpandInv`), proves that the initial states have it and that every step keeps it, and takes
the theorems from it. What a theorem needs besides, it adds in an invariant of its own that rests on
the first (`Progressing`, `Accounted`, `Strided`).

- **JobStream**. That an ended stream has everything is not inductive. `IInv`
  adds how the log ends in each phase of the producer (`EventsMatchPhase`) and that what a
  stream has sent is an initial part of the log (`StreamsArePrefixes`). Two
  lemmas about sequences say that writing what `after` returns behind an initial
  part gives the whole log, and that an append keeps initial parts. The
  refinement follows step by step: a push appends, a poll delivers the rest,
  everything else stutters.
- **ScanServer**. Mutual exclusion needs that the flag is up while a scan is
  active (`FlagCoversScan`). That a stop hits its own scan needs
  `CancelIsPublished`: `s.cancel` is a scan's exactly between its publication and
  the defer that clears it. That in turn needs mutual exclusion, and that the flag is
  released last. Retention needs that a job is done exactly from `finish` on (`DoneMatchesPc`): when a
  request was admitted no scan is active, so that every job there is done, and its sweep leaves the young ones.
- **ScanPage**. Every step of the composition is one of the server or leaves the server alone
  (`ServerSteps`), so that the server's invariant holds between pages. `PInv` adds that what a page shows or
  stops has its job (`ShownHaveJobs`), and `Orderly` for the pages outside `crossed`: at most one request
  is awaited, none while a stream is shown, and every request the page ever made is awaited, shown
  or settled. A stop that reads `s.cancel` early or late is told from the others by
  `CancelIsPublished`, which is the server's.
- **TcpSweep**. `Slots` ties the semaphore and the wait group to the workers,
  `Fresh` says that a host's dial still to come has no open endpoint,
  `InTransit` says where an open endpoint is (with its worker, in the channel, or
  received, and in one place only), `Complete` says that without a cancellation
  none is lost. `Over` closes the last pass. Progress needs two more: `Tally`, that the counter is the number of
  hosts counted in this pass on top of those of the earlier ones, and `TotalComing`, that once it has
  reached the total, the worker that took it there has reported it or is about to.
- **XrayBatches**. `Slotted` ties slots and processes to the batches that run, `Wired` ports to the
  processes that listen, and `Judged` verdicts to the batches that probed. `Counts` and `Kept` say how far
  the results of each batch were merged: the entries are the accepted ones of the candidates told so
  far (`Told`), each once. `SequentialBatchesNotMisrouted` adds that with one slot no second
  batch runs.
- **ScanLimits**. One lemma per layer gives the fields of what that layer returns and their
  ranges; `EffectiveSettings` composes them into a closed form, from which the theorems
  follow field by field.
- **ProbeVerdict**. `LimitsHold` gives that there are from one to `Probes`
  confirmations, which every boundary below rests on. `Counted` equates the successes with the requests among those
  made that would have measured something; `Decided` says why the loop was left.
  `GoodRest` bounds what the requests not made could have changed. For the median, the k-th smallest of
  a sequence is found as the least number that has k elements at or below it, which exists because the natural numbers are
  well-founded; no induction over the sequence is needed. At least half of the elements are then at most the
  median (`HalfWithinMedian`).
- **Candidate**. `Configured` and `Substituted` say what the stages hold of the link. The lemma
  `Readdressed` says that a link that parses still does with a candidate in it, and how the Outbound it
  gives differs: in address and port, and in the names that default to the address. `HandedOut`
  follows field by field of transport and handshake.
- **XrayExtract**. Two arguments in one invariant. `LoneOwner`: without overlap one process extracts, the
  temporary file is its own and holds what it has copied. `AllPromised`: unless a copy was cut
  short, each of the two names stands for a node that is whole or is being filled by a process that
  has left nothing out; the last process to truncate a node is always such a one.
- **RangeFetch**. The invariant keeps the books of each source: passed over, exhausted, being asked or
  still to come (`Mirrors`, `Provider`), with the answers it gave so far, while the search goes on
  (`Searching`), and why the others were not asked or did not have anything, once a source was found
  (`ProviderFound`, `MirrorFound`, `CacheServed`).
- **HostExpand**. `Cursor` says where the loops are, `Budgets` what the current prefix has given, `Reservoir` and
  `Distinct` how long the result is and that nothing is twice in it, and `Covered` that a prefix that is
  neither sampled nor to come is in the result up to the current offset. The guard counts hosts per
  prefix and the result holds distinct hosts, so that the bound follows by counting (`CountBounds`). For
  `SamplePer24`, `Strided` says that the multiples of the stride are in the result up to the current offset.
  A prefix is a whole number of subnets (`WholeSubnets`, for which powers of two must multiply: `PowerSum`, by
  splitting sets in two), and a window that is wide enough for some strides has as many multiples (`Window`).
- **ScanPipeline**. `Funnel` orders the sets of hosts from stage to stage, `Suffix` says that what is left
  to scan is an end of the request. With the count of outcomes they place every outcome (`InOrder`). Only the
  step that writes the file adds a summary, and only its failure, which is logged, spoils a file
  (`FilesStay`); the three properties are part of the invariant, as each step changes what all of them speak of.
- **TargetRegistry**. That names are unique is not inductive by itself: a reload after a publication
  may have two records of a name, a restart rebuilds the records from the files, and a request holds
  a record that may be stale. `Tidy` says of the registry and of `custom.json` that names are trimmed
  and that two records of one name are a built-in and, after it, a custom (`Twins`); `Flagged` that,
  before a publication, the built-ins are those of the manifest, so that there are no twins. `Requests` is what
  reloads in flight hold. `FilesCurrent` itself is inductive with these, as each operation
  writes what it changed and a scan that writes is remembered in `refetched`; a built-in that is restored takes its
  name out of it, for which it must not have been listed before (`MissingUnlisted`). `Accounted` rests on them. The lemmas on `Only`, the filter behind every
  loop over records or entries, are proved through the positions it keeps (`Picks`), by a least position
  that would not do.

**Only model-checked.** All liveness (`ScansEnd`, `SweepEnds`, `StageReturns`, `WakeupsOutsideWindow` and the
violated `EveryStreamEnds`), which with ENABLED is out of the prover's reach. Every invariant and every
action property of the passing runs is proved.

## 7. Not modelled

- *HTTP plumbing* (`Serve`, host and origin checks, rendering): stateless.
- *Text*: the syntax of links (base64, JSON, URL escapes) and of xray's configuration. Links are
  what they spell out, configurations what they wire and send.
- *Validation* of names and URLs: a name or a URL in the models is a valid one.
- *A start without any manifest*, neither published nor local, in which the program has no built-ins.
- *Power failures*: a file that was closed is on the disk.
- *Windows* in `XrayExtract`: there, a file that is open cannot be renamed or removed.
- *Presentation of the page*: the log, the results, the editor of targets.
- *Counters and exit status of the updater*.
- *Network interfaces* (`family.go`): which families are scanned is a constant.
- *Durations*: milliseconds are integers. Only the command line sets the TCP timeout, from a
  duration that fits.
- *Names of results files*: two names that differ only in punctuation share one.
- Status bar, colours, process priority, build and release scripts: presentation
  and data.

## 8. Plan

Done, in order of importance to the user: job streams, scan lifecycle, stage 1,
stage 2, verdicts, registry, fetch, expansion, pipeline, limits; then the page over the server,
links and candidates, the extraction, files cut short, the updater. Proofs for all of them.

Next, models:

1. An abstract specification of a scan (admit, run, cancel, end) that
   `ScanServer` implements, and one of the target store that `TargetRegistry`
   implements away from the notes of section 5.
2. Results files that two names share.
