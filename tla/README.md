# A TLA+ model of http-dash-simu

This directory specifies, model-checks and proves properties of the DASH client and
server of this repository: a client that streams a video over TCP, segment by
segment, at a quality that one of eight rate adaptation algorithms picks, and a
server that answers each request with that many bytes. The modules are written
from the C++ code under `src/dash`. The folders `base/`, `tcp/` and `logging/`, which
that code includes and the repository does not contain, are modelled from how the
code uses them, and are marked external.

Run a check with `tlc -config X.cfg M` (`MCDashSession*.cfg` with `MCDashSession.tla`,
`MCAdaptation*.cfg` with `MCAdaptation.tla`, `MCPlayback*.cfg` with `MCPlayback.tla`) and
the proofs with `tlapm M.tla`, where `M` is `DashSession_proofs`, `DashSession_refinement`,
`DashSession_progress`, `Recursion`, `PlaybackData_proofs`, `Playback_proofs`, `Playback_refinement` or
`Adaptation_proofs`. `PROJECT.json` lists runs, properties, the mutant that each property rejects, and, per definition, the
source lines that it models.

## Inventory

### Components

| component | state | operations | status |
|---|---|---|---|
| `DashClient`, connection and requests (`dash_client.cc`) | `fd_`, `status_`, `index_`, `quality_`, `segment_bytes_`, `read_bytes_`, `segment_counter_`, `throughput_`, the request alarm | `AsynConnect`, `OnEvent`, `OnConnected`, `OnReadEvent`, `RequestSegment`, `DelayRequestHandle`, `SendRequest`, `Close`, destructor | modelled: `DashClient` |
| `DashClient`, player | `player_state_`, `segments_in_buffer_`, `playback_index_`, `played_frames_`, the playback alarm; `startup_time_`, `pause_time_`, `pause_start_` | `CheckBufferStatus`, `PlayBackHandle` | modelled: `DashClient` with every fault and without time, `Playback` with the clock |
| loop of `dash_client_test.cc` | `g_running` | a turn of the epoll loop, `IsTerminated`, signals, deletion | modelled: `DashClient` (`cpc`) |
| `DashServerEndpoint` (`dash_server.cc`) | `fd_`, epoll mask, `request_bytes_`, `sent_bytes_`, `destroyed_` | `OnEvent`, `OnReadEvent`, `OnCanWrite`, `Responce`, `OnUnregistration`, `OnShutdown`, `DeleteSelf` | modelled: `DashServer` |
| server loop, backend and factory (`dash_server_test.cc`, `dash_server.h`) | the listening socket | accept, exit on a signal, SIGPIPE included | partly: `DashServer`, one endpoint; endpoints share no state, only the fate of their program |
| TCP, epoll, alarms (external) | socket buffers, FIN, edges | connect, deliver, close, reset | modelled: `Tcp` |
| `FestiveAlgorithm` (`dash_algorithm.cc`) | `switch_up_count_`, `history_quality_` | `GetNextQuality`, the two scores | modelled: `Festive` |
| `OsmpAlgorithm` | none | `GetNextQuality` | modelled: `Osmp` |
| `RaahsAlgorithm` | none | `GetNextQuality` | modelled: `Raahs` |
| `SftmAlgorithm` | `rsft_exceeded_`; the frames played so far, which it asks the client for | `GetNextQuality` | modelled: `Sftm` |
| `TobascoAlgorithm` | `m_running_fast_start` | `GetNextQuality`, `BufferInc` | modelled: `Tobasco` |
| `PandaAlgorithm` | the share, the smoothed share, the target interrequest time, the last buffer | `GetNextQuality`, `FindLargest` | modelled: `Panda`, in whole units of the bitrates and ms |
| `FdashAlgorithm` | none | `GetNextQuality` | modelled: `Fdash`, the weights of the rules open |
| `SvaaAlgorithm` | `m_m_k_1`, `m_m_k_2`, `m_counter` | `GetNextQuality` | modelled: `Svaa`, the exponential by its bounds |
| `BandwidthPredicator` | none | `Predict` | modelled: `Predictor` |
| buffer and throughput samples | `buffer_`, `throughput_` | appended by `OnReadEvent`, `RequestSegment` | modelled: `Playback` with the clock, `SegmentLoop` per segment |
| choice of the algorithm | `algorithm_` | `SetAdaptationAlgorithm` | modelled: `Adaptation` |
| QoE, trace | the recorded samples | `CalculateQoE`, `LogInfomation` | partly: `Playback`, the startup and pause time that is charged |
| video files (`dash_util.cc`, `split.cc`) | `VideoData` | `ReadSegmentFromFile`, `split` | modelled: `VideoFiles`, without `averageBitrate` |
| Poisson sender, emulation and plot scripts | | | not modelled, separate programs |

### How they interact

Client and server are two single-threaded programs, each in a loop of
`epoll_wait` that calls back into the objects. The client writes a request (five
bytes with the number of bytes wanted) and the endpoint answers it with that many
bytes; the content of an answer is never looked at. The two meet only in the
connection, so everything that the code relies on is a relation between counters
on both sides and bytes on their way. On the client, reads and two alarms (the next
frame to play, the delayed next request) change the same player and the same
counters, one after the other in a turn; after the turn the main program asks
`IsTerminated`. When a segment is complete the client asks its algorithm for the
level of the next one and for a delay.

### What is hard, and what makes it correct

`PROJECT.json` lists the hazards one by one with their lines. In groups:

* **Counting by equality.** The client knows a segment is complete when two
  counters are equal, after short reads, short writes, full sockets. Every byte must
  be in exactly one place (`BytesConserved`) and every request must be
  answered (`RequestAnswered`). The server drops what is behind the first
  request of a read, so there may only be one (`OneRequest`).
* **Edge-triggered descriptors.** An event not acted upon does not come back:
  `DataNoticed`, `RequestNoticed`, `RequestAnswered`.
* **Two alarms and the reads.** `AlarmIffPlaying`, `BufferBalanced`, `PauseEnds`.
* **Times that are never compared with the buffer.** The level that the algorithms are given
  is computed from the times of segments, and startup and pauses are summed up across handlers
  that run in different turns: `LevelTracksBuffer`, `StallsCharged`.
* **The end.** Three places know when a session is over: the last request, the
  last segment received, the last segment played; `ClosedAfterLastSegment`,
  `DoneMeansPlayed`, `SessionEnds`, `RefusedEnds`, `EndpointReleased`, `DeletedIsUnreachable`.
  This is also where three of the findings are. A client that is cut off can end the server; one that has seen
  the whole video must not (`WholeVideoLeavesNothing`).
* **Samples.** `Predict` takes its length from one sequence and indexes two others:
  `SamplesAligned`. It divides by a sum of squares of times: `EstimateWithinSamples`, and
  `SegmentsTakeTime`, which fails (finding 6).
* **Files.** A blank line in a file must not become a segment that is
  asked for and never completed: `RequestsListed`.
* **The algorithms.** Long sequences of legal answers that reach a bad state:
  climbing too early (`Patience`), two thresholds that chase each other
  (`Settles`, `FindsTarget`, `LevelOneNotHeld`, `TopNotHeld`), a level that
  the connection cannot carry (`ChangesFit`), a pause that empties the
  buffer or never meets its target (`DelayWithinBuffer`, `PauseEmptiesBuffer`,
  `PauseMeetsTarget`), a search that leaves the table (`SearchEndsInTable`), a flag that is
  never reset (`FrozenBelowTarget`, `FastStartGrows`), a filter that overshoots
  (`SmoothsWithin`), a level given up while the buffer is being used as a reserve
  (`HoldsWhileDraining`).

## The modules

    Tcp -- DashClient --\                              VideoFiles --\
       \-- DashServer --- DashSession                   Predictor ---- Playback
                              |                                          |
              Streaming <-----+ (implements)     Streaming <-------------+ (implements)
                              |                                          |
                        MCDashSession                                MCPlayback

    SegmentLoop -- Fdash, Festive, Osmp, Panda, Raahs, Sftm, Svaa, Tobasco -- Adaptation -- MCAdaptation

    DashSession_proofs -- DashSession_refinement -- DashSession_progress
    Recursion -- PlaybackData_proofs -- Playback_proofs -- Playback_refinement
          \---- Adaptation_proofs

The code's own names are kept where TLA+ allows. There are three groups, because the
three questions need different abstractions of the same client: bytes and events without
time, the clock without bytes, and one step per segment.

### The session: bytes, events and alarms, no time

* `Tcp` (external). The direction to the client is two numbers, bytes under way
  (`wire`) and bytes in the receive buffer (`rcvbuf`), bounded together by
  `Capacity`; a write that finds no room returns -1. `reset` is what an RST of the client did to the server's socket:
  one that closes with bytes unread sends RST, an error that one call of the endpoint reports; bytes that arrive at a socket
  closed without unread bytes are answered with RST, too. After either, the end of the stream is read and a write raises SIGPIPE. The direction to the server is a
  queue of requests. An edge (`clientEdge`, `serverEdge`) is due whenever something
  arrives. A FIN arrives after all bytes written before it. Bytes arrive in any
  portions and at any time.
* `DashClient`. `cpc` is where the only thread is. One step is one callback, except
  `OnReadEvent`, where one step is one `read()` and what follows it up to the next:
  the server and the network may run between two reads. The state after a complete
  segment, `CheckBufferStatus`, and the close or the next `RequestSegment` are one
  step (`ReadSegment`). `ExecuteAlarms` runs any subset of the alarms that are
  set, after the events of a turn and before `IsTerminated` is asked: with time left
  out, an alarm that is set may be due in any turn. What the algorithm answers
  (level, delay or none) is open, except for the first segment, for
  which all algorithms return the default `AlgorithmReply`.
* `DashServer`. One step is one system call: `ReadRequest`, `ReadEnd`, `ReadNothing`
  in `OnReadEvent`, `ResponceWrite`, `ResponceFull`, `ResponceBroken`, `ResponceDone` in `Responce`, which both
  `OnReadEvent` and `OnCanWrite` run (`caller`). `ResponceBroken` is the SIGPIPE: `dash_server_test.cc` handles three other
  signals, and `write()` cannot be told not to raise it, so it ends the program. (`base/` and `tcp/` are not in the
  repository; that they ignore SIGPIPE is not assumed. The client's requests cannot raise it: it writes at most once
  after the server's close.) The mask of `ModifyCallback` decides
  which events come; it also turns the descriptor from edge-triggered to
  level-triggered with the first request.
* `DashSession` composes them and states the properties. `ClientReady`, `ServerReady` and `NetworkReady` say who
  can take a step; on the instances of the runs TLC finds them equivalent to ENABLED. `Streaming` is the
  abstract specification: segments are received and played one by one, playing
  starts, stalls, resumes and ends as `DashPlayerState` says.

### The clock: what is measured

* `Playback`. The unit is a millisecond. Everything in one turn of the epoll loop happens at
  one `ApproximateNow` (`clock`; `turn` tells whether the turn goes on); the descriptor is read first,
  the alarms that are due run last. `ReadFirst` and `ReadLast` are the turns in which the first and
  the last bytes of a segment are read, possibly the same turn; the bytes between them
  change nothing that is timed. `ReadLast` is all that `OnReadEvent` does with a complete
  segment: the throughput sample, `bufferLevelOld` and `bufferLevelNew`,
  `CheckBufferStatus` with the startup and pause sums, and the next request, at once or after a
  delay. `ExecuteAlarms` runs `PlayBackHandle` and `DelayRequestHandle` at or after their deadlines.
  An alarm runs at most `Lateness` after it is due; the gaps between turns are open.
* `VideoFiles` is the table of sizes that `ReadSegmentFromFile` makes of a list of files, some of which
  may have blank lines or be missing; `WellFormed` is what the program takes for granted of them. Every behaviour of `Playback` starts from such a table.
* `Predictor` is `Predict` as a fraction, a recursive function as the code's loop, run on the samples that `Playback` records.
* `PlaysStream`: the clock and the late alarms make no difference to the viewer, every step of `Playback` is one of
  `Streaming` or leaves its variables alone. `Playback` starts at the first request, where the stream is open; whether a
  connection stands is the business of `DashSession`, which implements the same stream.
* `Charged` is the time that `CalculateQoE` charges for.

### The algorithms: one step per segment

* `SegmentLoop`. One step is one segment from the request to the next consultation. It chooses the
  bandwidth, and which of the sizes of its level the segment has (`SegmentSizes`, `FetchTimes`): the segments of a level
  differ in size, while the algorithms reckon with their mean (`AverageBitrate`). `SegmentArrives` computes what
  `OnReadEvent` records: how long the fetch took, and the buffer level the algorithms are given.
* `Sftm` takes the time there was for a segment not from that level but from what is received and not played frame by
  frame (`unplayed`, the code's `ts_ns - ts_o`). The two drift apart by a frame at every resume and by the lateness of
  alarms (`LevelTracksBuffer`); `FrameDrift` says by how much between two segments.
* `Festive`, `Osmp`, `Raahs`, `Sftm`, `Tobasco`, `Panda`, `Fdash`, `Svaa` conjoin one algorithm's answer
  (`quality_'`, `delay'`, its own state) to `SegmentArrives`. Comparisons of
  quotients are multiplied out, so no precision is lost where the code uses floating
  point numbers. `Adaptation` composes them: the client is given one and keeps it.
* Three algorithms compute with real numbers, and their modules keep what decisions are made of.
  In `Fdash` the degrees of membership are reduced to which rules apply at all, and the
  centroid to its bounds: it lies between the least and the greatest factor of a rule that applies. In
  `Svaa` the exponential is known to be between 0 and 1, 1, or between 1 and 2, according to the buffer. So
  both allow every decision that the code makes, and some more. `Panda` computes in whole units of the bitrates and
  milliseconds, where the code has `double`.

## The runs

| run | config | what it shows |
|---|---|---|
| `session` | `MCDashSession.cfg` | Nothing fails: every request is answered, every pause ends, all frames are played, both programs end; the session implements `Streaming` with its fairness (4 884 states) |
| `faults` | `MCDashSessionFaults.cfg` | The safety properties with a failing or refused connect, a server that exits at any point, an interrupt; a client that has the whole video leaves nothing that could be written to it; a refused client ends; the endpoint is deleted, or its server has ended, however the client went (10 168 states) |
| `done_is_final` | `MCDashSessionDone.cfg` | finding 1 |
| `eof_leaves_loop` | `MCDashSessionEof.cfg` | finding 2 |
| `short_video` | `MCDashSessionShort.cfg` | finding 3 |
| `adaptation` | `MCAdaptation.cfg` | What each algorithm but PANDA never does while the bandwidth and the sizes of the segments jump from one to the next, whatever is estimated, the played frames behind the clock or not (110 329 states) |
| `adaptation_steady` | `MCAdaptationSteady.cfg` | Where FESTIVE, OSMP, RAAHS and TOBASCO lead at each of nine constant bandwidths, with the repository's levels and segments as uneven as its own, and how far FDASH's pauses miss its target (37 148 states) |
| `raahs_slow` | `MCAdaptationSlow.cfg` | finding 4 |
| `sftm_down` | `MCAdaptationDown.cfg` | finding 5 |
| `panda` | `MCAdaptationPanda.cfg` | With uneven segments and a jumping bandwidth PANDA's smoothed share does not overshoot as long as requests are at most 5 s apart (551 896 states) |
| `playback` | `MCPlayback.cfg` | The client against a clock, from the video files on: what is charged as startup and pauses, how far the computed level is off, what `Predict` makes of the samples, and that it is the stream of `Streaming` (2 583 806 states) |
| `end_after_start` | `MCPlaybackCheck.cfg` | finding 6 |

### Bounds, and why they are enough

* *Session.* Three segments at two levels, of 1, 2, 3 and 5, 4, 1 bytes;
  `Capacity` 3, `BufferSize` 2. So a segment takes from one to three reads, a read can
  end a segment exactly or in the middle, a segment can be smaller than, equal to or larger
  than what the connection holds (the server's `write()` fails and EPOLLOUT is
  needed), and there is a first, a middle and a last segment. `InitSegments` 2 lets the
  player start in the middle of the video, stall and resume; two frames per segment
  separate "a frame" from "a segment". Nothing is counted without bound, so these runs
  have no state constraint; that no property depends on the sizes is what the proofs add.
* *Adaptation.* Targets and marks are those of the code (20 s, 9 s, 10/20/40 s), the
  segments have 4 s. In `adaptation` the ladder 3, 4, 6, 15 spans a factor of five: a pause of
  SFTM then leaves 20 s, so that its target of 20 s can be exceeded by the next segment; the small steps let it
  go down. Every level has a segment smaller and one larger than the mean, by a quarter to a half. Of the bandwidths 2 is
  less than the lowest level and less than all of its segments need, 8 is above the third level and carries large segments
  of the highest at half their pace. `Horizon` 5 holds what the
  patience of four levels needs. `MaxLevel`, a bound of the
  model, counts a fuller buffer as 44 s (48 s in `adaptation_steady`), above all targets and marks; the theorems hold for every `MaxLevel`.
* *Steady.* `adaptation_steady` uses the six levels of the repository's video files (302 to 4279
  kbit/s), in units of 100 kbit/s, and for each level the least, the mean and the greatest size of its segments, rounded to
  multiples of 400 kbit so that times come in steps. Which size comes when is open at every step, so also the worst
  order. The nine bandwidths are below the lowest level, between each two of the next, and far above the highest.
* *PANDA.* `Omega`, `PandaBMin` and the four factors are those of the code. Two bounds cut the run: the buffer counts at most
  12 s, and a behaviour stops once the time between two requests is above a minute (`MaxTarget`, the guard of `PandaStep`). What PANDA does with a
  target of minutes is not explored by the run; the theorems hold for every `MaxTarget`.
* *Clock.* Segments of 100 ms have two frames of 40 ms, and half a frame is rounded off, as with any duration
  that is no multiple of 40. Turns come 20, 50 or 130 ms after one another, and alarms run up to
  20 ms late: while the player plays there are turns between two frames and turns that are late for one, and the
  longest gap is for an idle player. A delayed request is due after a whole segment. Playing starts with two segments. One list of files has one level with four segments; the
  other has two levels, with and without a trailing newline, a missing third file, and a
  fourth that is never read. `Horizon` 2 leaves samples out. The video ends, so nothing needs a
  constraint.
* The estimate of `BandwidthPredicator` is any whole number between the least and the greatest bandwidth when they vary (more than
  a mean of the last can be: `EstimateIsWithinSamples`) and the true one when constant (what the mean
  then is, whatever the sizes of the segments: `EstimateIsExactWhenSteady`). FESTIVE's random threshold is any of `Jitter`, the ends (and in the steady runs the middle)
  of its interval.
* In `SegmentLoop` the buffer level is the one that the code computes from the times of segments, which is
  what the algorithms are given. `LevelTracksBuffer` says how it relates to what is buffered: it is
  above it by at most a frame for every segment played and what the frames round off, and below
  it by at most what late alarms add up to.

### Fairness, and why the code justifies it

`DashSession`: weak fairness of `ClientStep`, `ServerStep` and `Network`. Both programs
sit in a loop that always runs again, whatever is due is handled in it, and an alarm
that is set comes due; TCP delivers what was written as long as both ends are there.
Faults (`ServerExit`, `Interrupt`) need not happen; nothing is assumed about which branch of
a step is taken, so e.g. the bytes may always arrive one by one. `Adaptation`: weak fairness of the
only action, since as long as the connection stands the next segment arrives; that is all
its liveness properties assume. `Playback` has safety properties only and no fairness.

Deadlock is checked in the runs `session` and `sftm_down`: a finished session is the
explicit stuttering action `Over`. The runs with "server exit" (where a client is
left waiting for ever, findings 1 and 2), with a short video (finding 3),
with RAAHS (which can end the program, finding 4), with PANDA (which the bound `MaxTarget` stops) and with the clock
(which stops when the client is done) switch it off.

## What is proved

TLAPS checks eight modules to the last leaf (6 741 obligations), for every value of the constants that satisfies
the named assumptions next to them: `TcpAssumption` and
`ClientAssumption` (positive capacity, buffer, numbers of segments, levels and
frames; a rectangular video of non-empty segments; any set of faults);
`LoopAssumption`, `FestiveAssumption`, `RaahsAssumption`, `SftmAssumption`,
`TobascoAssumption`, `PandaAssumption`, `FdashAssumption`, `SvaaAssumption`, `AdaptationAssumption`
(positive rates and bandwidths; marks in order); `PlaybackAssumption` (a segment is at least
one frame) and `FilesAssumption` (the first file opens, every line is blank or a positive number, and the files read
list equally many). Every invariant, action property and refinement step that a run of these modules checks is
stated by a theorem; what is left to TLC alone is liveness.

`DashSession_proofs` (2147 obligations). The safety properties are not inductive one by one. The
inductive invariant `Inv` conjoins them with what they lean on:

* `TypeOK`;
* `DescriptorInv`: where the client's thread is, and whether its descriptor is open and
  registered; before the connection stands, nothing has moved (`Fresh`);
* `QueueInv`: at most one request, of which the endpoint has not yet sent everything;
* `FetchInv`: the counters of requests, segments and samples differ by at most one, and
  a pending request alarm means that no request is outstanding;
* `PlayerInv`: alarm and state of the player;
* `EndpointInv`: the endpoint's mask, queue, registration and life cycle, and that its socket is reset only by a client that
  has closed, after something was written to it;
* `BytesConserved`, `DataNoticed`, `RequestNoticed`, `BufferBalanced`, `PlaysFromBuffer`,
  `DoneMeansPlayed` themselves.

The argument turns on `BytesConserved`: only because no byte of the current segment is left
anywhere when the counters meet can the next request be the only one, and only because it is the only
one does the endpoint owe exactly the client's missing bytes. From `Inv` follow, as theorems about
`Spec`: `TypeCorrect`, `NoPipelining`, `Conservation`, `NoDataOverlooked`, `DelayIsExclusive`,
`BufferIsBalanced`, `PlayerIsConsistent`, `DoneIsJustified`, `EndpointListens`, `DeletionIsSafe`, and the
action properties `SamplesAreAligned` and `KeepsConnection`. `ViewersLeaveNothing` is proved from `Inv` and itself: the last byte of the
last segment leaves no byte and no request behind (`SegmentComplete`), so the close in the same step sends no RST, and once
everything has arrived nothing is asked for or written any more (`NothingComes`).

`DashSession_refinement` (333 obligations): `SessionImplementsStreaming`. For every set of faults without
"server exit", every step of a session is a step of `Streaming` or leaves its variables alone.
`Inv` alone does not say that, because the abstract player moves on what is received and
played, the concrete one on the state of a connection and of an alarm. `StreamInv` links them: the
player's state goes with `status_`, the playback alarm is set only while it plays, and the server
sends a FIN only to a client that is gone (so a hang-up can only be a refused connect).
With "server exit" the theorem does not hold: finding 1 is a counterexample. Without it a client that is DONE stays
DONE (`DoneStaysDone`), whatever else fails: the exit of the server is the only way to finding 1.

`DashSession_progress` (463 obligations): what remains of the liveness properties without fairness. A safety
property cannot say that a waiting client is served, but that what it waits for exists.
`NextSegmentComes`: the next segment of a connected client is put off by the algorithm, being
read, in the receive buffer with an edge to come, in the network, or with an endpoint that will have an
event. `BytesConserved` says that the missing bytes are somewhere; if they are in the client's buffer, `DataNoticed` has the
edge; if the endpoint owes them and the connection is full, some of them are in the network or in the
buffer; and if it is not full, EPOLLOUT is due because `EndpointInv` ties the mask to the queue. `SessionNeverStuck` (for videos of
at least `init_segments_` segments; finding 3 is the other case) adds the player and the end: when neither program
nor the network can go on, the client has left its loop, and the endpoint is deleted or its server has ended by SIGPIPE. Both need
`ProgressInv`, which says what the other invariants do not: an open descriptor is registered and the
first edge of its connection not taken (`ReachInv`), a connected client that waits for no answer has
delayed its request, a closed client has all segments or is DONE and a paused player waits for one that is still to come
(`StageInv`), and an endpoint listens until it is to be deleted or its server has ended (`ServingInv`). Both are about a server that is not told to stop. The run `session`, which
checks for deadlock, shows the same on its instance.

`Recursion` (112 obligations) and `PlaybackData_proofs` (727 obligations) are about recursive definitions. The provers cannot instantiate an
induction theorem over formulas, but one over sets: `SetInduction` says that a set with 0 that is closed under successor
holds every number, and `ByRecursion` that a function with values in a set and defined by recursion is there and
satisfies its equations. With them `SizesAreLines` and
`FilesMakeTable` say what `split` and `ReadSegmentFromFile` make of well-formed files: a table of positive sizes, one row per file before
the first that does not open, equally long. `PredictIsMean` is an induction over the loop of `Predict`: sum(t)/sum(t^2/bytes) is at least the slowest
and at most the fastest of the samples, because every sample added moves the quotient towards its own
(`MeanOfOneMore`). `PredictIsExact` follows for samples with a common quotient.

`Playback_proofs` (822 obligations): `PlaybackTypeCorrect`, `StallsAreCharged`, `LevelTracks`, for every
duration of a segment, every pace of the connection and the loop, every lateness, and all lists
of well-formed files; `EstimateIsWithinSamples` and `EstimateIsExactWhenSteady` of the samples that the client records, which are in
order and never empty (`SamplesInv`); and `RequestsAreListed`. The properties compare times that are summed up over the whole session, so
the invariant has to say where in a frame the player is. `PlayerInv` has four parts: `FramesInv`
(frames played, segments played and buffered agree, and the last frame of a segment is the one
whose number is a multiple of the frames in one), `AlarmInv` (the alarm is set, at most a frame ahead, just while
there is something to play), `RanInv` (the time charged neither as startup nor as pause, up to the alarm that is
set, is between 40 ms and 40 ms + `Lateness` for each frame) and `LevelInv` (what is left of the level at the
later of the alarm and the clock, against the frames in the buffer). A late alarm moves all later frames; that
is where the term with `Lateness` comes from, and a resume that does not wait for the end of the last frame is
where a frame per pause does.

`Playback_refinement` (71 obligations): `PlaybackImplementsStreaming`. A segment that is received with the last bytes read is
`Receive`, the last frame of a segment is `Play`, and both in one turn of the loop are two steps.

`Adaptation_proofs` (2066 obligations). `AdaptationTypeOK` is inductive, given for each
algorithm a lemma about its answer (`FestiveAnswers`, `SvaaAnswers`, ...); those need
that a search that is a `CHOOSE` has a result (`Largest`, `Smallest`, from the
well-foundedness of the numbers). On top of it, for every ladder: `DelaysFitBuffer`,
`FestiveMovesByOne`, `TobascoStartGrows`, `TobascoFallsLast`, and `RaahsSearchEnds`, whose invariant
adds that only RAAHS crashes: what it measures takes every segment for one of the mean size, so the theorem is about the
bandwidths at which even the largest segment of a level measures more than the lowest level's rate (`SafeRates`); a bandwidth
above that rate is not enough. `FestiveIsPatient` needs an invariant that relates
`switch_up_count_` to the history (`CountIsVouched`) and `Levels <= 11`, what the table
`kSwitchUpThreshold` covers. `ChangesAreAffordable`, `SftmFreezes` (about `unplayed`, for every `FrameDrift`) and `RaahsKeepsReserve` assume that
rates do not fall from one level to the next (`Ascending`), as the code does
throughout; the last also that `t_min_ms_` is positive (it is 9 s). `SvaaHolds`: between half the target and the target,
with a buffer that does not grow, `u_k > currRate` implies that the estimate is above the current level, so the
jump cannot go down. `FdashMeetsTarget` follows a pause into the next consultation: the level then is what was
buffered less the pause and the download, which `FdashPause` has reckoned for a segment of the mean size. At a constant bandwidth the
target is missed by just what the segment's download differs from that (`MeanTime`), up to the
millisecond of the two divisions. `OsmpAsksForWhatFits` holds on every ladder, because both searches of OSMP end at a level that they have tested,
but for level 1.

About PANDA: `PandaChangesFit`: whatever is left of an overshoot, it changes to a level that the
smoothed share carries with Omega to spare, or to the lowest. `PandaLeavesTopOut`: `FindLargest` never asks for the highest level.
`PandaSmoothsWithin`: while requests are at most five seconds apart the smoothed share does not overshoot; the bound is
the reciprocal of the factor of 0.2 per second, and at six seconds the property fails.

These theorems state definitions that no run checks: `OsmpAsksForWhatFits`, `RaahsKeepsReserve`, `PandaChangesFit`, `PandaLeavesTopOut`,
`FestiveMovesByOne`, `TobascoFallsLast`, `DelayIsExclusive`, `EstimateIsExactWhenSteady`, and those of `DashSession_progress`.

### Only model-checked

All liveness properties (TLAPS 1.4.5 has no support for fairness and ENABLED in these proofs): `RequestAnswered`, `PauseEnds`,
`SessionEnds`, `RefusedEnds`, `EndpointReleased`, the liveness part of `Streaming`, and where the algorithms lead (`FindsTarget`, `LevelOneNotHeld`,
`TopNotHeld`, `Settles`, `PauseEmptiesBuffer`, `ClimbsAgain`). `DashSession_progress` proves what
the first three rest on. Where RAAHS settles is claimed only for bandwidths at which a small segment and a large one of
the next level cannot chase it (`ChasingRates`): at 500 kbit/s, one of the run's nine, they can.

## Findings

1. **A client can leave DONE** (`DoneIsFinal`, `dash_client.cc:261`). The server's hang-up sets
   `PLAYER_DONE`; a playback alarm due in the same turn plays the last buffered frame and
   sets `PLAYER_PAUSED`. `IsTerminated` is asked after that, no event or alarm is left, and the
   client waits for ever.
2. **A `read()` of 0 bytes never leaves the loop** (`EofLeavesLoop`, `dash_client.cc:150`).
   `OnReadEvent` unregisters the descriptor and reads it again, for ever.
3. **A short video is never played** (`SessionEnds`, `dash_client.cc:275`). With fewer segments than
   `init_segments_` the player stays in `PLAYER_INIT_BUFFERING` and the client never ends.
4. **RAAHS counts an unsigned index below 0** (`NoneFoundMeansLowest`, `dash_algorithm.cc:427`). When no
   level is low enough, the fallback to level 0 is never reached. `SearchEndsInTable`
   (proved) says when this cannot happen: while even the largest segment of each level measures more than the
   lowest level's rate. A bandwidth above that rate is not enough, because a segment larger than the mean is taken for one of
   the mean size.
5. **SFTM's "Switch down" keeps the level** (`SwitchDownLowers`, `dash_algorithm.cc:617`). Once what is unplayed has
   been above the target and has sunk below it, no time is left for a segment, the search
   stops at the first level, and the quality is kept. `FrozenBelowTarget` (proved) is
   the general form.
6. **A segment may take no time** (`SegmentsTakeTime`, `dash_algorithm.cc:27`). `Predict` checks `end>start` for every
   sample, and both are the `ApproximateNow` of a turn (`dash_client.cc:153`). A segment whose first and last bytes
   are read in one turn, which a small segment or a fast connection brings about, ends the program at the next
   consultation of FESTIVE, TOBASCO, FDASH or SVAA.

Some properties describe behaviour that one may not expect, and that no text in the repository
contradicts: OSMP asks for the lowest level after each fast segment at the highest (`TopNotHeld`), and where only the lowest level is
carried it swings between levels 0 and 1, because it takes level 1 untested (`LevelOneNotHeld`); at the other bandwidths nothing is claimed of
where it leads: segments as uneven as the repository's can keep it switching there, too. A pause of
TOBASCO is at least as long as the buffer lasts less one segment, so that at no constant bandwidth a
level above the lowest is held (`PauseEmptiesBuffer`). And a client that is cut off in the middle of a segment ends the server with
the streams of all its clients: nothing under `src/` ignores SIGPIPE, so the `write()` after the client's RST raises it
(`ResponceBroken`, `dash_server.cc:77`). That is why `EndpointReleased` allows the server to have ended, and
`WholeVideoLeavesNothing` says which clients cannot bring it about: those that have received the whole video.

## Not modelled, and why

* Of `CalculateQoE` the two throughputs and the sums over bitrates: they are taken once, at the end, from what was
  recorded, and change nothing. Their divisions (0/0 for a session of one request) are noted as a hazard. The
  trace, and `averageBitrate` of the files, which the algorithms take as a constant.
* Real numbers, as described with `Fdash`, `Svaa` and `Panda`. The other algorithms' quotients are exact.
* Faults in `Playback`: a session that is cut off measures nothing more. The bytes between the first and the last of
  a segment have no times.
* Files of different lengths, and lines that are no number or 0 (`FilesAssumption` and `ClientAssumption` exclude them): noted as
  hazards. Durations of a segment below a frame, and more levels than `kSwitchUpThreshold` covers, are excluded by assumptions on the
  constants; the program's own constants and files meet them.
* The server's accept loop, backend and factory beyond one endpoint: endpoints share no state, only their program, which a signal or
  SIGPIPE ends for all of them.
* The Poisson sender: a UDP program of its own that shares no state with client or server, and whose only
  state is which rate comes next. (Its `rate_duration` of 10 000 000 microseconds is ten seconds; the comment
  in `possion_sender.cc:61` says `5s`.) The emulation and plot scripts.

## Plan

Done: `Tcp`, `DashServer`, `DashClient`, `DashSession` and `Streaming` with their runs, the invariant, and the proof that
the session implements the stream; `SegmentLoop` and all eight algorithms with their runs and proofs; `VideoFiles`,
`Predictor` and `Playback` with their run, the proofs of their properties and that it implements the stream; that no session gets stuck.
What is left:

1. The endpoint with a client that has two requests under way (what `OneRequest` protects from), as a
   run of `DashServer` with an environment of its own.
2. The sums of `CalculateQoE`, against a reference definition.
3. For the theorems: a decreasing measure of what is left of a segment and of a session, which with
   `NextSegmentComes` would be all of `RequestAnswered` but the fairness; and that an algorithm that has settled stays settled
   while the bandwidth does, the safety half of `Settles` and `FindsTarget`.
