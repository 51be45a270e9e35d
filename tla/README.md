# Specifications of fac-lpr-engine

TLA+ modules, TLC configurations and TLAPS proofs for the license plate
recognition engine in `src/`. Every definition is written from the C++ code; the
`map` in `PROJECT.json` names the lines each one stands for. Paths below are
relative to the repository (`src/...` for code means `src/src/...` there).

## 1. The system

A caller holds an engine (C++ `LprPipeline`, or a handle of the C ABI) and asks
it to recognize plates in one image. The pipeline calls providers behind
interfaces: a plate detector, geometry refiner, plate aligner, crop generator,
several recognizers in an ensemble, a layout analyzer, a candidate fusion and a
decision policy. Around that call stand components that keep state and are used
by several threads.

| Component | State | Operations | Talks to |
|---|---|---|---|
| LPR pipeline (`application/lpr_pipeline.cpp`) | none of its own; locals of the call | `recognize` | providers by call, ensemble, fusion, decision policy, engine diagnostics |
| Recognition ensemble (`recognition_ensemble.cpp`) | the registrations, in order of registration | `recognize` on one crop | recognizers, each under a deadline of its own |
| Decision policy (`safe_decision_policy.cpp`) | thresholds | `decide` | called once per detection |
| Bounded worker pool (`infrastructure/concurrency`) | queue, flags, counters, threads, two condition variables | constructor, `submit`, worker loop, `shutdown`, `stats` | tasks are closures of the caller |
| Atomic model slot (`infrastructure/model/atomic_model_slot.hpp`) | shared `State` block: atomic model pointer, reload mutex | `acquire`, `reload`, `reload_async`, `reload_state`, destruction | loaders and validators of the caller |
| Temporal plate consensus | history of frame results | `observe`, `reset`, `history_size` | the stream session |
| Stable plate event filter | last emission, two counters | `observe`, `reset`, `stats` | the stream session |
| Recognition stream session | the two above, last timestamp, closed flag, mutex | `recognize`, `recognize_at`, `reset`, `close` | the pipeline |
| Engine diagnostics | atomic counters, latencies and metadata under a mutex | `record_*`, setters, `snapshot` | written by every pipeline call and the self test |
| Startup self test and activation (`startup_self_test.cpp`, `tools/lpr-cli/*`) | readiness in the diagnostics; the files it reads | `build_pipeline_from_contract`, `activate_production_pipeline`, `run` | sessions, model lifecycle, diagnostics |
| C ABI handles (`c_api/fac_lpr_engine_c_api.cpp`) | registry of live handles, heap, one last error per thread | create, destroy, recognize, get_version, last error | the pipeline behind a `shared_ptr` |
| C ABI result buffer (`c_api/result_buffer.cpp`) | none | `serialize_result_v1`, size query | called by recognize |
| Candidate fusion, multi-detector fusion, layout alignment | none | pure | pipeline |
| Turkish plate grammar, CTC decoding | none | pure | recognizers |
| PaddleOCR adapter | LRU cache of results, mutex | `recognize` | an external OCR worker |
| ONNX recognizer, YOLO detector | session, one workspace, execution mutex | `recognize`, `detect` | ONNX Runtime |
| Adaptive tile detector | none | `detect` | another detector |
| Model lifecycle, engine builder, configuration | manifests, registrations | activate, register, build | start-up only |
| Images, crops, geometry, OpenCV, logging, hashing, tools | none that outlives a call | pure or I/O | everywhere |

### Behaviours that are hard here

* **Concurrency.** The pool sends all its notifications after it has released
  the mutex, one at a time. The slot has readers that take no lock at all. Raw C
  handles are shared by threads that recognize and destroy. A stream session is
  called by several threads with their own timestamps.
* **Partial failure.** One recognition touches up to six providers per
  detection and crop; most failures are tolerated, noted and must degrade
  exactly the recognition they belong to. Thread start, loaders, validators,
  tasks, factories and small allocations can fail half way.
* **Time.** Caller deadlines, recognizer deadlines, cancellation, history
  lifetime and emission cooldown; time is read under a mutex that may be late.
* **Lifetime.** Models replaced while in use, slots destroyed under their own
  background reloads, pipelines destroyed under their own recognitions, handle
  addresses reused.

`PROJECT.json` lists the individual hazards at their lines, with the properties
that catch each; hazards of one piece of code are listed together. Some are only
mentioned here, because no document says what should happen or nothing of the
program can meet them: a task that shuts down its own pool (no task of the
repository reaches its pool), `bad_alloc` inside `observe` after the timestamp
was stored, `std::async` without a thread, a stale raw handle whose address was
given to a new engine (the model contains it; no document promises anything
about it), a confidence of exactly 0 read as "not calibrated", a cancellation
that a *required* recognizer notices first and the ensemble reports as a
provider error (`recognition_ensemble.cpp:123`), a self test that counts an
enabled recognizer of weight 0, which the ensemble never asks
(`lpr_pipeline_self_test.cpp:61`; the production startup registers one
recognizer of weight 1), a configured `minimum_height` below 3 of the double
row normalizer, for which the bounds of a clamp change places
(`double_row_normalizer.cpp:144`), a `bad_alloc` of the pool's queue when a
submitter that was woken pushes its task (`bounded_worker_pool.cpp:76`), and an
exception of candidate fusion or of the decision policy itself, which ends the call
(`safe_decision_policy.cpp:16`). In the models the push and these two steps do not
fail.

### What makes each component correct

* Pool: no lost wakeup, no lost or doubled task, bounded queue, consistent
  counters, `shutdown` that leaves nothing behind.
* Slot: requests see only validated models, in order of loading; nothing in use
  is freed and nothing replaced is kept; at most one spare model in memory.
* Stream: the history is exactly the window its bounds describe, the vote is
  what its definition says, nothing is emitted without evidence, repetitions are
  suppressed for the cooldown and no longer, the order of frames is judged by
  completed frames only.
* Pipeline: failures reach their recognition and only that, the caller is told
  truthfully how the call ended, the counters agree with what was handed out.
* C ABI: one owner for each handle, pipelines alive while used, errors stay with
  their thread; the size asked for is the size written, and nothing is written
  unless all of it fits.
* Inference: the session reads the tensor of the call it runs for; a call that
  was stopped while it waited does no work; nobody waits for ever.
* OCR cache: the most recently used answers under their own keys, with live
  iterators, whatever store ran out of memory.
* Startup: what serves has been tested, and verified while the files rested.
* Diagnostics: a snapshot misses no finished call and invents none.
* Tensors, boxes, corners, crops, characters and rows: what is computed from an
  image belongs to that image, at the right place and in the right order.

## 2. Modules

| Module | Models | Used by |
|---|---|---|
| `BoundedWorkerPool` | the worker pool | `MCBoundedWorkerPool`, `BoundedWorkerPool_proofs` |
| `PublishedModel` | abstract: one register of validated models | `AtomicModelSlot` (refinement) |
| `AtomicModelSlot` | the slot, its `State`, requests and reloads | run directly, `AtomicModelSlot_proofs` |
| `TemporalPlateConsensus` | history and vote | `RecognitionStreamSession` (EXTENDS) |
| `StablePlateEventFilter` | the emission filter | `RecognitionStreamSession` (INSTANCE) |
| `RecognitionStreamSession` | the session, composing the two | `MCRecognitionStreamSession`, `RecognitionStreamSession_proofs` |
| `SafeRecognitionDecisionPolicy` | the status of one detection | `LprPipeline` (EXTENDS) |
| `LprPipeline` | calls through pipeline and ensemble, and the counters | `MCLprPipeline`, `LprPipeline_proofs` |
| `EngineHandles` | handle registry, heap, references and last errors of the C ABI | run directly, `EngineHandles_proofs` |
| `TurkishPlateGrammar` | normalisation, complete plates, prefixes of plates | `Algorithms` |
| `Boxes` | overlap and union of boxes | the two detector modules (EXTENDS) |
| `AdaptiveTileDetector` | where tiles are placed, merging what they find | `Algorithms` |
| `MultiDetectorFusion` | grouping the detections of several detectors | `Algorithms` |
| `ConstrainedCtcBeamSearch` | greedy and constrained CTC decoding | `Algorithms` |
| `CandidateFusion` | evidence of a detection collected and fused | `Algorithms` |
| `ImageViews` | image validation, views cropped again and again, crop copies | `Algorithms`, `Algorithms_proofs` |
| `ResultBuffer` | the wire format of a result: sizing, writing, status | `Algorithms` |
| `BilinearSampling` | the bytes and weights of one sample of an image | `LprNetTensors`, `YoloPose` (EXTENDS) |
| `LprNetTensors` | input contract, preprocessing and output of the recognizer | `OnnxContracts` (EXTENDS) |
| `YoloPose` | letterbox and parser of the detector | `OnnxContracts` (EXTENDS) |
| `OnnxContracts` | what a model is judged by: at build, construction, inference | `Algorithms` |
| `PlateGeometry` | order of corners, checks and scores of a plate's shape | `PlateAlignment` (EXTENDS) |
| `PlateAlignment` | the corners an aligned plate is taken from, and its size | `Algorithms` |
| `CropHypotheses` | the crops of a plate | `Algorithms`, `PlateAlignment` (INSTANCE) |
| `PlateLayout` | letter and digit groups from connected components | `Algorithms` |
| `DoubleRows` | cutting and joining a plate of two rows | `Algorithms` |
| `Algorithms` | the inputs of the pure algorithms, and what each must compute | `MCAlgorithms`, `Algorithms_proofs` |
| `OnnxInference` | calls of several threads through one session | `MCRuntime`, `Runtime_proofs` |
| `RecencyCache` | abstract: a bounded cache, and which key was used after which | `PaddleOcrAdapter` (refinement) |
| `PaddleOcrAdapter` | the OCR calls, with list and map of their cache | `MCRuntime`, `Runtime_proofs` |
| `EngineDiagnostics` | publication and snapshots, record by record | `EngineStartup` (EXTENDS), `Runtime_proofs` |
| `EngineStartup` | building, activating and serving an engine beside changing files | `MCRuntime`, `Runtime_proofs` |
| `CountsAndSums` | lemmas: numbers of pointers to a value, sums over finite sets, least numbers | all proofs but those about the pool |

Definitions whose comment begins with "Mutant:" are broken variants of the
definition they precede. Nothing in a specification uses them; replacing the
real definition by one makes the property named in `PROJECT.json` fail, which
shows that the property depends on the code it is about. A few variants say in
their comment what they get wrong instead of the word.

A property a run checks is often the conjunction of two or three named parts,
which are stated and commented one by one before it (`NothingHangs ==
CallsReturn /\ AcceptedTaskEnds`).

### BoundedWorkerPool

*State.* `queue`, `accepting`, `stopping` are the members of that name;
`stats` holds the six counters; `phase` is how far the constructor is; `wpc`,
`cpc`, `spc` are the program points of workers, submitters and callers of
`shutdown` (the destructor is one); `wtask`, `ctask` the closures they hold.
`fate` is a history variable: what became of each task.

*Steps.* Everything shared is guarded by `mutex_`, so a critical section is one
step: `Submit` (`Refuse`, `Reject`, `WaitForSpace`, `Enqueue`), `WorkerWait`,
`WorkerTake`, `WorkerExit`, `FinishTask`, `Shutdown`, `ShutdownAgain`. Every
notification is a step of its own after the critical section (`NotifyWork`,
`NotifySpace`, `NotifyBlockedClients`, `NotifyIdleWorkers`), and a woken
submitter evaluates its predicate again (`ResumeSubmit`). `StartWorker`,
`FinishConstruction`, `FailConstruction`, `NotifyStartedWorkers` and
`JoinStartedWorkers` are the constructor and its catch block.

*Left out.* The workspace a worker hands to its tasks; task bodies never call
the pool that runs them.

### AtomicModelSlot and PublishedModel

*State.* `active`, `reload_mutex`, `owners` are the shared `State` and its
reference count; `refs` the reference count of each model, kept exactly where
the code moves, copies, swaps and drops its pointers; `snapshot` and
`candidate` what requests and reloads hold. Model *k* is what the *k*-th call of
a loader makes, so "newer" is a comparison of numbers.

*Steps.* `Acquire` and `Release` take no lock. A reload is `Reload` or
`ReloadAsync`, `Lock`, then `LoadSucceeds | LoadFails`,
`ValidatorAccepts | ValidatorRejects`, `Publish`, `Return`; an asynchronous one
ends with `DropFuture`. `DestroySlot` may happen whenever no synchronous call is
inside, which is the caller's part of the contract.

*Refinement.* `PublishedModel` is an atomic register that only moves to newer,
validated models, and from which a reader keeps what it has read. The mapping is
`current <- active`, `seen <- snapshot`, `valid <- validated`.

### Stream

`TemporalPlateConsensus` has `Observe` (expire, append, evict, vote) and
`ResetConsensus`; `StablePlateEventFilter` has `Filter` and `ResetFilter`.
`RecognitionStreamSession` makes each method two steps, `Call` (the thread waits
for `mutex_`) and its body: `ThrowClosed`, `ThrowLate`, `PipelineThrows`,
`UnusableFrame`, `SinglePlateFrame`, `Reset`, `Close`. `Tick` moves
`Clock::now()`. `log` records the completed frames since the last reset; the
properties compare the history, the vote and the emissions with definitions over
that log.

Floating point confidences are whole numbers of `Scale`-ths and the ratios are
compared by cross-multiplication, so thresholds met exactly are modelled, the
rounding of `float` at that point is not. `Scale + 1` stands for every value
that is not a probability. Plates are numbers, ordered as the strings are.

### LprPipeline and SafeRecognitionDecisionPolicy

`pc` names the provider a call is inside. A step is the return of that provider
and all the code up to the next one, so cancellation (`RequestStop`) and the
deadline (`DeadlinePasses`) can fall into any provider call, and `Check` is
evaluated where the code calls `check_context`. What a provider returns or throws
is chosen freely among what its interface allows; the scores matter only through
`Decide`. The ensemble (`EnterEnsemble`, `RecognizerAnswers`,
`RecognizerThrows`, `EnsembleReturns`) asks the enabled recognizers in order of
registration. `PublishRecognition` and `PublishFailures` add to the counters of
`EngineDiagnostics` one by one.

*Left out.* Stage timings, candidates and their fusion (only that fused texts
are ordered by confidence), the layout list, reasons.

### EngineHandles

`live` is `g_live_handles`; `storage` the heap objects by address, which the
allocator may reuse; `refs` the strong references to each pipeline; `handle` each
thread's pointer variable; `raw` and `snapshot` what a call in progress owns;
`last_error` the thread-local. `create` is split before and inside its critical
section (`PublishHandle`, `PublishFails`), `destroy` inside and after (`Erase`,
`Delete`), `recognize` after (`Lookup`, then the recognition on the snapshot).
`PassHandle` copies a raw handle to another thread's variable.

### Algorithms

The pure functions are operators, one module for each. `Algorithms` takes their
configurations and the pieces of their inputs as constants, states what each must
compute, and holds the input of one of them in a variable and lengthens it by one character,
detection, timestep or crop per action (`AddCharacter`, `AddFoundBox`,
`AddDetection`, `AddTimestep`, `AddCrop`), so its states are the inputs.
`ImageViews` has a state of its own: a caller's view (`owned`), the view `Crop`
makes of it again and again (`view`), and where that begins in the first (`origin`).
Each invariant compares the function, with the code's order of sorting,
merging and cutting, with a definition of what it is for that has no order.

* Floating point numbers are exact: a weight, confidence or probability is a
  whole number over a common denominator, and ratios are cross-multiplied. So
  ties and thresholds met exactly are modelled, rounding is not. The beam search
  multiplies weights where the code adds logarithms.
* Boxes share one vertical extent, and tiles lie in one row: the code treats the
  axes alike and separately (`axis_origins`), and areas of such boxes are in
  proportion to their widths. `Detect` models images of one row of tiles.
* `plates` in `ConstrainedCtcBeamSearch` is the set of texts the grammar
  accepts, and a valid prefix is a prefix of one of them. That is how
  `is_valid_prefix` behaves, which `PrefixExact` checks.
* A `size_t` has five bits (`size_max`). A function that may throw returns a set,
  which is empty when it throws.
* `ResultBuffer` turns a result into the sequence of reserves, checks and writes
  the serializers make; `BufferWriter` runs it twice. Memory is a set of cells.
* A tensor element of `LprNetTensors` and `YoloPose` is named by the bytes it is
  computed from and their weights. Keypoints are at offset 0 or 1 of a row.
* `PlateGeometry` and `PlateAlignment` round lengths and ratios to `Unit`-ths. A
  strongly distorted quadrilateral may become dented when it is padded and
  clamped to the image; so `CornersInOrder` claims a positive area for all and the
  clockwise order for parallelograms. `align` may fall back to the box whenever
  OpenCV refuses the warp.
* Crop fingerprints are taken to tell different pixels apart.
* The order in which OpenCV labels components decides nothing if their positions
  differ, which `LayoutSeparatesGroups` checks; equal positions do not occur.

*Left out.* The fused boxes and corners of a group (only the members and the
order of groups), the per-character confidences and logit margins of a decoded
text, cancellation inside the decoders and the crop generator, and the input
checks of some functions (sizes, finite values). What happens to pixels inside
OpenCV (thresholding, labelling, warping, resizing, enhancing).

### OnnxInference

The detector and the recognizer are the same protocol. `Begin` is everything
before `execution_mutex_`; `Enter` takes it and looks at the context; then
`BeginPreprocess` and `EndPreprocess` (the workspace is torn in between), `Run`
(the session reads the workspace through a view) and `Decode`. `Fail` is any
exception on the way, `GoBad` cancellation or the deadline. `workspace` and
`output` hold the number of the call whose tensor they are.

### PaddleOcrAdapter and RecencyCache

`BeginLookup` starts a call of `recognize`, `Expire` is cancellation or a deadline.
`lru` is the list, nodes with identities; `cache` the map with its iterators.
`Lookup` and `Store` are the two critical sections, with the request to the
worker (`Ask`, `Answered`) between them, so two threads may miss the same crop.
An allocation may fail before `push_front`, after it, and when the key of the
last node is copied for `erase`. For the abstract cache the answers are those of
the map (`Evidence`), and one key was used after another if its iterator points
further to the front of the list (`Before`); the nodes no entry owns do not count.
Once a store has failed, `RecencyCache` allows entries to be lost but not to be
mixed up, and bounds their number. Replacing an answer is a plain assignment in
the model.

### EngineDiagnostics and EngineStartup

A call publishes its records one by one (`BeginPublish`, `Record`), several at a
time; a snapshot loads four counters and then the rest under the mutex
(`BeginSnapshot`, `Load`). Latencies are counted, not valued. `EngineStartup`
follows `build_pipeline_from_contract` and `activate_production_pipeline`: every
step reads the contract and the files as they are then (`Replace` may change
one between two steps). The sessions are made before the files are verified, and
verification reads them a second time, so that what serves is what was verified
holds only while nobody replaces a file; `ServesPinnedModels` has that as its
condition, `ServingIsReady` does not need it: what a snapshot shows are the
checksums that one contract pins, that of the second read. A file's content is its checksum,
size, the roles whose contract it meets, and whether inference with it
succeeds.

## 3. Runs

`tlc -config X.cfg M` in this directory; each takes from a second to about two
minutes with two workers. Deadlock checking is on for every run of a system: the
specifications have an explicit step (`Quiescent`, `Finished`, `Done`) for the
states in which the system has really ended, so a state where threads wait for
each other is an error. It is off for `MCAlgorithms` only, whose states are
inputs that stop growing at a bound.

| Run (`.cfg`) | Instance | What it shows |
|---|---|---|
| `MCPoolBlockDiscard` | 2 workers, 2 submitters, 2 closers, 3 tasks, capacity 2, *block*, *discard_pending*, no spurious wakeups, `FairSpec` | no lost wakeup (`NobodyStranded`), each accepted task is in one place, every call returns and every accepted task ends (`NothingHangs`), counters are final after the join |
| `MCPoolRejectDrain` | 2 workers, 3 submitters, 2 closers, 4 tasks, capacity 2, *reject_newest*, *drain*, spurious wakeups, symmetry | types, counters add up at every moment, everything accepted has run when `shutdown` has joined |
| `MCStreamVote` | 1 thread, 3 rival plates, 6 readings, 4 frames, time 0..3, lifetime 2, history 3 | the history is the window its bounds describe and the one-pass vote equals its definition (`VoteIsOfWindow`); what is emitted is backed by evidence and not a repetition inside the cooldown, and nothing else is held back (`EmissionsAreOwed`) |
| `MCStreamThreads` | 2 threads, all four methods, 3 frames, symmetry | `WaitersAreTreatedRight`: only a frame overtaken by a completed later one is refused, calls without a timestamp never are on account of each other, and a closed session stays empty |
| `MCStreamLifetime` | 1 thread | **violation**: `HistoryLifetimeBounded` |
| `MCConsensusDegraded` | the consensus alone | **violation**: `StableKeepsDegraded` |
| `MCSlot` | 2 requests, 2 reloads at a time, 4 in all, `FairSpec` | references balance and the `State` outlives its reloads (`NothingFreedInUse`), one spare model, refinement of `PublishedModel`, reloads return and replaced models are freed (`ReloadsSettle`) |
| `MCPipeline` | 1 call, up to 2 detections of up to 2 crops, 4 recognizers, up to 3 failures, scores 0..2 | which failures reach which recognition and its status (`FailuresDecide`), that the caller's list, count and flag and the counters agree (`FailuresCounted`), how a stopped call ends and what it still asks (`StopsAreHonoured`) |
| `MCHandles` | 3 threads, 2 addresses, 3 pipelines, failing allocations, symmetry | one owner per handle and pipelines that outlive calls (`NothingFreedInUse`), errors are the thread's own |
| `MCAlgorithms` | every input up to the bounds below | fifteen properties, one for each algorithm or pair that must agree |
| `MCRuntime` | one of: 3 threads and 4 calls through a session; 2 threads, 3 keys, capacity 2, 4 lookups and one failed allocation; a startup with 4 file names, one replacement, and 2 results and a snapshot while serving | each call's own tensor, stopped waiters leave, stopped calls end, refinement of `RecencyCache`, `ServesWhatWasTested`, `SnapshotCoversEndedCalls` |
| `MCHandlesMessage` | 1 thread | **violation**: `FailureLeavesMessage` |

### Bounds, and why they are enough

* *Pool.* The two policies act independently of one another, one on `submit`
  and one on `shutdown`, and each value of each occurs in one of the runs.
  Capacity 2 with two submitters and three tasks lets the queue fill, a
  submitter sleep, another barge in, and a discarding shutdown empty the queue
  with one submitter asleep; two closers give the call that returns while the
  other joins. Spurious wakeups are off where lost ones would matter, since they
  would hide them, and on in the other run. The safety properties are proved for
  all values.
* *Slot.* Two reloads are enough for one to wait while the other publishes, two
  requests for different snapshots; four loads give a replaced model, a rejected
  one, a failed load and a success after it. `MaxLoads` bounds the number of
  reloads asked for.
* *Stream.* Three plates are the fewest for which the running runner-up of the
  vote may be met before, between or after the winner and be overtaken. History
  3 with four frames makes both the size bound and the lifetime evict entries.
  Times 0..3 with lifetime and cooldown 2 have values below, at and above each.
  `MaxFrames` counts the frames between two resets; `MaxTime` ends the clock.
* *Pipeline.* Two detections show what leaks from one to the next, two crops
  what leaks within one, and of the recognizers the required one comes last, so
  optional ones have failed or answered before it. `MaxFailures` bounds the
  tolerated failures of a call (3 exceed what one detection with one crop can
  produce from optional recognizers). One call suffices for all properties but
  the counters; the model takes a set of calls, and that the counters add up for
  any number of them at once is proved.
* *Handles.* Three threads: one recognizes while two race to destroy. Two
  addresses with three pipelines force reuse of an address. `MaxPipelines` ends
  creation.
* *Algorithms.* `MaxTextLength` 9 exceeds the longest plate by one. Extents up
  to 14 with tiles up to 8 give one to many tiles, exact fits and a last tile
  moved back by any amount; detections are found in images of one tile and of
  several (`TiledExtent` 11), four of them, one more than `maximum_detections`.
  Three detections are the fewest that form a chain, in all orders, and give more
  groups than `maximum_groups`. Four timesteps hold a double character and
  the blank between. Two crops with up to two evidences have every way in which
  layouts and evidences can be misaligned. Sizes up to 31 reach overflow in
  each product and sum. Images of a few pixels with padded strides, models
  a little wider and narrower, and rows of three candidates reach every branch of
  letterbox and parser; results have up to four parts (`MaxParts`) and buffers
  nothing, a root record, one byte too few, just enough, or plenty.
  Corners are taken in every order from a grid of 14 points and include thin,
  dented and degenerate quadrilaterals; a plate has up to eight characters, one
  less than the maximum, and up to five rows, which leaves either half of any
  height.
* *Runtime.* Three threads are the fewest with one inside, one that was stopped
  while waiting and one behind it. Three keys overflow a cache of two, and four
  lookups bring an evicted key back after a failure. A startup reads each file
  twice and the contract twice, so one replacement falls between any two reads.
  The three systems share nothing, so in a behaviour one moves.

### Fairness

Safety runs assume none. In `BoundedWorkerPool!FairSpec` every worker, every
submitter inside a call, every closer inside a call and the constructor are
weakly fair: the operating system schedules runnable threads, `std::mutex`
critical sections are short and granted, and task bodies return (the code relies
on it: `shutdown` joins). Nobody is obliged to submit or to shut down, the
constructor need not fail, and no wait has to return without a notification.
Weak fairness is enough, so no mutex is assumed to be first-come first-served.
In `AtomicModelSlot!FairSpec` each reload in progress and each `Release` are
weakly fair: loaders and validators return, requests end. The number of reloads
is finite, so a reload waiting for the mutex finds it free for good in the end
and needs no strong fairness. `OnnxInference!FairSpec` is the same for the
threads inside a call: inference returns, and `MaxCalls` bounds the calls ahead.
Nothing is assumed to be stopped or to begin.

### Findings

Three statements of the documentation fail in the model of the code; each is a
run that ends in a counterexample.

1. **A stable plate loses the degraded flag** (`consensus_degraded`).
   `PRODUCT.md:299` promises that a stable result made from degraded accepted
   observations stays degraded. The consensus copies its most confident
   observation, so a degraded reading at 3/4 and a normal one at 4/4 make a
   normal result (`temporal_plate_consensus.cpp:109`). The default decision
   policy never accepts a degraded result, which hides it from a session.
2. **An expired history is reported** (`stream_lifetime`).
   `docs/stream-recognition-api.md:39` says size and lifetime of the history are
   bounded by the configuration. A frame without exactly one plate advances
   `last_timestamp_` and does not expire anything
   (`recognition_stream_session.cpp:66`), so entries of any age stay and are
   counted until the next single-plate frame. No decision uses them.
3. **A failing call without a message** (`handles_message`).
   `docs/c-api-v1.md:139` says a failing call stores a diagnostic message.
   `serialize_result_v1` catches its own exceptions and returns a status, and
   `fac_lpr_engine_recognize_v1` returns it with the last error still empty.

`PRODUCT.md` section 7 also lists a recency weighting that the vote does not
have; the models follow the code.

## 4. Proofs

All theorems hold for every value of the constants that the named assumptions
allow: any finite sets of threads, any capacity, either policy, any number of
reloads, addresses, pipelines. TLC evaluates the assumptions in every run.
`tlapm M.tla` checks a module.

Assumptions: `PoolAssumption` (what the constructor checks, and that the sets of
threads are finite), `SlotAssumption` and `FreeAssumption` (finite sets of
requests and reloads; "no holder" is not a reload), `HandlesAssumption` (finite
sets; the special values differ from real ones), `InferenceAssumption` ("nobody"
is not a thread), `ConsensusAssumption` and `SessionAssumption`,
`CallsAssumption` and `DiagnosticsAssumption` (finitely many calls and publishers,
so that their figures have a sum; stage names differ from counter names),
`StartupAssumption` (a path the manifest refuses is one `safe_model_path` refuses),
`DecisionAssumption` and `PipelineAssumption` (what constructors and
`validate_engine_config` check), and `RecognizerAssumption` (the recognizers an
ensemble asks are a sequence of enabled ones, and none has the name of a stage).
The last one says of `SelectSeq`, which no prover can unfold, what TLC computes:
`Active` keeps only enabled registrations. The assumptions of the algorithms state
what their constructors check, `RowsAssumption` one thing more: a `minimum_height`
of at least 3, where the constructor refuses only 0 (section 1).
`AdapterAssumption` says that the capacity of the cache is a natural number, the type
of `cache_capacity`.
`SizeAssumption` says that the limits of an image are at least 1 and within
`size_t`, and `ViewsAssumption` that sizes, strides and regions are of that type and
a pixel has one byte or three.

**Pool** (`BoundedWorkerPool_proofs`). None of the properties is inductive. For
instance `NobodyStranded` needs to know that whoever sleeps was admitted to an
open pool, and `StatsFinal` that no worker is left when a closer has joined, which
in turn needs that workers leave only when stopping on an empty queue and that
nothing is accepted after that. `PoolInv` collects this: types, `StopRefuses` (the
two flags change together), `ControlInv` (which program points go together with
which flags), `ActiveCounted` (`active_` counts the busy workers) and
`AcceptedSomewhere`. It is preserved action by action; from it follow
`TypeCorrect`, `QueueStaysBounded`, `StatsAlwaysBalance`, `NoStrandedWork`,
`NoStrandedStop`, `NoStrandedSpace`, together `NobodyIsStranded`,
`ShutdownDrains` and the action property `StatsAreFinal`. The interesting one is
`NoStrandedSpace`: while submitters sleep, free slots never outnumber the
notifications still owed plus the submitters already woken, so the single
`notify_one` after each pop is enough even when a new submitter barges in.
`EveryTaskHasOnePlace` needs a second invariant, `PlacesInv`: what is queued was
accepted and is queued once, what a worker holds is accepted, queued nowhere and
held by nobody else, and a task offered by a sleeping submitter has no other
submitter. The last part is what makes the first two inductive: a woken submitter
pushes the task it went to sleep with.

**Slot** (`AtomicModelSlot_proofs`, `CountsAndSums`). `SlotInv` says who holds the
mutex, that a candidate is the newest model and newer than the active one, how
many loads are still owed, and what each reference count adds up to. The counts
need lemmas of their own (`CountsAndSums`: how the number of pointers to a value
changes when one pointer is set). From it: `TypeCorrect`, `ReferencesBalance`,
`ReloadKeepsState`, the two together `NothingIsFreedInUse`, `SpareModelBound`, and `SlotImplementsRegister`, the
refinement of `PublishedModel`: `Publish` maps to `Replace`, the end of the
`State` to `Retire`, everything else to `Take`, `LetGo`, `Accept` or a stutter.

**Handles** (`EngineHandles_proofs`). `HandlesInv` adds to the properties what a
call holds between its steps: an object of its own exactly while publishing or
deleting, a pipeline exactly while recognizing. From it: `TypeCorrect`,
`HandlesHaveOneOwner`, `PipelinesOutliveCalls`, the two together
`NothingIsFreedInUse`, and `ErrorsAreOwn`. That no reference
count is negative is not part of the inductive invariant but follows from it.

**Inference** (`Runtime_proofs`). `ReadsOwnTensor` speaks of what has been
read; `InferenceInv` adds who is under the mutex (`MutexInv`) and that the
workspace is the call's own from the end of preprocessing on (`TensorInv`).
From it: `OwnTensorIsRead` and `StoppedWaitersLeave`, for any number of threads
and calls.

**Startup** (`Runtime_proofs`). `ServesWhatWasTested` speaks of the engine that
serves; what makes it true was done many steps before, so `StartupInv` says of
each phase what has been achieved by then. `BuildInv`: the sessions fit their
roles from assembly on, both roles are activated and shown from registration on,
and after the self test readiness is *ready* only if both sessions have inferred.
`PinnedInv`: as long as no file has been replaced, the manifest is the
contract on disk, the sessions are made of its files, and what was verified has
the hash it names. `ShownInv`: whatever was replaced, what has been verified, and then
shown, is what the manifest pins that was read for it. `SnapshotInv`: a snapshot
finished while serving shows these models and a ready engine. From it: `ServesTested`, for any contracts, names
and contents, and any number of replacements at any time.

**Figures** (`Runtime_proofs`). A publisher records a result one record at a
time while others do, and a snapshot copies one counter after another.
`FiguresInv` ties them by sums over all publishers, for each measure: what is
recorded is what finished publications hold and what publishers have made of
their current one; what has begun is what is recorded and what they still have
to make. A snapshot that has read a measure holds a figure between the one at
its begin and the one recorded. From it: `SnapshotsCover`, for any number of
publishers and results.

**Pipeline** (`LprPipeline_proofs`). Concurrent calls share only the counters, so
`PipelineInv` speaks of one call at a time: the types of its locals and `CallInv`,
whose parts follow a failure from where it is noted to where it decides.
`ContextExact` balances the providers asked against those that answered, those
whose failure the decision knows of and those still in the ensemble's own result;
`DecidedRightly` keeps what was decided; `OptionalOnly` and `CancelledInside` say
whose failures may be noted and when one may be a cancellation; `Ended` what an
outcome tells about the caller; `LateInside` how many calls can be late at each
place. The proof first shows that every step moves a call in one of a few ways
(`Moves`), then that each part survives them. From it: `PipelineInvariant`,
`FailuresAreDecisive` and `StopsHonoured`, for any numbers of calls, detections,
crops and recognizers. `FailuresCounted` compares the counters, which all calls
share, with the results of the calls that have ended. `CountingInv` adds how far
each call is: `Tallied` makes a counter the sum over the calls of what each has
published, `Counted` makes a result's count the failures of its recognitions and
of the detection in progress. A step changes one summand, and the lemmas on
sums carry that to the counter; from it `FailuresCountedOnce`.

**Stream** (`RecognitionStreamSession_proofs`). `OnlyLateFramesRefused` compares a
call with the frames completed before it, the code with `last_timestamp_` alone;
`StreamInv` ties the two (`LogTimes`: the last frame of the log has that
timestamp, and a frame that took the time itself is not ahead of the clock), and
says that a closed session is empty. From it: `WaitersTreatedRight`.

**Vote and emissions** (`RecognitionStreamSession_proofs`). The code compares each aggregate with a
running winner and a running runner-up; a plate is `Justified` if it compares well
with every other plate. `Leads` says what the pass has found after m candidates:
a best one, on a tie the smallest, and the support of the best of the others. One
more candidate preserves it (`MeetLeads`), which gives `ConsensusIsJustified`.
The code keeps a history and forgets; the property asks which of *all* frames
the bounds admit. `RememberIsWindow` shows the two the same: what `expire` and
`trim` leave of an ordered history is an end of it (`RememberKeeps`), what the
bounds admit of the log is an end of what they admitted before
(`KeptAreLast`, `WindowGrows`), and the ends are the same. `AnswerInv` joins this
with the types of the answers, with `LogInOrder` (without which `expire`, which stops
at the first living entry, would leave dead ones) and with `LastEmission` (the
filter remembers the last emission of the log). From it: `VoteRight`, and, with an
injection from the votes into the frames of the window (`EmissionsBacked`),
`EmissionsOwed`.

**Cache** (`Runtime_proofs`). The lemmas are first about any list and any
map: `Live` (every iterator points to a node with its entry's key, and no node is
there twice) and `Order` (which keys are before which) through a splice, a push to
the front and n rounds of the eviction loop; `Touched` is what each does to the
order, which is what the abstract `Use` says. `CacheInv` then bounds how far list
and map may drift apart: after f failed stores at most f nodes have no entry, and
at most f nodes are beyond the capacity. With no failure every node has its entry,
so the loop stops after as many rounds as there are entries too many, and what it
erases is what was used least recently (`GivenUpExact`, `GoneOld`); without that,
the back of the list may be a node nobody owns, or a node left behind by a failed
store whose key has an entry at the front, and the loop then erases the entry used
last. This is why the refinement holds `LeastRecent` only while `lossy` is false.
A store that fails after `push_front` or at a copied key maps to `FailedPut`.
From it: `AdapterInvariant` and `CacheImplementsRecency`, a refinement, for any
threads, keys, answers and number of failures.

**Views** (`Algorithms_proofs`). The code computes every bound with
`checked_add` and `checked_multiply`, which refuse what does not fit a `size_t`
by a subtraction and a division. `QuotientBounds` shows that the division refuses
exactly the products that do not fit, `ExtentIs` and `CropBytesIs` that an
operation built of such steps fails exactly if its end result does not fit or
leaves the span, whichever step notices it. `ViewsInv` says that the current view is
`Part` of the caller's: its region lies in the caller's image, its first byte
and its length are those of a single crop of that region (`PartOfPart`). From it:
`ViewsAlwaysInside`, for any width of `size_t` and any number of crops of crops.

**Rows of a plate** (`Algorithms_proofs`). `Normalize` counts the ink of every row,
picks the row with least, cuts there and trims both halves. `InkIs` and `BoundsAre`
show what an extremum over a set of pixels says of each pixel, `SplitRowIs` that the
row cut at has least ink among those searched, so that a blank row that may be cut
at is never passed over for one with ink, and `JoinedFit` that both halves have a
width of at least 1 in an output that is not too wide, whatever `llround` makes
of the ratio. From it: `RowsAlwaysKeepInk`, for plates of any size.

**Tiles** (`Algorithms_proofs`). `axis_origins` is a recursive function; `TilesFrom`
gives it in closed form by a least counterexample (the k-th tile begins k - 1 advances
on, the last one at the border), and from that follows that tiles cover the axis and
overlap as configured. `merge_detections` sorts stably and keeps a detection unless one
it has kept is alike. `FoldsLike` says what a fold of the community modules computes,
step by step; `ArrangedIs` that a sort that gives every element its place (how many come
before it) is a permutation in order; `Survivors`, that after a pass of such a
suppression every element has been kept, or was refused for a stronger one that was
kept, or found the list full. From it: `TilesAlwaysFindOnce`, for images, tiles and
plates of any size. `TilesInputAssumption` says that extents and confidences are
integers; a similarity of boxes that is the same both ways (`AlikeBothWays`) is proved.

**Candidates of the detector** (`Algorithms_proofs`). `parse` reads a tensor in
either layout, ranks what is above the threshold, suppresses and cuts off. `FlatIs` and
`PairedIs` show that the two index formulas enumerate the same features, so that what
is parsed depends on the candidates and not on the layout (`LayoutsAgree`).
`RankedAre` gives the ranked candidates by their places, and `KeptFolds` with
`FoldsToUnique` identifies the loop of suppression with the fold of `CountsAndSums`,
so that `Survivors` says which candidates remain and why each other one does not.
From it: `DetectionsAlwaysCandidates`, for any candidates, specifications and images.
`CandidatesAssumption` says that features are integers or NaN and that the
specifications pass `validate`.

**Plate grammar** (`Algorithms_proofs`). `Normalize` goes through a text character by
character; `PushedFolds` says so, `FoldsToConcat` that a text and what follows it are
normalized one after the other, and `PlainAppended` that letters and digits are then
simply appended. `Formed` describes a plate by its numbers of letters and digits;
`FormedValid` and `ValidFormed` show that `is_valid_normalized`, which counts the
letters itself, accepts just these. A text accepted as a prefix is then completed case
by case (`BegunCompleted`): no character, one, two, or more; conversely what
begins a plate is accepted (`BegunOfPlate`). From it: `PrefixAlwaysExact`, for any
letters, options and texts. `TextInputAssumption` says that a character is a byte.

**Self test** (`Algorithms_proofs`). `RecognizerBuilt` and `DetectorBuilt` give
what a model that can be built against its contract has said of its output
(`BuiltShapes`): all three dimensions. So whatever a session makes of the shape of
the output is the shape itself (`BuiltConcrete`, with `ConcreteIs`), and the tensor
made for the input fits it (`MadeFits`); one inference then decides all. From it:
`SelfTestAlwaysDecides`. `ContractsAssumption` says how inputs and outputs of
the models considered are named: the contract means the first and the second.

**Candidate fusion** (`Algorithms_proofs`). `Collect` flattens the evidence of the
crops, and their layouts, each with its own call; `Fuse` then pairs them by index and
multiplies what each evidence leaves open. `FlattenFolds` shows that flattening
joins one crop after the other, `ProductConcat` that a product is that of its
parts, and `FlattenedProduct` puts them together: as long as a crop has as many layouts as
evidence, one product over everything collected is the product of those over each crop.
`DoubtIs` and `DoubtInIs` say that `Doubt` and the property's `DoubtIn` are such products,
with the same reading scored in the same way (`SupportIs`). The rest is the ranking:
more support, and of the same the smaller text, is an order of the texts (`RankingIs`), and
`CutIs` says what is left of it under `max_candidates`. From it:
`ReadingsAlwaysMeetTheirLayout`. `CropsAssumption` says which records are readings, evidence
and layouts: their numbers are natural, and the source of an evidence has a weight.

**Crops of a plate** (`Algorithms_proofs`). A region is computed with floors, ceilings
and clamps on each axis. `AxisTouches` shows that it begins at the first pixel the
box touches and ends behind the last one, `AxisWide` what padding adds, and `BboxHolds`
puts the two axes together; a region has as many columns and rows as its pixels
(`HeldIs`), so that what is too small can be told from either. `TryAddIs` says what
one attempt leaves: the crops before it as they were, all large enough and told apart,
and the new one there unless something speaks against it (`Tried`), which later
attempts do not undo (`TriedStays`); `MadeFolds` carries that through the order of the
generators. From it: `CropsAlwaysCoverPlate`, for any image, box and order.
`CropInputsAssumption` says that sizes are natural numbers, coordinates integers and that
the constructor accepts the configuration.

**Counts, sums, folds** (`CountsAndSums`). The library's induction theorems
take an operator as a parameter and cannot be used. What is needed of sums over a
finite set, and of folds, is proved by minimal counterexample instead: inclusion
among the subsets of a finite set is well founded, so if a claim fails for some
subset it fails for one all of whose proper subsets satisfy it. The sets
and functions involved are then ordinary values, which the provers can handle.

**Only model-checked.** Liveness (`NothingHangs`, `ReloadsSettle`,
`StoppedCallsEnd`) is beyond the prover, which knows neither `ENABLED` nor
fairness. Of the algorithms, the plate grammar, tiles, the
detector's candidates, the self test, candidate fusion, crops, views and double rows are
proved; what the others compute are
results of recursive functions and folds over the input, some of which can be had
by minimal counterexample and are on the plan.

## 5. Not modelled, and why

* *Arithmetic without a decision.* Confidence calibration (a logistic function),
  crop quality, crop enhancement, warping and resizing, confidences as floats
  beyond exact fractions: TLC has no floating point, and what the results decide
  is modelled where it is decided.
* *External code.* ONNX Runtime, OpenCV, the file system beyond what a read
  returns, the OCR worker process. Their outcomes are left open.
* *Reading and writing text.* JSON configuration, logging, SHA-256, argument
  parsing, the model inspector, the benchmarks and the stress test of `tools/`.
* *Plain records*, and the C++ wrapper of the C ABI, a thin layer over it.

What the models leave out inside a modelled component is said in section 2, and
each component's `note` in `PROJECT.json`.

## 6. Plan

1. **Stream**: an abstract session as one atomic specification, and the session
   shown to implement it.
2. **Algorithms**: what the folds and recursive functions compute, by minimal
   counterexample.
3. **Startup**: optional checks and the degraded readiness, the other ways to
   build an engine, registrations that fail half way (`engine_builder.cpp:60`).
4. **Several pipeline calls at once** under TLC, too, with `EngineDiagnostics`
   in place of the four counters of `LprPipeline`.
5. **Two dimensions**: tiles in several rows.
