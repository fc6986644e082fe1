# eye: a TLA+ model of the camera's streaming core

`eye` is the firmware of an IP camera on a HiSilicon hi3516cv610: an encoder
pipeline (VI, VPSS, VENC, ISP), threads that fetch encoded frames, a distributor
that hands each frame to its consumers, and an RTSP server on live555 that serves
two streams. The code is C++11 with one mutex per object, condition variables,
atomics, callbacks and one event loop. These modules state what the code does
where threads meet, check it on small instances with TLC, and prove the safety of
every component, for every value of its parameters, with TLAPS.

## 1. The system

| Part | State | Operations | Talks to |
|---|---|---|---|
| `StreamDistributor` (`modules/stream`) | `slots_` under `mutex_`; per slot a queue under its mutex, `cv`, `running`, a worker thread, counters; `next_id_` | `push`, `add_consumer`, `remove_consumer`, destructor, `worker_func` per slot | called by a fetcher thread; calls consumers back on worker threads |
| `StreamConsumerManager` | a fetcher and a distributor per stream type; never locked | `set_fetcher`, `get_distributor`, `register_consumer`, `unregister_consumer`, `start_all`, `stop_all` | owns the two above and below |
| `HiStreamFetcher` (`modules/platform`) | `running_`, thread, `fd_`, the stream currently held | `start`, `stop`, `run`, `fetchFrame`, `releaseFrame` | polls the encoder, calls `push` |
| `StreamFrame` | a shared copy of the packs, a timestamp; a process-wide last timestamp | constructor, `is_idr` | built by fetchers |
| `RecorderConsumer` | deque, `running_`, write thread | `on_frame`, `try_drop_frame`, `write_loop`, destructor | a consumer; not used by the application |
| `RtspServer` (`modules/rtsp`) | `running_`, scheduler, environment, event thread, maps by stream type | `start`, `stop`, `add_stream`, `remove_stream`, `on_frame`, `handle_frame_trigger` | `on_frame` is a consumer callback; the rest runs on the main thread or in the loop |
| `RtspFrameQueue` | access units and registered sources under one mutex | `push_access_unit`, `pop_nal_unit`, `register_source`, `unregister_source`, `notify_active_sources`, `has_active_sources`, `clear` | workers push, event loop pops |
| `RtspStreamSource` | `awaiting_frame_`, and live555's own state | `doGetNextFrame`, `deliver_frame`, `notify_frame_available`, `doStopGettingFrames` | event loop only |
| `RtspServerMediaSubsession` | client sessions, cached SDP line | `createNewStreamSource`, `getAuxSDPLine`, `deleteStream` | event loop only |
| NAL parser, `ParameterSetCache` | parameter sets under a mutex | `split_annex_b_nals`, `classify_nal`, `has_*` | workers write, event loop reads |
| `VideoPipeline`, VENC parameters | handles of the vendor SDK, the ISP thread | `init`, `deinit` and their steps | main thread |
| `Logger` | categories, configuration watcher thread | `init`, `fini`, `get_category`, `reload` | every thread |
| `main`, `stream_test` | static objects, three files, the point `main` is at | start-up, a recording of ten seconds, wait for a signal, exit | everything |

Frames travel on three kinds of threads: a fetcher thread (one per stream) takes a
frame from the encoder and calls `StreamDistributor::push`; a worker thread (one
per consumer) calls the consumer, for RTSP `RtspServer::on_frame`, which cuts the
frame into NAL units, queues them and fires a trigger; the live555 thread turns the
trigger into deliveries to the clients that wait.

What is hard about it, and the property that would notice:

- a wait whose predicate is written without the mutex (removal, destruction):
  removals return; no worker sleeps over a frame;
- work on a snapshot of `slots_` while slots come and go: no callback outlives the
  join, no frame is skipped, counters account for every frame;
- bounded queues that drop their oldest entry: bounds, order, no frame twice;
- wakeups by one shared trigger and a flag that is set after the queue was found
  empty: no client waits over a NAL unit;
- objects deleted in the event loop while tasks point to them;
- stop and exit: a server, its loop, the workers and the fetchers end in an order
  nobody tests: no freed scheduler, no destroyed distributor, every join ends;
- calls of the vendor SDK that fail half way: streams are given back, what is left up
  stands on what it needs, devices are closed;
- a clock that is set while two threads stamp frames: timestamps increase;
- start codes that overlap, touch or end a pack: every NAL unit is found, none holds a
  start code;
- a configuration reloaded under the threads that log: no lookup fails outside the
  reload, zlog outlives the thread that reloads it.

`PROJECT.json` lists these as hazards, each at its line and with the properties
that cover it, or why none does yet.

## 2. Modules

| Module | Models | Used by |
|---|---|---|
| `FrameFeed` | abstract specification: what a consumer is promised, without threads or locks | refined by `StreamDistributor` |
| `StreamDistributor` | `stream_distributor.cpp`, step by step | `MCStreamDistributor`, `StreamDistributorProofs` |
| `RtspBridge` | `on_frame`, `RtspFrameQueue`, `RtspStreamSource`, `RtspServerMediaSubsession` | `MCRtspBridge`, `RtspBridgeProofs` |
| `NalParser` | `rtsp_nal_parser.cpp` and `process_frame_nals`, which feed `RtspBridge` | `MCNalParser`, `NalParserProofs` |
| `RtspServerLife` | `start`, `stop`, `add_stream`, `remove_stream` of `RtspServer` against its event loop and the workers | `MCRtspServerLife`, `RtspServerLifeProofs` |
| `StreamFetcher` | `hi_stream_fetcher.cpp` and the life cycle part of `StreamConsumerManager` | `MCStreamFetcher`, `StreamFetcherProofs` |
| `StreamFrame` | `stream_frame.cpp`: timestamps and key frames | extended by `Recorder` |
| `Recorder` | `recorder_consumer.cpp`, fed by one thread of `StreamFrame` | `MCRecorder`, `RecorderProofs` |
| `Logger` | `logger.cpp` | `MCLogger`, `LoggerProofs` |
| `VideoPipeline` | `init()` in `hi_video_pipeline.cpp` | composed into `Application`, `ApplicationProofs` |
| `Application` | `main.cpp`, `stream_test.cpp` and the destruction of the static objects | `Application.cfg` (it has no constants), `ApplicationProofs` |
| `...Proofs` | theorems and proofs | TLAPS |
| `MC...` | constants for TLC | the `.cfg` files |

A definition with an underscore in its name (`MutexHeld_PredicateUnlocked`) is a
faulty variant of the definition after it. No specification uses it; putting it in
the place of the correct one makes the property named in `PROJECT.json` fail, which
shows that the property can.

### StreamDistributor

One action is what the code does between two points where another thread can get
in: taking or releasing a lock, testing the predicate of a wait, blocking,
notifying, joining.

- `slots` is `slots_`; `queue`, `running`, `worker` and the counters `consumed`,
  `dropped`, `failed` belong to a slot, named by its id. `next_id_` is `nextId`.
- A worker is `"unborn"`, at the head of its `"loop"`, about to `"acquire"` the
  slot's mutex and test the predicate of `cv.wait`, `"parking"` (predicate false,
  about to block), `"waiting"`, `"ready"` (predicate true, not yet acted on), in the
  `"callback"`, or `"done"`. It holds the mutex while parking and ready.
- `PushSnapshot`, `PushEnqueue` and `PushNotify` are the three phases of `push()`.
  The fetcher is one thread, so there is one `push()` at a time; the module's
  variables for it are the frame number, the snapshot and the slot to be notified.
- `AddAllocate` (the id from the atomic counter, the slot, the thread) and
  `AddPublish` (into `slots_`) are `add_consumer()`; the `Remove...` actions are
  `remove_consumer()`, by any control thread and also for an id that is gone (the
  module allows several threads; the program has one, `main()`); the `Destroy...`
  actions are the destructor, which runs once nobody else calls the distributor.
- A callback is two steps, in between which anything can happen; it returns or
  throws (`CallbackReturns`, `CallbackThrows`).
- Spurious wakeups are an action.
- `notify_all()` wakes only a worker that is blocked; one that is still parking
  does not hear it. A push cannot fall into that window, because it needs the mutex
  to change the queue; a removal can.

Left out: exceptions that are not `std::exception` (the process ends), a callback
that removes its own consumer (its own thread would join itself), the copy of the
frame (a shared pointer, immutable).

### FrameFeed and the refinement

`FrameFeed` is what a consumer can rely on: it is open from its registration to its
removal, holds a bounded list of pending frames, is offered each frame pushed while
it is open, gets them one at a time in order, may lose only the oldest, and gets
nothing once closed. `StreamDistributor` implements it: `FeedRefined` maps a slot's
phase from its position in `slots_`, its worker and the thread that removes it
(`PhaseOf`), and each step of the threads is a step of the feed or a stutter.

### RtspBridge

- Per stream: the queue of access units (each a sequence of numbered NAL units),
  the registered sources, whether the parameter sets are complete, the client
  sessions counted against `max_clients`, and one worker (the distributor's thread
  for the RTSP consumer of that stream) with the phases of `on_frame()`: parse and
  cache, look for sources, push, trigger. The look and the push lock the queue
  separately, so they are two steps.
- Per source: open or deleted, its stream and client, live555's "is currently
  awaiting data" (`reading`), `awaiting_frame_`, and how many `deliver_frame()`
  tasks are scheduled for it.
- A handler of the event loop is one step; a second handler never runs inside it,
  and it meets the workers only in the queue's mutex and in the trigger. DESCRIBE
  is two steps, because `getAuxSDPLine()` sleeps in the loop; no other handler runs
  until it returns.
- `StopGettingFrames` is `doStopGettingFrames()` without a deletion, which a client's
  PAUSE calls; the source goes on when the client does. A task that is scheduled then
  still runs, and delivers nothing unless the source is asked again.
- A task on a deleted source reads freed memory. The model lets it either do
  nothing or end the process (`crashed`).
- External, taken from how the code uses live555: what `getNextFrame`,
  `afterGetting` and `isCurrentlyAwaitingData` mean, that a source is made with
  session id 0 for DESCRIBE and deleted afterwards, that the trigger is cleared
  before its handler runs, and that a deleted medium unschedules only the task it
  knows of, which `scheduleDelayedTask` in `notify_frame_available()` is not.
- Left out: starting and stopping the server, adding and removing streams (they are
  `RtspServerLife`), how a frame is cut (`NalParser`), `reuse_first_source` with more
  than one client, truncation and timestamps, the text of the SDP.

### NalParser

- The scan of `split_annex_b_nals()` is a state machine, one step per turn of its loop:
  `i` is its index, `cuts` are `nal_offsets` and `nal_sc_lens`. Packs are sequences of
  bytes, positions count from 0 as in the code.
- What follows the scan of a pack, cutting, classifying, appending to the access unit
  and filling the cache, is one step (`EndPack`). Packs without data are skipped.
- `Definition` says without a scan what the NAL units of a pack are; `FrameIngested`
  compares.
- Empty NAL units are left out (`NonEmpty`) and the last parameter set of a kind is kept
  (`Latest`) by the places they have in the list, not by recursion over it, so that both
  can be reasoned about.
- Left out: the timestamps and the key frame flag copied into each NAL unit.

### RtspServerLife

- The main thread is at one assignment or one call of live555 at a time (`main`):
  no mutex protects `RtspServer`'s maps, and only `running_` is atomic. `Start...`
  is `start()` with its two failures, which take the same way out;
  `AddSession`/`AddPublish` is `add_stream()`, `RemoveSession`/`RemoveErase`
  `remove_stream()`, `StopSignal` to `StopForget` `stop()`.
- `streams` stands for all the maps by stream type, which are filled together in
  `AddPublish` and emptied together. `table` is the lookup table inside live555's
  server, and `closed` the sessions in it that `Medium::close()` deleted.
- Schedulers are numbered, so that a pointer read before a restart differs from the
  one after it. A worker in `on_frame()` tests `running_`, searches the maps, reads
  `scheduler_` and calls it; `using` is what it read.
- `Register` and `Unregister` stand for the consumers' registration in main; the
  second waits until no callback is running, as `remove_consumer()` does.
- `stop()` comes at any time. Before the consumers are registered or after they are
  unregistered the server can be started again; with the consumers registered it is the
  `stop()` of `~RtspServer`, after which the program ends (`phase` is `"exit"`).
- A worker that searches a map while it is cleared, or calls a scheduler that is
  deleted, may end the process (`Crash`) or get away with it.
- Left out: what is in the queues, and a stop within `start()` or `add_stream()`,
  which run on the same thread.

### StreamFetcher

- Per fetcher: `running_`, its thread's place in `run()` and `fetchFrame()`, the
  pack arrays allocated, the encoder's waiting frames, and the streams got and not
  released. A frame `"fits"` or is `"large"` (more packs than `FrameData` holds).
- `fetchFrame()` has a step for each call that can fail: `FetchFails` (the query, or
  `malloc`), `Allocate`, then `Get` or `Drain`, or `GetFails`, which frees the array.
  `DrainRelease` and `Release` free the array whatever the encoder answers (`GiveBack`).
- The encoder is external: any of its calls fails when it likes, a frame stays first
  until it is got, and frames got and not released take up room, also those whose
  release it refused (`refused`, a history variable): after enough of them it encodes
  no more. `select()` may time out or fail also when a frame waits.
- The manager's operations are `start_all`, `stop_all`, `set_fetcher` for a type
  that has a fetcher (the old one is destroyed) and its own destruction, each over
  the fetchers in some order, on one thread as in `main.cpp`. `DestroyDistributors`
  comes last, which the order of the members decides.
- Assigning to or destroying a joinable `std::thread` ends the process: `"aborted"`.
- Left out: a `bad_alloc` in `StreamFrame` (it ends the process), the contents of the
  packs. `push()` is one step here; it is `StreamDistributor`.

### StreamFrame and Recorder

- `next_monotonic_timestamp_ms()` reads the system clock before it takes the mutex, so a
  thread reads in one step (`ReadClock`) and is stamped in another (`Stamp`); in between
  the clock may be set, backwards too, and others be stamped.
- The recorder gets the frames of one thread, in their order, from a distributor that
  may drop any of them (`HandOver`). An entry is the frame's timestamp and whether it is
  a key frame; `Victim` is the entry that `try_drop_frame()` picks.
- `write_loop()` is split like the distributor's worker; the destructor sets `running_`
  and notifies without the mutex, in two steps, and joins.
- Left out: the bytes, `file_.open()`, and failing writes, which the code ignores.

### Logger

- `init()`, `fini()`, and `check_config_task()` from its test of `stop_flag_` to its
  sleep. `preload_categories()` fills `cats_` name by name while other threads search
  it: nothing locks the table. A lookup that a change of the table overlaps (`torn`)
  finds its category, misses it, or ends the process, whichever the hash table does.
- External: `zlog_init`, `zlog_reload` and `zlog_get_category` succeed or fail, and an
  operator writes versions of the configuration and the update file at any time.
- Left out: `ensure_dir()`, messages on the console, a second `init()`.

### VideoPipeline

- `init()` is a sequence of some seventy calls (`InitCalls`), each a record of what
  it needs, brings up, takes down, and of the clean-up calls the code makes if it
  fails. `CallSucceeds`, `CallFails` and `UndoFails` run through it; after a failure
  only the clean-up calls remain, and a clean-up in turn stops at its first failure.
- The SDK is external. What a call needs is taken from the order and the comments of
  the code; a device that an object stands on is needed by the calls that use it.
- `wrap_enable`, `video_stretch_enable` and rotation are off, as the code sets them;
  attributes are left out.

### Application

- Composes `VideoPipeline` (its variables and actions, through `INSTANCE`) with `main()`
  and `stream_test()`, which `main()` runs and which contains the only `start_all()`. A
  fetcher can open only an encoder channel that `init()` made, and may be refused.
- The other components appear as what `main()` meets of them: the server's event loop,
  the fetchers' threads, and consumers whose worker is in a callback or not. Each is told
  to stop by one step of `main()`, returns by a step of its own, and is joined by a
  further step of `main()`, which blocks until then (`StopServer`, `LoopReturns`,
  `JoinServer`; `StopFetcher`, `FetcherReturns`, `JoinFetcher`; `Unregister` or
  `StopWorkers`, `CallEnd`, `JoinWriter` or `JoinWorkers`).
- What the modules above find of them is possible here too: a join of a worker may hang
  (`JoinHangs`), and a callback that is in `on_frame()` when the server is gone may crash
  the process (`Crash`).
- `statics` is the order in which the static objects were constructed; after `main()`
  they are destroyed from its end. Destroying a joinable `std::thread` is `"aborted"`.
- A signal before the handlers are installed ends the process; in `pause()` it lets
  `main()` go on; during a sleep it cuts the sleep short; elsewhere nothing remembers
  it, and `main()` pauses for the next.

## 3. What is checked

| Run | Instance | Shows |
|---|---|---|
| `distributor_feed` | 1 control thread, 2 registrations, 3 frames, `max_queue_size` 0 and 2, fairness | no worker without an owner (`NoOrphanWorker`), none asleep over a frame (`NoSleepOverFrame`), `front()` always defined (`FrontExists`), no frame skipped (`NoFrameSkipped`), `QueueBounded`, `FramesAccountedFor`, `DeliveredInOrder`, the refinement `FeedRefined`, and under fairness `QueuesDrain` and `RemovalReturnsUnlessParking` |
| `distributor_removal` | 1 control thread, 1 registration, 2 frames, fairness | **violated**: `RemovalReturns` |
| `bridge_sessions` | 2 streams, 2 clients that may pause, 2 frames per stream, 2 sources, queue of 1 | `NoStuckSource`, `SessionsMatchSources` |
| `bridge_queue` | 1 stream, 2 clients, 3 frames of up to 2 NAL units, 2 sources, queue of 2, fairness | `PoppedInOrder`, and under fairness `ReaderServed` |
| `bridge_dangling` | 1 stream, 1 client | **violated**: `NoDanglingTask` |
| `server_life` | 2 streams, 2 workers, 3 schedulers, fairness | the loop keeps its server until it is joined and a server that says it runs does (`LoopServes`), nothing is left after a stop or a failed start (`StoppedIsClean`), up to the exit no thread is in the maps while another changes them and no deleted scheduler is called (`RacesOnlyAtExit`), `StopReturns` |
| `server_exit` | 2 streams, 2 workers, 1 scheduler | **violated**: `NoFreedScheduler` |
| `fetcher_life` | 2 fetchers, room for 2 frames in one channel and 1 in the other, fairness | pack arrays are freed and streams given back whichever call fails, but for releases the encoder refuses (`StreamsBalanced`), no thread pushes into a destroyed distributor (`NoPushToDestroyed`), only a failed descriptor lets the manager end the process (`AbortsOnlyAfterFailedOpen`), `StopReturns`, `EncoderServed` |
| `recorder` | 2 threads, 4 frames, a clock of 2 readings, queue of 2, fairness | timestamps increase over all channels (`StampsIncrease`), every entry is in one place and counted (`EntriesAccountedFor`), the file is in order (`WrittenInOrder`), the queue is written (`QueueWritten`), the destructor returns outside its window (`DestructorReturnsUnlessParking`) |
| `nal_split` | every pack of up to 8 bytes over the two bytes of start codes and a header, of up to 6 over two headers, and every frame of two packs of up to 4, H.264 and H.265 | no start code in a NAL unit (`NoStartCodeInNal`), access unit and cache as defined (`FrameIngested`) |
| `logger_reload` | 2 threads that log, 2 categories, 2 new configurations, fairness | `NoUseAfterFini`, `LookupsFindCategory`, and under fairness `UpdateApplied` |
| `application` | every outcome of every call, fairness | every call of `init()` finds what it needs (`NeedsMet`), what `init()` leaves stands on what it needs (`PipelineWhole`), no write to a closed file (`NoWriteToClosedFile`), the logger outlives all threads (`LoggerOutlivesThreads`), an abort is over the ISP thread or a failed fetcher, and an orderly exit follows only on a failed `init()` (`AbortsOnlyOverThread`), every join ends but that of a worker which missed its notification (`JoinsEnd`) |

Bounds. The program has one control thread: `main()` and the `stream_test()` it calls
register and remove all consumers, and `distributor_feed` has one. `StreamDistributor`
allows any number, and the theorems hold for all. A second slot covers a snapshot whose
later element is removed while the first is served; three frames overflow a queue of one
or two while another frame is in the callback. In the bridge a queue of one or two
overflows within two or three frames, two sources let one client follow another (or a
DESCRIBE precede a client), and two streams share the trigger. Three schedulers let a
server fail to start, run, stop and run again; two workers hold an old pointer and
search the maps at once. Two fetchers are enough for one to fail while the manager goes
on to the other; a channel with room for two holds a frame that fits behind one that
does not, and one refused release with a frame behind it; one with room for a single
frame falls silent at once. Four frames overflow the recorder's queue of two while a
fourth is being written, with key frames in any place of it; two readings of the clock
are enough for it to stand still, advance and go back. Eight bytes hold two long start
codes, or three short ones that touch. Two configurations let one be announced while the
other is being loaded. `Application` and `VideoPipeline` are finite and explored as they
are. `MaxFrames`, `MaxConsumers`, `MaxSources`, `MaxStarts`, `MaxClock`, `MaxVersion`
and `BufferSize` bound the environment only; `CHECK_DEADLOCK FALSE` is there because,
once they are used up, every thread may rightly be idle, and because a program may end.

`QueuesDrain` says that the queues run empty once the frames stop, which the bound
makes them do; with frames that never stop a queue may rightly never be empty.

Symmetry is used for clients in safety runs, never for liveness.

Fairness. Workers, the thread in `remove_consumer()` or the destructor, the rest of a
`push()` and the handlers of the event loop that are due are weakly fair: they are
threads the operating system schedules, and the callbacks return. Taking a mutex is
weakly fair in effect since nobody holds one forever. Nothing obliges a client or a
frame to come, a consumer to be registered or removed, or a spurious wakeup to happen.
Nor does a client have to ask for the next NAL unit: `ReaderServed` is about a source
that was asked and waits, until it is stopped. In `RtspServerLife` the rest of `stop()`
and a handler in progress are weakly fair, and the event loop's look at its watch
variable is strongly fair: `doEventLoop()` looks after every turn, however many triggers
come. In `StreamFetcher` the manager and the threads are weakly fair; that `select()`
reports a frame, that `malloc` gives an array and that the encoder gives the stream are
strongly fair (`EncoderServed` only): they may fail, but not every time. Nothing obliges
the encoder to take a stream back. `StopReturns` needs neither, since `PollNothing`
brings the thread back to `running_`. In `Recorder` the writer, the rest of `on_frame()`
and the destructor once entered are weakly fair; in `Logger` the configuration thread
and `main()`; in `Application` `main()` where it is not in `pause()`, the event loop (it
looks at its watch variable in each turn), a fetcher that was told to stop (`select()`
comes back within a second) and a callback under way. `JoinsEnd` needs all four: a join
waits for the thread it is about. A signal is not fair: nobody has to send one.

### What the violated runs show

- **`remove_consumer()` may never return** (`stream_distributor.cpp:55`). `running`
  is cleared and `notify_all()` called without the slot's mutex. If both fall after
  the worker found its predicate false and before it blocks, the worker sleeps and
  `join()` waits for it; a later frame does not help, because the slot is out of
  `slots_`. `RemovalReturnsUnlessParking` shows that this window is the only
  reason: a removal that does not meet it returns. The destructor has the same
  window.
- **A task outlives its source** (`rtsp_stream_source.cpp:44`): the token of the
  delayed task is dropped, so nothing unschedules it when the source is deleted.
- **The exit calls a deleted scheduler** (`rtsp_server.cpp:106`, from `main.cpp:62`).
  `main()` returns without stopping anything. `RtspServer` is the static object
  constructed last, so `~RtspServer` runs `stop()` first, with the consumers still
  registered and their workers running: one that has tested `scheduler_` calls it after
  it was deleted, and one that searches a map may do so while it is cleared. The design
  document (`2026-05-03-rtsp-server-design.md:399-402` and `:409`) wants `stop_all()` and
  `unregister_consumer()` before. `RacesOnlyAtExit` shows that this `stop()` is the only
  place: before it, and when consumers are unregistered first, there is no such call.

### What the models show without a property

- A second `remove_consumer()` of the same id returns at once (line 50) while the
  first still waits for the callback, so "it has returned" means "no more callbacks"
  only for the caller that found the slot.
- Overflow of `RtspFrameQueue` drops the front access unit even when its first NAL
  units are already with the client (`Pushed` after a `Popped`): the client gets part
  of a frame. The unit test for dropping whole access units tries only unread ones.
- The workers of both streams fire one event trigger, also while it is pending
  (`TriggerEvent`); `UsageEnvironment.hh:171-174` advises against both.
  `NoStuckSource` shows that no wakeup is lost as long as a pending trigger absorbs
  the next.
- `remove_stream()` and `stop()` close a session that stays in live555's lookup table
  (`closed`; `GenericMediaServer.hh:58-63` has functions that take it out), and
  `add_stream()` changes that table on the main thread while the loop runs
  (`UsageEnvironment.hh:170`).
- A fetcher whose descriptor cannot be got leaves a joinable thread that `stop()`
  does not join: the next `start()` or the destruction ends the process
  (`AbortsOnlyAfterFailedOpen` says that nothing else does).
- When VI cannot be bound to VPSS, the clean-up disables two of three enabled VPSS
  channels; and `deinit()` stops nothing, against the comment at
  `hi_video_pipeline.cpp:675`.
- A new client may get old frames: nothing calls `RtspFrameQueue::clear()`, where the
  design document (`2026-05-03-rtsp-server-design.md:299` and `:315`) wants the queue
  emptied when clients come and go. In `RtspBridge` a `Setup` finds the queue as the
  last client left it.
- After a failed `bind_vpss_venc()` (`hi_video_pipeline.cpp:1668-1703`) the encoder that
  was to be bound stays started, and gives no frames: a fetcher can open its channel and
  waits for ever. `EncodersWhole` shows that there is at most one, the last that was made.
  Nor is VI's binding undone when its pipe is destroyed (`:1324-1339`); `ViWhole` says
  that nothing stands on the missing pipe.
- A stream whose release the encoder refuses stays in its buffer: `releaseFrame()` logs
  it, the draining path (`hi_stream_fetcher.cpp:54`) does not look at the result. After
  enough of them the channel is silent; `StreamsBalanced` says that there is no other
  way to lose room.
- The ISP thread is never joined, and the destructor of the pipeline is empty: once
  `init()` succeeded the process ends by `std::terminate()`, after "eye exiting
  gracefully." (`main.cpp:61`). `AbortsOnlyOverThread` says where an abort can come from,
  and that a process which ends in order is one whose `init()` failed.
- RTSP clients get frames only if the three files of `stream_test()` can be opened: its
  `start_all()` is the only one, and `OpenFails` jumps over it. The design document
  (`:397`, `:406-407`) has it in the start sequence.
- A signal that comes after its handler was installed and before `pause()` is lost.
- The recorder drops the oldest entry that is no key frame, which may be in the middle
  of a group of pictures; what is queued when the destructor runs is never written; and
  with a `write_queue_size` of 0 it would pop from an empty deque
  (`RecorderAssumption` excludes it). Its destructor has the window of
  `remove_consumer()`.
- The logger removes the update file also after a reload that failed, or when it was
  written anew during the reload: that configuration is not loaded (`UpdateApplied` is
  about the others). During a reload the table is searched while it is changed.

## 4. What is proved

Eight modules hold proofs. Each states its invariants first, proves that `Init`
satisfies them and that each action preserves them, and derives the properties. The
named assumptions on the constants say that bounds and sizes are natural numbers and
that names are distinct, and little else.

**`StreamDistributorProofs`**, for any number of consumers, control threads and frames
and any queue sizes (`ConstantsAssumption`):

- `TypeCorrect`: types, and `FrontExists`. Neither is inductive alone: the queue
  keeps its type across `pop_front()` because it is not empty when the worker is
  ready and still running, and that in turn needs the types of the variables (a
  notification moves only a waiting worker). They are proved together.
- `NoLostFrameNotification` (`NoSleepOverFrame`): a worker that parks or blocks with
  a frame in its queue has `push()` about to notify it. The predicate is tested
  with the mutex that `push()` needs to enqueue: that one fact carries the proof.
- `BoundedQueues` (`QueueBounded`), from `TypeOK` and `FrontExists`.
- `NoCallbackAfterRemoval` (`NoOrphanWorker`): a live worker is in `slots_` or
  belongs to a registration or removal under way; a removal lets go only after the
  join.
- `InOrderDelivery` (`DeliveredInOrder`, an action property). Its invariant has two
  layers: `FreshIds` (ids are handed out once, so `slots_` and the snapshot have no
  duplicates and an id not yet published is untouched) and `Ordered` (queues are
  sorted, newer than what was delivered and than the registration, and a slot that
  the running `push()` has still to serve holds only older frames). Without
  `FreshIds` a slot twice in the snapshot would get a frame twice; without the last
  clause of `Ordered` the appended frame need not be the newest.
- `FrameAccounting` (`FramesAccountedFor`): every frame put into a queue is queued,
  in the callback, consumed, failed, dropped or discarded by the removal.
- `EveryFrameOffered` (`NoFrameSkipped`): a frame is owed to all of the snapshot when it
  arrives and paid to one slot at each turn. `NothingPending` adds that between calls of
  `push()` the snapshot is used up, and that a slot not yet published was offered
  nothing.
- `DistributorImplementsFeed` (`FeedRefined`): `StreamDistributor` implements
  `FrameFeed`. One lemma per kind of step: a snapshot is `Produce`, an enqueue `Offer`,
  a callback `Deliver` and `Finish`, publishing `Open`, erasing and the beginning of the
  destructor `Close`, clearing and the destructor's join `Closed`; all else is a
  stutter (`HiddenSteps`). What the mapping needs beyond the invariants above is
  `RemovalsApart`: no two removals have the same slot, one that has it took it out of
  `slots_`, and a slot that is cleared has no worker. Without it a second removal would
  leave the phase at "closing" when the first ends.

**`RtspBridgeProofs`**, for any streams, clients, limits and queue sizes
(`BridgeAssumption`):

- `NoReaderStuck` (`NoStuckSource`), with `SourcesKnown` (a queue knows exactly the open
  sources of its stream, and only open ones are read) and `ReadingAwaits` (a reader that
  waits is marked as awaiting or has a task scheduled), without which the trigger's
  handler would pass over a reader.
- `SessionsHaveSources` (`SessionsMatchSources`): `SessionsCounted` adds that a client
  has one source per stream, so that the sources are as many as the sessions and one
  SETUP or TEARDOWN changes both by one.
- `NalsLeaveInOrder` (`PoppedInOrder`): `QueuesOrdered` says that what is queued is in
  order, newer than what was popped, and older than a frame the worker is to push.
- `BridgeTypes`: queued access units are never empty, so `pop_nal_unit()` has a front.

**`RtspServerLifeProofs`**, for any streams, workers and restarts (`LifeAssumption`):
`LoopAndServerTogether` (`LoopServes`), `StopLeavesNothing` (`StoppedIsClean`) and
`SafeUntilExit` (`RacesOnlyAtExit`). The invariant says for each point of the main thread whether
`running_` is set (`WhenRunning`), which objects of live555 exist (`WhatExists`) and
whether the loop does (`LoopLife`); `WorkersConfined` adds that workers are in
`on_frame()` only between registration and removal, or once the exit has begun. That
`NoFreedScheduler` fails beyond that point is what `server_exit` shows.

**`StreamFetcherProofs`**, for any set of fetchers and any buffer size
(`FetcherAssumption`): `TypeCorrect`, `StreamsGivenBack` (`StreamsBalanced`),
`NoThreadBehindStop` (`RunningMeansFetching`), `DistributorsOutliveThreads`
(`NoPushToDestroyed`) and `OnlyFailedOpenAborts` (`AbortsOnlyAfterFailedOpen`). One
inductive invariant, `IInv`, serves all five. What it adds: a thread that was told of a
frame finds it (`FramePolled`, without which the channel loses its type); a fetcher that
is being joined was told to stop, has a thread and is still in the manager's list
(`Joining`); in the destructor a fetcher out of the list has no thread (`Gone`); and the
distributors go only when that list is empty (`DistributorsLast`). The last three turn
the order of the members in `stream_consumer_manager.h` into the promise that nobody
pushes into a destroyed distributor.

**`RecorderProofs`**, for any threads, clock readings and queue size
(`ClockAssumption`, `RecorderAssumption`):

- `TimestampsIncrease` (`StampsIncrease`, of the clock alone) and
  `RecorderStampsIncrease` (with the recorder), from `LastIsLatest`: `last_timestamp` is
  the latest of all.
- `RecorderWritesInOrder` (`WrittenInOrder`): file, entry in hand and queue, read one
  after the other, increase (`InOrder`), and all are earlier than the frame the channel
  has in hand (`Earlier`), so appending keeps the order and dropping from the middle does
  not disturb it. `ReadyHasEntry` is what gives the writer an entry to take.
- `EntriesAreAccountedFor` (`EntriesAccountedFor`): the sum needs that entries are
  distinct (`EntriesDistinct`), which the timestamps give.

**`NalParserProofs`**, for frames of any packs, bytes and length (`FramesAssumption`):

- `ScanCutsInOrder`: start codes in order, without overlap, so `end - start` never wraps
  around.
- `NalsFreeOfStartCodes` (`NoStartCodeInNal`). The invariant adds `MarksCut`: every
  `00 00 01` that begins in what was scanned has its cut. It needs the fact about
  `start_code_len()` (`StartCodeLenIs`) that a start code contains no other mark than the
  one it ends in, although a long one is found at a position where a short one is not.
- `FramesAreIngested` (`FrameIngested`): access unit and cache are what the definition
  says. At the end of a scan the cuts are the marks of the pack in ascending order
  (`ScanCutsInOrder` and `MarksCut` together), so the NAL units of the scan and of the
  definition are the same list; unit and cache then agree after each pack, and so at the
  end of the frame.
- `NoEmptyNals`: `classify_nal()` has a header byte to read in each NAL unit.

`FlattenSeq` is recursive, and a theorem with an operator as parameter, which induction
needs, cannot be instantiated. `Least`, that a set of natural numbers has a least
element, takes its place: what holds of every length is proved at the least length for
which it would fail.

**`LoggerProofs`**, for any threads, categories and versions (`LoggerAssumption`):
`ZlogOutlivesItsThread` (`NoUseAfterFini`) from `Order`, which says for each point of the
main thread what exists, and `LookupsAreServed` (`LookupsFindCategory`) from
`TableComplete` (outside a reload the table has all that zlog gave; within one, the names
treated so far) and `SearchServed` (nobody searches before `init()` or after `fini()`).

**`ApplicationProofs`**. `Application` and `VideoPipeline` have no parameters, and TLC
explores all their states; what the proofs add is the reason.

- `FilesOutliveCallbacks` (`NoWriteToClosedFile`), `LoggerIsLast`
  (`LoggerOutlivesThreads`) and `TerminatesOnlyOverThread` (`AbortsOnlyOverThread`) from
  `MainInv`: for each point of `main()` which static objects exist (`Objects`), that no
  thread runs without the object it belongs to (`ThreadsOwned`, with `FetchersGone` and
  `DistributorsGone` for the two loops in the destruction of the manager), that a running
  callback is registered or about to be joined (`CallsRegistered`), that such a writer has
  an open file (`FilesOpen`), and where each way to end was taken (`Endings`).
- `CallsFindTheirNeeds` (`NeedsMet`) and `NothingHalfBuilt` (`PipelineWhole`). `init()` is
  a straight line of calls with clean-ups, and its proof is a proof outline: `Makes(S, c,
  T)` says that the call `c`, begun with `S` up, finds its needs and leaves `T`, and that
  if it fails its clean-up fits `S`; `Cleans(S, u)` says that a clean-up finds its needs
  and leaves what `PipelineWhole` allows (`Settled`), also when the SDK refuses one of
  its calls; `Outline` chains calls. There is one lemma for
  each function of `hi_video_pipeline.cpp`, with what must be up before it as its
  hypothesis; `OutlineThen` puts them together into `InitOutline`, from nothing to
  everything but the MIPI device. `PipelineInv`, that the calls still to be made are an
  outline or a clean-up from what is up, is then inductive. The lemma for
  `bind_vi_vpss()` is the one to read: `vpss_stop()` disables two of the three channels,
  and leaves no binding loose only because VPSS is bound to nothing at that point. Were
  the encoders bound first, its hypothesis would be false.

So each invariant and each action property that a passing run checks, and the refinement,
is a theorem. Only model-checked is liveness (`QueuesDrain`, `RemovalReturnsUnlessParking`,
`ReaderServed`, `StopReturns`, `EncoderServed`, `QueueWritten`,
`DestructorReturnsUnlessParking`, `UpdateApplied`, `JoinsEnd`), which TLAPS does not
reach.

## 5. Not modelled

- The tables of VENC parameters (`hi_venc_param.cpp`): functions without state that fill
  the vendor's structures with constants, or with fields of their argument. What the
  encoder makes of them is the vendor's matter.
- Attributes of the pipeline (resolutions, buffers, pixel formats), for the same reason.
- live555, zlog, the vendor's SDK and its sensor driver: third-party, most of them
  headers only (some 85 000 of the repository's 90 000 lines). They appear as the
  external definitions of `PROJECT.json`, as the code uses them.
- Interface headers, which declare and do nothing; `yuv_frame_test()`, which is not
  called; `push_nal_unit()` and `clear()` of the queue, which nothing calls.
- The text of log messages and SDP.

## 6. Plan

The modules of the plan are there: each component with state of its own has a module, a
run and proofs. What would add to it, in order:

1. A composition of `StreamDistributor` and `RtspBridge` through `FrameFeed`: the worker
   of the bridge as a consumer of the feed, instead of a thread that takes a frame when
   it likes.
2. `reuse_first_source` with more than one client, where sessions share a source.
3. Proofs of the leads-to properties, by lattices of enabled steps, should the prover
   come to support them.
