# A verification project for the Dead Trigger port

The repository runs the Android build of a Unity game on Linux handhelds: a C
process loads the game's ARM libraries, gives them bionic, JNI, EGL and OpenSL ES
on top of glibc and SDL, and an installer and a launcher script surround it. This
directory holds TLA+ modules of the parts where order, failure and concurrency
decide whether that works, the TLC configurations that check them and proofs for
TLAPS. `PROJECT.json` maps every definition to the lines it stands for and lists
the hazards, runs, mutants, findings and theorems.

## 1. Inventory

Paths are relative to the repository.

| component | state | operations | who it works with |
|---|---|---|---|
| PlayerPrefs store, `src/prefs_dt.c` | typed map, generation, dirty flag; primary, backup and temporary file | load, get, set, remove, clear, flush | the JNI layer's SharedPreferences and editor objects call it; the only state that outlives the process |
| Installation transaction, `nxextract/nxextract.py` | game directory, backup, stage, journal, marker | start, recover, roll back, adopt, prepare, commit per path, publish, clean up | run in the foreground by the launcher before every start |
| NXExtract engine, same file | inputs found, plan, stage, progress screen | discover, plan, extract, validate, hooks | hands a staged payload to the transaction |
| OpenSL ES audio queue, `src/opensles_dt.c` | per player: ring of 64 buffers, offsets, conversion stream, device, callback | Enqueue, Clear, SetPlayState, RegisterCallback, create, destroy; SDL's audio callback | the engine's thread against SDL's audio thread |
| Gamepad edge latch, `src/gamepad_dt.c` | three atomic words shared by two threads; per-frame latches | publish (UI thread); frame begin, ButtonDown, ButtonUp (Unity's thread) | fed by the UI loop, read by replaced game methods |
| Pace governor, `src/gamepad_dt.c` | sampled ratio, hits, engaged, the value it wrote last | speed_probe_tick, the replaced get_timeScale | the engine's single timeScale, which the game also writes |
| IL2CPP method patches, `src/gamepad_dt.c` | which methods are replaced; busy guard | try_install, hooked methods | the loader's symbols, the game's classes |
| UI input loop, `src/main.c` | button levels and pending events, menu or play, touch stage and its clock | one turn: poll, context, click, Back, dispatch | Unity's native input entry points, once Unity is ready |
| Process lifecycle, `src/main.c`, `src/media_dt.c` | UI thread, UnityMain, quit flag, intro helpers | boot, loop, drain with a 2.5 s limit, exit; intro | signals of the launcher; nativePause of Unity |
| Launcher, `Dead Trigger.sh` | lock, traps, child's pid and start time, signal counts | lock, extract, fork, wait, TERM, deadline, KILL, wait again, finish | the frontend's signals, the installer, the process |
| Module loader, `src/loader.c` | up to 8 modules, the current one | load (constructors may load more), symbol lookup, dlopen, dlsym | every component that looks a symbol up |
| Framework bridge, `src/framework_bridge.c` | registry of evidence, generations, READY | preflight, graphics, input and audio evidence, evaluation | UI, Unity and audio threads |
| Video, `src/egl_sdl.c` | driver in use, window, contexts, who has one current | init with fallbacks, make current, swap, frame cap | engine threads |
| JNI layer, `src/falsojni_dt.c` | editor object, tables | put, commit, apply, URI codec | the store |
| Libc and semaphore shims, `src/shims.c`, `src/sem_shim_dt.c` | nearly none | path mapping, cursor, timed waits | all guest code |
| Controller ordinals, `src/pad_ordinal_fix.h` | none | order of joystick nodes | SDL |

Shell wrappers, build scripts, tests and release metadata have no state of their
own at run time.

### What is hard here

* **Failure in the middle.** A preference flush is write, fsync, two renames and a
  directory fsync; an installation is two renames and two journal writes per path,
  then a marker. A handheld is switched off at any of them, and any of them may raise.
* **Threads that share words.** The pad's words are exchanged one by one while the
  other thread stores them; the ring of the audio player is changed by the guest from
  *inside* the callback its own consumer makes; Unity reads touches while the loop
  changes its mind about menu or play.
* **Two writers of one value.** The engine has one timeScale, written by the game,
  by its pause code and by the governor.
* **State that is one and should be many.** The ELF engine has one set of globals for
  all modules, SDL one window and one share root for all contexts, and no lock
  guards the first. Constructors load modules inside loads.
* **Evidence from three threads.** READY is said when main, Unity's and the audio thread
  have all delivered, in an order nobody chooses; each receipt may be refused.
* **Processes.** Traps run between any two commands of the launcher; `wait` returns
  early; pids are reused; two launches overlap; the process may not answer TERM.

### What makes each part correct

* Store: what loads is a map once published whole; a clean store is a saved store; the
  backup is the generation before the primary; a failed flush does not forget.
* Installation: seen through the recovery that the next start performs, all paths are
  replaced or none; a run that answers "ready" leaves a sealed valid payload; no
  rollback gets into a state it refuses; an interrupted transaction is resolved.
* Audio: a queue in order, each buffer answered once; nothing lost or repeated across
  the format conversion; nothing heard after Clear.
* Latch: no press lost, none doubled without overlap, firing stops.
* Governor: each frame runs at the pace the game meant, and the game cannot tell.
* Busy guard: of the two deadlines of a reload the shorter rules, and no shot is lost.
* Loader: a call that no other thread's call overlaps works on its own module's state,
  after whatever went wrong before.
* Bridge: READY is said as soon as it is true, never earlier, and once.
* Video: contexts share; what EGL says is current is what SDL draws to; nothing is drawn
  before a receipt; flips keep their distance.
* Patches: a bridge that says it is installed has its whole core, folded bodies or not,
  and the installation ends. A refused one may have replaced part of it: with
  `ButtonUp`'s page shut, `ButtonDown` keeps its hook (`gamepad_dt.c:1393-1402`).
* Film: the hook returns with StopVideo called and no helper left.
* UI loop: what Unity believes to be down is tracked, held long enough and lifted.
* Session: one game at most, none left behind, the frontend gets one `pm_finish`, with one
  exception (section 4), and the true status, only the own child is signalled, every launch ends.

## 2. Modules

| module | models | state and actions against the code |
|---|---|---|
| `DurableMap` | promise of the store | staged map, latest published map, what a power failure may leave |
| `PrefsStore` | `prefs_dt.c` | `mem` is the static variables under `g_lock`; an edit is one action because it runs under the lock; `flush_locked` is `FlushStart`, `WriteTemp`, `Rotate`, `Publish`, `Sync`, one per durable effect, each with its error path |
| `PrefsStoreProofs` | proofs of it | |
| `AtomicInstall` | promise of the installer | payload, payload before, replace or withdraw as a whole |
| `InstallTransaction` | the transaction of `nxextract.py` | `live`, `backup`, `stage`, `journal`, `marker` are the disk; `pc`, `txn`, `at` the Python process; `Crash` forgets only the latter. `Raise` is an exception, into the rollback inside `commit_stage`'s try block and out of the run elsewhere |
| `InstallTransactionProofs` | proofs of it | |
| `BufferQueue` | promise of an Android buffer queue | |
| `AudioQueue` | `opensles_dt.c` | the audio thread's steps are cut where it gives the player lock back, that is around the guest's callback; the guest's calls are actions, also possible in the callback |
| `AudioQueueProofs` | proofs of it | |
| `GamepadLatch` | the latch of `gamepad_dt.c` | one action per atomic access of either thread |
| `PaceGovernor` | the governor of `gamepad_dt.c` | a tick is one action: between two ticks the game writes and pauses |
| `BusyGuard` | the replaced `SetBusy` of `gamepad_dt.c` | a deadline is the game time left to it; wall time ages the last call |
| `GameTime` | governor and guard | the governor's scale drives the clock that the guard's deadlines are written in |
| `GamepadProofs` | proofs of the latch, the governor and the guard | |
| `FrameworkBridge` | `framework_bridge.c` | one action per function, since each runs under `g_framework_lock`; the registry of nxcompat appears as the kinds of evidence that satisfy it |
| `SdlVideo` | contexts of `egl_sdl.c` | `current` is SDL's binding of each thread and `shadow` EGL's thread-local answer; `eglCreateContext` is two actions with its lock held between |
| `FrameCap` | `frame_cap_pace` | times relative to now; a flip is one action when late, two around the sleep when early |
| `Graphics` | `main`'s boot, the engine's threads, `dt_egl_swap_buffers` | extends the three above: `eglMakeCurrent` publishes and binds in one step, the raw path publishes from its swap |
| `GraphicsProofs` | proofs of these four | |
| `ModuleLoader` | `loader.c` | a load or lookup is an open frame of its thread, opened and closed in separate steps; a constructor's calls lie above the load's frame |
| `MethodPatches` | `dt_gamepad_try_install` | groups of methods in source order; looking up a group is one action, replacing each body another; `queue` is the places of the group whose bodies are still to be replaced, `inside` and `writable` what validation and mprotect say of a body |
| `IntroFilm` | `media_dt.c` | one action per call that can fail or be overtaken: spawn, poll, ask, kill, reap |
| `GuestHooks` | UnityMain's frame | extends the loader, patches and film; lookups go through the loader's frames, another thread makes its own |
| `GuestHooksProofs` | proofs of these four | |
| `UiInput` | `run_ui_loop`, `main.c` | one turn is five actions in the source's order, since Unity's thread changes `playing` and `ready` between them |
| `UiInputProofs` | proofs of it | |
| `GameProcess` | `main`, `run_ui_loop`'s exit, UnityMain, the intro | one record per process of a launch |
| `PortSession` | `Dead Trigger.sh` around `GameProcess` | one action per command, of `nxbootstrap_finish` too; a trap is an action enabled between two commands, and within pm_finish; extends `GameProcess` and passes its steps through `Play` |
| `PortSessionProofs` | proofs of it | |

No other composition is needed: the store, the installation, the audio queue and the
latch meet the rest only through the calls that are their actions.

`MC*.tla` give the constants values. The history variables (`before`, `heard`,
`credit`, `unseen`, `intent`, `mistaken`, `orphans`, `handed`, `strays`, ...) do not influence any step.
Definitions commented "Defect" are not used by the specifications; they are the
plausible bugs that the mutants put in place of a definition, so that every property
is known to be able to fail.

What the models leave out on purpose:

* Store: allocation succeeds; a snapshot's size is its number of records; a file is
  missing, valid or invalid as `load_snapshot` reports it.
* Installation: validation looks at each tree by itself, as the code's does; a seal
  identifies trees, so two extractions of one input are two versions; only one
  installer runs (`WorkspaceLock`); journals older than format 1.2.6 do not occur, and
  recipe and installer stay the same from run to run: recovery's refusal of a journal
  of another recipe digest or version (`nxextract.py:3090`, 3592-3611) is left out.
* Audio: samples are counted, not mixed; the device accepts the format or converts;
  the guest registers its callback while the player is stopped, as OpenSL ES demands.
* Latch: an axis is an independent value and left out.
* Governor: scales are integers with 1000 for 1.0, normal play is 950 to 1050 as in the
  code, and the governor's comparison with its own write (within 0.0005) is equality; a
  sample shows the doubled pace or does not, and a healthy engine
  never shows it.
* Busy guard: one weapon (the code keeps one previous call for all); the two writes of a
  reload fall within the guard's 250 ms.
* Bridge and video: surfaces (SDL has one window), answers to configuration queries, the
  five window formats (one choice), failures of `SDL_GL_MakeCurrent` other than the two
  named in `SdlVideo`; the engine does not destroy a context another thread has current.
* Loader: only the thread of the guest's start loads; the ELF work inside a load, path
  parsing and the names of system libraries. A full table is a load that fails.
* Patches: the record of replaced bodies has room (section 5); the hooks that only log,
  the LOD renderers and the mapping of inputs to buttons.
* Film: `StartVideo` is called once; the extraction is a success or a failure; who gets the
  signals for a number whose process has been collected (`AskGone`).
* UI loop: cursor motion, pad slots and the diagnostic variables; key repeat, and what
  `inject_touch` answers (Unity may say that it did not consume a touch: it is logged).
* Session: the lines before the lock; a foreground installer defers the traps, as bash
  does; testing a pid and signalling it is one step; pid numbers do not come round before
  the child's start time has been read; the launcher is not killed by SIGKILL; `wait`
  for a child already collected returns its remembered status. Signals that come when
  the game has gone and the script is at its end are left out: their trap counts, sets a
  flag nobody reads and finds no child.
* Video: binding and the publication of its evidence in `eglMakeCurrent` are one step.

## 3. Runs

| run | instance | behaviours | what it shows |
|---|---|---|---|
| `prefs_store` | 2 keys, 1 scalar kind and strings, limits of one record, 3 generations, 1 ruined snapshot; keys symmetric | all orders of edits, flushes with a failure at each step, process death, power loss, a medium that ruins a file between two processes | `DurableWhateverRuined`: every step is one `DurableMap` allows, except while the primary is ruined; `CleanMeansSaved`, `BackupIsPrevious` |
| `prefs_commit` | as `prefs_store` | counterexample | finding 1 |
| `install_transaction` | 2 paths, 4 initial directories, 2 transactions, 1 raising operation, 1 outside change | first installations, updates and repairs, with crashes anywhere | refines `AtomicInstall`; `ReadyMeansWhole`, `RollbackNeverStuck`, `CalmRunHeals`; interrupted transactions are resolved |
| `install_partial` | 1 transaction, no fault, 1 change to other valid data | counterexample | finding 2 |
| `audio_queue` | 5 buffers of 1 or 3 units, 4 slots, locator of 3, period of 2, 2 players | guest calls between any two steps of the audio thread and in its callback, with and without conversion | refines `BufferQueue`; nothing lost, `IndexCounts`, `ClearedIsSilent`, callback and context belong together, every buffer ends |
| `gamepad_latch` | the fire button, 3 presses | all interleavings of the atomic accesses | `NoPressLost`, `EdgesAccounted`, `EveryPressIsRead`, `FireStops` |
| `game_time` | 5 scales, one of them half of another and one near it, 2 overrides, all modes; lengths in eighths of a second | any order of writes, pauses, samples, ticks, reloads and shots, on a clock that stands, runs or runs at twice the pace | `PaceIsIntended`, `ShorterRules` |
| `graphics` | 2 threads, 2 contexts, period 2, lateness 1, horizon 3 | both video paths, windows that belong to one thread or to all, every receipt accepted, refused or partial, pads that come and go | `AllShared`, `BindingIsKnown`, `ReadyIsAnnounced`, `FlipsAreSpaced`, `RawReadyComes` |
| `guest_hooks` | 2 modules, 2 threads, 2 nested frames, 2 foreign lookups, 4 groups of methods, 5 builds | loads within constructors, loads that fail, lookups that another thread disturbs, folded, read-only and foreign bodies, a film that ends, is skipped or cannot start, helpers that ignore TERM | `OwnState`, `InstalledIsWhole`, `NoHelperSurvives`, `InstallEnds`, `IntroEnds` |
| `ui_input` | one clicking button and Back, nine moves as in the code | any pad input, Unity ready or playing at any moment of a turn | `LiveTouchIsTracked`, `BackFollowsPad`, `ClickIsWhole`, `EveryTouchEnds` |
| `port_session` | two launches, two signals to the first, 2 ticks | overlapping or successive launches, signals before, in and after each command up to the game's end, a game that ends, crashes, hangs or ignores TERM | `GamesAreOwned`, `FinishedOnce`, `StatusIsTheGames`, `SignalsOwnChild`, `KillIsLast`, `LaunchesEnd` |
| `port_pause` | as `port_session` | counterexample | finding 3 |

Type invariants, `FailureKeepsDirty`, `RefinesDurableMap`, `GameSeesIntent`,
`ReadyIsEarned` and `DrawsAfterReceipt` are proved for all constants (section 5) and
are not part of the runs.

### Why the bounds are enough

* *Store.* One record as a limit makes the limits bite with two keys. A third
  generation is what is needed for a backup to be overwritten by a primary that itself
  replaced one. Scalar kinds differ only by name, so one of them and strings show a
  change of type. One ruined snapshot at a time is what the backup is for. The
  limits are constants of the model and the proofs are for any value.
* *Installation.* A journal has an entry per path; two paths have a first, a last and one
  that is done while the other is not. A second transaction finds what the first left.
  Crashes are not bounded. One raising operation per behaviour; a second one inside the
  rollback it causes is a crash as far as the disk is concerned.
* *Audio.* Five buffers in four slots wrap the ring; the locator's count does
  not divide the ring's, so that the two moduli in the index can be told apart; a buffer is shorter and
  longer than a period. Two players: destroy and create again.
* *Latch.* The bits of a word do not influence each other, and Fire is answered in every
  way another button is and in one more. A third press can meet the traces of two.
* *Game time.* Scales enter only through comparison and halving: 500 is what the
  governor writes for 1000, 980 is normal play without being 1000, 300 a slow motion and
  1200 above normal. The guard's
  lengths are the code's: 250 ms, 0.5 s and, measured according to its comment, reloads
  of 1.65 and 3.24 s, each rounded to an eighth.
* *Graphics.* The root can be taken from at most one other thread; with two contexts one
  is made while the other is drawn to. One period of lateness, one tick of it and a frame
  later than both are the cases the deadline's arithmetic tells apart.
* *Guest hooks.* Depth two is a load in a constructor, and one that fails there. One
  foreign lookup disturbs one attempt; the second can disturb the retry. The builds
  are: nothing folded; the core folded; later groups folded onto each other and onto
  the core, with half of a pair shut; a shut page in the core; a pointer that leads out
  of the library.
* *UI loop.* R3 and A are or-ed with the same code, so one clicker stands for both.
* *Session.* The lock is the only thing launches share, so two show every overlap; the
  launches are alike, so the signals may all go to one. Two signals are needed for the
  second one to arrive while the first is handled. A tick only counts down.

### Fairness

* Installation: `WF(Installer)`, `WF(Start)`: a Python process runs on, and the launcher
  runs it at each start. `InterruptedIsResolved` further assumes in its own text that
  crashes stop at some time.
* Audio: `WF(AudioThread)`: SDL calls `audio_callback` again and the guest's callback
  returns. `SF(PutStream)`: `SDL_AudioStreamPut` does not fail for ever.
* Latch: `WF` of frames and of the two stores that follow the first in `publish` (it has
  no blocking call); `SF` of the game's questions: it asks for its inputs again and again,
  though perhaps not in each frame.
* UI loop: `WF(UiStep)`, `SF(Tick)`: the thread runs and its clock advances; a poll may
  come before 40 ms have passed, but not for ever.
* Graphics: `WF(RawSwap(driver))`: the engine presents frames and its drawable has a size
  again and again; `WF(PlayerCreated(TRUE))`: it opens its audio player and the registry
  takes that. `RawReadyComes` is about no other path.
* Guest hooks: `WF(FrameStep)`, `WF(IntroRuns)`: UnityMain runs on, also in its hooks; `WF`
  of a lookup another thread has begun; `WF` of the film's own end; `WF` of the exit of
  a process that was sent KILL. A helper owes nothing before that.
* Session: `WF(ScriptStep)`: bash goes on and the installer ends. `WF(UiStep)`: the UI
  thread runs, unless it is stuck in a native call, which the model allows at any time.
  UnityMain owes nothing.

`CHECK_DEADLOCK FALSE` stands in the audio run, where the guest may have created and
enqueued all it ever will; in the session runs, where all launches may be over; in the
graphics run, where the boot may have failed; and in the run of the guest's hooks, where
everything may be installed and the film over.

## 4. Findings

1. `prefs_dt.c:568`: a new int, float, bool or long entry whose value is zero is equal to
   the zeroed entry it is compared with, so the map stays clean, `commit()` answers true
   and the key is gone after a restart. `prefs_dt.h:27` promises durable publication.
2. `nxextract.py:3328`: when a cleanup deleted only part of the backup, the journal stays;
   a later change of the installed data, valid or not, breaks the seal and recovery puts
   the partial backup in its place. `README.md:116` excludes that.
3. `main.c:845`: the process leaves after 2.5 s of drain whether or not nativePause
   returned; the comment at 1001 and `README.md:55` say that it has.

Two more disagreements met while modelling. Each is stated exactly, as the exception a
property of a passing run makes, so that the property fails should it be any wider:

* `Dead Trigger.sh:10-12`: nxbootstrap_finish sets its flag before it calls pm_finish. When
  a check before the game has failed, the first INT, TERM or HUP that comes during
  pm_finish runs nxbootstrap_abort_before_game, whose own finish finds the flag set; it
  exits with pm_finish cut short. The comment at 29 says that such a signal "must still
  hand the screen back to the frontend". `FinishedOnce` allows that launch (`cut`) and no other.
* `gamepad_dt.c:433`: a slow motion at exactly the scale the governor wrote last (0.5,
  after it engaged at 1.0) is taken for its own write and runs at twice its pace until the
  game sets another scale. The comment at 282 says that "EVERY timeScale the game sets"
  is compensated. `PaceIsIntended` and `GameSeesIntent` except it (`mistaken`).

Known limits of the code that contradict no line of it, and hazards that no property
covers:

* `egl_sdl.c:501`: where the window belongs to one thread at a time the share root is
  refused while another thread draws; nobody looks, and the new context shares nothing.
  `AllShared` says which contexts are alone: those (`orphans`), and no others.
* `egl_sdl.c:507`: creating a context while one is current leaves EGL's answer stale
  until the next call. `BindingIsKnown` excepts the thread that did.
* `framework_bridge.c`, `dt_framework_observe_input`: a pad plugged in after all other
  evidence is observed without an evaluation, and READY stays unsaid.
* `loader.c:270`: lookups of two threads disturb each other. `OwnState` is about the
  calls no other overlaps, `InstallEnds` shows that the retries get over it; an optional
  patch whose only lookup was disturbed is lost (`missed`).
* `media_dt.c:317`, 336: the helpers have process groups of their own, so a TERM
  during the film leaves them running; the film's player, which the loop or the skip has
  already collected, is terminated once more: TERM, 200 ms and KILL go to its number,
  after the natural end too.
* `gamepad_dt.c:1393-1402`: a core method that cannot be replaced ends the installation
  and leaves those before it replaced.
* `opensles_dt.c:537`: the index is that of the ring modulo the guest's buffer count, which
  counts the finished buffers only if that count divides 64: `IndexCounts` has both moduli.
* `opensles_dt.c:521`, 536: Clear waits for the device while a callback runs; GetState
  reads two words without the lock.
* `nxextract.py:3240`, 3496, 3823: journals of the old format; an fsync after
  publication that fails a published installation. A stage that fails the validation of
  the whole is discarded (3825-3841), so that the next run extracts anew.

## 5. Proofs

Type correctness is a theorem of each module below, so the runs do not repeat it, and
every safety property of a passing run, refinements included, is one as well. The
assumptions are those named in the modules (`PrefsAssumption`, `AudioAssumption`, ...);
each is satisfied by the constants of a run, on which TLC evaluates it.

`PrefsStoreProofs`, for any keys, values, limits and bounds, and on a medium that ruins
any number of files between two processes: `TypeCorrect`, `CleanIsSaved`,
`BackupCorrect`, `FailureIsRemembered` and `DurableAnyway`. The safety properties are not
inductive as they stand. The invariant `IInv`, at the end of `PrefsStore`, adds two
facts: where a flush stands determines what the temporary file and the primary are
(`FlushInv`), and the generation in memory is the one on disk as long as anything valid is
there (`GenerationOnDisk`), so that the next snapshot is newer than both files. The proof
goes operation by operation; edits share one lemma. Every step then maps to a step of
`DurableMap` or to a stutter: an edit to `Put` or `Clear`, the second rename to `Publish`,
the directory fsync to `Harden`. The exceptions are those `DurableWhateverRuined` names:
the medium's own step, and the steps taken while the primary is ruined, among them the
rotation of such a primary over the backup. Where nothing is ruined (`NothingRuined`)
there is neither, and `Refinement` says without exception that the store implements the
map.

`InstallTransactionProofs`, for any number of paths, initial directories, transactions,
failures and outside changes: `TypeCorrect`, `ReadyIsWhole`, `NeverStuck`, `CalmHeals` and
`Refinement`. For `ReadyIsWhole` the added fact is `Sealing`: from the validation that
precedes a marker until the run answers, what is live is the valid payload that is about
to be, or has been, sealed. A crash or an exception leaves that stretch, and so does a
change made from outside, after which the answer is history. The others need to know
where the trees are (`TInv`). An open transaction nobody meddled with has, at each path, one
of three arrangements of live tree, backup and stage (`Placed`): untouched, set aside,
replaced; it leaves them only when the marker seals what is live (`Recoverable`). On the
way forward the journal's phase says which of them it is (`Phased`, `Progress`); a
rollback goes through the paths from the last to the first and needs none of the phases,
since the places and `had` tell it enough, and has the initial tree behind it
(`Behind`). Identifiers grow (`Numbered`) and no backup is equal to what a marker of the
same transaction seals (`Distinct`), so that recovery cannot take one for the other.
A transaction still on the disk when its successor is prepared is a published one whose
cleanup failed (`Published`), which a calm run excludes. For the refinement
`AtomicInstall` is seen through the recovery of the next start: writing the marker maps
to `Replace`, the first rename of a rollback after that to `Withdraw`, the first journal
to `Begin`, an outside change to `Meddle`, and everything else stutters.

`AudioQueueProofs`, for any ring, buffers, period, players and handlers: `TypeCorrect`,
`IndexIsRight`, `CallbackIsWhole`, `NothingIsLost`, `ClearedStaysSilent` and `Refinement`.
Buffers are numbered as they are enqueued, and the invariant `AInv` cuts the numbers in
two: what has left the ring and what is in it, where slot `head + i - 1` holds the i-th of
the rest (`Ordered`). Only the head is consumed in part (`Started`), what was cleared is a
prefix of what has left (`Dropped`), what is in conversion has left and was not cleared
(`Streamed`). `Balance` accounts for the units: those of a buffer heard or in conversion
are those that have left the ring with it, so a step from ring to stream or from
stream to speaker keeps the sum; it needs lemmas on how many places of a sequence hold a
value when the sequence is extended or loses its front. `Quiet` says that `audio_callback`
runs on a running device only and that a registration is complete before the device runs,
which is why two stores are enough for `CallbackMatchesContext`. `IndexIsRight` is about
every buffer count of the guest's locator and rests on `HeadCounts`: the head is the number
of finished buffers modulo the slots. As steps of `BufferQueue` the end of a buffer is
`Finish` and the return of its callback is `Notify`; closing the player is `Clear`.

`GamepadProofs` holds the proofs of the two independent parts of `gamepad_dt.c`. For the
latch, with any buttons and any number of presses: `LatchTypeCorrect`, `PressKept` and
`EdgesPaidFor`. `NoPressLost` needs that what a frame has latched is still unread
(`LatchedIsUnread`). `EdgesAccounted` says nothing of edges not yet delivered; the
invariant `CreditCovers` counts how many down edges the three words and the two threads'
places may still cause without a further press (`Demand`), and keeps that below the credit.
For the governor, with any scales, overrides and modes: `PaceKept` and `IntentSeen`. The
invariant says that the scale in force, or the one the pause code keeps while the game is
paused, is what the game meant (`Meant`), compensated if the governor is to recognise it,
and that what it takes for its own write is the game's exactly when it is `mistaken`
(`Told`).
`ShorterAlwaysRules` and `TogetherPaceKept` are about `GameTime`, the second because the
guard leaves the governor's variables alone. For the first the invariant adds what a reload
still owes (`Owed`): while the second write is due, the first has left a deadline beyond
the threshold, for its time within the window times the fastest clock is less than the
reload's surplus.

`GraphicsProofs`, for any threads, contexts, period, lateness and horizon: `TypeCorrect`,
`Shared`, `BindingKnown`, `DrawingFollowsReceipt`, `Announced`, `Earned` and `Spaced`.
Each part has its own strengthening. `VideoInv`: the root is current only on the thread
that holds the context lock, which got it unless it was `denied` (`RootIsHeld`), and an
exclusive window belongs to one thread (`OneDraws`).
`BridgeInv`: evidence is there only after the call that delivers it, so that complete
receipts leave nothing READY still waits for. `CapInv`: deadline
and time since the last flip add up to a period, give or take the lateness. Every step of
the whole is a step of each part or leaves it alone (`Components`).

`GuestHooksProofs`, for any modules, threads, depth, groups of methods and builds:
`LoaderTypeCorrect` and `CallsKeepTheirState` of the loader alone, `TypeCorrect`,
`FramesKeepTheirState`, `BridgeIsWhole` and `HelpersAreGone` of UnityMain's frame. A call
that is not overlapped is the only one open, so the loader's invariant describes one stack:
each frame restores the module of the frame below, every saved copy is its module's own
unless an overlap spoilt it, and the engine has the state of the innermost frame. The
frame's lookups are steps of the loader (`LoaderIsFollowed`), so what is proved of the
loader holds of the whole. For the patches the invariant follows the installation through
the groups (`Tried`): a core method that was tried runs its own hook (`CoreRuns`), any other
is settled for good (`OthersSettled`), because a body that was recorded is never written
again, as one outside the library never is (`Kept`), and a method not tried yet cannot
have been written (`NotBefore`). This rests on the record having room: `PatchAssumption`
lists each method once and not more of them than there are slots, as in the code (`g_patched_bodies` has 16, 13 methods are
replaced), and a lemma on cardinalities shows that a method still to be replaced always
finds a free one. For the film, the helpers that were spawned are a prefix of their order, and
every one not yet collected is still among those that the end of the film goes through,
where the ones already collected are passed over (`AskGoneKeeps`).

`UiInputProofs`, for any buttons and any number of moves: `TypeCorrect`, `TouchTracked`,
`WholeClicks` and `BackFollows`. For the touches the strengthening is
`TouchedWhenReady`: the loop counts its stages
whether Unity is ready or not, so `LiveTouchIsTracked` alone could be broken by a
dispatch that is not delivered; that readiness never goes away is what excludes it. For
Back it is `BackInv`: a tap within one poll has its release pending, play that the loop
has noticed strays a key that is down, and any other key that is down was down for the pad
when the loop last looked.

`PortSessionProofs`, for any number of launches and of signals and any deadline:
`TypeCorrect`, `OwnedGames`, `Finished`, `TrueStatus`, `OwnChild` and `KillLast`, that is
every safety property of the run. Process and launcher are handled apart: a first group
of lemmas shows that whatever a process does it grows older (`Ages`: it does not come
back, its status stays, it is not killed by itself). The invariant then says for one launch
that it holds the lock from its first check to its exit (`Locked`), that its game lives
only while it is watched and that a status which is not the game's has a signal to blame
and a wait left to take up (`Owned`), and that a launch which waits has sent the TERM it
was asked for if it can tell its child (`Asked`). `FinishedSoFar` follows the flags of
nxbootstrap_finish through an abort: from pm_finish on the flag is set, and pm_finish has
come to its end once unless it is under way or was cut short. A step of one launch leaves the others'
part alone (`SameGood`); the lock relates them (`OneHolder`).

Model-checked only, because they are out of the prover's reach:

* the liveness properties `InterruptedIsResolved`, `EveryBufferFinishes`,
  `EveryPressIsRead`, `FireStops`, `RawReadyComes`, `IntroEnds`, `InstallEnds`,
  `EveryTouchEnds` and `LaunchesEnd`, whose fairness speaks of ENABLED.

Nothing else that the passing runs check is left to them. What the proofs say is bounded
by the constants only where the model itself stops counting (presses, buffers, moves,
transactions, signals), and those bounds are arbitrary.

No module uses a RECURSIVE operator, so each of them can be proved about.

## 6. Plan

Order, most important first; what exists is marked.

1. Store: `DurableMap` <- `PrefsStore`, checked and proved. *Done.*
2. Installation: `AtomicInstall` <- `InstallTransaction`. *Checked, safety and refinement
   proved.* To add: legacy journals (`nxextract.py:3240`) and `WorkspaceLock`, with two
   installers.
3. Audio: `BufferQueue` <- `AudioQueue`. *Checked, safety and refinement proved.*
4. Latch and governor. *Checked, safety proved.*
5. UI loop. *Checked, safety proved.*
6. Session: `GameProcess` inside `PortSession`. *Checked, safety proved.*
7. Start-up: `FrameworkBridge`, `SdlVideo` and `FrameCap` in `Graphics`. *Checked, safety
   proved.* To add: surfaces, if a driver ever gives more than one window.
8. Hooks: `ModuleLoader`, `MethodPatches` and `IntroFilm` in `GuestHooks`. *Checked, safety
   proved.*
9. Game time: `BusyGuard` beside the governor in `GameTime`. *Checked and proved.*
10. JNI: the editor object above the store (`put`, `commit`, `apply`), and the URI codec.
11. Algorithms over bounded inputs: `normalize_timespec`, `dt_map_path`, the order of
    joystick nodes, NXExtract's plan; each against a reference definition.

## 7. Not modelled

ELF relocation, GL, SDL and the registry behind the framework bridge are not part of
`src/` and appear through the calls made to them. Drawing, the progress screen, logging,
the tables that name Android methods and game inputs, the build scripts and the tests
have no behaviour to check. The libc shims forward one call to one call and keep no
state, except for the replaced swap, which `Graphics` has. Parts that are only postponed
are in section 6, and `PROJECT.json` gives the reason for each component.
