# BG2V in TLA+

BG2V runs the Android build of *Baldur's Gate II* (`libBaldursGate.so`) on the
PS Vita.  The program of this repository is the layer around the game's
library: a loader, replacements for the libc, pthread, EGL and JNI functions
the library imports, and a main loop that plays the part of Android's UI
thread.  This directory holds the models of that layer, the TLC runs that check
them on small instances, and theorems that TLAPS proves for every instance.

## 1. The system

### Threads

| thread | runs | source |
|---|---|---|
| main thread | start-up, then one loop every 16 ms: keyboard sessions or the polling of the controls | `source/main.c` 231-354 |
| engine thread `bg2v_sdl_main` | `SDLActivity_nativeInit`, which is the game; it calls back into our JNI methods, Lua hooks and replaced libc functions | `source/main.c` 218-229 |
| the engine's workers | created through the pthread bridge; movies, audio, resource loading | `source/reimpl/pthr.c` |

There is no lock between the first two: they share plain `volatile` words
(`text_input_requested`, `text_input_busy`, `pending_chargen_name_ready`,
`bootstrap_state`, `bg2v_selection_enabled`), one character buffer
(`pending_chargen_name`) and SDL's event queue.

### Components

| component | state | operations | what makes it correct | model |
|---|---|---|---|---|
| keyboard sessions (`main.c`, `java.c`, `patch.c`, `utils/dialog.c`) | the two flags, the loop's `ime_*` locals, the name buffer and its flag, Sony's dialogs | request, open, read, refocus, queue, inject, finish, fatal error | one session at a time; every session ends; a confirmed name reaches the game once and whole | `TextInput`, `TextEntry`, `Texts` |
| touch (`controls.c`, `main.c`, selection hook in `patch.c`) | last reading of the panel, the gesture flags, the selection flag | `poll_touch`, `controls_handler_touch` | DOWN, MOVE and UP alternate per contact; a tap is a short press; pans follow the finger | `Touch` |
| pad and pointer (`controls.c`, `main.c`) | last buttons, two stick readings, pointer, button mask | `poll_pad`, `poll_stick`, the handlers | nothing is stuck, also over sessions in which the pad is not polled | `Pad` |
| mutex bridge (`pthr.c`) | the game's word, the heap | init, lock, trylock, unlock, destroy | mutual exclusion, no leak, no use of a mutex before it exists | `PthreadMutex`, `IdealMutex` |
| rest of the pthread bridge (`pthr.c`) | the same lazily created words, once words, kernel semaphores, attribute pairs | cond, once, sem, attr, create | no lost wake-up, once means once, units are conserved, a thread is as detached as it was asked to be | `CondVar`, `Once`, `Semaphore`, `ThreadAttr` |
| start-up (`main.c`, `utils/init.c`, `utils/settings.c`) | `bootstrap_state`, the milestone counter, the graphics flag, the setting | load, relocate, patch, `gl_init`, `JNI_OnLoad`, start thread, announce surface | order; vitaGL once; failure ends in `fatal_error` | `Startup` |
| hooks (`patch.c`) | the engine's Lua stack and globals, the helper page | overlap check, installation, the hooks, `luaD_throw`'s included | the engine's Lua is as it would be without them | `EnginePatch`, and the name and selection hooks in `TextInput` and `Touch` |
| imports (`dynlib.c`) | - | lookups | an object goes to the library that made it | `Bindings` |
| logging (`utils/logger.c`) | shared buffer, file descriptor, lazily created lock | print | lines are not mixed; the lock is created once | `LogFile` |
| files and directories (`reimpl/io.c`, `utils/utils.c`) | a global comparator | open, scandir, fnmatch, copy, load, save | conversions; every way out frees and closes what it took | `Matching`, `ScanDir`, `FileUtils` |
| mmap (`reimpl/mem.c`) | offset of a shared descriptor | mmap, munmap | the mapped bytes are the file's; the offset is put back | `SharedFile` |
| assets (`reimpl/asset_manager.cpp`) | FILE, size, bytes read | open, read, seek, lengths, descriptor, close | remaining length; one FILE | `AssetFile` |
| errno, clocks, atomics (`reimpl/errno.c`, `sys.c`) | one table for all threads, the clocks, the engine's words | translation, `clock_gettime`, `sysconf`, swap | a thread reads its own error; time does not go back; a swap exchanges | `ErrnoTable`, `SystemCalls`, `AtomicWord` |
| calendar (`reimpl/time64.c`) | tables | `timegm64`, `mktime64`, `gmtime64_r`, `localtime64_r`, `asctime64_r` | the Gregorian calendar, both ways | `Calendar` |
| graphics glue (`utils/glutil.c`) | skip flag, shader files, pointer words, texture pool, swap count | shader source and compile, ETC2, pointer, swap | a binary is its shader's; the engine finds the GL state it left | `Shaders`, `Frames`, `Raster` |
| EGL (`reimpl/egl.c`) | - | attribute queries | what is answered agrees with what main announces | `EglStubs` |
| tools, `lib/` | - | offline scripts; third-party | - | not modelled |

How they interact: the engine asks for a keyboard (`showTextInput`), the main
loop opens it and stops polling the controls until the session is over, sends a
mouse click of its own into the same SDL queue the pad uses, and leaves the
name where the engine's Lua hook finds it.  All of the engine's locks go
through the mutex bridge.

What is hard to test: two threads that share flags without a lock; fixed frame
counts in the place of acknowledgements; flags shared by all fingers; inputs
that are missed while nobody polls; mutexes created by whoever comes first;
static buffers and tables that all threads of the engine use; calls that fail
half way; files that outlive a kill.  `PROJECT.json` lists the hazards with
their lines and the properties about them; those without one carry the reason.

## 2. Modules

### `TextInput` (keyboard sessions), `Texts`, `TextEntry`

One step reads or writes one shared word, so every interleaving of main thread
and engine is there.  `m` is the main thread's place in its loop, `e` the
engine's place in `showTextInput` or the Lua hook.  `bg2v_take_text_input_request`
is two steps (`TakeRequest`, `MarkBusy`), `showTextInput` is two (`ReadBusy`,
`RaiseRequest`), and both `strncpy` copies of the name are made in two halves
(`Fill`, `CopyName`), so that a copy can be torn.  What happens inside the
game (when it handles a click, whether the click focuses an edit box) and
inside Sony's dialogs is a free choice and marked external in the map.

A text is a word and a length: `Cut(t, k)` is `strncpy` to `k` bytes with a
terminator.  That is enough to tell lost, stale, torn and cut texts apart.
Code points are not modelled, so a UTF-8 character split by a cut is not seen.

`TextEntry` is what the bridge promises: a keyboard, one text held back, a
mailbox of one place, a field.  `TextInput!EntrySpec` says that the bridge
implements it, with `held` the text until `bg2v_queue_chargen_name` is through
and `mailbox` the buffer until the engine has assigned it.

`SlowPlayer` is the one assumption about timing.  With it the keyboard stays
open until the engine has made its next Lua call, i.e. until an earlier name
has been injected.  The engine's menus are Lua and make calls in every frame
while a player takes seconds, so this is the normal case; nothing in the code
enforces it, and the run `text_name_lost` shows what happens without it.

### `PthreadMutex`, `IdealMutex`

One mutex of the game: the word, the heap cells a Vita mutex can live in, and
for each thread its place in `_mutex_t_static_init` and the operation around
it.  The word is read in four places (`Check`, `ChooseKind`, `Create`, `Use`)
and each is a step.  Calls before the mutex exists crash (`pc = "crashed"`).
`Handoff` says that the creator finishes its first operation before other
threads use the mutex, as code that creates a mutex and then a thread does; a
static mutex first locked by two threads is the other case.  `IdealMutex` is
mutual exclusion with nesting; `IdealSpec` is the refinement.

A relock of a normal mutex is left out (a deadlock of the caller's own), and so
are null handles and the `EINVAL` answer of an unlock of a zero word, which a
caller that locked the mutex does not see.

### `Touch`

`Poll` takes one reading and lists the handler calls it causes, in the order of
`poll_touch`; each call is a step (`Down`, `Up`, `MoveOnly`, `DragBegins`,
`Pan`, `Rest`), between which the engine may switch selection on or off.
Distances are integers: pixels, and half pixels for pans, so that the gain 1.5
is a factor of 3 and the cap of 36 is 72.  `sent`, `down`, `panned`, `origin`,
`capped` and `pressed` are history for the properties, and so is `alone`: no
contact has begun so far while another was down or in the reading that lost one.
`LoneTapIsShortPress` and `SelectionIsArmedOnce` are about such behaviours, because
the flags of the gesture are shared by all contacts and `touch_spurious_tap` shows
what becomes of them otherwise.

### `Pad`

`Poll` takes one reading of buttons and left stick and lists the handler calls;
each call is a step with the events it sends.  `session`, `OpenSession`,
`RefocusClick` and `CloseSession` are what `TextInput` does as the pad sees it:
no polling, and a click of the primary button.  A deflected stick is a
direction at full deflection; the dead zone decides only between that and rest.

Of what the engine makes of the events the model keeps three things.  `keys` and
`buttons` are what it believes to be pressed, which only a DOWN or an UP changes:
lines 608-614 of `main.c` tell that an UP that does not name its button leaves
that button down, and a hover came before such an UP too.  `drags` are the
buttons it still drags with.  Lines 569-573 say that a held button must accompany
each move for the engine to keep that state and that a hover is for movement
with no buttons, so a hover ends every drag (`DragsAfter`).
`controls_handler_pointer_button` sends a hover before each press and release,
while the other button is held too: `OnlyButtonsEndDrags` says that only this and
the refocus click can end a drag, and `pad_hover_ends_drag` that this does.
`TouchPointer` is the touch handler's hold on the same pointer; the half pixel
by which the last row of the panel lies beyond the stick's clamp is left out.
The rest of the touch handler is in `Touch`.

### `CondVar`, `Once`, `Semaphore`, `ThreadAttr`, `AtomicWord`, `ErrnoTable`, `LogFile`

What the engine's threads share.

* `CondVar`: threads put and take items behind a mutex and wait while there are
  none.  The word of the condition is tested, filled with an address and only
  then given a condition, each in a step.  The mutex around it is the one of
  `IdealMutex`, which the bridge implements.  Timed waits may time out at any
  moment.
* `Once`: the atomic swap, the routine and the return are steps.  A second
  caller returns while the routine still runs, where POSIX makes it wait:
  `BackAfterCall` says what the code does keep.
* `Semaphore`: the kernel's semaphore with a queue of waiters and a clock of
  coarse ticks.  `sem_timedwait` waits first for 1000 us and then, if its
  deadline has *passed*, for a negative distance in an unsigned number; where
  the deadline is ahead it gives up.  `TickModulus` is the width of that number.
* `ThreadAttr`: magic number, allocated attribute, and the two numberings of
  joinable and detached.
* `AtomicWord`: `__atomic_swap` and `__atomic_cmpxchg` as loops of a read and
  a compare-and-swap; each thread carries a token, so a lost or doubled exchange
  shows.
* `ErrnoTable`: the rows, two steps of reading (`__errno`, then the load) and
  stores through the returned pointer.  The instance has a row of each kind the
  table has, two that share a code included.
* `LogFile`: lock, its creation, line, open, write, in steps; the wording of
  lines is left out.  The other threads start whether or not the lock could be
  created, or was asked for, by then; `early` keeps whether it was there.

### `Calendar`, `Matching`, `Conversions`, `Raster`, `SystemCalls`

Code that only computes, as operators, compared with reference definitions that
share nothing with it.  `Calendar` compares `time64.c` with a day count of the
Gregorian calendar; one conversion is called at a time and `converted` keeps what
it was asked and what it said.  A loop over years or months is the choice of
where it stops, so that `Calendar` has no `RECURSIVE` operator and can be proved
about.
`Conversions` does the same with `call` for `fnmatch`, against the set of
positions a list of pattern elements reaches, for strings, for open flags and
for decoded UTF-16 against what was typed; `Matching` and the strings are
recursive where the code is, so no theorem is stated about them.  `Raster` does
it for pixels: the pointer's clipped rectangles against sets of pixels, the
blocks of a texture against the pixels of the image.  `SystemCalls` has the two
clocks over a system clock that may be set, and puts them together with the
calendar.

A time is a day and a second of it, because TLC's integers have 32 bits; `tm_year`
has no width in the model, so that the `EOVERFLOW` of years beyond 2^31 never
happens.  `CalendarAssumption` says that a zone is at most a day from Greenwich.

What the comparisons leave out, because the code differs there:

* a pattern that escapes `/` or `.` is not taken for an explicit match of it;
* `O_TMPFILE` contains the bit of `O_DIRECTORY`, so that opening a directory
  is taken for a temporary file;
* surrogate pairs, for which the code has a branch of its own that its way back
  does not undo;
* `CLOCK_REALTIME` is ahead of Unix time by the 9506 s that `__epoch` is short of
  the 1969 years it stands for.  `RealtimeFollowsClock` says that two readings are
  as far apart as the system's clock was; that they are Unix time is the claim of
  the run `realtime_is_not_unix`, which fails.

### `SharedFile`, `ScanDir`, `AssetFile`, `FileUtils`

`mmap` saves the descriptor's offset, seeks, reads in a loop, and restores it,
each in a step between which another thread may move the offset; `disturbed`
records for whom that happened.  `scandir` collects entries, doubles its array,
sets the global comparator and sorts, and any allocation may fail, the entry's
own at each entry; `mixed`
records the scans that overlapped with another's sort.  An asset counts the
bytes read apart from the FILE's own position.  `file_copy` is the four helpers
it calls, each with its failures; the process may be killed between any two
steps and the file it leaves behind stays.

### `Startup`, `Shaders`, `Frames`, `EglStubs`, `EnginePatch`, `Bindings`

* `Startup`: the stages of `soloader_init_all` and `main` in order, each with
  the fault that ends it in `fatal_error`; the SDL thread; `gl_init` called by
  both threads, its test and its initialization two steps; the settings file,
  whose parser stops for good at a leading space; the loop's head with the
  milestone counter.
* `Shaders`: the five builds, the skip flag, dumps written in two steps, kills.
  In the CG builds a translation on disk has its size passed to vitaGL beside the
  GLSL text (lines 467 and 514 of `glutil.c`); `Passed` says whether that cuts the
  text or reads past its end.
* `Frames`: `gl_pointer_set` stores three words one by one while the SDL thread
  reads them, borrows GL state and puts it back; the count of frames and the
  timing lines; an upload of a compressed texture, whose copy and whose texture
  may each find too little room in the pool.
* `EglStubs`: what the query functions answer.
* `EnginePatch`: where the helper page may lie, which of the functions the hooks
  need were exported, and the hooks as functions on a Lua state, `luaD_throw`
  included, which Lua also calls to yield.  A hook that needs a function nobody
  found ends the program (`crashed`), and so may the installation of
  `luaD_throw`, whose place is reckoned from `lua_getinfo` found or not.  `plain`
  is the state of an engine without hooks that makes the same calls; the two are
  compared at every step.
* `Bindings`: the imports whose arguments are objects with a layout of their
  own, with the library each row leads to.

`Files` joins the four modules about files into one specification, in which each
goes its own way.  `InOrder` lists a set of calls in the order of a loop over
the panel's contacts or the pad's buttons, for `Touch` and `Pad`.

`MCThreads` puts the modules of the engine's threads side by side, `Runtime` those
of start-up, patches, bindings and graphics, and `MCUnits` these together with the
C library's.  They share no state, so a behaviour picks one `unit` and runs it
alone; the properties are conjunctions of the modules' own.

## 3. Runs

| run | shows | instance |
|---|---|---|
| `text_sessions` | busy is owned by the session, one owner of the name buffer, no lost name, refinement of `TextEntry`; requests taken, sessions end, names arrive, fatal errors end | 2 words, lengths 1 (fits) and 4 (cut by both buffers), name buffer 2, retained 3, delays 1 and 2, 1 player click in the queue, slow player, fairness |
| `mutex_handed_over` | no use of a mutex that is not there, no leak, refinement of `IdealMutex`, a waiting thread gets the lock | 2 threads, 2 cells, all static initializers and kinds, depth 2, fairness |
| `touch` | events alternate and match the panel; taps, pans and selection drags | 2 ids, 4 points; 7 readings while fingers come one after the other, 4 with two at a time |
| `pad_sessions` | nothing stuck, mask, what ends a drag and that the stick does not, stick | Cross, Square, L1, R1 and two buttons on one key, 2 directions, a 15x15 screen, refocus clicks |
| `threads` | once, swaps, conditions, semaphores and attributes, errno and log lines; whoever waits is served | 3 threads at a condition with 2 items, 3 callers of once, 2 semaphore users with 2 units over 3 ticks modulo 5, 3 swappers, 2 threads with errors, 2 that log, fairness |
| `units` | dates and clocks; patterns, strings and encodings; pixels; mappings, scans, assets and copies, and what they free and put back; order of start-up, shaders, frames, hooks, bindings; a returned nativeInit is noticed | the inputs below; every single fault of start-up, 2 shaders with 2 texts, window 6 over 13 frames, pool 20, each Lua function missing in turn, addresses 0 to 9, Lua stack 3 deep, fairness |

Runs that show a disagreement between the code and what is said of it (each is
a finding in `PROJECT.json`):

| run | what happens |
|---|---|
| `text_request_while_busy` | `showTextInput` sees busy clear, the main thread takes another request and sets busy, and `showTextInput` raises a second one. |
| `text_name_lost` | The engine copies a name; a whole second session runs and publishes its name; the engine, through with the first, clears the flag of both, so that a published name is withdrawn that was never assigned. |
| `mutex_first_use_race` | One thread has stored the address, the other locks it before a mutex is there. |
| `touch_spurious_tap` | Finger B lands in the reading in which A, which has dragged, is gone: B's DOWN resets the moved flag and A's UP taps. |
| `pad_hover_ends_drag` | Square goes down while Cross is held; the hover that puts the mouse in its place ends what the engine drags with Cross. |
| `realtime_is_not_unix` | The first reading of `CLOCK_REALTIME` is 9506 s ahead. |

What the combined properties are made of:

| property | parts |
|---|---|
| `TimesAreTrue` | dates are the calendar's and come back, for every zone (`CalendarIsTrue`); monotonic time does not go back; real time goes as far as the system's clock (`ClocksAreTrue`) |
| `TextsAreKept` | `fnmatch` finds a match exactly where there is one; redirections and open flags; string helpers; encodings there and back |
| `RasterIsExact` | clipped rectangles and texture blocks cover what they should and nothing beside it |
| `FilesAreExact` | mapped bytes and copies of mappings; remaining length, one FILE, end of file; sort order and ownership in `scandir`; truth of `file_copy` and closed files |
| `StepsCleanUp` | `mmap` puts the offset back; a buffer is lost only where `file_copy` could not open its target |
| `ObjectsAreReal` | one condition per word, used after it exists; semaphore units conserved; detach state and ownership of attributes |
| `LinesAndErrorsAreOwn` | a thread reads its own error; a store reaches one row; lines are whole where writers do not overlap; the lock is created once where it was there when the threads started |
| `WaitersAreServed` | sleepers on a condition with items, timed semaphore waits, the log's lock |
| `StartsInOrder` | no engine code before its image is prepared; vitaGL once; the surface finds nativeInit entered; bridges are code |
| `GraphicsAreTrue` | in the GLSL builds shaders and cached binaries are made of the text the engine gave; no compile is skipped but a binary's; fresh pointer, restored GL state, timing lines of a window (the first, one frame less), no copy of a texture left; EGL's answers agree |
| `PatchesAreSound` | the page is apart from both segments; nothing is called or hooked that was not found, but for three functions the code does not check; the hooks are transparent |
| `BindingsAgree` | objects stay in their library, but for the ones listed there |

Some state what the code keeps, which is less than what its interface is known
for, and so do not catch the hazard on the line in question:

* a second caller of `pthread_once` may be back before the routine is;
* `lstat` and, with SceLibc's stdio, the functions left to newlib (`fseeko`,
  `ftello`, `rewind`, `__srget`, `__swbuf`) and the streams it makes (`tmpfile`,
  the standard streams) meet objects of the other library;
* `lua_gettop`, `lua_settop` and `lua_getinfo` are used without a look whether
  they were found;
* `bg2v_log_printf` mixes lines when two threads call it at once, and the log's
  lock is created again under its holder where it was missing when the threads
  started;
* an asset's remaining length is off for good after a seek; two scans at once
  sort with each other's comparator; `file_copy` loses its buffer where it cannot
  save;
* in the CG builds a shader's text is passed with the length of another, and a
  cached binary cut short by a kill is loaded as it is;
* `fatal_error` over a keyboard that is still open waits for ever for a dialog
  that did not open: `FatalEnds` is about the others.

No text of the repository promises otherwise, so they are exceptions inside the
properties and not findings.  The hazards of `PROJECT.json` say so where a
property does not catch them.

### Bounds, and why they are enough

* Delays of 1 and 2 iterations stand for 4 and 12: both counters are only
  compared with 0, and the engine may take any number of steps in one
  iteration, so a longer delay adds interleavings of the same kind.  The proofs
  hold for all delays.
* `MaxClicks` bounds only the player's clicks in the queue; it needs one to
  start a session and, for `text_request_while_busy`, a second.
* Two words tell "this text" from "another text".  `text_sessions` has the slow
  player; that its first three invariants hold under any timing is proved.
* Two threads compete for the mutex and one of them has created it; two cells
  let creation race or follow destruction.
* The touch points lie within the slop of each other, outside it although
  within it in each coordinate, and on the selection button farther away than
  the cap.  `MaxFrames` readings suffice for press, drag, release and the next
  drag of one finger after another; `MaxCrowded`, the readings of a behaviour in
  which two were on the panel at a time, for one to come, go and swap id and
  place with the other.  Both make the model stop, so `touch` does not check
  deadlock; neither do `threads` and `units`, where once words, the log or a
  fatal error come to an end.
* The 15x15 screen has the pointer touch each edge in one step of 9 pixels.
* Dates: the days around the turns of 34 years between -800 and 10000 (leap
  years, centuries, the years where the code changes its method, both ends of
  32-bit time), with four times of the day and four zones, and `safe_year` for
  every year to 2800: the calendar repeats after 400 years.  The theorem about
  dates has no such bounds.
* Patterns: every one of up to 3 characters over a letter and the special ones,
  and every bracket with up to 3 characters in it, against names of up to 3
  characters, with seven sets of flags.  Open flags: every set of seven flags.
  Encodings: the first 4096 units, the edges of each length, and pairs of edges.
* Raster: a 17x12 screen and every place from 10 pixels outside; images from
  -1x0 to 9x9 with sizes around what they need: partial blocks on both sides.
* Files of 0 to 3 bytes with every split of the reads; 5 directory entries with
  a first capacity of 2, so that the array grows twice.
* A window of 6 frames is the smallest for which the code's test `> 5` and the
  window differ; 13 frames pass two of them.  A pool of 20 units runs out in the
  middle of an upload, before the copy and after it.  `DelayTicks` exceeds `MaxLatency`:
  a thread starts within the 250 ms, which is the assumption of
  `SurfaceFindsEntry`.

### Fairness

* `TextInput`: the main loop is scheduled (`sceKernelDelayThread` returns and
  no step of it waits for a lock), and so is the engine in the middle of
  `showTextInput` or of the Lua hook.  The hook is strongly fair: the engine
  comes back to `lua_pcallk` again and again, but it may handle clicks in
  between.  The player closes what is on the screen.  Nothing forces the player
  to touch it, the engine to handle a click or to return, or a keyboard to open.
* `Startup`: the kernel runs both threads.  Nothing makes nativeInit return.
* `CondVar`: threads in a call are scheduled, and the mutex is handed to a
  waiter it is free for again and again.  Nobody has to add items.
* `Semaphore`: the clock goes on, and a waiter whose unit is there or whose time
  is up returns.
* `LogFile`: threads that write are scheduled; the lock as above.
* `MCThreads` asks this of the unit that runs and of no other, so that a unit
  at rest does not make a behaviour unfair.
* `PthreadMutex`: threads in the bridge are scheduled; Vita's mutex is handed
  to a waiter it is free for again and again; a thread that holds the mutex
  unlocks it in the end, as often as it locked it.

## 4. Proofs

`TextInputProofs` proves, for every value of the constants that satisfies
`TextAssumption` and `TextInputAssumption`:

| theorem | statement |
|---|---|
| `TypeCorrect` | `Spec => []TypeOK` |
| `SessionSafe` | `Spec => [](SessionOwnsBusy /\ DeliveryHasText)`, under any timing |
| `BufferSafe` | with `SlowPlayer`, `Spec => [](... BufferHasOneOwner ...)` |
| `NoNameLost` | with `SlowPlayer`, `Spec => ClearsOnlyAssigned` |
| `ImplementsTextEntry` | with `SlowPlayer`, `Spec => EntrySpec` |

The argument has two layers.  `LoopInv` is about the main thread alone: busy
and the locals follow from where the loop is.  `SessionOwnsBusy` is not
inductive by itself, because between `TakeRequest` and `MarkBusy` the locals
have to be known to be at rest, and while the name is copied the phase has to
be known to be 2; `LoopInv` adds these.  `BufferInv` is about both threads: the
buffer's halves agree except in the middle of `Fill`, what is being filled in
is the pending text, and while `ready` is set the keyboard is not finished and
no delivery is on its way, so that nobody fills.  That last part is where
`SlowPlayer` is used, in the step `CloseKeyboard` and nowhere else.  The
refinement then maps every step to a step of the mailbox or to a stutter:
`Publish` is `Deliver`, `AssignName` is `Assign`, the keyboard's end is `Close`.

`PthreadMutexProofs` proves, for any number of threads and cells and any depth
of locking:

| theorem | statement |
|---|---|
| `MutexTypeCorrect` | `Spec => []TypeOK` |
| `HandedOverSafe` | with `Handoff`, `Spec => []` of: `UsesRealMutex /\ NothingLeaks /\ OwnerAgrees` for every word that is not garbage, and `NeverMade` for one that is |
| `HandedOverExcludes` | with `Handoff`, `Spec => IdealSpec` |
| `HandedOverLeaksNothing` | with `Handoff`, `Spec => []NothingLeaks` |

None of the three invariants is inductive: that a lock finds a mutex depends on
nobody being in the middle of creating one.  `MutexInv` adds who runs the
bridge before the threads are started (`HandoverInv`: the creator alone, and
afterwards nobody creates), what the word is while the creator works on it
(`WordInv`) and that nobody holds a mutex that does not exist (`HeldInv`).
`Acquire` then has the only owner there is, and every step is a step of
`IdealMutex` or a stutter.  The assumption `Handoff` is needed:
`mutex_first_use_race` is the counterexample without it.

A word in memory nobody initialized may hold garbage that looks like an address.
`pthread_mutex_init` then takes it for a mutex and does nothing (lines 47-49 and
65 of `pthr.c`), and the first lock is a call on memory that is no mutex.
`NeverMade` says what is left there: no cell, no mutex, no holder, for as long as
the word is garbage, which is for ever (`GarbageStays`).  `WordAlways` joins the
two cases, so that the theorems need no assumption about the word's first value.
That no cell leaks (`HandedOverLeaksNothing`) holds for both: a cell is allocated
in one step and stored in the word in the same or by the only creator.

`TouchProofs` and `PadProofs`:

| theorem | statement | for every |
|---|---|---|
| `TouchTypeOK`, `TouchPanelIsSeen` | `Spec => []TypeOK`, `Spec => []PanelIsSeen` | ids, points, fingers, readings |
| `TouchEventsAlternate` | `Spec => EventsAlternate` | the same |
| `TouchPanFollowsFinger` | `Spec => []PanFollowsFinger` | the same, slop and cap |
| `TouchSelectionIsArmedOnce`, `TouchLoneTapIsShortPress` | `Spec => []SelectionIsArmedOnce`, `Spec => LoneTapIsShortPress`: both as long as fingers come one after the other | the same, slop and cap |
| `PadNothingIsStuck`, `PadMaskIsHeld` | `Spec => []NothingIsStuck`, `Spec => []MaskIsHeld` | buttons, keys, screen, speed |
| `PadStickAlternates` | `Spec => StickAlternates` | the same |
| `ButtonsEndDrags`, `StickKeeps` | `Spec => OnlyButtonsEndDrags`, `Spec => StickKeepsDrag` | the same |

What both need is a statement about a list of calls that has been worked off in
part: the engine's picture now, with the calls that are left applied to it, is
the reading.  `InOrderProofs` has the lemmas about such lists: `InOrder` lists
each member of a finite set once, in the order of its ranks.

* Touch: `PanelIsTold` says, for each contact, whether it is down now and which
  calls about it are left; at the end of the list this is `PanelIsSeen`, at each
  call it is `EventsAlternate`.  `PanIsWay` is about the active contact alone.
  `FingerInv` ties the gesture flags, which all contacts share, to the one finger
  there is, for as long as `alone` holds (`LoneInv`, `LoneStep`): while it does, a
  reading that has a new contact has no other and follows one that had none.
* Pad: `PadInv` says that what the engine believes held, and what it drags
  with, is held by the bridge, that a drag has a button and that no
  handler runs during a session;
  `FollowInv` that the keys and the mask follow the reading as far as the list
  is worked off, and that the stick's call is the last of it.

`ThreadProofs`:

| theorem | statement | for every |
|---|---|---|
| `OnceSafe` | `OnceSpec => []OnceHolds` | set of callers |
| `AtomicSafe` | `AtomicSpec => []TokensAreExchanged` | set of threads |
| `ThreadObjectsAreReal` | `Spec => []ObjectsAreReal` | threads, items, conditions, units, ticks, attributes |
| `ThreadLinesAndErrorsAreOwn` | `Spec => []LinesAndErrorsAreOwn` | threads, tables |

* Once: the word decides.  While it is 0 nobody has called; from the first swap
  on the routine ran once and is done or has somebody inside.
* Atomic words: the tokens of the word and of the threads are all different,
  and a successful compare-and-swap exchanges two of them whatever happened
  since the read.
* Conditions: who is between the lock and the unlock owns the mutex
  (`UsersOwn`), or else the condition was initialized before the threads came;
  either way the word is 0 or names the one condition, but for the moment
  between the store of its address and its initialization (`WordNamesIt`), and
  threads sleep only on that one (`SleepersAreThere`).  Semaphores: units left
  and units taken add up.  Attributes: a set attribute says the opposite number
  of what was wished, as Vita counts, and the default is joinable.
* errno: the pointer a thread was given is the row of its own code.  Log: the
  buffer holds the line of a writer nobody crossed (`BufferIsOwn`); whoever has
  locked a lock that was created once is its holder (`LockIsHeld`); until the
  threads start only main creates it, and where it was there by then nobody does
  afterwards (`MainCreates`).

`RuntimeProofs`:

| theorem | statement | for every |
|---|---|---|
| `StartUpIsOrdered` | `RuntimeSpec => []StartsInOrder` | fault, missing entry point, settings file, delay above the latency |
| `GraphicsStayTrue` | `RuntimeSpec => []GraphicsAreTrue` | shaders, texts and lengths of translations; window above 5, pool, frames, uploads |
| `FramesSafe` | `FrameSpec => []FramesAreClean` | the same |
| `PatchesSafe` | `PatchSpec => []PatchesAreSound` | addresses, page, exported functions, stack depth |
| `BindingsStayAgreed` | `RuntimeSpec => []BindingsAgree` | - |

* Start-up: the stages completed are a prefix of the list of 26 (`StagesListed`,
  `AfterStage`), and the state of the SDL thread follows from which they are.
  It is entered within `MaxLatency` of its start, which is less than the delay.
  `gl_init` tests its flag without a lock; main is through with it before the
  other thread exists, so that the test is never raced.
* Shaders: the skip flag is set only between a source and its compile
  (`FlagInv`), the next dump saves the text it is named after (`DumpInv`), and a
  file is short only while it is saved or after a kill (`CutShort`).
* Frames: the words of the pointer never decrease and are at least the number of
  the call that showed it (`PointerInv`); what the drawing thread has read is
  not older (`DrawInv`).  Of the timing, that lines span a window needs that no
  multiple of the window lies between two neighbours (`NoMultipleBetween`).
* Hooks: `PatchInv` says that the Lua state and the one without hooks are alike,
  value by value, except that a thrown number may have become a string.  Each
  Lua operation keeps states alike (`PushLike`, `PopLike`, `SetGlobalLike`), and
  each hook is one, with pushes and pops around it that cancel
  (`InjectRestores`, `LogLike`, `ReadLike`).  That the page is apart follows
  from `ranges_overlap` by its bounds (`ApartWhereNoOverlap`).  What the
  installation does not insist on are the three unchecked lookups and the
  traceback, which is called only if found (`CallsStayFound`, `NeedsAreRequired`).
* Bindings: the maker of an object and the library of every call on it agree row
  by row (`MakerAndUserAgree`), but for the streams, where exactly one of the two
  is newlib's (`StreamRows`).

`LibraryProofs`:

| theorem | statement | for every |
|---|---|---|
| `FilesStayExact` | `FilesSpec => []FilesAreExact` | threads, file, lengths, offsets, directories, capacities, sizes |
| `FileStepsCleanUp` | `FilesSpec => StepsCleanUp` | the same |
| `RasterStaysExact` | `PixelsSpec => []RasterIsExact` | screen, place of the pointer, image |
| `ClocksStayTrue` | `SysSpec => []ClocksAreTrue` | step of the clocks |
| `DatesStayTrue` | `CalendarSpec => []CalendarIsTrue` | day, second, year, zone up to a day away |
| `TimesStayTrue` | `TimesSpec => []TimesAreTrue` | the same |

* Mapping: an undisturbed call is where its own steps put the offset, so that
  byte `i` of the copy is byte `offs + i` of the file for as far as it has read
  (`MapOK`).  That is needed for each thread separately, since other threads'
  steps either leave the offset alone or disturb it.
* Scans: a sorter that nobody disturbed has its own comparator in the global
  (`ScanSorts`); the array has room for the entries it counts (`ScanCounts`) and
  a call that is out owns none (`ScanOwns`).
* Assets: while nobody sought, the bytes counted are the FILE's position.
  Helpers: the result of each step says what was done up to it.
* Pixels: the places of a texture are rows of blocks of four by four, and a
  place in rows is found again by division (`RowAndPlace`, `RowOfPlace`): each
  block writes its own pixels (`WritesAreWanted`) and each pixel has a block
  (`WantedAreWritten`).  `PixelsAssumption` says that a decoded image takes less
  than 2^32 bytes, as GL's largest texture does; beyond that the code's sizes
  wrap and the model's do not.
* Clocks: a monotonic reading is of a moment that is past, and a later moment's
  timespec is not less (`TimespecGrows`).  A real-time reading is the Unix time
  and 9506 s, which are computed from the calendar and `__epoch`
  (`EpochIsShort`), so that the distance of two readings is right.
* Dates.  The invariant `CalendarInv` only says which answer was kept for which
  arguments; what needs proof is what the answers are.  Years: `YearStart` grows
  by 365 or 366 (`YearStep`), repeats every 400 years (`YearCycle`) and never
  goes back, so a day lies in one year (`OneYear`), which the reference finds
  (`YearFound`); the same for months (`OneMonth`, `MonthFound`).  Loops: the
  leap years that the loops count are as many as the day count says
  (`YearsAdd`, by counting up to the span: `CountUp` gets the induction from the
  least number outside a set), so a loop that stops at a year or month holding
  the day stops at the one there is (`YearUpIs`, `YearDownIs`, `MonthUpIs`,
  `MonthDownIs`), and `gmtime64_r` is the calendar (`GmtimeIs`).  Fields: the
  truncated remainders borrow to what division rounded down gives (`Borrowed`).
  Safe years: the corrections of the 28-year cycle for the centuries between
  keep the leap status of the year and of the one before it, and move its first
  day by whole weeks (`SafeYearIs`).  From there: `mktime64` counts the wrong
  years on its way down, but their lengths add up to the right sum, since the
  two years at the ends are equally long (`DaysBetween`); and a local date made in
  the safe year is put back into its own by the corrections for the turn of the
  year, which apply exactly when a day's shift crosses it (`DatesBeside`,
  `SameBeside`, `TurnedBack`).  `asctime64_r` writes at most 25 characters for
  the years -999 to 9999 (`DigitsUpTo`, `LineFits`).

`MCThreads` and `Runtime` run one unit at a time.  The theorems
about `Spec` and `RuntimeSpec` rest on invariants (`ThreadsInv`, `RuntimeInv`) that are
conjunctions of the units' own: the unit that runs keeps its part, and the
others' variables do not change.  `Files` needs no such bookkeeping, since each
part has a specification of its own.

Assumptions on constants are named in the modules that declare them and only
say what kind of thing a constant is (numbers are numbers, marks such as
"nobody" are not threads), apart from three that are about the program:
`SlowPlayer` and `Handoff`, each with a run that shows the counterexample
without it, and `LatencyAssumption`, that a created thread is scheduled within
the 250 ms that main waits before it announces the surface.  With it
`StartsInOrder` says that nativeInit was entered by then, not that the engine
is ready to receive the announcement, which is outside the code.

Only model-checked:

* Liveness (`RequestIsTaken`, `SessionEnds`, `NameArrives`, `FatalEnds`,
  `LockIsGranted`, `WaitersAreServed`, `ReturnIsNoticed`): fairness and leads-to
  are beyond the prover.
* That a real-time reading is the Unix time is refuted, not proved.
* `TextsAreKept`: `fnmatch`, the strings and the encodings are recursive
  operators.  What they compute for every input takes an induction the prover
  does not offer, and it accepts no theorem in a module that reaches one.

## 5. Not modelled, and what is left

* Third-party code under `lib/` (the repository has empty submodules there) and
  the offline scripts for preparing data: not part of the program's own logic on
  the console.
* Forwards of one line and stubs that log or answer a constant: FORTIFY
  wrappers, `join`, `detach`, `equal`, `mutexattr`, `close`, `ioctl`, `stat`,
  about a thousand rows of the symbol table bound to a function of the same
  name.  They have no state and no branch.
* Null handles, and the `EINVAL` answers to them: no caller in the engine that
  works on Android passes one.
* The JNI method tables and the handlers with a constant answer: they are data
  and change nothing but the log.  `showTextInput` is in `TextInput`.
* EGL's contexts, surfaces and configurations: heap strings nothing looks into.
* Floating point (`coord_normalize`, the scale of the touch panel), the texels
  detex computes, what vitaGL draws, the wording of log lines.
* The scan that rewrites helper addresses in the engine's text, and the event
  diagnostics, which only log.
* `readdir`'s static record: one per process in the code and in newlib alike.
* A composition of `TextInput`, `Touch` and `Pad` over one main loop is left:
  each has the part of the others it sees (the refocus click, sessions without
  polling, the shared pointer), which is what they interact through.
