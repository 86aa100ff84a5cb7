# TLA+ models of the multimedia classes and the media folder

UTIL-WPS-CWMM extends the OS/2 Workplace Shell (WPS): file classes for audio,
image and video files (`src/classes`), folders that play the audio files they
hold (`src/mediafolder`), small stand-alone programs (`src/classes/mm-progs`) and
an MMIO procedure for streams (`src/stream_ioproc`). It is C and C++ on top of
SOM, Presentation Manager (PM) windows and MMPM/2. Little of it is algorithmic.
What is hard is that PM dispatches messages to several threads, that every object
is shared by them, and that almost nothing is locked.

The modules here model the parts that carry logic of the program's own and share
state between threads, windows or devices. Each operator is a translation of the
lines that `PROJECT.json` gives for it under `map`.

Paths below are relative to `src/`. `MF` is
`mediafolder/c/mediafldr/mediafolder.cpp`, `DP` is `mediadialogprocs.cpp` and
`OV` is `mediafolderoverridenwpmethods.cpp` in the same directory; `LP` is
`mediafolder/c/helper/launchpad.cpp`, `IM` is `classes/c/c_image/cwimage.c`.

## 1. Inventory

### 1.1 The components with logic of their own

| component | state it keeps | operations | hard behaviour | what makes it correct | modelled in |
|---|---|---|---|---|---|
| Media folder player (`MF`, `DP`) | `iWave` (the MCI alias number, 0: silent), `mrcPlaying`, `bPaused`, `ulPos`, flags, the play timer, the global alias counter `iWaveDev`, the use list items of the records | `cwPlayAudioFile` (first, next, previous), `cwStopAudioFile`, `cwPauseAudioFile`, `cwSeekAudioFile`, `cwPlayTimeCallback` | the play thread and the UI thread run the same methods on the same data, without a lock; both send messages to the UI's windows and are held up there | one device at a time, the one the folder believes in; commands end with the right record; a track that ends is noticed; pause agrees with the device; nothing hangs | `MediaPlayer`, `PlayOrder`, `PlayOrderMapping` |
| Random order (`MF` 867-1172) | `pRandomArray`, `iNumPlayed`, `iNumToPlay` | `cwPlayRandomAudioFile`, `_getRandomTrack` | the round lives across ticks, stops (which free it) and changes of the folder's contents; its counters count different things | each track once in a round; the draw is defined; a round is complete | `RandomPlay` |
| Play time, sliders, volume (`DP` 544-796) | `ulPos`, `ulTotalLength`, `ulVolume`, `bPosDragging` (one static for all folders), the kind of display | timer tick, slider track and change, volume, setup strings | the play thread sets length, position and volume while the timer and the sliders compute with them; 32-bit products | display, seek and volume belong to the track that plays | `PlayControls` |
| Folder life cycle (`OV`, `MF` 178-208) | frame windows, `hwndPlayObject`, the play thread and its message queue, the message box and its timer | `wpOpen`, `cwClose`, `playThreadFunc`, the answer box | threads come up and end while the user goes on; `cwClose` is entered twice; messages to windows that have gone | a closed folder is silent, its thread ends, the UI's own thread does not; nothing is freed under a thread | `FolderLifecycle` |
| M3U folder (`m3ufolderoverriddenwpmethods.cpp`, `cwm3u.c`) | `fContentsChanged`, `fClosing`, the container, the file, the use item of the M3U object, the window that frees the folder | open, the script that fills it, drop, delete, save, close, free | a thread writes the list record by record while the user edits; nested questions; two ways to close | the file holds what is shown when the flag says so; nothing is thrown away unasked; the folder outlives its threads; the editor ends | `PlaylistEditor` |
| Launch pad (`LP`) | the buttons in `objects.ini`, each pad's list (in reverse order) and count, the list of all pads | drop, delete, refresh all, build, save | a dialog in the middle of a deletion; pads of closed folders; objects deleted behind the list | no button lost, each where it was dropped, count and list agree | `LaunchPad` |
| Bitmap deletion (`IM` 314-535) | message queue of 100, counter `ulNumBMPDelete`, event semaphore, the image's bitmaps | `sendDeleteBMPMsg`, `cwmmRequestBmpDeletion`, `deleteBMPThreadFunc`, `deleteBMPObjectProc` | many senders and one receiver on an unprotected counter; objects that go dormant while a request waits; timeout against post | no request is lost for want of room; requests are carried out | `BitmapDeletion` |
| Bitmap creation (`IM` 135-313, 792-865; `mmfolder.c`, `cwbmp.c`) | `_hBitmap`, `_hBitmapSmall`, `ulSizeSmallBitmap`, the creation thread's queue | `cwmmQuerySmallBitmapHandle`, `createBMPObjectProc`, `wpQueryBitmapHandle`, `cwmmFreeBitmaps`, painting | made on a thread of its own by way of a method that other threads call ("Not threadsafe!!!", `IM`:199) | no bitmap is lost; the recorded size is true; a blank icon is repainted; the bitmap goes with the last view | `BitmapCreation` |
| Setup strings, REXX (`OV` 637-744, `mediafldrrexx.cpp`) | the folder's flags, volume, commands | `wpSetup` | one option changes the state of another | an option sets what it names | partly: the volume in `PlayControls`, the commands in `MediaPlayer` |
| Audio CD folder | records built from a disc; the CD device | population, play | as the player | as the player | not modelled, section 6 |
| CDDB client | one socket, one request | query, read | a late or missing answer | an answer is for the request | not modelled |
| Stand-alone players, stream I/O procedure | one device each; one buffer each | play, stop; read, seek | as the player, smaller | | not modelled |
| Others (frame controls, CD creator, converters, finder, settings pages, common functions) | layout or none | | pure I/O and drawing | | not modelled |

Left aside: third-party code (`JPGPROC`, the exception handlers), generated SOM
bindings (`classes/inc`, `idl`), resources, and older copies of sources
(`classes_chris_names`, `*/old`, `ohne_CWMMDataFile`, `test`, `tst`, `_pmtst`,
`_MMBROWSE`).

### 1.2 How they interact

* The buttons of `playControlDialogProc` (UI thread) post `PLAY_FIRST`,
  `PLAY_NEXT`, `PLAY_PREV`, `STOP_TRACK` and pause to an object window of the
  folder's play thread (`callMediaFolderMethod`, `playObjectProc`, `MF` 97-203).
* The play timer (`IDTIMER_PLAY`, UI thread) calls `cwPlayTimeCallback`, which
  itself calls `cwPlayAudioFile(PLAY_NEXT)` or `cwStopAudioFile`: this is where
  two threads are in the player at once.
* The player asks the container for records and selections with `WinSendMsg`. Sent
  from the play thread such a message waits until the UI thread is back in its
  message loop; the UI thread calls its own windows directly.
* It drives MMPM/2 with `mciSendString` on aliases `wave1` to `wave999`.
* A WPS use list item (`USAGE_OPENVIEW`) marks the record that plays; a track
  that the user opens by double click has one of another handle.
* The launch pads of all folders share a file and one list of pads.
* Every thread that closes or scrolls a folder with images may post to the bitmap
  deletion thread. Every thread that paints an image asks the creation thread for a small
  bitmap, which makes it by way of the large one and has the view paint again.
* `cwClose` posts `WM_QUIT` to the object window of the play thread. The box that asks
  whether to stop a playing folder runs a message loop of its own, so that everything
  else goes on beneath it, a timer that closes the folder unasked included.
* An M3U object makes a folder for the time of an edit or of a play. An object window
  of the object, not of the folder, frees it after `WM_APPTERMINATENOTIFY` and a second.
  The editor is filled by a REXX script (`bin/insTrack.rx`) and written back by a
  thread; both ask or tell the container one record at a time.

### 1.3 Hazards

`PROJECT.json` lists them under `hazards`, each at its line, with the properties
that would catch it. In short: lost or half-done stops, a stolen or wrapped alias, a
timer stopped for the wrong track, a selection or record that is stale when used, a
round whose counters no longer match its array, a length, position or volume of
another track, messages to a window that is not there yet or no longer, a flag that
says "saved" too early, a folder freed under a thread, a bitmap two threads make or
discard at once, a list of buttons that holds objects already deleted, a counter of
requests that nobody corrects.

## 2. The modules

| module | what it models | checked by |
|---|---|---|
| `MediaPlayer` | the player, with all steps of both threads | `overlap`, `live`, `serial`, `stop_race` |
| `PlayOrder` | abstract: which record plays after a command | through the mapping |
| `PlayOrderMapping` | `MediaPlayer`, a history variable, the refinement mapping | `play_order` |
| `RandomPlay` | the random order, with the steps of both threads | `random` |
| `PlayControls` | counted time, length, sliders, volume, in the code's arithmetic | `controls` |
| `FolderLifecycle` | opening, closing, the play thread's life | `lifecycle` |
| `PlaylistEditor` | the editor of play lists with its threads | `playlist` |
| `LaunchPad` | the launch pads | `launch_pad` |
| `BitmapDeletion` | the deletion thread and its senders | `bitmaps` |
| `BitmapCreation` | the two bitmaps of an image and the threads that use them | `creation` |
| `MediaPlayer_proofs`, `RandomPlay_proofs`, `PlayControls_proofs`, `FolderLifecycle_proofs`, `PlaylistEditor_proofs`, `LaunchPad_proofs`, `BitmapDeletion_proofs`, `BitmapCreation_proofs` | theorems about the modules of those names (`MediaPlayer_proofs`: also about `PlayOrderMapping`) | tlapm |

The configurations are the `MC_*.cfg` files. The modules take everything small
as CONSTANTS, so they are model-checked directly.

### 2.1 MediaPlayer

State: `iWave`, `mrcPlaying`, `bPaused` and `repeat` are the members of that
name; `early` is `ulPos <= 2`, all that `PLAY_PREV` asks of the position. `timerOn` is
`IDTIMER_PLAY`, `lastDev` the global `iWaveDev`. `dev` is the state of each alias as
MMPM/2 keeps it (external). `recs`, `selected` and `inUse` are the records in the
container, their `CRA_SELECTED` and their `USAGE_OPENVIEW` items; `other` is the one a
double click plays. `queue` is the play thread's message queue. `pc`, `cmd`,
`priv` (`iWavePriv`), `mrc`, `ret` and `arg` are the position and the locals of the
handler that each thread is in.

Steps: the code between two calls where the thread can be held up: a mutex
request, an MCI command, or a message to a window. `GetDevice` is the
part under `hmtxFileName`; `Choose...`, `SearchBack` and `Ended` the choice of the
record for each command; `OpenDevice`, `StartDevice`, `MarkInUse`, `SelectRecord`, `Publish`
the start, where every MCI command may fail; `Stop...` the steps of
`cwStopAudioFile`, which reads `iWave` and `mrcPlaying` anew in each
of them. A call of `cwStopAudioFile` from `cwPlayAudioFile` is `CallStop` with the
step to return to in `ret`; its recursive call as its last action is a jump
(`RestartWithFirst`). `cwPauseAudioFile` and `cwSeekAudioFile` tell the device in one step and set
`bPaused` in the next (`SendPause`, `SetPaused`, ..., `SetSought`), so that the other thread may
publish a track, or pause, in between. `crossed` is history: the last PAUSE or slider move has been
crossed in this way, and nothing has mended it yet. `TimerTick`, `Seek`, `PassDevice` and `ToggleRepeat` are the UI thread's
handlers; `TakeCommand` and `TakePause` the play thread's message loop; `User...`,
`OtherEnds` and `TrackEnds` are what desktop and MMPM/2 do.

`CanSend(t)` is the rule for sent messages. `MayBegin` with `Overlap = FALSE` lets a
handler start only when no other one runs: the setting for properties about
what one command does. `UserEvents` chooses what the user does besides
pressing buttons, so that a run can have the one thing it is about.

Abstractions. The assignments of `Publish` and of `StopClear` are one step each,
since no call stands between them. Of what the play thread displays only what the
properties tell apart is kept. The random order, which replaces the choice of
records, is in its own module. A record pointer of a deleted record remains
different from every other record's; memory that is reused for another record is not
modelled. Undefined reads (the object pointer of the backward search, `MF` 727-758) are
a choice between a trap, caught by the play thread's handler, and
an attempt to open some file.

### 2.2 PlayOrder and its mapping

`PlayOrder` has one action per command, `Done`, that relates the record
playing before and after it; no devices, timer, steps or searches. `Desktop` is
everything the user may change in between. Since a command looks at
selection, position and the other track when it begins and the model's variables change
step by step, `PlayOrderMapping` adds a history variable `seen` with what the
command found when it began, and maps the abstract variables to it. The one thing that may
change under a running command is that the double-clicked track ends; then
`seen` follows, if the command has not looked yet.

### 2.3 RandomPlay

`array`, `toPlay` and `played` are `pRandomArray` (null, live, or freed; the marked positions),
`iNumToPlay` and `iNumPlayed`. Both threads run `cwPlayRandomAudioFile` and `cwStopAudioFile` on
them: play and stop on the play thread, the tick behind the end of a track on the UI thread. A
step is the code between two calls of PM, MMPM/2 or the heap; `pc`, `ret`, `drawn` (`iTrack`),
`track` and `aside` (`pByte`) are the position and the locals of each thread. So a STOP may free
the array between the tick's test and its draw, clear the counters before it divides by one of
them, or free what the other has put aside. `TrapInDraw`, `FreedTwice` and the draws from a freed
array (any position) are what follows; a trap on the UI thread, which nothing catches there, ends
both threads, and for that reason the run does not check for deadlock.

A draw in the loop of `_getRandomTrack` is any unmarked position; `Unlucky` allows as many
draws as the array is long to hit only marked ones. `Silent` records fail to open. `chosen`,
`calm` and `crossed` are history, used by properties only: `crossed` says that a thread has touched
the round while the other was using it (`Using`), `calm` that this has not happened, the contents
have not changed and no draw was unlucky. Both start anew with the next round. That the properties are about rounds that are not
crossed is the code's limit: for the others TLC finds the division by zero.

### 2.4 PlayControls

State: `ulPos` and `ulTotalLength` as in the folder, `slider` and `shown` what the two
displays show, `length`, `volume` and `at` (the position last seeked to) of each alias as
MMPM/2 keeps them. A start is its five steps (open, ask for the length, set the volume,
play, publish), since the timer and the sliders work between any two of them; a stop
is one step here and many in `MediaPlayer`. A tick is two steps: it counts, and
displays.

The products and quotients are those of the code, in words of `Word` values (2^32 in
the code): `SeekPosition` multiplies unsigned, converts to signed and divides, `TooLong` is
when that overflows. The constants scale the code's down so that a small word
overflows too; the theorems of `PlayControls_proofs` hold for the true ones.

`Unusual` names the things that break the controls for a reason of their own (PLAY over
a playing track, a device that does not tell its length, a track too long for the
product, the slider in silence, the volume slider during a start, a setup string). A
behaviour has up to `MaxUnusual` of them; a property that says `Usual(S)` holds
in all behaviours without those in `S`, whichever others happen. Each exclusion is needed: with
any member of any of these sets left out, TLC finds the property violated.

### 2.5 FolderLifecycle

The `n`-th opening has the frame `n` and the thread `n`; `frame`, `player` and `asking` are
the members that hold window handles, 0 being `NULLHANDLE`. A thread is starting, has its
object window (`ready`, or `busy` with a command that takes its time), has taken `WM_QUIT`
(`ending`), or is `over`, where it sets `hwndPlayObject` to `NULLHANDLE` whosever window
is there. `mail` is the queue of each thread. `CloseFolder`, `CloseAsks`, `AnswerYes`,
`AnswerNo`, `TimerFires` and `ComesBack` are `cwClose` with its message box: the timer
(`MFLDR_MBOX_TIMER_ID`) closes the folder beneath the box, and the outer call goes on when the
box has lost its owner. `ended` is the window of the M3U object that frees a folder which
was made to play a list. `uiQuit` becomes true when `WM_QUIT` is posted with a null handle,
that is to the queue of the thread that posts.

`Impatience` names what a user may do instead of waiting; `haste` is what this user
does. A property with `Patient(S)` is a contract: it holds for all users that wait for
what `S` names, whatever else they do in haste. As above, each member is needed.

### 2.6 PlaylistEditor

`changed` and `closing` are `fContentsChanged` and `fClosing`; `shown` the container in item
order, `file` the list on disk; `loader` the script, `savers` the threads of `saveThreadFunc`, each
with the record it is at; `queue` the UI thread's, with the messages for the frame and for the
handler window; `boxes` counts nested questions, the outer of which can be answered only
after the inner. `After` is the answer of the container to `CM_QUERYRECORD` with `CMA_NEXT`:
nothing, if the record asked about is no longer there. `DropBegins`/`DropEnds` and
`DeleteBegins`/`DeleteEnds` are two steps because the flag is set before the contents change.
Lists hold each track at most once. `Missing` tracks cannot be shown, and are gone from
the file after the next save. `target` is a file that can be written, is
read-only, or has been deleted: the ways in which `saveThreadFunc` returns early.
`Impatience` is used as in `FolderLifecycle`.

### 2.7 LaunchPad

`stored` is the file; `list` and `num` are a pad's `lpoObjectList` (rightmost first) and its
`ulNumObjects`; `opened` and `shown` are the pads made and those with a window. An operation is
one step, as all of it runs on the UI thread, save the deletion through a dialog: `AskToDelete`
and `DeleteConfirmed`, between which everything else may happen. `Refresh` is
`lpRefreshLaunchPad`: it rebuilds pads newest first until one traps. `lpBuildObjectList` reads
`lpoTemp` unset, hence `Builds`: it reads the file, skips it, or fails to open it. Only a shadow
that has not existed before can be dropped (handles are not reused). The toolbar folder is taken
as awake.

`lpFreeObjectList` deletes the entries one by one and sets the list to NULL only at its end. When it
traps over an object that is gone, the pad is left `dangling`: its list starts with deleted
entries, whose memory the next `new LPObject`, of any pad, may be given. Nothing is known of such a list, and
the model keeps none. A walk along it traps or reads anything: `SavedUnknown` is any array of
handles of living objects and `Junk`, so repeated and missing ones as well. A change or a second deletion through such a list
writes to memory that may be another pad's entry: `Damage`, after which no list is known and
anything may be saved (`Astray`) until the Shell ends (`Restart`). A dialog about an entry that is
gone may delete the object of another one, on any pad. What the properties say is that all of this
stays with the pads it happens to: as long as there is no damage, a pad whose list is known is right about it.

### 2.8 BitmapDeletion

A step is the code up to the next call that lets others run; `++` and `--`
of the counter are one instruction each. `Word` is where the unsigned counter
wraps. The age of a request is left open: `Peek` may find any request old
enough or not. `Reset` may end the thread after a timeout because `bQuit`
(`IM`:401) has not been set then. `exact` is history: it becomes false when the
counter is cleared while a request waits or is about to be posted, which is the
race the code's FIXME admits. The containers an image has records in are not kept: the comment at `IM`:368
says that the bitmaps of a file which is inserted into one again are spared, but the test for that is
disabled (`IM` 327-336), and nothing else on the deletion thread asks.

### 2.9 BitmapCreation

One image, one thread per view (a view is known by its icon size), the creation thread with
its queue of requests, the deletion thread (`wanted`: a request of `BitmapDeletion` waits)
and one caller of `wpQueryBitmapHandle`. A bitmap is a pair of its size and a number, so that
one can say whether a handle is still known to anybody. `hBitmapSmall` and
`ulSizeSmallBitmap` are assigned one after the other and both orders of reading are possible
between them. `hbm`, `live`, `clash` and `lost` are history: `lost` says that a
bitmap has no owner left, `clash` that two threads have loaded the image at the same time,
or loaded and discarded it, or discarded the same kind of bitmap. After a clash the history is
no longer kept, since the code's handles can then mean anything.

## 3. Runs

| run | question | bounds | distinct states |
|---|---|---|---|
| `overlap` | with every interleaving of the two threads, does the folder keep hold of its devices, and agree with them about pause? | 2 records, 2 aliases, 1 waiting command, pause and slider | 3,965,436 |
| `live` | does every handler return? | 2 records, 1 alias, selection; fairness | 78,314 |
| `serial` | does an ended track move on; is nothing left in use? | 2 records, 2 aliases, every user event but selection; fairness | 137,440 |
| `play_order` | do the steps implement `PlayOrder`; is a playing folder tended; does a track start in silence? | 3 records, the middle one no track, selection, deletion, double click, repeat | 1,477,580 |
| `random` | is the draw defined, each track played once, each round complete? | 2 threads, 4 records, 3 tracks, one of them silent, array of 2 | 6,158,272 |
| `controls` | do length, volume, seek, display and timer belong to the track that plays? | 4 lengths, the longest too long for the word of 48 values; 2 volumes; one unusual thing a behaviour | 6,111,554 |
| `lifecycle` | does closing silence the folder, end its thread and no other, and free nothing too early? | 3 openings, 2 waiting commands, all four kinds of haste at once; fairness | 155,444 |
| `playlist` | does the file hold what was shown, does nothing get lost unasked, does the editor end? | lists of up to 2 tracks in the file and 3 shown, one missing, 2 saving threads, 2 boxes, two of six kinds of haste; fairness | 610,501 |
| `launch_pad` | do saves and refreshes keep buttons and order? | 2 pads, 3 handles (symmetric) | 127,077 |
| `bitmaps` | is there room for every request; is every request carried out? | 2 senders, 2 images, queue 4, limits 1 and 0, margin 2; fairness | 1,026,792 |
| `creation` | is no bitmap lost, no icon left blank, no size wrong, no bitmap kept without a view? | 2 views, one with icons below the smallest size, queue 1, 3 bitmaps; fairness | 910,829 |
| `stop_race` | does STOP silence the folder? No | 1 record | |

Why the bounds suffice. Two aliases are enough for the alias counter (999 in the
code) to wrap around to the alias in use, and to the one the other thread is
starting: the case the properties are about. Two records are one to play
and one to move to, three with an unplayable one in the middle make all searches take
and skip a step. In `live`, which is about messages and not about devices, one alias is enough. One waiting command at a time is enough for a command to be taken
at every step of the timer's handler. In `random` the container has more
records than the array and a track that fails, and each thread may start a handler at every step of the other's. In `controls` the lengths are shorter than a
second, a bit more than one, more than two, and beyond the word. In `lifecycle` the
third opening is the first that can meet two old threads. In `playlist` two kinds of
haste are enough to make each property fail that does not exclude them, and no property excludes
more than the six there are. In `bitmaps` the margin (7 in the code) is exactly
the number of senders, which is what it must at least be, and the burst is shorter than
the queue; with two images a request can be lost or overtaken while that of the other is carried out.
In `launch_pad` two pads are one that traps and one that goes on, and three handles make lists in
which a button has one on either side. In `creation` a queue of one is full with the first request, and the two icon sizes need
bitmaps of different sizes, so that each view throws away or asks for what the other has.

`CHECK_DEADLOCK FALSE` stands in four configurations: the pads that can be opened
(`launch_pad`) and the openings of a folder (`lifecycle`) are bounded, an editor whose
file has been deleted never ends (`playlist`), and a trap in the timer's draw ends the UI thread
(`random`).

`TypeOK` is an invariant of `overlap` and `playlist`. In the other modules it is proved
(`RandomPlay`, `BitmapDeletion`, `FolderLifecycle`, `PlayControls`, `LaunchPad`), or documents the
variables, and TLC's other invariants would fail to evaluate without it.

What the passing runs show is in the comment before each property. Some are
weaker than one would wish, for a reason found by TLC:

* `PlayingIsTended` and `EndedTrackMovesOn` are stated for handlers that do not overlap. With
  overlapping ones they are violated without any user event: a STOP that finds
  `iWave` 0 waits in a message (`MF`:1227), a timer tick's handler starts a track meanwhile, and
  the next handler stops the timer (`MF`:1207) of the track that the play thread
  has just started. The folder then plays to the end of the track and stays there,
  against the comment of `MF`:1329, "Audio file played. Start next".
* `PauseAgrees` holds until another program takes the device (`MM_MCIPASSDEVICE` sets `bPaused` whatever
  the device does), and but for a PAUSE that is `crossed`: a track that the timer's handler starts between
  `MF`:1287 and 1288 plays, marked as paused, and the timer is held by the mark, until the next PAUSE.
* The properties of `random` are about rounds that no two threads use at a time. For the others TLC finds the draw
  of the timer's handler dividing by the 0 of a STOP, or drawing from the array it has freed.
* The properties of `launch_pad` are about pads whose list is known. `NothingElseLost` fails for the others: a drop on one may save
  a file without the living buttons.
* `RequestsCarriedOut` excepts a thread that has quit, and the one request that is dropped behind the limit of a
  burst; not those behind it in the queue.
* `RoomForRequests` and `CountCoversQueue` hold until the counter is cleared while
  a request waits.
* The properties of `controls`, `lifecycle` and `playlist` name what must not happen, or what the
  user must wait for; `NothingLost` names the `clash`.

### 3.1 Fairness

`MediaPlayer`: strong fairness for each thread's step, because a step that sends a
message is enabled only while the UI thread is in its loop, where PM answers
sent messages before it takes posted ones: a thread may be held up again and again
but not for ever. Strong fairness of `TakeCommand`, `TakePause` and
`TimerTick`: the timer is the UI queue's lowest message, so it is seen whenever the queue
has emptied, which happens again and again as users and tracks are slower than
handlers. No fairness of anything the user or the device does.
`HandlersReturn` needs the exception it states: a play thread handler can be
overtaken by ever new ticks, one for each track that ends.

`BitmapDeletion`: weak fairness of the deletion thread (its wait ends by the
timeout of 10 s, its `WinGetMsg` only with a message) and of each sender that has begun.

`BitmapCreation`: weak fairness of the deletion thread and of each view's thread, strong
fairness of the creation thread, whose message to a view waits while that thread is busy,
again and again. Nothing makes a user open, scroll or close a view.

`FolderLifecycle`: weak fairness of each play thread (it is held up by nobody once it has a
message) and of `UIStep`, what the UI thread does by itself: taking `WM_CLOSE`, the timer,
returning from the box. No fairness of the user, who may leave a box unanswered for ever.

`PlaylistEditor`: weak fairness of the script and of `UIStep`, strong fairness of each saving thread,
whose messages to the container are answered only while the UI thread is free.

### 3.2 What the failing run shows

`stop_race`: STOP tests, stops and clears `iWave` on the play thread while the timer's
handler on the UI thread is between closing the old device and publishing the new
one: STOP finds 0, or clears the number the other has just set, and the new track
plays on. `mediafldrprog.ipf`:121 says "Stop playing."

### 3.3 Further observations, without a run

Player.

* PLAY while the only selected track plays first stops it, which deselects it, and then looks
  for the selection (`MF`:578, 1212-1215): the first track of the folder starts, although
  `mediafldrprog.ipf`:70 says that the selected one does.
* Repeat in random order: `iNumToPlay` counts all objects, `iNumPlayed` those that were started
  (`MF`:945, 998, 1013). With one object that is no track the round never counts as over,
  and the folder falls silent although repeat is on (`mediafldrprog.ipf`:108).
* `MF`:1324 says "The Timer will be stopped in the method": when
  `cwPlayTimeCallback` finds no device because `iWave` is 0, `cwStopAudioFile` has nothing
  to stop and leaves the timer running.
* `MF`:1046 says "Clean up": the path of a record that is gone leaves the random
  round active when nothing plays.
* STOP in random order while the timer's handler draws: `iNumToPlay` is 0 or the array freed (`MF`:883, 1184-1186), and the UI
  thread has no handler for the trap. "Prevent stop method from deleting our vars" (`MF`:1070) is true of the stop
  that follows on the same thread only; STOP on the other thread before that line frees the array all the same, and two threads that put it aside may
  leave one array behind with the counters of none.
* With stacked PLAY commands and nothing selected a second device is opened
  over the first (`StartsInSilence` names the exception); STOP then stops the second only.

Play controls.

* `DP`:729 says "Use only full seconds": the division only undoes the multiplication by 1000 before
  it, and that overflows for tracks of about 36 minutes and more; the device is then sent to
  a negative position.
* `MEDIAFLDRVOLUME` sets the folder's volume and leaves that of the playing device.
  `MEDIAFLDRREPEAT` falls into it and sets the volume to 0 or 1 (`OV`:713).
* A volume that is changed while a track is being started is lost: the slider tells the old device.
* Dropping the position slider in silence starts the play timer, which nobody stops, and which takes a
  double-clicked track for the folder's own and stops it.
* `bPosDragging` is one static variable for all folders.

Folder life cycle.

* Closing a folder before its play thread has made its window posts `WM_QUIT` to a null handle, that is to
  the UI thread's own queue, and the play thread never ends.
* Opening it again before the old thread has gone: the old thread sets the new window's handle
  to null on its way out; later commands are lost, and the next close quits the UI thread.
* A box left to the timer makes `cwClose` run twice; the second `WM_QUIT` may find a null handle.
* A PLAY under way at the close publishes its track in a closed folder; a folder of an M3U object is then
  freed while its thread still uses it.

Play lists.

* Saving while the folder is being filled truncates the list and leaves `fContentsChanged` FALSE;
  closing then asks nothing. Saving before the script has read the file loads tracks twice.
* What is edited while the list is being saved is marked as saved (`m3ufolderoverriddenwpmethods.cpp`:916).
* A second answer to a second box starts a second saving thread, whose `fopen` may fail while the first
  has the file open; the folder is freed by the report of whichever ends first.
* A list that cannot be written is "saved" all the same (line 915). A list whose file has been deleted
  makes the thread return after `fClosing` has been set: folder and use item stay for ever.
* The folder is freed while the script still fills it, if it is closed at once.
* Comments and missing tracks are dropped at the next save; the file is overwritten in place.

Bitmaps.

* Discarding the large bitmap while a caller loads it loses it, and so do two threads that load it
  or discard the same one.
* The result of `WinPostMsg` is not looked at (`IM`:860): with 50 requests waiting the icon stays blank
  until it is painted for another reason. An image that cannot be read is tried again at every paint (`IM`:810).
* The exception path unlocks an object that need not have been locked (`IM`:239); `pCreateBMP`
  is not freed on the early returns; the large bitmap is kept when scaling fails.
* `IM`:368 says that bitmaps of an image inserted into a container again are not destroyed;
  the test that would do so is disabled (`IM` 327-336), so that they are, and are made again when painted.
* Only requests for living objects are counted down (`IM`:339). After a burst with enough dormant ones
  the counter stays above its limit over an empty queue; no sender posts any more, the thread waits for
  a post, and bitmaps are deleted by the threads that close folders. The comment at `IM`:461 expects at
  worst a delay. A burst drops one request after its limit (`IM`:475).

Launch pad.

* Deleting a button through a pad: the object is deleted, one pad rebuilt, and the refresh of the next pad
  unlocks the object again without `somIsObj` (`LP`:859, 1174). Pads of closed folders are still in the list.
* The refresh that traps leaves a list of deleted entries (`LP` 1171-1178), which drops, saves and deletions go on to use; a
  reused entry may make it a cycle, and the file then holds some handles twice and others no more.
* An empty list is never saved (`malloc(0)` returns NULL), so that the last button deleted
  comes back, dead, in the file.

## 4. Proofs

All proofs are checked by tlapm for every value of the constants that the named assumptions allow.
All invariants and action properties of the passing runs are proved, and so is the refinement of `PlayOrder`;
what is only model-checked is the liveness.

**`MediaPlayer_proofs`** (assumption: at least one alias; the playable records are records; overlapping
handlers or not, any set of user events). `TypeCorrect` has one lemma per building block (`Finish`, `Goto`,
`CallStop`, `Look`, ...), then one step per action. `PublishedDeviceAlwaysOpen`,
`StartingDeviceAlwaysOpen` and `StartingDevicesAlwaysDiffer` come from one invariant, since none of the three is
inductive by itself: a stop closes the alias `iWave`, a start closes or publishes its own, so one must know
that they are different; and that needs that every starting thread holds an alias at all.
`DeviceInv == TypeOK /\ HasDevice /\ DevicesApart`: `DevicesApart` is the conjunction of the three,
`HasDevice` says that a thread past `GetDevice`, also one inside `cwStopAudioFile` on the way, has an alias number.
Two threads that hold the same alias before opening it, or one that holds the alias of `iWave`, are
harmless because opening succeeds only for a closed alias. That is why the counter may wrap around.

What `MediaPlayer` promises when both threads rest:

* `PauseAlwaysAgrees` (no other program takes the device; handlers may overlap). `PauseInv` has three parts: a device
  that is being started is not paused yet; unless `crossed`, the folder agrees with the device in `iWave` when nobody is in the middle of a PAUSE or a
  seek (`PublishedAgrees`); and in the middle of an uncrossed one the device already is what the mark is about to say (`PausingAgrees`).
* `PlayingAlwaysTended` and `SilentAlwaysUnused` (one handler at a time, which is an invariant itself, `OneHandler`).
  The first says that timer and mark are there for the published record until `cwStopAudioFile` has taken them
  away, and for the record of a start from `MarkInUse` on. The second says that all marked records are
  one of those two, *or* that there is an `Orphan`, a device that is neither published nor being
  started: it stays open for ever, because only those are ever closed.

That commands do what `PlayOrder` says: `PlaysInOrder` (`MSpec => ImplementsPlayOrder`) and `AlwaysStartsInSilence`, for every
container, selection and set of playable records, every user event and every failure of the device, with one handler at a time.
Overlapping handlers are excluded because then a command has no one situation it began in; the run `overlap` and its theorems
are about those. `PlayOrder` says of a whole command where it may end, so a step in the middle must be shown
to be on its way there. `MayEnd(x)` is what `PlayOrder` allows for the situation that `seen` recorded and the container as it is; from
it come the records that the command may still end with (`Ends`), the selections from which it may start
again (`Restarts`) and the records from which it may search back (`Backs`). `OrderInv` says for every step of a handler which of
these its locals are in: `Searching` until a record is chosen, `Stopping` for each step of `cwStopAudioFile` by the step it
returns to (with the selection it will have left by then), `PutOn` once the device is being opened. TLC checked `OrderInv`
on the instance of `play_order`, and on one with two records and all user events, before it was proved. A step that ends a command maps to the abstract action by `Ends`,
any other to a stutter, and the steps of the desktop between two commands to those of `PlayOrder`. That a search through
the container finds the first or the last record of a set, as `PlayOrder` says, rests on the least element of a set of numbers.

**`RandomPlay_proofs`**: `TypeCorrect`, `DrawAlwaysDefined`, `NoTrackTwice`, `RoundAlwaysComplete`, for any finite set of
records and any array, with both threads in any step. `RandomInv` is a stack of three: what holds always; while not `crossed`, `CrossInv`; and while `calm`,
`CalmInv`. `CrossInv` says that at most one thread is deep in the round, that it has the array, or has put it aside, and that the counters belong to
whichever of the two it is; so a STOP that frees the array finds nobody who uses it, or crosses. `CalmInv` says that the tracks chosen are those on
marked positions (`Kept`), in the array or put aside, and that a thread which gives the round up found all of them marked; cardinalities by `FiniteSetTheorems`.

**`PlayControls_proofs`**: `LengthAlwaysTrue`, `VolumeAlwaysTrue`, `SeekAlwaysInTrack`, `DisplayAlwaysInRange`,
`TimerAlwaysMeansTrack`, for every word in which twice the sum of `Second` and `Hundred` fits, so for the code's. `ControlInv` has one part
per property, each under its own contract: the device being started must have the length and volume
before it is published, and the count must fit the length it is compared with. `SeekIsInTrack` is the
arithmetic alone: below `TooLong` the product does not wrap, and multiplication and division cancel.

**`FolderLifecycle_proofs`**: `UIAlwaysSurvives`, `ClosedAlwaysSilent`, `FolderAlwaysOutlives`, `PlayThreadReached` (commands of an open folder reach
its own thread), for any number of openings. `LifeInv` has the windows (`Frames`), the queues (`Mails`), and for each kind of patience
what it buys: one thread at a time, no close before the thread is up, one way out of the box, nothing started
once a close has begun, and for a temporary folder that its thread has been told before the end is reported.

**`PlaylistEditor_proofs`** (assumption besides the bounds: finitely many tracks).
`InUseAlways` for every user, `FolderAlwaysOutlivesSaver` under its contract. The end may be reported only
behind the `WM_CLOSE` of the same thread (`Ordered`, about positions in the queue), and for an orderly user there is one
thing at a time: a question, a thread that writes, or the end (`OneWay`).

* `TypeCorrect`, for every user: `TypeOK` says that no list has a track twice, also that of a thread that saves while the container changes
  under it. Inductive with `TrackInv`: a thread has written nothing that is shown behind the record it asked for last
  (`Behind`), and what is shown, still to be inserted and being dropped are different tracks (`Apart`).
* `SavedAlwaysShown`, for the user the property names. `SaveInv`: what a thread has written is what is shown up to
  its record (`Writing`), what the script has still to insert and what is shown are together what can be found of the
  file (`Filling`), and once the file is closed it holds what is shown (`Written`). `Found`, which leaves out the tracks that are gone, is
  recursive: what it gives for one more record at the front and for a list without missing ones is proved by the shortest list for which it would fail.
* `AlwaysClosesSaved` from `SaveInv` and `EndInv`: a closing folder has been told so by the very thread that has saved it.

**`LaunchPad_proofs`**: `TypeCorrect`, `CountAlwaysCovers`, and the action properties `AlwaysInsertedWhereDropped` and `NothingElseEverLost`, for any
finite set of objects and any number of pads. `PadInv` is `TypeOK`, `CountCoversList` and `Hidden`: a pad whose list is not known has been made, and
the model has no list for it, so that no step can rely on one. The work is in what the steps compute.
`KeptExists` and `LivingType`: the list built from the file is a list of living handles and not longer than its count, for a file of any
length, again by the shortest file for which it fails. `Built` and `RefreshKeeps`: a rebuilt pad counts what it
has, also when the refresh stops in the middle. `InsertedReversed`: inserting into the reversed list and reversing it back puts a button where it was
dropped. `InsertedMembers` and `RemovedMembers`: nothing but the button itself comes or goes.

**`BitmapDeletion_proofs`**: `CounterNeverBehind` and `AlwaysRoom`, for any finite set of senders up to the margin. The counter covers queue
and posting senders, and together with the senders that have looked and are about to count does not
exceed the queue (`CountInv`); the sums are cardinalities of sets of senders that gain or lose one.

**`BitmapCreation_proofs`**: `NeverLost`, `SizeAlwaysTrue`, `BlankAlwaysAwaited`, `SmallNeverOverwritten`, for any views, sizes and queue.
`CreateInv`: a blank icon is in the queue or in the creation thread's hands; that thread makes a bitmap only where there is none; the size assigned second
is that of the bitmap assigned first; and before a clash every living bitmap is known to a variable or to the thread that is deleting it (`Held`).

Only model-checked:

* Liveness (`HandlersReturn`, `EndedTrackMovesOn`, `RequestsCarriedOut`, `SmallGoesWithViews`, `ThreadsEnd`,
  `EditorEnds`): fairness and `ENABLED` are out of the prover's reach.

The theorems about operators that are recursive over a list need an induction. The library's rules of induction take the statement as an operator
parameter, which the provers cannot instantiate; so such a lemma takes the set of lengths at which it fails and its least
element (`LeastNatural`, from `NatLessThanWellFounded`). For this `Found` and `Living` are recursive functions, not `RECURSIVE` operators.

## 5. Order in which the parts were taken up, and what is left

The player with its abstract order came first, as the program's centre; then the random order, the launch
pads and the deletion of bitmaps; then the creation of bitmaps, the play controls, the life cycle of
a folder and the editor of play lists, and the proofs of all of these.

Left: the composition of `FolderLifecycle` with the steps of
`MediaPlayer` (a track started during a close is one step there); CD folder and stand-alone player.

## 6. Not modelled

* Audio CD folder: the player's code over again with one device and no aliases, records from the disc; a model would repeat
  `MediaPlayer` with fewer actors. Ripping is copying data.
* CDDB client: one blocking request after the other on one thread; text handling.
* Stand-alone players: one file, one device, one window procedure.
* Stream I/O procedure: passes MMIO messages on to the HTTP or the file procedure; no state of its own beyond a handle.
* Parsing of setup strings, the REXX wrappers, `wpSaveState` and `wpRestoreState`: one value each under a key of its own.
* Drawing, layout, settings pages, drag emphasis, frame controls, CD creator, converters, finder: no state that others depend on.
* A crash while the play list is being written: there is no copy to recover from, and so nothing the code promises.
* Third-party and generated code: most of the source lines of the repository (SOM bindings in `classes/inc` and `idl`,
  `JPGPROC`), and the older copies of sources. The mapped lines are a small share of the repository for this reason.
