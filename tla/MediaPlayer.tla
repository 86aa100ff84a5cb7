----------------------------- MODULE MediaPlayer -----------------------------
(***************************************************************************)
(* The player of one open media folder (class CWMediaFolder, methods       *)
(* cwPlayAudioFile, cwStopAudioFile, cwPauseAudioFile, cwSeekAudioFile and *)
(* cwPlayTimeCallback).                                                    *)
(*                                                                         *)
(* Two threads run these methods on the same instance data, and no lock    *)
(* protects that data: the play thread of the folder takes the commands of *)
(* the buttons from a message queue, and the user interface (UI) thread    *)
(* runs the play timer and the sliders.  A step of this module is the code *)
(* between two calls at which a thread can be held up: a mutex request, an *)
(* MCI command, or a message sent to a window of the folder, which waits   *)
(* until the UI thread is back in its message loop.                        *)
(*                                                                         *)
(* The random order of cwPlayRandomAudioFile is the subject of module      *)
(* RandomPlay; here FLAG_RANDOM is off.                                    *)
(***************************************************************************)
EXTENDS Integers, Sequences

CONSTANTS
  NumRecords,  \* records of the folder's container, in item order
  Playable,    \* the records that resolve to an MMAudio or MMMIDI object
  MaxDev,      \* last wave alias; 999 in the code
  MaxQueue,    \* bound on the commands waiting for the play thread
  Overlap,     \* may a handler start while the other thread is inside one?
  UserEvents   \* what the user does besides pressing the play buttons

AllUserEvents ==
  {"pause", "seek", "select", "delete", "doubleclick", "repeat", "share"}

ASSUME ConstantsAssumption ==
  /\ NumRecords \in Nat
  /\ Playable \subseteq 1..NumRecords
  /\ MaxDev \in Nat \ {0}
  /\ MaxQueue \in Nat \ {0}
  /\ Overlap \in BOOLEAN
  /\ UserEvents \subseteq AllUserEvents

Records == 1..NumRecords
Devices == 1..MaxDev

NoRecord == 0     \* a NULL record pointer
BadRecord == -1   \* CM_QUERYRECORD: the record it was given is not there

UI == "ui"
Play == "play"
Threads == {UI, Play}

PlayCommands == {"first", "next", "prev"}
Commands == PlayCommands \cup {"stop"}

StopSteps == {"stop", "stopOther", "stopClose", "stopReset", "stopDeselect",
              "stopClear"}
PlaySteps == {"getdev", "choose", "chooseOther", "back", "ended", "open",
              "start", "mark", "select", "publish"}
PauseSteps == {"pause", "resume", "paused", "resumed", "sought"}
ControlSteps == PauseSteps \cup {"show"}
Steps == {"idle"} \cup StopSteps \cup PlaySteps \cup ControlSteps

VARIABLES
  iWave,       \* the device this folder plays on, 0 when it does not play
  mrcPlaying,  \* the record it plays
  bPaused,
  early,       \* ulPos <= 2: the track has only just begun
  crossed,     \* history: the last PAUSE or slider move was crossed by a new
               \* track or by the other of the two
  repeat,      \* FLAG_REPEAT of ulFlags
  timerOn,     \* the play timer IDTIMER_PLAY is running
  lastDev,     \* the global iWaveDev
  dev,         \* state of every wave device, kept by MMPM/2
  recs,        \* records in the container
  selected,    \* those with CRA_SELECTED
  inUse,       \* those whose object is in the use list of this folder
  other,       \* record that plays in a view of its own (doubleclick), or 0
  queue,       \* commands posted to the play thread
  pc,          \* of each thread: the next step, ...
  cmd, priv, mrc, ret,  \* ... the local variables, ...
  arg          \* ... and the record of a message that is being sent

playVars == <<iWave, mrcPlaying, bPaused, early, crossed>>
cnrVars  == <<recs, selected, inUse, other>>
locals   == <<cmd, priv, mrc, ret, arg>>
vars == <<playVars, repeat, timerOn, lastDev, dev, cnrVars, queue, pc, locals>>

DevStates == {"closed", "open", "playing", "paused", "stopped"}

Tracks == Records \cup {NoRecord, BadRecord}
Resumes == {"idle", "getdev", "back", "ended", "open"}

PlayerOK ==
  /\ iWave \in 0..MaxDev
  /\ mrcPlaying \in Tracks
  /\ lastDev \in 0..MaxDev
  /\ dev \in [Devices -> DevStates]

FlagsOK ==
  /\ bPaused \in BOOLEAN
  /\ early \in BOOLEAN
  /\ crossed \in BOOLEAN
  /\ repeat \in BOOLEAN
  /\ timerOn \in BOOLEAN

ContainerOK ==
  /\ recs \subseteq Records
  /\ selected \subseteq Records
  /\ inUse \subseteq Records
  /\ other \in Records \cup {NoRecord}

ThreadsOK ==
  /\ pc \in [Threads -> Steps]
  /\ cmd \in [Threads -> Commands \cup {"none"}]
  /\ priv \in [Threads -> 0..MaxDev]
  /\ mrc \in [Threads -> Tracks]
  /\ ret \in [Threads -> Resumes]
  /\ arg \in [Threads -> Tracks]

TypeOK ==
  /\ PlayerOK
  /\ FlagsOK
  /\ ContainerOK
  /\ queue \in Seq(Commands \cup {"pause"})
  /\ ThreadsOK

-----------------------------------------------------------------------------
(* The container.                                                          *)

OneOf(S)   == IF S = {} THEN NoRecord ELSE CHOOSE r \in S : TRUE
FirstOf(S) == OneOf({r \in S : \A s \in S : r <= s})
LastOf(S)  == OneOf({r \in S : \A s \in S : r >= s})

\* The forward and the backward search loops of cwPlayAudioFile.
PlayableFrom(r) == FirstOf({s \in recs \cap Playable : s >= r})
PlayableUpTo(r) == LastOf({s \in recs \cap Playable : s <= r})

\* mmGetOtherPlayingAudioFile: only the first record in use is looked at.
OtherPlaying ==
  IF other # NoRecord /\ \A r \in inUse : other <= r THEN other ELSE NoRecord

-----------------------------------------------------------------------------
(* Threads.                                                                *)

\* A message sent from the play thread is answered by the UI thread from its
\* message loop; the UI thread calls its own windows directly.
CanSendNever(t) == pc[UI] = "idle"  \* mutant: its own windows too
CanSend(t) == t = UI \/ pc[UI] = "idle"

Goto(t, l) == pc' = [pc EXCEPT ![t] = l]

\* The handler returns to the message loop of its thread.
Finish(t) ==
  /\ Goto(t, "idle")
  /\ cmd'  = [cmd EXCEPT ![t] = "none"]
  /\ priv' = [priv EXCEPT ![t] = 0]
  /\ mrc'  = [mrc EXCEPT ![t] = NoRecord]
  /\ ret'  = [ret EXCEPT ![t] = "idle"]
  /\ arg'  = [arg EXCEPT ![t] = NoRecord]

\* cwStopAudioFile is called and afterwards the caller goes on at l.
CallStop(t, l) ==
  /\ Goto(t, "stop")
  /\ ret' = [ret EXCEPT ![t] = l]

ReturnFromStop(t) ==
  IF ret[t] = "idle"
    THEN Finish(t)
    ELSE /\ Goto(t, ret[t])
         /\ ret' = [ret EXCEPT ![t] = "idle"]
         /\ UNCHANGED <<cmd, priv, mrc, arg>>

\* cwPlayAudioFile(hwndFrame, PLAY_FIRST) as the last call of cwPlayAudioFile.
RestartWithFirst(t) ==
  /\ Goto(t, "getdev")
  /\ cmd' = [cmd EXCEPT ![t] = "first"]
  /\ UNCHANGED <<priv, mrc, ret, arg>>

Idle(t) == pc[t] = "idle"
AllIdle == \A t \in Threads : Idle(t)

MayBegin(t) == Idle(t) /\ (Overlap \/ AllIdle)

\* Between testing or moving the device and setting bPaused to match.
Pausing(t) == pc[t] \in PauseSteps

Begin(t, c) ==
  /\ Goto(t, IF c = "stop" THEN "stop" ELSE "getdev")
  /\ cmd' = [cmd EXCEPT ![t] = c]
  /\ UNCHANGED <<priv, mrc, ret, arg>>

-----------------------------------------------------------------------------
(* cwPlayAudioFile: choose the record.                                     *)

\* What follows getting a device: PLAY_NEXT and PLAY_PREV look at once whether
\* the folder plays, and what; PLAY_PREV goes back in the container only from a
\* young track, and is PLAY_FIRST when nothing plays.
Look(t) ==
  /\ mrc' = [mrc EXCEPT ![t] = IF cmd[t] = "first" \/ iWave = 0
                                 THEN NoRecord ELSE mrcPlaying]
  /\ \/ /\ cmd[t] = "first" \/ (iWave # 0 /\ (cmd[t] = "next" \/ early))
        /\ Goto(t, "choose")
        /\ UNCHANGED <<cmd, ret>>
     \/ /\ cmd[t] = "prev" /\ iWave # 0 /\ ~early
        /\ CallStop(t, "back")
        /\ UNCHANGED cmd
     \/ /\ cmd[t] = "next" /\ iWave = 0
        /\ Goto(t, "chooseOther")
        /\ UNCHANGED <<cmd, ret>>
     \/ /\ cmd[t] = "prev" /\ iWave = 0
        /\ Goto(t, "getdev")
        /\ cmd' = [cmd EXCEPT ![t] = "first"]
        /\ UNCHANGED ret

GetDeviceNoWrap(t) ==  \* mutant
  /\ pc[t] = "getdev"
  /\ lastDev' = lastDev + 1
  /\ priv' = [priv EXCEPT ![t] = lastDev']
  /\ Look(t)
  /\ UNCHANGED <<playVars, repeat, timerOn, dev, cnrVars, queue, arg>>

\* The global counter is advanced under the mutex hmtxFileName.
GetDevice(t) ==
  /\ pc[t] = "getdev"
  /\ lastDev' = IF lastDev + 1 = MaxDev + 1 THEN 1 ELSE lastDev + 1
  /\ priv' = [priv EXCEPT ![t] = lastDev']
  /\ Look(t)
  /\ UNCHANGED <<playVars, repeat, timerOn, dev, cnrVars, queue, arg>>

\* PLAY_FIRST while playing and with a selection: stop, then start afresh.
ChooseFirstWhilePlaying(t) ==
  /\ pc[t] = "choose" /\ cmd[t] = "first" /\ CanSend(t)
  /\ iWave # 0 /\ selected # {}
  /\ CallStop(t, "getdev")
  /\ UNCHANGED <<playVars, repeat, timerOn, lastDev, dev, cnrVars, queue,
                 cmd, priv, mrc, arg>>

ChooseFirstAnyway(t) ==  \* mutant: does not look whether the folder plays
  /\ pc[t] = "choose" /\ cmd[t] = "first" /\ CanSend(t)
  /\ recs # {}
  /\ mrc' = [mrc EXCEPT ![t] = PlayableFrom(FirstOf(recs))]
  /\ Goto(t, "open")
  /\ UNCHANGED <<playVars, repeat, timerOn, lastDev, dev, cnrVars, queue,
                 cmd, priv, ret, arg>>

\* PLAY_FIRST: the first selected record, else the first one; from there on
\* the first playable one.  There is no check that one was found.
ChooseFirst(t) ==
  /\ pc[t] = "choose" /\ cmd[t] = "first" /\ CanSend(t)
  /\ iWave = 0 \/ selected = {}
  /\ LET from == IF selected # {} THEN FirstOf(selected) ELSE FirstOf(recs)
     IN  IF from = NoRecord
           THEN Finish(t)
           ELSE /\ mrc' = [mrc EXCEPT ![t] = PlayableFrom(from)]
                /\ Goto(t, "open")
                /\ UNCHANGED <<cmd, priv, ret, arg>>
  /\ UNCHANGED <<playVars, repeat, timerOn, lastDev, dev, cnrVars, queue>>

\* PLAY_NEXT while the folder does not play: skip from the record that plays in
\* a view of its own; there is none: like PLAY_FIRST.
ChooseOther(t) ==
  /\ pc[t] = "chooseOther" /\ CanSend(t)
  /\ IF OtherPlaying = NoRecord
       THEN RestartWithFirst(t)
       ELSE /\ mrc' = [mrc EXCEPT ![t] = OtherPlaying]
            /\ Goto(t, "choose")
            /\ UNCHANGED <<cmd, priv, ret, arg>>
  /\ UNCHANGED <<playVars, repeat, timerOn, lastDev, dev, cnrVars, queue>>

\* PLAY_NEXT: the next playable record; a record that is gone ends the play.
ChooseNext(t) ==
  /\ pc[t] = "choose" /\ cmd[t] = "next" /\ CanSend(t)
  /\ LET next == PlayableFrom(mrc[t] + 1)
     IN  \/ /\ mrc[t] \notin recs
            /\ CallStop(t, "idle")
            /\ UNCHANGED <<cmd, priv, mrc, arg>>
         \/ /\ mrc[t] \in recs
            /\ mrc' = [mrc EXCEPT ![t] = next]
            /\ CallStop(t, IF next = NoRecord THEN "ended" ELSE "open")
            /\ UNCHANGED <<cmd, priv, arg>>
  /\ UNCHANGED <<playVars, repeat, timerOn, lastDev, dev, cnrVars, queue>>

ChoosePrevForward(t) ==  \* mutant: CMA_NEXT
  /\ pc[t] = "choose" /\ cmd[t] = "prev" /\ CanSend(t)
  /\ LET before == IF mrc[t] \in recs
                     THEN FirstOf({r \in recs : r > mrc[t]})
                     ELSE BadRecord
     IN  mrc' = [mrc EXCEPT ![t] = IF before = NoRecord THEN @ ELSE before]
  /\ CallStop(t, "back")
  /\ UNCHANGED <<playVars, repeat, timerOn, lastDev, dev, cnrVars, queue,
                 cmd, priv, arg>>

\* PLAY_PREV from a young track: the record before it, else this one again.
ChoosePrev(t) ==
  /\ pc[t] = "choose" /\ cmd[t] = "prev" /\ CanSend(t)
  /\ LET before == IF mrc[t] \in recs
                     THEN LastOf({r \in recs : r < mrc[t]})
                     ELSE BadRecord
     IN  mrc' = [mrc EXCEPT ![t] = IF before = NoRecord THEN @ ELSE before]
  /\ CallStop(t, "back")
  /\ UNCHANGED <<playVars, repeat, timerOn, lastDev, dev, cnrVars, queue,
                 cmd, priv, arg>>

\* The backward search of PLAY_PREV, after the stop.  A record that is gone
\* leaves the object pointer unset: the code traps (the handler of the play
\* thread catches it) or tries to open a file by whatever name is on the stack.
SearchBack(t) ==
  /\ pc[t] = "back" /\ CanSend(t)
  /\ \/ /\ mrc[t] \in recs
        /\ IF PlayableUpTo(mrc[t]) = NoRecord
             THEN Finish(t)
             ELSE /\ mrc' = [mrc EXCEPT ![t] = PlayableUpTo(mrc[t])]
                  /\ Goto(t, "open")
                  /\ UNCHANGED <<cmd, priv, ret, arg>>
     \/ /\ mrc[t] \notin recs
        /\ \/ Finish(t)
           \/ /\ mrc' = [mrc EXCEPT ![t] = BadRecord]
              /\ Goto(t, "open")
              /\ UNCHANGED <<cmd, priv, ret, arg>>
  /\ UNCHANGED <<playVars, repeat, timerOn, lastDev, dev, cnrVars, queue>>

\* PLAY_NEXT behind the last track.
Ended(t) ==
  /\ pc[t] = "ended"
  /\ IF repeat THEN RestartWithFirst(t) ELSE Finish(t)
  /\ UNCHANGED <<playVars, repeat, timerOn, lastDev, dev, cnrVars, queue>>

-----------------------------------------------------------------------------
(* cwPlayAudioFile: open the device, start it, publish it.                 *)

OpenDeviceAgain(t) ==  \* mutant: an alias in use is opened once more
  /\ pc[t] = "open" /\ CanSend(t)
  /\ dev' = [dev EXCEPT ![priv[t]] = "open"]
  /\ Goto(t, "start")
  /\ UNCHANGED <<playVars, repeat, timerOn, lastDev, cnrVars, queue, locals>>

\* "open ... alias wave<n>": fails for a bad file and for an alias in use.
OpenDevice(t) ==
  /\ pc[t] = "open" /\ CanSend(t)
  /\ \/ /\ dev[priv[t]] = "closed"
        /\ dev' = [dev EXCEPT ![priv[t]] = "open"]
        /\ Goto(t, "start")
        /\ UNCHANGED locals
     \/ /\ Finish(t)
        /\ UNCHANGED dev
  /\ UNCHANGED <<playVars, repeat, timerOn, lastDev, cnrVars, queue>>

\* The SET commands and "play": each one that fails closes the device again.
StartDevice(t) ==
  /\ pc[t] = "start"
  /\ \/ /\ dev' = [dev EXCEPT ![priv[t]] = "playing"]
        /\ Goto(t, "mark")
        /\ UNCHANGED locals
     \/ /\ dev' = [dev EXCEPT ![priv[t]] = "closed"]
        /\ Finish(t)
  /\ UNCHANGED <<playVars, repeat, timerOn, lastDev, cnrVars, queue>>

MarkInUseOnly(t) ==  \* mutant: without the timer
  /\ pc[t] = "mark"
  /\ inUse' = inUse \cup ({mrc[t]} \cap Records)
  /\ Goto(t, "select")
  /\ UNCHANGED <<playVars, repeat, timerOn, lastDev, dev, recs, selected, other,
                 queue, locals>>

MarkInUse(t) ==
  /\ pc[t] = "mark"
  /\ timerOn' = TRUE
  /\ inUse' = inUse \cup ({mrc[t]} \cap Records)
  /\ Goto(t, "select")
  /\ UNCHANGED <<playVars, repeat, lastDev, dev, recs, selected, other, queue,
                 locals>>

SelectRecord(t) ==
  /\ pc[t] = "select" /\ CanSend(t)
  /\ selected' = selected \cup ({mrc[t]} \cap recs)
  /\ Goto(t, "publish")
  /\ UNCHANGED <<playVars, repeat, timerOn, lastDev, dev, recs, inUse, other,
                 queue, locals>>

PublishPaused(t) ==  \* mutant: bPaused is not reset
  /\ pc[t] = "publish"
  /\ iWave' = priv[t]
  /\ mrcPlaying' = mrc[t]
  /\ early' = TRUE
  /\ crossed' = (\E u \in Threads : Pausing(u))
  /\ Finish(t)
  /\ UNCHANGED <<bPaused, repeat, timerOn, lastDev, dev, cnrVars, queue>>

Publish(t) ==
  /\ pc[t] = "publish"
  /\ iWave' = priv[t]
  /\ mrcPlaying' = mrc[t]
  /\ early' = TRUE
  /\ bPaused' = FALSE
  /\ crossed' = (\E u \in Threads : Pausing(u))
  /\ Finish(t)
  /\ UNCHANGED <<repeat, timerOn, lastDev, dev, cnrVars, queue>>

-----------------------------------------------------------------------------
(* cwStopAudioFile.  iWave and mrcPlaying are read anew in every step.     *)

StopDevice(t) ==
  /\ pc[t] = "stop" /\ iWave # 0
  /\ dev' = [dev EXCEPT ![iWave] = IF @ \in {"playing", "paused"}
                                     THEN "stopped" ELSE @]
  /\ Goto(t, "stopClose")
  /\ UNCHANGED <<playVars, repeat, timerOn, lastDev, cnrVars, queue, locals>>

\* The folder does not play: stop a track that plays in a view of its own.
StopNothing(t) ==
  /\ pc[t] = "stop" /\ iWave = 0
  /\ Goto(t, "stopOther")
  /\ UNCHANGED <<playVars, repeat, timerOn, lastDev, dev, cnrVars, queue, locals>>

StopOther(t) ==
  /\ pc[t] = "stopOther" /\ CanSend(t)
  /\ IF OtherPlaying # NoRecord
       THEN /\ other' = NoRecord
            /\ selected' = selected \ {OtherPlaying}
       ELSE UNCHANGED <<other, selected>>
  /\ ReturnFromStop(t)
  /\ UNCHANGED <<playVars, repeat, timerOn, lastDev, dev, recs, inUse, queue>>

StopClose(t) ==
  /\ pc[t] = "stopClose"
  /\ dev' = IF iWave = 0 THEN dev ELSE [dev EXCEPT ![iWave] = "closed"]
  /\ Goto(t, "stopReset")
  /\ UNCHANGED <<playVars, repeat, timerOn, lastDev, cnrVars, queue, locals>>

StopResetTimer(t) ==  \* mutant: the record stays in use
  /\ pc[t] = "stopReset" /\ CanSend(t)
  /\ timerOn' = FALSE
  /\ arg' = [arg EXCEPT ![t] = mrcPlaying]
  /\ Goto(t, "stopDeselect")
  /\ UNCHANGED <<playVars, repeat, lastDev, dev, recs, selected, inUse, other,
                 queue, cmd, priv, mrc, ret>>

StopReset(t) ==
  /\ pc[t] = "stopReset" /\ CanSend(t)
  /\ timerOn' = FALSE
  /\ inUse' = inUse \ {mrcPlaying}
  /\ arg' = [arg EXCEPT ![t] = mrcPlaying]
  /\ Goto(t, "stopDeselect")
  /\ UNCHANGED <<playVars, repeat, lastDev, dev, recs, selected, other, queue,
                 cmd, priv, mrc, ret>>

StopDeselect(t) ==
  /\ pc[t] = "stopDeselect" /\ CanSend(t)
  /\ selected' = selected \ {arg[t]}
  /\ arg' = [arg EXCEPT ![t] = NoRecord]
  /\ Goto(t, "stopClear")
  /\ UNCHANGED <<playVars, repeat, timerOn, lastDev, dev, recs, inUse, other,
                 queue, cmd, priv, mrc, ret>>

StopClearRecord(t) ==  \* mutant: iWave is kept
  /\ pc[t] = "stopClear"
  /\ mrcPlaying' = NoRecord
  /\ early' = TRUE
  /\ ReturnFromStop(t)
  /\ UNCHANGED <<iWave, bPaused, crossed, repeat, timerOn, lastDev, dev, cnrVars,
                 queue>>

StopClear(t) ==
  /\ pc[t] = "stopClear"
  /\ iWave' = 0
  /\ mrcPlaying' = NoRecord
  /\ early' = TRUE
  /\ ReturnFromStop(t)
  /\ UNCHANGED <<bPaused, crossed, repeat, timerOn, lastDev, dev, cnrVars, queue>>

-----------------------------------------------------------------------------
(* cwPauseAudioFile on the play thread, cwSeekAudioFile on the UI thread:  *)
(* the device is told first and bPaused is set afterwards.                 *)

DeviceTo(d, from, to) ==
  IF d # 0 /\ dev[d] \in from THEN [dev EXCEPT ![d] = to] ELSE dev

SendPause(t) ==
  /\ pc[t] = "pause"
  /\ dev' = DeviceTo(iWave, {"playing"}, "paused")
  /\ Goto(t, "paused")
  /\ UNCHANGED <<playVars, repeat, timerOn, lastDev, cnrVars, queue, locals>>

SendResume(t) ==
  /\ pc[t] = "resume"
  /\ dev' = DeviceTo(iWave, {"paused"}, "playing")
  /\ Goto(t, "resumed")
  /\ UNCHANGED <<playVars, repeat, timerOn, lastDev, cnrVars, queue, locals>>

SetPaused(t) ==
  /\ pc[t] = "paused"
  /\ bPaused' = TRUE
  /\ Goto(t, "idle")
  /\ UNCHANGED <<iWave, mrcPlaying, early, crossed, repeat, timerOn, lastDev, dev,
                 cnrVars, queue, locals>>

SetResumed(t) ==
  /\ pc[t] = "resumed"
  /\ bPaused' = FALSE
  /\ Goto(t, "show")
  /\ UNCHANGED <<iWave, mrcPlaying, early, crossed, repeat, timerOn, lastDev, dev,
                 cnrVars, queue, locals>>

\* showPlayTimeDisplay, a call to a window of the UI thread
ShowDisplay(t) ==
  /\ pc[t] = "show" /\ CanSend(t)
  /\ Goto(t, "idle")
  /\ UNCHANGED <<playVars, repeat, timerOn, lastDev, dev, cnrVars, queue, locals>>

\* The slider's handler starts the timer and sets ulPos after the seek.
SetSought(t) ==
  /\ pc[t] = "sought"
  /\ bPaused' = FALSE
  /\ timerOn' = TRUE
  /\ early' \in BOOLEAN
  /\ Goto(t, "idle")
  /\ UNCHANGED <<iWave, mrcPlaying, crossed, repeat, lastDev, dev, cnrVars, queue,
                 locals>>

ControlStep(t) ==
  \/ SendPause(t) \/ SendResume(t) \/ SetPaused(t) \/ SetResumed(t)
  \/ ShowDisplay(t) \/ SetSought(t)

ThreadStep(t) ==
  \/ GetDevice(t)
  \/ ChooseFirstWhilePlaying(t) \/ ChooseFirst(t)
  \/ ChooseOther(t) \/ ChooseNext(t) \/ ChoosePrev(t) \/ SearchBack(t) \/ Ended(t)
  \/ OpenDevice(t) \/ StartDevice(t) \/ MarkInUse(t) \/ SelectRecord(t)
  \/ Publish(t)
  \/ StopDevice(t) \/ StopNothing(t) \/ StopOther(t) \/ StopClose(t) \/ StopReset(t)
  \/ StopDeselect(t) \/ StopClear(t)
  \/ ControlStep(t)

-----------------------------------------------------------------------------
(* The play thread takes a command; the UI thread posts one.               *)

\* playObjectProc
TakeCommand ==
  /\ MayBegin(Play)
  /\ queue # <<>> /\ Head(queue) \in Commands
  /\ queue' = Tail(queue)
  /\ Begin(Play, Head(queue))
  /\ UNCHANGED <<playVars, repeat, timerOn, lastDev, dev, cnrVars>>

\* A PAUSE or a move of the slider begins.
BeginPausing(t, l) ==
  /\ Goto(t, l)
  /\ crossed' = (\E u \in Threads : Pausing(u))

\* cwPauseAudioFile tests bPaused.  It does not look whether the folder plays.
TakePause ==
  /\ MayBegin(Play)
  /\ queue # <<>> /\ Head(queue) = "pause"
  /\ queue' = Tail(queue)
  /\ BeginPausing(Play, IF bPaused THEN "resume" ELSE "pause")
  /\ UNCHANGED <<iWave, mrcPlaying, bPaused, early, repeat, timerOn, lastDev, dev,
                 cnrVars, locals>>

\* callMediaFolderMethod, from the buttons of playControlDialogProc
PostCommand(c) ==
  /\ MayBegin(UI)
  /\ c = "pause" => "pause" \in UserEvents
  /\ Len(queue) < MaxQueue
  /\ queue' = Append(queue, c)
  /\ UNCHANGED <<playVars, repeat, timerOn, lastDev, dev, cnrVars, pc, locals>>

-----------------------------------------------------------------------------
(* The play timer, handled by the UI thread: cwPlayTimeCallback asks MCI   *)
(* for the mode of the device and stops or goes on to the next track.      *)

TimerTickGone ==  \* mutant: notices a device that is gone, not one that ended
  /\ MayBegin(UI)
  /\ timerOn /\ ~bPaused
  /\ early' \in {early, FALSE}
  /\ IF iWave = 0 \/ dev[iWave] = "closed"
       THEN Begin(UI, "stop")
       ELSE UNCHANGED <<pc, locals>>
  /\ UNCHANGED <<iWave, mrcPlaying, bPaused, crossed, repeat, timerOn, lastDev,
                 dev, cnrVars, queue>>

TimerTick ==
  /\ MayBegin(UI)
  /\ timerOn /\ ~bPaused
  /\ early' \in {early, FALSE}
  /\ IF iWave = 0 \/ dev[iWave] = "closed"
       THEN Begin(UI, "stop")
     ELSE IF dev[iWave] = "stopped"
       THEN Begin(UI, "next")
     ELSE UNCHANGED <<pc, locals>>
  /\ UNCHANGED <<iWave, mrcPlaying, bPaused, crossed, repeat, timerOn, lastDev,
                 dev, cnrVars, queue>>

\* The position slider was moved: cwSeekAudioFile, on the UI thread.
Seek ==
  /\ MayBegin(UI) /\ "seek" \in UserEvents
  /\ dev' = DeviceTo(iWave, {"open", "playing", "paused", "stopped"}, "playing")
  /\ BeginPausing(UI, "sought")
  /\ UNCHANGED <<iWave, mrcPlaying, bPaused, early, repeat, timerOn, lastDev,
                 cnrVars, queue, locals>>

\* MM_MCIPASSDEVICE: another program takes the device or gives it back.
PassDevice ==
  /\ MayBegin(UI) /\ "share" \in UserEvents
  /\ bPaused' \in BOOLEAN
  /\ UNCHANGED <<iWave, mrcPlaying, early, crossed, repeat, timerOn, lastDev, dev,
                 cnrVars, queue, pc, locals>>

ToggleRepeat ==
  /\ MayBegin(UI) /\ "repeat" \in UserEvents
  /\ repeat' = ~repeat
  /\ UNCHANGED <<playVars, timerOn, lastDev, dev, cnrVars, queue, pc, locals>>

-----------------------------------------------------------------------------
(* The desktop and MMPM/2.                                                 *)

UserSelects(S) ==
  /\ MayBegin(UI) /\ "select" \in UserEvents
  /\ selected' = S
  /\ UNCHANGED <<playVars, repeat, timerOn, lastDev, dev, recs, inUse, other,
                 queue, pc, locals>>

UserDeletes(r) ==
  /\ MayBegin(UI) /\ "delete" \in UserEvents
  /\ recs' = recs \ {r}
  /\ selected' = selected \ {r}
  /\ inUse' = inUse \ {r}
  /\ other' = IF other = r THEN NoRecord ELSE other
  /\ UNCHANGED <<playVars, repeat, timerOn, lastDev, dev, queue, pc, locals>>

UserDoubleClicks(r) ==
  /\ MayBegin(UI) /\ "doubleclick" \in UserEvents
  /\ other = NoRecord /\ r \in Playable \ inUse
  /\ other' = r
  /\ UNCHANGED <<playVars, repeat, timerOn, lastDev, dev, recs, selected, inUse,
                 queue, pc, locals>>

OtherEnds ==
  /\ other # NoRecord
  /\ other' = NoRecord
  /\ UNCHANGED <<playVars, repeat, timerOn, lastDev, dev, recs, selected, inUse,
                 queue, pc, locals>>

TrackEnds(d) ==
  /\ dev[d] = "playing"
  /\ dev' = [dev EXCEPT ![d] = "stopped"]
  /\ UNCHANGED <<playVars, repeat, timerOn, lastDev, cnrVars, queue, pc, locals>>

-----------------------------------------------------------------------------

Init ==
  /\ iWave = 0 /\ mrcPlaying = NoRecord /\ bPaused = FALSE /\ early = TRUE
  /\ crossed = FALSE
  /\ repeat \in BOOLEAN
  /\ timerOn = FALSE
  /\ lastDev = 0
  /\ dev = [d \in Devices |-> "closed"]
  /\ recs = Records
  /\ selected = {} /\ inUse = {} /\ other = NoRecord
  /\ queue = <<>>
  /\ pc = [t \in Threads |-> "idle"]
  /\ cmd = [t \in Threads |-> "none"]
  /\ priv = [t \in Threads |-> 0]
  /\ mrc = [t \in Threads |-> NoRecord]
  /\ ret = [t \in Threads |-> "idle"]
  /\ arg = [t \in Threads |-> NoRecord]

Next ==
  \/ \E t \in Threads : ThreadStep(t)
  \/ TakeCommand
  \/ TakePause
  \/ \E c \in Commands \cup {"pause"} : PostCommand(c)
  \/ TimerTick
  \/ Seek
  \/ PassDevice
  \/ ToggleRepeat
  \/ \E S \in SUBSET recs : UserSelects(S)
  \/ \E r \in recs : UserDeletes(r)
  \/ \E r \in recs : UserDoubleClicks(r)
  \/ OtherEnds
  \/ \E d \in Devices : TrackEnds(d)

\* A thread that can go on does go on.  A message sent to the UI thread is
\* answered before the posted ones, and the queue of the UI thread empties
\* from time to time so that the timer, its lowest message, is seen: both may
\* be held up again and again but not for ever.
Fairness ==
  /\ \A t \in Threads : SF_vars(ThreadStep(t))
  /\ SF_vars(TakeCommand) /\ SF_vars(TakePause)
  /\ SF_vars(TimerTick)

Spec == Init /\ [][Next]_vars
FairSpec == Spec /\ Fairness

-----------------------------------------------------------------------------
(* Properties.                                                             *)

Closing == {"stopReset", "stopDeselect", "stopClear"}
Starting == {"start", "mark", "select", "publish"}
Sounding == {"playing", "paused"}
Voices == {d \in Devices : dev[d] \in Sounding}

TrackOver ==
  /\ \E d \in Devices : dev[d] = "stopped"
  /\ \A t \in Threads : pc[t] # "stopClose"

\* The folder never believes in a device that is closed, except inside
\* cwStopAudioFile between closing it and clearing iWave; however the two
\* threads interleave.
PublishedDeviceIsOpen ==
  iWave # 0 /\ dev[iWave] = "closed" => \E t \in Threads : pc[t] \in Closing

\* A device that a thread has opened and not yet published is not closed
\* under its feet by the other thread, even when the alias counter has wrapped
\* around to a number that iWave still holds.
StartingDeviceIsOpen ==
  \A t \in Threads : pc[t] \in Starting => dev[priv[t]] # "closed"

\* Two starting threads hold different devices, and one that starts the very
\* alias the folder still believes to play on does so because the other thread
\* has closed that and is about to say so.
StartingDevicesDiffer ==
  \A t, u \in Threads : t # u /\ pc[t] \in Starting =>
    /\ pc[u] \in Starting => priv[t] # priv[u]
    /\ iWave = priv[t] => pc[u] \in Closing

\* The pause button and the device agree, inside and between the handlers of both
\* threads, although PAUSE and the slider tell the device in one step and set
\* bPaused in another: a track marked as paused does not sound, one not so marked
\* does not stand still.  When the other thread starts a track, or does the other
\* of the two, between those steps, they drift apart; the next PAUSE, slider move
\* or new track that nothing crosses mends that.
PauseAgrees ==
  /\ iWave # 0 /\ ~crossed
  /\ \A t \in Threads : ~Pausing(t) /\ (pc[t] \in Starting => priv[t] # iWave)
  => IF bPaused THEN dev[iWave] # "playing" ELSE dev[iWave] # "paused"

\* When the handlers of the two threads do not overlap, a folder that plays is
\* looked after between them: its timer runs, which alone notices the end of the
\* track, and its record is marked as in use.  (With overlapping handlers a stop
\* that found nothing can stop the timer of the track the other thread starts.)
PlayingIsTended ==
  AllIdle /\ iWave # 0 =>
    timerOn /\ (mrcPlaying \in recs => mrcPlaying \in inUse)

\* A silent folder that holds no device has no record left in its use list,
\* whichever of the commands that start a device has failed and whatever the user
\* has deleted.  (PLAY with nothing selected, over a track, leaves the device of
\* that track open for ever, and its record marked.)
SilentMeansUnused ==
  AllIdle /\ iWave = 0 /\ (\A d \in Devices : dev[d] = "closed") => inUse = {}

\* A track that has ended gives way to the next one or to silence, unless the
\* pause button holds the timer.
EndedTrackMovesOn ==
  \A d \in Devices :
    iWave = d /\ dev[d] = "stopped" /\ ~bPaused ~> iWave # d \/ bPaused
                                                   \/ dev[d] # "stopped"

\* A handler of the UI thread returns, so that the desktop does not hang; one of
\* the play thread does too, unless track after track ends while it is at work
\* and the timer starts the folder again before it can.
HandlersReturn ==
  /\ ~Idle(UI) ~> Idle(UI)
  /\ (~Idle(Play) ~> Idle(Play)) \/ []<>TrackOver

\* "Stop playing.": when STOP has been carried out, nothing sounds.
StopSilences ==
  [][pc[Play] # "idle" /\ pc'[Play] = "idle" /\ cmd[Play] = "stop"
       /\ pc[UI] = "idle" => Voices = {}]_vars
=============================================================================
