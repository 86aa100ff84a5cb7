----------------------------- MODULE PlayControls -----------------------------
(*******************************************************************************)
(* The play time, the position slider and the volume slider of a media folder. *)
(*                                                                             *)
(* The time is not asked from the device: a timer counts seconds in ulPos, and *)
(* ulTotalLength holds the length of the track.  The play thread writes both,  *)
(* and the volume of the device, while it starts a track; the timer, the       *)
(* sliders and the menus of the user interface (UI) thread use them without a  *)
(* lock.  The arithmetic is the one of the code, in a word of Word values.     *)
(*                                                                             *)
(* MediaPlayer has the devices and the threads in detail; here there is one    *)
(* start of a track at a time, and a stop is one step.                         *)
(*******************************************************************************)
EXTENDS Integers, FiniteSets

CONSTANTS
  Lengths,     \* lengths of tracks, in units of the device (ms)
  Volumes,     \* values of the volume, 0 and 1 among them
  Second,      \* units in a second; 1000 in the code
  Hundred,     \* the last position of the slider; 100 in the code
  Word,        \* values of an unsigned number; 2^32 in the code
  MaxUnusual   \* bound: how many of the Unusual things happen in one behaviour

\* What does not happen every day: PLAY with nothing selected while a track plays, a
\* device that does not tell its length, a track too long for the arithmetic, the
\* position slider used while no track plays, the volume slider while one is being
\* started, a setup string that sets the volume.
Unusual == {"play over", "no length", "long track", "seek while silent",
            "volume during a start", "setup string"}

ASSUME ControlsAssumption ==
  /\ Second \in Nat \ {0} /\ Hundred \in Nat \ {0} /\ Word \in Nat
  /\ 2 * (Second + Hundred) <= Word
  /\ Lengths \subseteq 0..Word-1
  /\ {0, 1} \subseteq Volumes /\ Volumes \subseteq Nat
  /\ MaxUnusual \in Nat

VARIABLES
  happens,     \* the unusual things that may happen
  iWave,       \* the device the folder plays on, 0 when it does not play
  starting,    \* step of the start of a track: "no", "length", "volume", "play", "publish"
  newWave,     \* the device that is being started
  length,      \* what MMPM/2 knows: the length of the track of each device, ...
  volume,      \* ... its volume ...
  at,          \* ... and the position it was last told to play from
  ulTotalLength, ulPos, ulVolume, bPaused,
  timer,       \* IDTIMER_PLAY runs
  tick,        \* the UI thread is in the middle of WM_TIMER
  slider,      \* position of the arm of the position slider
  bPosDragging,
  usWhichDisplay,  \* 0 elapsed time, 1 remaining time, 2 the tags of the file
  shown        \* the seconds on the display (of the last time that was shown)

deviceVars == <<length, volume, at>>
startVars == <<starting, newWave>>
timeVars == <<ulTotalLength, ulPos, bPaused, timer>>
showVars == <<slider, bPosDragging, usWhichDisplay, shown>>
vars == <<happens, iWave, startVars, deviceVars, timeVars, ulVolume, tick, showVars>>

Devices == {1, 2}
Usual(hs) == happens \cap hs = {}
Silent == iWave = 0 /\ starting = "no"

-----------------------------------------------------------------------------
(* The arithmetic.                                                             *)

Unsigned(n) == n % Word
Signed(n) == LET u == n % Word IN IF 2 * u < Word THEN u ELSE u - Word

\* Division of C: towards 0.
Quotient(n, d) == IF n >= 0 THEN n \div d ELSE -((-n) \div d)

\* SLN_CHANGE: the position for an arm at p.
\* Mutant for SeekInTrack: rounds the other way.
SeekAbove(p, len) == Quotient(Signed(p * Second * (len \div Hundred + 1)), Second)
SeekPosition(p, len) == Quotient(Signed(p * Second * (len \div Hundred)), Second)

TooLong(len) == 2 * Hundred * Second * (len \div Hundred) >= Word

\* Mutant for DisplayInRange: the count goes on at the end.
CountOn(pos, len) == Unsigned(pos + 1)
Counted(pos, len) ==
  IF Unsigned((pos + 1) * Second) > len THEN len \div Second ELSE Unsigned(pos + 1)

ArmPosition(pos, len) ==
  IF len \div Second = 0 THEN Hundred ELSE Unsigned(pos * Hundred) \div (len \div Second)

\* setPlayTimeText.
TimeText(display, len, pos) == IF display = 1 THEN Unsigned(len \div Second - pos) ELSE pos

-----------------------------------------------------------------------------
(* The start of a track, and the stop.                                         *)

\* A device that is closed, or that nothing refers to any more, is forgotten.
Forget(f, d) == [f EXCEPT ![d] = 0]
Forgotten(d) ==
  /\ length' = Forget(length, d) /\ volume' = Forget(volume, d) /\ at' = Forget(at, d)

\* cwStopAudioFile, when a track plays.
Stopped ==
  /\ iWave' = 0 /\ ulPos' = 0 /\ timer' = FALSE
  /\ slider' = 0 /\ shown' = 0

\* PLAY_NEXT, PLAY_PREV and PLAY_FIRST with a selected track stop the one that plays;
\* PLAY_FIRST with nothing selected does not.
StartBegins ==
  /\ starting = "no" /\ tick = FALSE
  /\ starting' = "length"
  /\ newWave' = IF iWave = 1 THEN 2 ELSE 1
  /\ \E l \in Lengths : /\ "long track" \in happens \/ ~TooLong(l)
                        /\ \/ /\ iWave # 0 /\ Stopped
                              /\ length' = [d \in Devices |-> IF d = newWave' THEN l ELSE 0]
                              /\ volume' = Forget(volume, iWave) /\ at' = Forget(at, iWave)
                           \/ /\ iWave = 0 \/ "play over" \in happens
                              /\ length' = [length EXCEPT ![newWave'] = l]
                              /\ UNCHANGED <<iWave, ulPos, timer, slider, shown, volume, at>>
  /\ UNCHANGED <<happens, ulTotalLength, bPaused, ulVolume, tick, bPosDragging,
                 usWhichDisplay>>

StartFails ==
  /\ starting \in {"length", "volume", "play"}
  /\ starting' = "no"
  /\ Forgotten(newWave)
  /\ UNCHANGED <<happens, iWave, newWave, timeVars, ulVolume, tick, showVars>>

\* Mutant for LengthIsTrue: the length is asked of the device in iWave.
AskLengthOfOld ==
  /\ starting = "length"
  /\ starting' = "volume"
  /\ ulTotalLength' = IF iWave = 0 THEN ulTotalLength ELSE length[iWave]
  /\ UNCHANGED <<happens, iWave, newWave, deviceVars, ulPos, bPaused, timer, ulVolume, tick,
                 showVars>>

\* The variable that takes the length is not set when STATUS fails.
StartLength ==
  /\ starting = "length"
  /\ starting' = "volume"
  /\ ulTotalLength' \in IF "no length" \in happens THEN Lengths ELSE {length[newWave]}
  /\ UNCHANGED <<happens, iWave, newWave, deviceVars, ulPos, bPaused, timer, ulVolume, tick,
                 showVars>>

\* Mutant for VolumeIsTrue: the new device plays at full volume.
StartLoud ==
  /\ starting = "volume"
  /\ starting' = "play"
  /\ UNCHANGED <<happens, iWave, newWave, deviceVars, timeVars, ulVolume, tick, showVars>>

StartVolume ==
  /\ starting = "volume"
  /\ starting' = "play"
  /\ volume' = [volume EXCEPT ![newWave] = ulVolume]
  /\ UNCHANGED <<happens, iWave, newWave, length, at, timeVars, ulVolume, tick, showVars>>

StartPlays ==
  /\ starting = "play"
  /\ starting' = "publish"
  /\ timer' = TRUE
  /\ UNCHANGED <<happens, iWave, newWave, deviceVars, ulTotalLength, ulPos, bPaused, ulVolume,
                 tick, showVars>>

StartPublishes ==
  /\ starting = "publish"
  /\ starting' = "no"
  /\ iWave' = newWave /\ ulPos' = 0 /\ bPaused' = FALSE
  /\ shown' = IF usWhichDisplay = 2 THEN shown ELSE TimeText(usWhichDisplay, ulTotalLength, 0)
  /\ IF iWave = 0 THEN UNCHANGED deviceVars ELSE Forgotten(iWave)
  /\ UNCHANGED <<happens, newWave, ulTotalLength, timer, ulVolume, tick, slider,
                 bPosDragging, usWhichDisplay>>

\* Mutant for TimerMeansTrack: the timer is left running.
StopsLeavingTimer ==
  /\ iWave # 0 /\ starting = "no" /\ tick = FALSE
  /\ iWave' = 0 /\ ulPos' = 0 /\ slider' = 0 /\ shown' = 0
  /\ Forgotten(iWave)
  /\ UNCHANGED <<happens, startVars, ulTotalLength, bPaused, timer, ulVolume, tick,
                 bPosDragging, usWhichDisplay>>

Stops ==
  /\ iWave # 0 /\ starting = "no" /\ tick = FALSE
  /\ Stopped
  /\ Forgotten(iWave)
  /\ UNCHANGED <<happens, startVars, ulTotalLength, bPaused, ulVolume, tick,
                 bPosDragging, usWhichDisplay>>

\* cwPauseAudioFile.
Pauses ==
  /\ starting = "no"
  /\ bPaused' = ~bPaused
  /\ UNCHANGED <<happens, iWave, startVars, deviceVars, ulTotalLength, ulPos, timer, ulVolume,
                 tick, showVars>>

-----------------------------------------------------------------------------
(* The timer: two steps, for the play thread can write the length in between.  *)

TickCounts ==
  /\ timer /\ ~bPaused /\ tick = FALSE
  /\ ulPos' = Counted(ulPos, ulTotalLength)
  /\ tick' = TRUE
  /\ UNCHANGED <<happens, iWave, startVars, deviceVars, ulTotalLength, bPaused, timer, ulVolume,
                 showVars>>

TickShows ==
  /\ tick
  /\ tick' = FALSE
  /\ IF bPosDragging THEN UNCHANGED <<slider, shown>>
     ELSE /\ slider' = ArmPosition(ulPos, ulTotalLength)
          /\ shown' \in {TimeText(usWhichDisplay, ulTotalLength, ulPos)}
                          \cup (IF usWhichDisplay = 2 THEN {shown} ELSE {})
  /\ UNCHANGED <<happens, iWave, startVars, deviceVars, timeVars, ulVolume, bPosDragging,
                 usWhichDisplay>>

-----------------------------------------------------------------------------
(* The sliders and menus.                                                      *)

\* SLN_SLIDERTRACK: the display shows the time under the arm; ulPos stays.
DragTo(p) ==
  /\ tick = FALSE
  /\ bPosDragging' = TRUE /\ slider' = p
  /\ UNCHANGED <<happens, iWave, startVars, deviceVars, timeVars, ulVolume, tick,
                 usWhichDisplay, shown>>

\* SLN_CHANGE of the position slider, with cwSeekAudioFile.
DropAt(p) ==
  /\ tick = FALSE
  /\ iWave = 0 => "seek while silent" \in happens
  /\ LET pos == SeekPosition(p, ulTotalLength) IN
       /\ at' = IF iWave = 0 THEN at ELSE [at EXCEPT ![iWave] = pos]
       /\ ulPos' = Unsigned(Quotient(pos, Second))
  /\ timer' = TRUE /\ bPaused' = FALSE /\ bPosDragging' = FALSE /\ slider' = p
  /\ UNCHANGED <<happens, iWave, startVars, length, volume, ulTotalLength, ulVolume, tick,
                 usWhichDisplay, shown>>

\* The volume slider; the device of iWave is told, whichever that is.
MoveVolume(v) ==
  /\ starting # "no" => "volume during a start" \in happens
  /\ ulVolume' = v
  /\ volume' = IF iWave = 0 THEN volume ELSE [volume EXCEPT ![iWave] = v]
  /\ UNCHANGED <<happens, iWave, startVars, length, at, timeVars, tick, showVars>>

\* wpSetup: MEDIAFLDRVOLUME, and MEDIAFLDRREPEAT, which sets the volume to 0 or 1.
Setup ==
  /\ "setup string" \in happens
  /\ \E v \in Volumes : ulVolume' = v
  /\ UNCHANGED <<happens, iWave, startVars, deviceVars, timeVars, tick, showVars>>

\* A click on the time, or its menu.
SwitchDisplay ==
  /\ tick = FALSE
  /\ \E d \in 0..2 :
       /\ usWhichDisplay' = d
       /\ shown' \in {TimeText(d, ulTotalLength, ulPos)} \cup (IF d = 2 THEN {shown} ELSE {})
  /\ UNCHANGED <<happens, iWave, startVars, deviceVars, timeVars, ulVolume, tick, slider,
                 bPosDragging>>

-----------------------------------------------------------------------------

Init ==
  /\ happens \in {h \in SUBSET Unusual : Cardinality(h) <= MaxUnusual}
  /\ iWave = 0 /\ starting = "no" /\ newWave = 1
  /\ length = [d \in Devices |-> 0] /\ at = [d \in Devices |-> 0]
  /\ ulVolume \in Volumes /\ volume = [d \in Devices |-> 0]
  /\ ulTotalLength = 0 /\ ulPos = 0 /\ bPaused = FALSE /\ timer = FALSE /\ tick = FALSE
  /\ slider = 0 /\ bPosDragging = FALSE /\ usWhichDisplay = 0 /\ shown = 0

Next ==
  \/ StartBegins \/ StartFails \/ StartLength \/ StartVolume \/ StartPlays \/ StartPublishes
  \/ Stops \/ Pauses
  \/ TickCounts \/ TickShows
  \/ \E p \in 0..Hundred : DragTo(p) \/ DropAt(p)
  \/ \E v \in Volumes : MoveVolume(v)
  \/ Setup \/ SwitchDisplay

Spec == Init /\ [][Next]_vars

-----------------------------------------------------------------------------

\* Types of the variables.
TypeOK ==
  /\ happens \subseteq Unusual
  /\ iWave \in {0} \cup Devices /\ newWave \in Devices
  /\ starting \in {"no", "length", "volume", "play", "publish"}
  /\ length \in [Devices -> Lengths \cup {0}]
  /\ volume \in [Devices -> Volumes] /\ ulVolume \in Volumes
  /\ at \in [Devices -> Int]
  /\ ulTotalLength \in Lengths \cup {0} /\ {ulPos, slider, shown} \subseteq 0..Word-1
  /\ {bPaused, timer, tick, bPosDragging} \subseteq BOOLEAN
  /\ usWhichDisplay \in 0..2

\* While a track plays, ulTotalLength is its length.
LengthIsTrue ==
  (iWave # 0 /\ starting = "no" /\ Usual({"play over", "no length"}))
    => ulTotalLength = length[iWave]

\* The track that plays has the volume that the folder has, and that its slider shows.
VolumeIsTrue ==
  (iWave # 0 /\ starting = "no" /\ Usual({"volume during a start", "setup string"}))
    => volume[iWave] = ulVolume

\* Wherever the arm is dropped, the device is sent to a place inside its track.
SeekInTrack ==
  (iWave # 0 /\ Usual({"play over", "no length", "long track"})) => at[iWave] \in 0..length[iWave]

\* The timer never sends the position slider beyond its end, and never shows more time
\* left than the track takes: the count and the length it is compared with, which
\* another thread sets, belong together.
DisplayInRange ==
  /\ Usual({"play over", "no length", "long track", "seek while silent"}) => slider <= Hundred
  /\ (usWhichDisplay = 1 /\ iWave # 0 /\ Usual({"play over", "no length", "long track"}))
       => shown <= ulTotalLength \div Second

\* The timer runs only while a track plays or is started ("The Timer will be stopped in
\* the method" is what the timer callback relies on when the device is gone).
TimerMeansTrack ==
  (timer /\ Usual({"seek while silent"})) => ~Silent
=============================================================================
