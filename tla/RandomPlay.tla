------------------------------ MODULE RandomPlay ------------------------------
(******************************************************************************)
(* The random order of a media folder (FLAG_RANDOM): every play command, on   *)
(* the play thread, and every tick of the play timer behind the end of a      *)
(* track, on the UI thread, runs cwPlayRandomAudioFile.  A round draws the    *)
(* positions of the container, each at most once, and keeps the ones it has   *)
(* drawn in pRandomArray, iNumToPlay and iNumPlayed, which both threads use   *)
(* without a lock.                                                            *)
(*                                                                            *)
(* A step is the code between two calls of PM, MMPM/2 or the heap.            *)
(******************************************************************************)
EXTENDS Integers, Sequences, FiniteSets

CONSTANTS
  Records,
  Audio,       \* the records that resolve to an MMAudio or MMMIDI object
  Silent,      \* those of them whose device cannot be opened or started
  MaxObjects,  \* MAX_RANDOM_OBJECTS
  Unlucky,     \* may MaxObjects draws in a row all hit positions drawn before?
  Changes,     \* what the user changes besides pressing play, stop and repeat
  Nothing

ASSUME RandomAssumption ==
  /\ IsFiniteSet(Records) /\ Nothing \notin Records
  /\ Audio \subseteq Records /\ Silent \subseteq Audio
  /\ MaxObjects \in Nat \ {0}
  /\ Unlucky \in BOOLEAN
  /\ Changes \subseteq {"delete", "insert", "inorder"}

VARIABLES
  cnr,      \* the container, in item order
  playing,  \* the record that plays (iWave # 0), or Nothing
  ended,    \* its device has reached the end
  repeat,   \* FLAG_REPEAT
  array,    \* pRandomArray: what it points to and the positions marked there
  toPlay,   \* iNumToPlay
  played,   \* iNumPlayed
  pc,       \* where each thread is
  ret,      \* where its cwStopAudioFile returns to
  drawn,    \* iTrack, the position it has drawn
  track,    \* the record whose file it starts
  aside,    \* pByte, the array it has put aside
  chosen,   \* history: the records this round has found to play, while calm
  calm,     \* history: in this round the contents have not changed, the draws
            \* have not been unlucky and the threads have not crossed
  crossed   \* history: a thread has touched the round while the other used it

contents == <<cnr, playing, ended, repeat>>
round == <<array, toPlay, played>>
locals == <<drawn, track, aside>>
history == <<chosen, calm, crossed>>
vars == <<contents, round, pc, ret, locals, history>>

UI == "ui"
Play == "play"
Threads == {UI, Play}
Other(t) == IF t = UI THEN Play ELSE UI

Arrays == [state : {"null", "live", "freed"}, marked : SUBSET (1..MaxObjects)]
NoArray == [state |-> "null", marked |-> {}]

StopSteps == {"stop", "clear", "silence"}
Steps == {"idle", "over", "test", "fill", "draw", "look", "aside", "restore", "start", "dead"}
           \cup StopSteps
Returns == {"idle", "over", "quit", "restore"}

TypeOK ==
  /\ cnr \in Seq(Records) /\ \A i, j \in DOMAIN cnr : cnr[i] = cnr[j] => i = j
  /\ playing \in Records \cup {Nothing}
  /\ ended \in BOOLEAN /\ repeat \in BOOLEAN
  /\ array \in Arrays /\ toPlay \in 0..MaxObjects /\ played \in 0..MaxObjects
  /\ pc \in [Threads -> Steps] /\ ret \in [Threads -> Returns]
  /\ drawn \in [Threads -> 0..MaxObjects]
  /\ track \in [Threads -> Records \cup {Nothing}]
  /\ aside \in [Threads -> Arrays]
  /\ chosen \subseteq Records /\ calm \in BOOLEAN /\ crossed \in BOOLEAN

Here == {cnr[i] : i \in DOMAIN cnr}

\* The records before and behind the i-th.
Without(s, i) == [k \in 1..Len(s)-1 |-> IF k < i THEN s[k] ELSE s[k+1]]

-----------------------------------------------------------------------------
Goto(t, l) == pc' = [pc EXCEPT ![t] = l] /\ UNCHANGED ret
CallStop(t, back) == pc' = [pc EXCEPT ![t] = "stop"] /\ ret' = [ret EXCEPT ![t] = back]
Return(t) ==
  /\ pc' = [pc EXCEPT ![t] = IF ret[t] = "quit" THEN "idle" ELSE ret[t]]
  /\ ret' = [ret EXCEPT ![t] = "idle"]

\* A message sent from the play thread is answered by the UI thread from its
\* message loop; the UI thread calls its own windows directly.
CanSend(t) == t = UI \/ pc[UI] = "idle"

\* A thread that acts on what it has seen of the round.
Using(t) ==
  \/ pc[t] \in {"fill", "draw", "look", "aside", "restore", "start", "clear"}
  \/ pc[t] \in {"stop", "silence"} /\ ret[t] # "idle"

Watch(lucky, clash) ==
  /\ crossed' = (crossed \/ clash)
  /\ calm' = (calm /\ lucky /\ ~clash)
  /\ chosen' = IF calm' THEN chosen ELSE {}

\* A step that acts on the round.  The test for the last track and the count of
\* a track that has been started are none: they disturb nobody.
Touches(t) == Watch(TRUE, Using(Other(t)))

-----------------------------------------------------------------------------
(* cwStopAudioFile                                                          *)

\* Nothing plays: only messages are sent.
NothingToStop(t) ==
  /\ pc[t] = "stop" /\ playing = Nothing /\ CanSend(t)
  /\ Return(t)
  /\ UNCHANGED <<contents, round, locals, history>>

NoRoundToFree(t) ==
  /\ pc[t] = "stop" /\ playing # Nothing /\ array.state = "null"
  /\ Goto(t, "silence")
  /\ UNCHANGED <<contents, round, locals, history>>

\* wpFreeMem; the pointer is still there.
FreeArray(t) ==
  /\ pc[t] = "stop" /\ playing # Nothing /\ array.state # "null"
  /\ array' = [array EXCEPT !.state = "freed"]
  /\ Goto(t, "clear") /\ Touches(t)
  /\ UNCHANGED <<contents, toPlay, played, locals>>

\* The heap traps over the array freed twice; cwStopAudioFile catches it.
FreedTwice(t) ==
  /\ pc[t] = "stop" /\ playing # Nothing /\ array.state = "freed"
  /\ Return(t) /\ Touches(t)
  /\ UNCHANGED <<contents, round, locals>>

ClearRound(t) ==
  /\ pc[t] = "clear"
  /\ array' = NoArray /\ toPlay' = 0 /\ played' = 0
  /\ Goto(t, "silence") /\ Touches(t)
  /\ UNCHANGED <<contents, locals>>

\* The device is closed, the display reset, the record deselected.
Silence(t) ==
  /\ pc[t] = "silence" /\ CanSend(t)
  /\ playing' = Nothing /\ ended' = FALSE
  /\ Return(t)
  /\ UNCHANGED <<cnr, repeat, round, locals, history>>

StopStep(t) ==
  \/ NothingToStop(t) \/ NoRoundToFree(t) \/ FreeArray(t) \/ FreedTwice(t)
  \/ ClearRound(t) \/ Silence(t)

-----------------------------------------------------------------------------
(* cwPlayRandomAudioFile                                                    *)

\* "Check if we currently play the last track."
LastTrackTooEarly == array.state # "null" /\ played + 1 >= toPlay  \* mutant
LastTrack == array.state # "null" /\ played >= toPlay

PlayRandom(t) ==
  /\ pc[t] = "idle"
  /\ IF LastTrack THEN CallStop(t, "over") ELSE Goto(t, "test")
  /\ UNCHANGED <<contents, round, locals, history>>

RoundOver(t) ==
  /\ pc[t] = "over"
  /\ Goto(t, IF repeat THEN "test" ELSE "idle")
  /\ UNCHANGED <<contents, round, locals, history>>

TestArray(t) ==
  /\ pc[t] = "test"
  /\ Goto(t, IF array.state = "null" THEN "fill" ELSE "draw") /\ Touches(t)
  /\ UNCHANGED <<contents, round, locals>>

EmptyFolder(t) ==
  /\ pc[t] = "fill" /\ CanSend(t) /\ cnr = <<>>
  /\ Goto(t, "idle")
  /\ UNCHANGED <<contents, round, locals, history>>

NewRound(t) ==
  /\ pc[t] = "fill" /\ CanSend(t) /\ cnr # <<>>
  /\ array' = [state |-> "live", marked |-> {}]
  /\ toPlay' = IF Len(cnr) < MaxObjects THEN Len(cnr) ELSE MaxObjects
  /\ played' = 0
  /\ Goto(t, "draw")
  /\ chosen' = {} /\ crossed' = Using(Other(t)) /\ calm' = ~crossed'
  /\ UNCHANGED <<contents, locals>>

\* _getRandomTrack: the range, and the positions a draw may find unmarked.  An
\* array that has been freed may hold anything.
CanDraw == array.state # "null" /\ toPlay # 0
Free == (1..toPlay) \ (IF array.state = "freed" THEN {} ELSE array.marked)

MarkingLost(i) == array  \* mutant
Marking(i) == [array EXCEPT !.marked = @ \cup {i}]

DrawTrack(t) ==
  /\ pc[t] = "draw" /\ CanDraw
  /\ \E i \in Free : array' = Marking(i) /\ drawn' = [drawn EXCEPT ![t] = i]
  /\ Goto(t, "look") /\ Touches(t)
  /\ UNCHANGED <<contents, toPlay, played, track, aside>>

\* -1: every position is marked, or MaxObjects draws in a row have all hit
\* positions that are.
NoTrackLeft(t) ==
  /\ pc[t] = "draw" /\ CanDraw
  /\ \/ Free = {}
     \/ Unlucky /\ array.marked # {}
     \/ array.state = "freed"
  /\ CallStop(t, "quit") /\ Watch(Free = {}, Using(Other(t)))
  /\ UNCHANGED <<contents, round, locals>>

\* rand() % 0, or no array there.  playObjectProc catches the trap; on the UI
\* thread nothing does, and both threads end.
TrapInDraw(t) ==
  /\ pc[t] = "draw"
  /\ ~CanDraw \/ array.state = "freed"
  /\ pc' = [u \in Threads |-> IF t = UI THEN "dead" ELSE IF u = t THEN "idle" ELSE pc[u]]
  /\ UNCHANGED <<contents, round, ret, locals, history>>

\* The record on that position is looked for, ...
NoRecord(t) ==
  /\ pc[t] = "look" /\ CanSend(t) /\ drawn[t] > Len(cnr)
  /\ drawn' = [drawn EXCEPT ![t] = 0]
  /\ CallStop(t, "quit")
  /\ UNCHANGED <<contents, round, track, aside, history>>

NotPlayable(t) ==
  /\ pc[t] = "look" /\ CanSend(t)
  /\ drawn[t] <= Len(cnr) /\ cnr[drawn[t]] \notin Audio
  /\ drawn' = [drawn EXCEPT ![t] = 0]
  /\ Goto(t, "draw")
  /\ UNCHANGED <<contents, round, track, aside, history>>

FoundTrack(t) ==
  /\ pc[t] = "look" /\ CanSend(t)
  /\ drawn[t] <= Len(cnr) /\ cnr[drawn[t]] \in Audio
  /\ track' = [track EXCEPT ![t] = cnr[drawn[t]]]
  /\ drawn' = [drawn EXCEPT ![t] = 0]
  /\ chosen' = IF calm THEN chosen \cup {cnr[drawn[t]]} ELSE {}
  /\ Goto(t, "aside")
  /\ UNCHANGED <<contents, round, aside, calm, crossed>>

\* ... "prevent stop method from deleting our vars", ...
LeftThere == array  \* mutant
Hidden == NoArray

PutAside(t) ==
  /\ pc[t] = "aside"
  /\ aside' = [aside EXCEPT ![t] = array]
  /\ array' = Hidden
  /\ CallStop(t, "restore") /\ Touches(t)
  /\ UNCHANGED <<contents, toPlay, played, drawn, track>>

RestoreArray(t) ==
  /\ pc[t] = "restore"
  /\ array' = aside[t] /\ aside' = [aside EXCEPT ![t] = NoArray]
  /\ Goto(t, "start") /\ Touches(t)
  /\ UNCHANGED <<contents, toPlay, played, drawn, track>>

\* ... and its file started; only a track that sounds is counted.
StartFails(t) ==
  /\ pc[t] = "start" /\ track[t] \in Silent
  /\ track' = [track EXCEPT ![t] = Nothing]
  /\ Goto(t, "idle")
  /\ UNCHANGED <<contents, round, drawn, aside, history>>

\* A count of more than MaxObjects compares like MaxObjects.
CountedUp == IF played < MaxObjects THEN played + 1 ELSE played

StartTrack(t) ==
  /\ pc[t] = "start" /\ track[t] \notin Silent /\ CanSend(t)
  /\ playing' = track[t] /\ ended' = FALSE /\ played' = CountedUp
  /\ track' = [track EXCEPT ![t] = Nothing]
  /\ Goto(t, "idle")
  /\ UNCHANGED <<cnr, repeat, array, toPlay, drawn, aside, history>>

PlayStep(t) ==
  \/ RoundOver(t) \/ TestArray(t) \/ EmptyFolder(t) \/ NewRound(t)
  \/ DrawTrack(t) \/ NoTrackLeft(t) \/ TrapInDraw(t)
  \/ NoRecord(t) \/ NotPlayable(t) \/ FoundTrack(t)
  \/ PutAside(t) \/ RestoreArray(t) \/ StartFails(t) \/ StartTrack(t)

-----------------------------------------------------------------------------
(* What begins a handler, and what the user changes.                        *)

\* The buttons play, next and previous all end up in the random player.
Press == PlayRandom(Play)

\* cwPlayTimeCallback finds the device stopped.
Tick == playing # Nothing /\ ended /\ PlayRandom(UI)

\* The button stop, on the play thread, and a tick that finds MCI failing.
Stop(t) ==
  /\ pc[t] = "idle" /\ (t = UI => playing # Nothing)
  /\ CallStop(t, "idle")
  /\ UNCHANGED <<contents, round, locals, history>>

TrackEnds ==
  /\ playing # Nothing /\ ~ended
  /\ ended' = TRUE
  /\ UNCHANGED <<cnr, playing, repeat, round, pc, ret, locals, history>>

ToggleRepeat ==
  /\ pc[UI] = "idle"
  /\ repeat' = ~repeat
  /\ UNCHANGED <<cnr, playing, ended, round, pc, ret, locals, history>>

\* The user turns the random order off, starts a track, waits until it plays,
\* and turns the random order on again.
PlayInOrder(r) ==
  /\ "inorder" \in Changes /\ r \in Here \cap (Audio \ Silent)
  /\ \A t \in Threads : pc[t] = "idle"
  /\ playing' = r /\ ended' = FALSE
  /\ IF playing # Nothing /\ array.state # "null"
       THEN array' = NoArray /\ toPlay' = 0 /\ played' = 0
       ELSE UNCHANGED round
  /\ UNCHANGED <<cnr, repeat, pc, ret, locals, history>>

Delete(r) ==
  /\ "delete" \in Changes /\ pc[UI] = "idle"
  /\ \E i \in DOMAIN cnr : cnr[i] = r /\ cnr' = Without(cnr, i)
  /\ Watch(FALSE, FALSE)
  /\ UNCHANGED <<playing, ended, repeat, round, pc, ret, locals>>

Insert(r) ==
  /\ "insert" \in Changes /\ pc[UI] = "idle" /\ r \notin Here
  /\ cnr' = Append(cnr, r)
  /\ Watch(FALSE, FALSE)
  /\ UNCHANGED <<playing, ended, repeat, round, pc, ret, locals>>

Init ==
  /\ cnr \in {s \in [1..Cardinality(Records) -> Records] :
                \A i, j \in DOMAIN s : s[i] = s[j] => i = j}
  /\ playing = Nothing /\ ended = FALSE /\ repeat \in BOOLEAN
  /\ array = NoArray /\ toPlay = 0 /\ played = 0
  /\ pc = [t \in Threads |-> "idle"] /\ ret = [t \in Threads |-> "idle"]
  /\ drawn = [t \in Threads |-> 0] /\ track = [t \in Threads |-> Nothing]
  /\ aside = [t \in Threads |-> NoArray]
  /\ chosen = {} /\ calm = TRUE /\ crossed = FALSE

Next ==
  \/ Press \/ Tick \/ TrackEnds \/ ToggleRepeat
  \/ \E t \in Threads : Stop(t) \/ StopStep(t) \/ PlayStep(t)
  \/ \E r \in Records : PlayInOrder(r) \/ Delete(r) \/ Insert(r)

Spec == Init /\ [][Next]_vars

-----------------------------------------------------------------------------
\* rand() % iNumToPlay never divides by zero and never leaves the array, for a
\* thread about to draw in a round that no two threads have used at a time,
\* whatever happened in the rounds before and to the contents in this one: the
\* counters live exactly as long as the array, also across the stop in the
\* middle of cwPlayRandomAudioFile.
DrawIsDefined ==
  ~crossed => \A t \in Threads : pc[t] = "draw" =>
    /\ array.state = "live"
    /\ toPlay \in 1..MaxObjects
    /\ array.marked \subseteq 1..toPlay

\* In a round no track is chosen twice, as long as the folder's contents stay
\* and no two threads use the round at a time.
EveryTrackOnce ==
  [][calm => \A t \in Threads :
       track'[t] # track[t] => track'[t] \notin chosen]_vars

\* A round is given up by the random player, not by the button stop, only when
\* every track it covers (those on the first MaxObjects positions) has had its
\* turn, as long as the contents stay, the draws are not unlucky and no two
\* threads use the round at a time.
RoundIsComplete ==
  [][calm
       /\ (\E t \in Threads : pc[t] = "stop" /\ pc'[t] = "clear" /\ ret[t] # "idle")
     => \A i \in 1..toPlay : cnr[i] \in Audio => cnr[i] \in chosen]_vars
=============================================================================
