---------------------------- MODULE FolderLifecycle ----------------------------
(*******************************************************************************)
(* Opening and closing a media folder.  Each opening makes a frame window and  *)
(* starts a play thread; the thread makes an object window, through which the  *)
(* commands of the user reach it (hwndPlayObject), and lives until that window *)
(* is sent WM_QUIT.  Closing may have to ask the user first, and does not wait *)
(* for the answer for ever.                                                    *)
(*                                                                             *)
(* A folder that an M3U object made to play a list is freed a second after it  *)
(* has reported its end.                                                       *)
(*                                                                             *)
(* The commands themselves are MediaPlayer's subject; here a command either    *)
(* starts a track or does not, and takes its time.                             *)
(*******************************************************************************)
EXTENDS Naturals, Sequences, FiniteSets

CONSTANTS
  MaxOpens,    \* bound: how often the folder is opened
  MaxMail,     \* bound: commands that wait in the queue of a thread
  MaxHaste     \* bound: how many members of Impatience one user has

ASSUME LifecycleAssumption ==
  MaxOpens \in Nat \ {0} /\ MaxMail \in Nat \ {0} /\ MaxHaste \in Nat

\* What a user may do instead of waiting: close the folder before its thread is up,
\* open it again before the thread has gone, close it while a command is waiting or
\* under way, or not answer the question.
Impatience == {"close at once", "reopen at once", "close during a start", "leave the box"}

VARIABLES
  haste,       \* what this user does without waiting
  temporary,   \* the folder belongs to an M3U object
  frame,       \* hwndMFldrFrame, the frame of the n-th opening; 0 is NULLHANDLE
  windows,     \* the frame windows that exist
  player,      \* mfData->hwndPlayObject, the object window of the n-th thread
  thread,      \* the play threads, by opening
  mail,        \* their message queues
  playing,     \* iWave is not 0
  asking,      \* the frame whose message box is on the screen (MFLDR_SHOWING_MBOX), 0 if none
  timer,       \* the timer that closes the folder when nobody answers
  closes,      \* frames with a WM_CLOSE in the queue of the UI thread
  back,        \* the UI thread returns from a message box whose frame has gone
  uiQuit,      \* WM_QUIT has been posted to the UI thread itself
  ended        \* the handler window of the M3U object: "waits", "told", "timer", "freed"

uiVars == <<frame, windows, asking, timer, closes, back>>
threadVars == <<player, thread, mail>>
vars == <<haste, temporary, uiVars, threadVars, playing, uiQuit, ended>>

Opens == 1..MaxOpens
Waits(h) == h \notin haste
Patient(hs) == haste \cap hs = {}

HasWindow(n) == thread[n] \in {"ready", "busy"}
Over(n) == thread[n] \in {"none", "over"}

-----------------------------------------------------------------------------
(* Opening.                                                                    *)

\* wpOpen: "Only one open window for now"; a new frame, and last of all a thread for it.
Open ==
  /\ frame = 0 /\ ~back /\ ended = "waits"
  /\ Waits("reopen at once") => \A n \in Opens : Over(n)
  /\ \E n \in Opens :
       /\ thread[n] = "none" /\ \A m \in 1..n-1 : thread[m] # "none"
       /\ temporary => n = 1
       /\ frame' = n /\ windows' = windows \cup {n}
       /\ thread' = [thread EXCEPT ![n] = "starting"]
  /\ UNCHANGED <<haste, temporary, player, mail, playing, asking, timer, closes, back, uiQuit,
                 ended>>

-----------------------------------------------------------------------------
(* The play thread.                                                            *)

\* Mutant for UISurvives: the thread keeps the handle of its window to itself.
ThreadBeginsBlind(n) ==
  /\ thread[n] = "starting"
  /\ thread' = [thread EXCEPT ![n] = "ready"]
  /\ UNCHANGED <<haste, temporary, uiVars, player, mail, playing, uiQuit, ended>>

ThreadBegins(n) ==
  /\ thread[n] = "starting"
  /\ thread' = [thread EXCEPT ![n] = "ready"]
  /\ player' = n
  /\ UNCHANGED <<haste, temporary, uiVars, mail, playing, uiQuit, ended>>

\* A command in a frame that has gone does nothing.
ThreadTakes(n) ==
  /\ thread[n] = "ready" /\ mail[n] # <<>> /\ Head(mail[n]) = "play"
  /\ mail' = [mail EXCEPT ![n] = Tail(@)]
  /\ thread' = [thread EXCEPT ![n] = IF n \in windows THEN "busy" ELSE "ready"]
  /\ UNCHANGED <<haste, temporary, uiVars, player, playing, uiQuit, ended>>

\* The start of a track succeeds or fails; iWave is set at its end.
ThreadPlays(n) ==
  /\ thread[n] = "busy"
  /\ thread' = [thread EXCEPT ![n] = "ready"]
  /\ playing' \in {playing, TRUE}
  /\ UNCHANGED <<haste, temporary, uiVars, player, mail, uiQuit, ended>>

\* WM_QUIT: the window goes, and with it the messages that wait for it.
ThreadQuits(n) ==
  /\ thread[n] = "ready" /\ mail[n] # <<>> /\ Head(mail[n]) = "WM_QUIT"
  /\ mail' = [mail EXCEPT ![n] = <<>>]
  /\ thread' = [thread EXCEPT ![n] = "ending"]
  /\ UNCHANGED <<haste, temporary, uiVars, player, playing, uiQuit, ended>>

ThreadEnds(n) ==
  /\ thread[n] = "ending"
  /\ thread' = [thread EXCEPT ![n] = "over"]
  /\ player' = 0
  /\ UNCHANGED <<haste, temporary, uiVars, mail, playing, uiQuit, ended>>

ThreadStep(n) ==
  ThreadBegins(n) \/ ThreadTakes(n) \/ ThreadPlays(n) \/ ThreadQuits(n) \/ ThreadEnds(n)

\* The last track ends, or cannot be followed by another.
TrackEnds ==
  /\ playing
  /\ playing' = FALSE
  /\ UNCHANGED <<haste, temporary, uiVars, threadVars, uiQuit, ended>>

-----------------------------------------------------------------------------
(* The user and the UI thread.                                                 *)

\* A command of the user is handled after the messages posted before it.
Idle == frame \in windows /\ asking = 0 /\ ~back /\ closes = {}

\* callMediaFolderMethod.  A message without a window goes to the UI thread's own
\* queue and is not for anybody; one for a window that has gone is lost.
UserPlays ==
  /\ Idle
  /\ IF player # 0 /\ HasWindow(player)
     THEN /\ Len(mail[player]) < MaxMail
          /\ mail' = [mail EXCEPT ![player] = Append(@, "play")]
     ELSE UNCHANGED mail
  /\ UNCHANGED <<haste, temporary, uiVars, player, thread, playing, uiQuit, ended>>

UserCloses ==
  /\ Idle
  /\ Waits("close at once") => thread[frame] # "starting"
  /\ Waits("close during a start") =>
       \A n \in Opens : thread[n] # "busy" /\ (Over(n) \/ mail[n] = <<>>)
  /\ closes' = closes \cup {frame}
  /\ UNCHANGED <<haste, temporary, frame, windows, threadVars, playing, asking, timer, back,
                 uiQuit, ended>>

\* Mutant for ClosedIsSilent: the folder is closed and its track left alone.
StopsOnlyThread ==
  /\ mail' = IF player # 0 /\ HasWindow(player)
             THEN [mail EXCEPT ![player] = Append(@, "WM_QUIT")] ELSE mail
  /\ uiQuit' = (uiQuit \/ player = 0)
  /\ frame' = 0
  /\ ended' = IF temporary /\ ended # "freed" THEN "told" ELSE ended
  /\ UNCHANGED <<player, thread, playing>>

\* Mutant for ThreadsEnd and FolderOutlivesThread: the thread is not told.
StopsOnlyTrack ==
  /\ playing' = FALSE
  /\ frame' = 0
  /\ ended' = IF temporary /\ ended # "freed" THEN "told" ELSE ended
  /\ UNCHANGED <<player, thread, mail, uiQuit>>

\* What cwClose does when the folder is to go.
StopsThread ==
  /\ playing' = FALSE
  /\ mail' = IF player # 0 /\ HasWindow(player)
             THEN [mail EXCEPT ![player] = Append(@, "WM_QUIT")] ELSE mail
  /\ uiQuit' = (uiQuit \/ player = 0)
  /\ frame' = 0
  /\ ended' = IF temporary /\ ended # "freed" THEN "told" ELSE ended
  /\ UNCHANGED <<player, thread>>

\* WM_CLOSE while nothing plays, or while the question is on the screen already: the
\* box goes with its frame.
CloseFolder(w) ==
  /\ w \in closes /\ ~back /\ (~playing \/ asking # 0)
  /\ StopsThread
  /\ windows' = windows \ {w} /\ closes' = closes \ {w}
  /\ back' = (asking = w)
  /\ asking' = 0 /\ timer' = FALSE
  /\ UNCHANGED <<haste, temporary>>

CloseAsks(w) ==
  /\ w \in closes /\ ~back /\ playing /\ asking = 0
  /\ asking' = w /\ timer' = TRUE /\ closes' = closes \ {w}
  /\ UNCHANGED <<haste, temporary, frame, windows, threadVars, playing, back, uiQuit, ended>>

AnswerNo ==
  /\ asking # 0
  /\ asking' = 0 /\ timer' = FALSE
  /\ UNCHANGED <<haste, temporary, frame, windows, threadVars, playing, closes, back, uiQuit,
                 ended>>

AnswerYes ==
  /\ asking # 0
  /\ StopsThread
  /\ windows' = windows \ {asking} /\ closes' = closes \ {asking}
  /\ asking' = 0 /\ timer' = FALSE
  /\ UNCHANGED <<haste, temporary, back>>

\* WM_TIMER: the system forces the closing.
TimerFires ==
  /\ timer
  /\ "leave the box" \in haste
  /\ timer' = FALSE
  /\ closes' = closes \cup {asking}
  /\ UNCHANGED <<haste, temporary, frame, windows, threadVars, playing, asking, back, uiQuit,
                 ended>>

\* The first cwClose goes on where its message box has ended.
ComesBack ==
  /\ back
  /\ StopsThread
  /\ back' = FALSE
  /\ UNCHANGED <<haste, temporary, windows, asking, timer, closes>>

\* The handler window of the M3U object.
EndNotified ==
  /\ ended = "told" /\ ~back
  /\ ended' = "timer"
  /\ UNCHANGED <<haste, temporary, uiVars, threadVars, playing, uiQuit>>

\* A second is enough for a thread that has only to end.
FolderFreed ==
  /\ ended = "timer" /\ ~back
  /\ \A n \in Opens : thread[n] # "ending" /\ ~(thread[n] = "ready" /\ mail[n] # <<>>)
  /\ ended' = "freed"
  /\ UNCHANGED <<haste, temporary, uiVars, threadVars, playing, uiQuit>>

-----------------------------------------------------------------------------

Init ==
  /\ haste \in {h \in SUBSET Impatience : Cardinality(h) <= MaxHaste}
  /\ temporary \in BOOLEAN
  /\ frame = 0 /\ windows = {} /\ player = 0
  /\ thread = [n \in Opens |-> "none"] /\ mail = [n \in Opens |-> <<>>]
  /\ playing = FALSE /\ asking = 0 /\ timer = FALSE /\ closes = {} /\ back = FALSE
  /\ uiQuit = FALSE /\ ended = "waits"

UIStep ==
  \/ \E w \in Opens : CloseFolder(w) \/ CloseAsks(w)
  \/ TimerFires \/ ComesBack

Next ==
  \/ Open
  \/ \E n \in Opens : ThreadStep(n)
  \/ TrackEnds
  \/ UserPlays \/ UserCloses \/ AnswerNo \/ AnswerYes
  \/ UIStep
  \/ EndNotified \/ FolderFreed

Spec == Init /\ [][Next]_vars

FairSpec == Spec /\ (\A n \in Opens : WF_vars(ThreadStep(n))) /\ WF_vars(UIStep)

-----------------------------------------------------------------------------

\* Types of the variables.
TypeOK ==
  /\ haste \subseteq Impatience
  /\ {temporary, playing, timer, back, uiQuit} \subseteq BOOLEAN
  /\ {frame, player, asking} \subseteq 0..MaxOpens
  /\ windows \subseteq Opens /\ closes \subseteq windows
  /\ thread \in [Opens -> {"none", "starting", "ready", "busy", "ending", "over"}]
  /\ mail \in [Opens -> Seq({"play", "WM_QUIT"})]
  /\ ended \in {"waits", "told", "timer", "freed"}

\* "Every folder has one running play thread to handle play commands": the commands of
\* an open folder reach the thread that was started for it.
OnePlayThread ==
  (/\ Patient({"reopen at once"})
   /\ frame # 0 /\ HasWindow(frame)) => player = frame

\* Closing a folder never posts WM_QUIT to the thread of the user interface.
UISurvives == Patient({"close at once", "reopen at once", "leave the box"}) => ~uiQuit

\* A folder that is closed does not play.
ClosedIsSilent == (frame = 0 /\ Patient({"close during a start"})) => ~playing

\* A folder is not freed before its threads have ended.
FolderOutlivesThread ==
  (ended = "freed" /\ Patient({"close at once", "close during a start"}))
    => \A n \in Opens : Over(n)

\* "Stop the playing thread": the thread of a folder that has been closed ends.
ThreadsEnd ==
  \A n \in Opens :
    (thread[n] # "none" /\ n \notin windows /\ Patient({"close at once", "reopen at once"}))
      ~> thread[n] = "over"
=============================================================================
