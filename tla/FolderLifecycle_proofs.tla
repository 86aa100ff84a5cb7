------------------------ MODULE FolderLifecycle_proofs ------------------------
(***************************************************************************)
(* Theorems about FolderLifecycle: for any number of openings and commands *)
(* and every kind of impatience, each theorem under the contract of its    *)
(* property.                                                               *)
(***************************************************************************)
EXTENDS FolderLifecycle, TLAPS

-----------------------------------------------------------------------------
(* The inductive invariant, in parts.                                      *)

\* There is one frame, that of frame; a message box belongs to it.
Frames ==
  /\ windows = IF frame = 0 THEN {} ELSE {frame}
  /\ asking \in {0, frame}
  /\ timer => asking # 0
  /\ back => frame = 0

\* A queue has messages only while its thread takes them; the thread of the frame has
\* not been told to quit.
Mails ==
  /\ \A n \in Opens : ~HasWindow(n) => mail[n] = <<>>
  /\ frame # 0 => /\ thread[frame] \in {"starting", "ready", "busy"}
                  /\ \A i \in 1..Len(mail[frame]) : mail[frame][i] # "WM_QUIT"

\* At most one thread at a time, and hwndPlayObject is its window.
OneThread ==
  Patient({"reopen at once"})
    => /\ \A m, n \in Opens : Over(m) \/ Over(n) \/ m = n
       /\ \A n \in Opens : HasWindow(n) => player = n

\* A folder is about to be closed.
Closing == closes # {} \/ asking # 0

Prompt == (Closing /\ Patient({"close at once"})) => thread[frame] # "starting"

\* Without the timer there is one way out of a message box.
OneBox == Patient({"leave the box"}) => ~back /\ (closes = {} \/ asking = 0)

\* Nothing is started any more.
Quiet ==
  Patient({"close during a start"})
    => /\ (Closing \/ frame = 0)
            => \A n \in Opens : /\ thread[n] # "busy"
                                /\ \A i \in 1..Len(mail[n]) : mail[n][i] = "WM_QUIT"
       /\ frame = 0 => ~playing

\* The folder of an M3U object has one thread; when it has been closed the thread has been
\* told.
Temporary ==
  /\ temporary => /\ \A n \in Opens : n = 1 \/ thread[n] = "none"
                  /\ \A n \in Opens : HasWindow(n) => player = n
                  /\ back => ended # "waits"
  /\ ended # "waits" => temporary /\ frame = 0
  /\ (ended # "waits" /\ Patient({"close at once", "close during a start"}))
       => \A n \in Opens : Over(n) \/ thread[n] = "ending" \/ (thread[n] = "ready" /\ mail[n] # <<>>)

LifeInv ==
  /\ TypeOK /\ Frames /\ Mails /\ OneThread /\ Prompt /\ OneBox /\ Quiet /\ Temporary
  /\ UISurvives /\ FolderOutlivesThread

-----------------------------------------------------------------------------
(* Steps.                                                                  *)

\* The first states satisfy the invariant.
LEMMA LifeInit == Init => LifeInv
<1> SUFFICES ASSUME Init PROVE LifeInv
  OBVIOUS
<1>1. haste \subseteq Impatience
  BY DEF Init
<1>2. /\ temporary \in BOOLEAN
      /\ frame = 0 /\ windows = {} /\ player = 0
      /\ thread = [n \in Opens |-> "none"] /\ mail = [n \in Opens |-> <<>>]
      /\ playing = FALSE /\ asking = 0 /\ timer = FALSE /\ closes = {} /\ back = FALSE
      /\ uiQuit = FALSE /\ ended = "waits"
  BY DEF Init
<1>3. {frame, player, asking} \subseteq 0..MaxOpens
  BY <1>2, LifecycleAssumption
<1>4. <<>> \in Seq({"play", "WM_QUIT"})
  OBVIOUS
<1>5. TypeOK
  BY <1>1, <1>2, <1>3, <1>4 DEF TypeOK
<1>6. Frames /\ Mails /\ OneThread /\ Prompt /\ OneBox /\ Temporary
  BY <1>2 DEF Frames, Mails, OneThread, Prompt, OneBox, Temporary, Closing, Over, HasWindow
<1>7. Quiet
  <2>1. \A n \in Opens : thread[n] # "busy" /\ Len(mail[n]) = 0
    BY <1>2
  <2>2. ~playing
    BY <1>2
  <2>3. \A n \in Opens : \A i \in 1..Len(mail[n]) : mail[n][i] = "WM_QUIT"
    BY <2>1
  <2> QED BY <2>1, <2>2, <2>3 DEF Quiet
<1>8. UISurvives /\ FolderOutlivesThread
  BY <1>2 DEF UISurvives, FolderOutlivesThread
<1> QED BY <1>5, <1>6, <1>7, <1>8 DEF LifeInv

\* What is about to be closed is the frame.
LEMMA ClosingFrame ==
  ASSUME LifeInv, Closing
  PROVE  frame \in Opens /\ windows = {frame} /\ closes \subseteq {frame}
BY DEF LifeInv, TypeOK, Frames, Closing

\* No contract changes.
LEMMA HasteStays == [Next]_vars => haste' = haste
BY DEF Next, vars, Open, ThreadStep, ThreadBegins, ThreadTakes, ThreadPlays, ThreadQuits,
       ThreadEnds, TrackEnds, UserPlays, UserCloses, AnswerNo, AnswerYes, UIStep, CloseFolder,
       CloseAsks, TimerFires, ComesBack, EndNotified, FolderFreed

LEMMA OpenKeeps == ASSUME LifeInv, Open PROVE LifeInv'
<1>1. PICK n \in Opens :
        /\ thread[n] = "none" /\ (temporary => n = 1)
        /\ frame' = n /\ windows' = windows \cup {n}
        /\ thread' = [thread EXCEPT ![n] = "starting"]
  BY DEF Open
<1>2. /\ frame = 0 /\ ~back /\ ended = "waits" /\ windows = {} /\ closes = {} /\ asking = 0
      /\ ~timer
  BY DEF Open, LifeInv, Frames, TypeOK
<1>3. Patient({"reopen at once"}) => \A m \in Opens : Over(m)
  BY DEF Open, Waits, Patient
<1>4. UNCHANGED <<haste, temporary, player, mail, playing, asking, timer, closes, back, uiQuit,
                  ended>>
  BY DEF Open
<1>5. n # 0 /\ n \in 0..MaxOpens
  BY LifecycleAssumption DEF Opens
<1>6. thread \in [Opens -> {"none", "starting", "ready", "busy", "ending", "over"}]
      /\ mail[n] = <<>>
  BY <1>1 DEF LifeInv, TypeOK, Mails, HasWindow
<1>7. TypeOK'
  BY <1>1, <1>2, <1>4, <1>5 DEF LifeInv, TypeOK
<1>8. Frames' /\ Mails'
  BY <1>1, <1>2, <1>4, <1>5, <1>6 DEF LifeInv, Frames, Mails, HasWindow
<1>9. OneThread'
  BY <1>1, <1>3, <1>4, <1>6 DEF LifeInv, OneThread, Patient, Over, HasWindow
<1>10. Prompt' /\ OneBox' /\ Quiet'
  BY <1>1, <1>2, <1>4, <1>5 DEF Prompt, OneBox, Quiet, Closing
<1>11. Temporary'
  BY <1>1, <1>2, <1>4, <1>6 DEF LifeInv, Temporary, HasWindow
<1>12. UISurvives' /\ FolderOutlivesThread'
  BY <1>2, <1>4 DEF LifeInv, UISurvives, FolderOutlivesThread, Patient
<1> QED BY <1>7, <1>8, <1>9, <1>10, <1>11, <1>12 DEF LifeInv

LEMMA BeginsKeeps == ASSUME LifeInv, NEW n \in Opens, ThreadBegins(n) PROVE LifeInv'
<1>1. /\ thread[n] = "starting" /\ thread' = [thread EXCEPT ![n] = "ready"] /\ player' = n
      /\ UNCHANGED <<haste, temporary, uiVars, mail, playing, uiQuit, ended>>
  BY DEF ThreadBegins
<1>2. UNCHANGED <<frame, windows, asking, timer, closes, back>>
  BY <1>1 DEF uiVars
<1>3. thread \in [Opens -> {"none", "starting", "ready", "busy", "ending", "over"}]
      /\ mail[n] = <<>> /\ n \in 0..MaxOpens
  BY <1>1, LifecycleAssumption DEF LifeInv, TypeOK, Mails, HasWindow, Opens
<1>4. TypeOK'
  BY <1>1, <1>2, <1>3 DEF LifeInv, TypeOK
<1>5. Frames' /\ Mails'
  BY <1>1, <1>2, <1>3 DEF LifeInv, Frames, Mails, HasWindow
<1>6. OneThread'
  BY <1>1, <1>3 DEF LifeInv, OneThread, Patient, Over, HasWindow
<1>7. Prompt' /\ OneBox'
  <2>1. Prompt'
    BY <1>1, <1>2, <1>3, ClosingFrame DEF LifeInv, Prompt, Closing, Patient, TypeOK
  <2>2. OneBox'
    BY <1>1, <1>2 DEF LifeInv, OneBox, Patient
  <2> QED BY <2>1, <2>2
<1>8. Quiet'
  BY <1>1, <1>2, <1>3 DEF LifeInv, Quiet, Closing, Patient
<1>9. Temporary'
  BY <1>1, <1>2, <1>3 DEF LifeInv, Temporary, HasWindow, Over, Patient
<1>10. UISurvives' /\ FolderOutlivesThread'
  BY <1>1, <1>2, <1>3 DEF LifeInv, UISurvives, FolderOutlivesThread, Patient, Over
<1> QED BY <1>4, <1>5, <1>6, <1>7, <1>8, <1>9, <1>10 DEF LifeInv

LEMMA TakesKeeps == ASSUME LifeInv, NEW n \in Opens, ThreadTakes(n) PROVE LifeInv'
<1>1. /\ thread[n] = "ready" /\ mail[n] # <<>> /\ Head(mail[n]) = "play"
      /\ mail' = [mail EXCEPT ![n] = Tail(mail[n])]
      /\ UNCHANGED <<haste, temporary, uiVars, player, playing, uiQuit, ended>>
  BY DEF ThreadTakes
<1>2. UNCHANGED <<frame, windows, asking, timer, closes, back>>
  BY <1>1 DEF uiVars
<1>3. PICK l \in {"busy", "ready"} : thread' = [thread EXCEPT ![n] = l]
  BY DEF ThreadTakes
<1>4. thread \in [Opens -> {"none", "starting", "ready", "busy", "ending", "over"}]
      /\ mail \in [Opens -> Seq({"play", "WM_QUIT"})]
  BY DEF LifeInv, TypeOK
<1>5. /\ mail[n] \in Seq({"play", "WM_QUIT"}) /\ Tail(mail[n]) \in Seq({"play", "WM_QUIT"})
      /\ mail[n][1] = "play" /\ 1 \in 1..Len(mail[n])
      /\ \A i \in 1..Len(Tail(mail[n])) :
            i+1 \in 1..Len(mail[n]) /\ Tail(mail[n])[i] = mail[n][i+1]
  BY <1>1, <1>4
<1>6. TypeOK'
  BY <1>1, <1>2, <1>3, <1>4, <1>5 DEF LifeInv, TypeOK
<1>7. Frames'
  BY <1>2 DEF LifeInv, Frames
<1>8. Mails'
  <2>1. \A m \in Opens : ~HasWindow(m)' => mail'[m] = <<>>
    BY <1>1, <1>3, <1>4 DEF LifeInv, Mails, HasWindow
  <2>2. ASSUME frame # 0
        PROVE  /\ thread'[frame] \in {"starting", "ready", "busy"}
               /\ \A i \in 1..Len(mail'[frame]) : mail'[frame][i] # "WM_QUIT"
    <3>1. /\ thread[frame] \in {"starting", "ready", "busy"}
          /\ \A i \in 1..Len(mail[frame]) : mail[frame][i] # "WM_QUIT"
          /\ frame \in Opens
      BY <2>2 DEF LifeInv, Mails, TypeOK, Frames
    <3>2. CASE frame = n
      BY <1>1, <1>3, <1>4, <1>5, <3>1, <3>2
    <3>3. CASE frame # n
      BY <1>1, <1>3, <1>4, <3>1, <3>3
    <3> QED BY <3>2, <3>3
  <2> QED BY <1>2, <2>1, <2>2 DEF Mails
<1>9. OneThread'
  BY <1>1, <1>3, <1>4 DEF LifeInv, OneThread, Patient, Over, HasWindow
<1>10. Prompt' /\ OneBox'
  <2>1. Prompt'
    BY <1>1, <1>2, <1>3, <1>4, ClosingFrame DEF LifeInv, Prompt, Closing, Patient
  <2>2. OneBox'
    BY <1>1, <1>2 DEF LifeInv, OneBox, Patient
  <2> QED BY <2>1, <2>2
<1>11. Quiet'
  <2>1. ASSUME Patient({"close during a start"}), Closing \/ frame = 0
        PROVE  FALSE
    BY <1>1, <1>5, <2>1 DEF LifeInv, Quiet
  <2>2. Patient({"close during a start"})' => ~(Closing' \/ frame' = 0)
    BY <1>1, <1>2, <2>1 DEF Patient, Closing
  <2> QED BY <2>2 DEF Quiet
<1>12. Temporary'
  <2>1. temporary' => /\ \A m \in Opens : m = 1 \/ thread'[m] = "none"
                      /\ \A m \in Opens : HasWindow(m)' => player' = m
                      /\ back' => ended' # "waits"
    BY <1>1, <1>2, <1>3, <1>4 DEF LifeInv, Temporary, HasWindow
  <2>2. ended' # "waits" => temporary' /\ frame' = 0
    BY <1>1, <1>2 DEF LifeInv, Temporary
  <2>3. ~(ended' # "waits" /\ Patient({"close at once", "close during a start"}))
    <3>1. SUFFICES ASSUME ended # "waits", Patient({"close at once", "close during a start"})
                   PROVE  FALSE
      BY <1>1 DEF Patient
    <3>2. Patient({"close during a start"}) /\ frame = 0
      BY <3>1 DEF Patient, LifeInv, Temporary
    <3> QED BY <1>1, <1>5, <3>2 DEF LifeInv, Quiet
  <2> QED BY <1>1, <2>1, <2>2, <2>3 DEF Temporary, Patient
<1>13. UISurvives' /\ FolderOutlivesThread'
  BY <1>1, <1>3, <1>4 DEF LifeInv, UISurvives, FolderOutlivesThread, Patient, Over
<1> QED BY <1>6, <1>7, <1>8, <1>9, <1>10, <1>11, <1>12, <1>13 DEF LifeInv

\* Only the state of a thread that has taken a command, and whether a track plays, change.
LEMMA PlaysKeeps == ASSUME LifeInv, NEW n \in Opens, ThreadPlays(n) PROVE LifeInv'
<1>1. /\ thread[n] = "busy" /\ thread' = [thread EXCEPT ![n] = "ready"]
      /\ playing' \in {playing, TRUE}
      /\ UNCHANGED <<haste, temporary, uiVars, player, mail, uiQuit, ended>>
  BY DEF ThreadPlays
<1>2. UNCHANGED <<frame, windows, asking, timer, closes, back>>
  BY <1>1 DEF uiVars
<1>3. thread \in [Opens -> {"none", "starting", "ready", "busy", "ending", "over"}]
  BY DEF LifeInv, TypeOK
<1>4. TypeOK'
  BY <1>1, <1>2, <1>3 DEF LifeInv, TypeOK
<1>5. Frames' /\ Mails'
  BY <1>1, <1>2, <1>3 DEF LifeInv, Frames, Mails, HasWindow
<1>6. OneThread'
  BY <1>1, <1>3 DEF LifeInv, OneThread, Patient, Over, HasWindow
<1>7. Prompt' /\ OneBox'
  <2>1. Prompt'
    BY <1>1, <1>2, <1>3, ClosingFrame DEF LifeInv, Prompt, Closing, Patient
  <2>2. OneBox'
    BY <1>1, <1>2 DEF LifeInv, OneBox, Patient
  <2> QED BY <2>1, <2>2
<1>8. Patient({"close during a start"}) => ~(Closing \/ frame = 0)
  BY <1>1 DEF LifeInv, Quiet
<1>9. Quiet'
  <2>1. Patient({"close during a start"})' => ~(Closing' \/ frame' = 0)
    BY <1>1, <1>2, <1>8 DEF Patient, Closing
  <2> QED BY <2>1 DEF Quiet
<1>10. Temporary'
  <2>1. ~(ended # "waits" /\ Patient({"close at once", "close during a start"}))
    BY <1>8 DEF LifeInv, Temporary, Patient
  <2> QED BY <1>1, <1>2, <1>3, <2>1 DEF LifeInv, Temporary, HasWindow, Patient
<1>11. UISurvives' /\ FolderOutlivesThread'
  BY <1>1, <1>3 DEF LifeInv, UISurvives, FolderOutlivesThread, Patient, Over
<1> QED BY <1>4, <1>5, <1>6, <1>7, <1>9, <1>10, <1>11 DEF LifeInv

\* A thread that is told to quit leaves its queue, and at last hwndPlayObject.
LEMMA QuitsKeeps ==
  ASSUME LifeInv, NEW n \in Opens, ThreadQuits(n) \/ ThreadEnds(n)
  PROVE  LifeInv'
<1>1. /\ UNCHANGED <<haste, temporary, uiVars, playing, uiQuit, ended>>
      /\ \/ /\ thread[n] = "ready" /\ mail[n] # <<>> /\ Head(mail[n]) = "WM_QUIT"
            /\ mail' = [mail EXCEPT ![n] = <<>>]
            /\ thread' = [thread EXCEPT ![n] = "ending"] /\ player' = player
         \/ /\ thread[n] = "ending"
            /\ thread' = [thread EXCEPT ![n] = "over"]
            /\ player' = 0 /\ mail' = mail
  BY DEF ThreadQuits, ThreadEnds, threadVars
<1>2. UNCHANGED <<frame, windows, asking, timer, closes, back>>
  BY <1>1 DEF uiVars
<1>3. thread \in [Opens -> {"none", "starting", "ready", "busy", "ending", "over"}]
      /\ mail \in [Opens -> Seq({"play", "WM_QUIT"})]
      /\ <<>> \in Seq({"play", "WM_QUIT"}) /\ Len(<<>>) = 0
  BY DEF LifeInv, TypeOK
<1>4. TypeOK'
  <2>1. player' \in 0..MaxOpens
    BY <1>1, LifecycleAssumption DEF LifeInv, TypeOK
  <2> QED BY <1>1, <1>2, <1>3, <2>1 DEF LifeInv, TypeOK
<1>5. Frames'
  BY <1>2 DEF LifeInv, Frames
<1>6. n # frame
  <2>1. SUFFICES ASSUME n = frame PROVE FALSE
    OBVIOUS
  <2>2. frame # 0
    BY <2>1, LifecycleAssumption DEF Opens
  <2>3. mail[n] # <<>> /\ mail[n] \in Seq({"play", "WM_QUIT"})
          => 1 \in 1..Len(mail[n]) /\ Head(mail[n]) = mail[n][1]
    OBVIOUS
  <2> QED BY <1>1, <1>3, <2>1, <2>2, <2>3 DEF LifeInv, Mails
<1>7. Mails'
  <2>1. \A m \in Opens : ~HasWindow(m)' => mail'[m] = <<>>
    BY <1>1, <1>3 DEF LifeInv, Mails, HasWindow
  <2>2. frame # 0 => frame \in Opens
    BY DEF LifeInv, TypeOK, Frames
  <2> QED BY <1>1, <1>2, <1>3, <1>6, <2>1, <2>2 DEF LifeInv, Mails
<1>8. OneThread'
  BY <1>1, <1>3 DEF LifeInv, OneThread, Patient, Over, HasWindow
<1>9. Prompt' /\ OneBox'
  <2>1. Prompt'
    BY <1>1, <1>2, <1>3, ClosingFrame DEF LifeInv, Prompt, Closing, Patient
  <2>2. OneBox'
    BY <1>1, <1>2 DEF LifeInv, OneBox, Patient
  <2> QED BY <2>1, <2>2
<1>10. Quiet'
  <2>1. \A m \in Opens : /\ thread[m] # "busy" => thread'[m] # "busy"
                         /\ mail'[m] = mail[m] \/ mail'[m] = <<>>
    BY <1>1, <1>3
  <2>2. \A m \in Opens : mail'[m] = <<>> => \A i \in 1..Len(mail'[m]) : FALSE
    OBVIOUS
  <2>3. \A m \in Opens : (\A i \in 1..Len(mail[m]) : mail[m][i] = "WM_QUIT")
                          => \A i \in 1..Len(mail'[m]) : mail'[m][i] = "WM_QUIT"
    BY <2>1, <2>2
  <2> QED BY <1>1, <1>2, <2>1, <2>3 DEF LifeInv, Quiet, Closing, Patient
<1>11. Temporary'
  BY <1>1, <1>2, <1>3 DEF LifeInv, Temporary, HasWindow, Over, Patient
<1>12. UISurvives' /\ FolderOutlivesThread'
  BY <1>1, <1>3 DEF LifeInv, UISurvives, FolderOutlivesThread, Patient, Over
<1> QED BY <1>4, <1>5, <1>7, <1>8, <1>9, <1>10, <1>11, <1>12 DEF LifeInv

\* A track that ends, and the answer No.
LEMMA EndsKeeps == ASSUME LifeInv, TrackEnds \/ AnswerNo PROVE LifeInv'
<1>1. /\ UNCHANGED <<haste, temporary, frame, windows, threadVars, closes, back, uiQuit, ended>>
      /\ playing' \in {FALSE, playing}
      /\ \/ asking' = 0 /\ timer' = FALSE
         \/ UNCHANGED <<asking, timer>>
  BY DEF TrackEnds, AnswerNo, uiVars
<1>2. UNCHANGED <<player, thread, mail>>
  BY <1>1 DEF threadVars
<1>3. 0 \in 0..MaxOpens
  BY LifecycleAssumption
<1>4. TypeOK'
  BY <1>1, <1>2, <1>3 DEF LifeInv, TypeOK
<1>5. Frames'
  BY <1>1 DEF LifeInv, Frames
<1>6. Mails' /\ OneThread'
  BY <1>1, <1>2 DEF LifeInv, Mails, OneThread, Patient, Over, HasWindow
<1>7. Closing' => Closing
  BY <1>1 DEF Closing
<1>8. Prompt' /\ OneBox'
  BY <1>1, <1>2, <1>7 DEF LifeInv, Prompt, OneBox, Patient
<1>9. Quiet'
  BY <1>1, <1>2, <1>7 DEF LifeInv, Quiet, Patient
<1>10. Temporary' /\ UISurvives' /\ FolderOutlivesThread'
  BY <1>1, <1>2 DEF LifeInv, Temporary, UISurvives, FolderOutlivesThread, Patient, HasWindow, Over
<1> QED BY <1>4, <1>5, <1>6, <1>8, <1>9, <1>10 DEF LifeInv

\* The user uses the folder.
LEMMA UserKeeps == ASSUME LifeInv, UserPlays \/ UserCloses PROVE LifeInv'
<1>1. frame # 0 /\ frame \in Opens /\ windows = {frame} /\ asking = 0 /\ ~back /\ closes = {}
  BY DEF UserPlays, UserCloses, Idle, LifeInv, TypeOK, Frames
<1>2. mail \in [Opens -> Seq({"play", "WM_QUIT"})]
      /\ thread \in [Opens -> {"none", "starting", "ready", "busy", "ending", "over"}]
  BY DEF LifeInv, TypeOK
<1>3. CASE UserPlays
  <2>1. /\ UNCHANGED <<haste, temporary, uiVars, player, thread, playing, uiQuit, ended>>
        /\ \/ UNCHANGED mail
           \/ player # 0 /\ HasWindow(player) /\ mail' = [mail EXCEPT ![player] = Append(mail[player], "play")]
    BY <1>3 DEF UserPlays
  <2>2. UNCHANGED <<frame, windows, asking, timer, closes, back>>
    BY <2>1 DEF uiVars
  <2>3. player # 0 => player \in Opens
    BY LifecycleAssumption DEF LifeInv, TypeOK, Opens
  <2>4. \A q \in Seq({"play", "WM_QUIT"}) :
          /\ Append(q, "play") \in Seq({"play", "WM_QUIT"}) /\ Append(q, "play") # <<>>
          /\ (\A i \in 1..Len(q) : q[i] # "WM_QUIT")
               => \A i \in 1..Len(Append(q, "play")) : Append(q, "play")[i] # "WM_QUIT"
    OBVIOUS
  <2>5. TypeOK'
    BY <1>2, <2>1, <2>2, <2>3, <2>4 DEF LifeInv, TypeOK
  <2>6. Frames' /\ OneThread' /\ Prompt' /\ OneBox'
    BY <2>1, <2>2 DEF LifeInv, Frames, OneThread, Prompt, OneBox, Closing, Patient, Over, HasWindow
  <2>7. Mails'
    <3>1. \A m \in Opens : ~HasWindow(m)' => mail'[m] = <<>>
      BY <1>2, <2>1, <2>3 DEF LifeInv, Mails, HasWindow
    <3>2. CASE mail'[frame] = mail[frame]
      BY <1>1, <2>1, <2>2, <3>1, <3>2 DEF LifeInv, Mails
    <3>3. CASE mail'[frame] = Append(mail[frame], "play")
      <4>1. \A i \in 1..Len(mail'[frame]) : mail'[frame][i] # "WM_QUIT"
        BY <1>1, <1>2, <2>4, <3>3 DEF LifeInv, Mails
      <4> QED BY <1>1, <2>1, <2>2, <3>1, <4>1 DEF LifeInv, Mails
    <3> QED BY <1>1, <1>2, <2>1, <2>3, <3>2, <3>3
  <2>8. Quiet'
    BY <1>1, <2>2 DEF Quiet, Closing
  <2>9. Temporary'
    BY <1>1, <2>1, <2>2 DEF LifeInv, Temporary, HasWindow, Patient
  <2>10. UISurvives' /\ FolderOutlivesThread'
    BY <2>1 DEF LifeInv, UISurvives, FolderOutlivesThread, Patient, Over
  <2> QED BY <2>5, <2>6, <2>7, <2>8, <2>9, <2>10 DEF LifeInv
<1>4. CASE UserCloses
  <2>1. /\ UNCHANGED <<haste, temporary, frame, windows, threadVars, playing, asking, timer, back,
                       uiQuit, ended>>
        /\ closes' = {frame}
        /\ Patient({"close at once"}) => thread[frame] # "starting"
        /\ Patient({"close during a start"})
             => \A n \in Opens : thread[n] # "busy" /\ (Over(n) \/ mail[n] = <<>>)
    BY <1>1, <1>4 DEF UserCloses, Waits, Patient
  <2>2. UNCHANGED <<player, thread, mail>>
    BY <2>1 DEF threadVars
  <2>3. TypeOK'
    BY <1>1, <2>1, <2>2 DEF LifeInv, TypeOK
  <2>4. Frames' /\ Mails' /\ OneThread'
    BY <2>1, <2>2 DEF LifeInv, Frames, Mails, OneThread, Patient, Over, HasWindow
  <2>5. Prompt' /\ OneBox'
    BY <1>1, <2>1, <2>2 DEF LifeInv, Prompt, OneBox, Patient
  <2>6. Quiet'
    <3>1. Patient({"close during a start"}) => \A n \in Opens : mail[n] = <<>> /\ thread[n] # "busy"
      BY <2>1 DEF LifeInv, Mails, Over, HasWindow
    <3>2. \A n \in Opens : mail[n] = <<>> => \A i \in 1..Len(mail[n]) : FALSE
      OBVIOUS
    <3> QED BY <1>1, <2>1, <2>2, <3>1, <3>2 DEF Quiet, Patient
  <2>7. Temporary' /\ UISurvives' /\ FolderOutlivesThread'
    BY <2>1, <2>2 DEF LifeInv, Temporary, UISurvives, FolderOutlivesThread, Patient, HasWindow, Over
  <2> QED BY <2>3, <2>4, <2>5, <2>6, <2>7 DEF LifeInv
<1> QED BY <1>3, <1>4

\* The thread of a frame that is about to be closed has its window.
LEMMA ClosingThread ==
  ASSUME LifeInv, Closing
  PROVE  /\ Patient({"close at once"}) => HasWindow(frame)
         /\ Patient({"close at once", "reopen at once", "leave the box"}) => player = frame
<1>1. frame \in Opens /\ frame # 0
  BY ClosingFrame, LifecycleAssumption DEF Opens
<1>2. thread[frame] \in {"starting", "ready", "busy"}
  BY <1>1 DEF LifeInv, Mails
<1>3. Patient({"close at once"}) => HasWindow(frame)
  BY <1>2 DEF LifeInv, Prompt, HasWindow
<1>4. Patient({"close at once", "reopen at once", "leave the box"})
        => Patient({"close at once"}) /\ Patient({"reopen at once"})
  BY DEF Patient
<1>5. Patient({"reopen at once"}) /\ HasWindow(frame) => player = frame
  BY <1>1 DEF LifeInv, OneThread
<1> QED BY <1>3, <1>4, <1>5

\* The numbers of the openings.
LEMMA OpensNumbers ==
  /\ 0 \in 0..MaxOpens
  /\ \A n \in Opens : n # 0
  /\ LifeInv => player = 0 \/ player \in Opens
BY LifecycleAssumption DEF Opens, LifeInv, TypeOK

\* A queue to which WM_QUIT is added.
LEMMA QuitAdded ==
  \A q \in Seq({"play", "WM_QUIT"}) :
    /\ Append(q, "WM_QUIT") \in Seq({"play", "WM_QUIT"}) /\ Append(q, "WM_QUIT") # <<>>
    /\ (\A i \in 1..Len(q) : q[i] = "WM_QUIT")
         => \A i \in 1..Len(Append(q, "WM_QUIT")) : Append(q, "WM_QUIT")[i] = "WM_QUIT"
OBVIOUS

\* Closing a frame, and the second time that cwClose is carried out for it.
LEMMA StopKeeps ==
  ASSUME LifeInv, StopsThread, Closing \/ back,
         UNCHANGED <<haste, temporary>>,
         windows' = {}, closes' = {}, asking' = 0, timer' = FALSE, back' \in BOOLEAN,
         Patient({"leave the box"}) => ~back'
  PROVE  LifeInv'
<1>1. /\ playing' = FALSE /\ frame' = 0 /\ uiQuit' = (uiQuit \/ player = 0)
      /\ ended' = (IF temporary /\ ended # "freed" THEN "told" ELSE ended)
      /\ UNCHANGED <<player, thread>>
      /\ \/ UNCHANGED mail /\ ~(player # 0 /\ HasWindow(player))
         \/ player # 0 /\ HasWindow(player) /\ mail' = [mail EXCEPT ![player] = Append(mail[player], "WM_QUIT")]
  BY DEF StopsThread
<1>2. player # 0 => player \in Opens
  BY OpensNumbers
<1>3. mail \in [Opens -> Seq({"play", "WM_QUIT"})]
      /\ thread \in [Opens -> {"none", "starting", "ready", "busy", "ending", "over"}]
  BY DEF LifeInv, TypeOK
<1>4. \A q \in Seq({"play", "WM_QUIT"}) :
        Append(q, "WM_QUIT") \in Seq({"play", "WM_QUIT"}) /\ Append(q, "WM_QUIT") # <<>>
  BY QuitAdded
<1>5. \A n \in Opens : \/ mail'[n] = mail[n]
                       \/ HasWindow(n) /\ mail'[n] = Append(mail[n], "WM_QUIT")
  BY <1>1, <1>2, <1>3
<1>6. TypeOK'
  <2>1. mail' \in [Opens -> Seq({"play", "WM_QUIT"})]
    BY <1>1, <1>2, <1>3, <1>4
  <2>2. 0 \in 0..MaxOpens
    BY OpensNumbers
  <2> QED BY <1>1, <2>1, <2>2 DEF LifeInv, TypeOK
<1>7. Frames'
  BY <1>1 DEF Frames
<1>8. Mails'
  BY <1>1, <1>5 DEF LifeInv, Mails, HasWindow
<1>9. OneThread'
  BY <1>1 DEF LifeInv, OneThread, Patient, Over, HasWindow
<1>10. ~Closing'
  BY DEF Closing
<1>11. Prompt' /\ OneBox'
  BY <1>10 DEF Prompt, OneBox, Patient
<1>12. Closing \/ frame = 0
  BY DEF LifeInv, Frames
<1>13. Quiet'
  <2>1. Patient({"close during a start"})
          => \A n \in Opens : /\ thread[n] # "busy"
                              /\ \A i \in 1..Len(mail[n]) : mail[n][i] = "WM_QUIT"
    BY <1>12 DEF LifeInv, Quiet
  <2>2. Patient({"close during a start"})
          => \A n \in Opens : \A i \in 1..Len(mail'[n]) : mail'[n][i] = "WM_QUIT"
    <3>1. SUFFICES ASSUME Patient({"close during a start"}), NEW n \in Opens
                   PROVE  \A i \in 1..Len(mail'[n]) : mail'[n][i] = "WM_QUIT"
      OBVIOUS
    <3>2. \A i \in 1..Len(mail[n]) : mail[n][i] = "WM_QUIT"
      BY <2>1, <3>1
    <3>3. mail[n] \in Seq({"play", "WM_QUIT"})
      BY <1>3
    <3>4. CASE mail'[n] = mail[n]
      BY <3>2, <3>4
    <3>5. CASE mail'[n] = Append(mail[n], "WM_QUIT")
      BY <3>2, <3>3, <3>5, QuitAdded
    <3> QED BY <1>5, <3>4, <3>5
  <2> QED BY <1>1, <2>1, <2>2 DEF Quiet, Patient
<1>14. Temporary'
  <2>1. temporary' => /\ \A n \in Opens : n = 1 \/ thread'[n] = "none"
                      /\ \A n \in Opens : HasWindow(n)' => player' = n
    BY <1>1 DEF LifeInv, Temporary, HasWindow
  <2>2. ended' # "waits" => temporary' /\ frame' = 0
    BY <1>1 DEF LifeInv, Temporary
  <2>3. temporary' => ended' # "waits"
    BY <1>1
  <2>4. ASSUME temporary, Patient({"close at once", "close during a start"}), NEW n \in Opens
        PROVE  Over(n) \/ thread[n] = "ending" \/ (thread[n] = "ready" /\ mail'[n] # <<>>)
    <3>1. mail[n] # <<>> => mail'[n] # <<>>
      BY <1>3, <1>4, <1>5
    <3>2. CASE ended # "waits"
      BY <2>4, <3>1, <3>2 DEF LifeInv, Temporary
    <3>3. CASE ended = "waits"
      <4>1. Closing
        BY <2>4, <3>3 DEF LifeInv, Temporary
      <4>2. Patient({"close at once"}) /\ Patient({"close during a start"})
        BY <2>4 DEF Patient
      <4>3. HasWindow(frame) /\ thread[frame] # "busy" /\ frame \in Opens
        BY <4>1, <4>2, ClosingThread, ClosingFrame DEF LifeInv, Quiet
      <4>4. player = frame /\ frame = 1
        BY <2>4, <4>3 DEF LifeInv, Temporary, HasWindow
      <4>5. thread[frame] = "ready" /\ mail'[frame] # <<>>
        <5>1. player # 0
          BY <4>3, <4>4, OpensNumbers
        <5>2. mail'[frame] = Append(mail[frame], "WM_QUIT")
          BY <1>1, <1>3, <4>3, <4>4, <5>1
        <5>3. mail[frame] \in Seq({"play", "WM_QUIT"})
          BY <1>3, <4>3
        <5> QED BY <1>4, <4>3, <5>2, <5>3 DEF HasWindow
      <4>6. n = frame \/ thread[n] = "none"
        BY <2>4, <4>4 DEF LifeInv, Temporary
      <4> QED BY <4>5, <4>6 DEF Over
    <3> QED BY <3>2, <3>3
  <2>5. ended' # "waits" => temporary
    BY <2>2
  <2> QED BY <1>1, <2>1, <2>2, <2>3, <2>4, <2>5 DEF Temporary, Patient, Over
<1>15. UISurvives'
  <2>1. SUFFICES ASSUME Patient({"close at once", "reopen at once", "leave the box"})
                 PROVE  ~uiQuit /\ player # 0
    BY <1>1 DEF UISurvives, Patient
  <2>2. ~back
    BY <2>1 DEF LifeInv, OneBox, Patient
  <2>3. player = frame /\ frame \in Opens
    BY <2>1, <2>2, ClosingThread, ClosingFrame
  <2>4. player # 0
    BY <2>3, OpensNumbers
  <2> QED BY <2>1, <2>4 DEF LifeInv, UISurvives
<1>16. FolderOutlivesThread'
  <2>1. ended' = "freed" => ended = "freed"
    BY <1>1
  <2> QED BY <1>1, <2>1 DEF LifeInv, FolderOutlivesThread, Patient, Over
<1> QED BY <1>6, <1>7, <1>8, <1>9, <1>11, <1>13, <1>14, <1>15, <1>16 DEF LifeInv

\* The three ways out: WM_CLOSE, the answer Yes, and the return from a box whose frame
\* has gone.
LEMMA ClosesKeeps ==
  ASSUME LifeInv, AnswerYes \/ ComesBack \/ \E w \in Opens : CloseFolder(w)
  PROVE  LifeInv'
<1>1. CASE AnswerYes
  <2>1. asking # 0 /\ StopsThread /\ windows' = windows \ {asking}
        /\ closes' = closes \ {asking} /\ asking' = 0 /\ timer' = FALSE
        /\ UNCHANGED <<haste, temporary, back>>
    BY <1>1 DEF AnswerYes
  <2>2. Closing
    BY <2>1 DEF Closing
  <2>3. asking = frame /\ ~back
    BY <2>1 DEF LifeInv, Frames
  <2>4. windows' = {} /\ closes' = {} /\ back' \in BOOLEAN
    BY <2>1, <2>2, <2>3, ClosingFrame DEF LifeInv, TypeOK
  <2> QED BY <2>1, <2>2, <2>3, <2>4, StopKeeps
<1>2. CASE ComesBack
  <2>1. back /\ StopsThread /\ back' = FALSE
        /\ UNCHANGED <<haste, temporary, windows, asking, timer, closes>>
    BY <1>2 DEF ComesBack
  <2>2. windows = {} /\ closes = {} /\ asking = 0 /\ timer = FALSE
    BY <2>1 DEF LifeInv, Frames, TypeOK
  <2> QED BY <2>1, <2>2, StopKeeps
<1>3. ASSUME NEW w \in Opens, CloseFolder(w)
      PROVE  LifeInv'
  <2>1. w \in closes /\ StopsThread /\ windows' = windows \ {w} /\ closes' = closes \ {w}
        /\ back' = (asking = w) /\ asking' = 0 /\ timer' = FALSE
        /\ UNCHANGED <<haste, temporary>>
    BY <1>3 DEF CloseFolder
  <2>2. Closing
    BY <2>1 DEF Closing
  <2>3. w = frame /\ windows' = {} /\ closes' = {}
    BY <2>1, <2>2, ClosingFrame
  <2>4. w # 0
    BY LifecycleAssumption DEF Opens
  <2>5. Patient({"leave the box"}) => ~back'
    BY <2>1, <2>4 DEF LifeInv, OneBox
  <2> QED BY <2>1, <2>2, <2>3, <2>5, StopKeeps
<1> QED BY <1>1, <1>2, <1>3

\* The question is asked, or its timer closes the folder.
LEMMA AsksKeeps ==
  ASSUME LifeInv, TimerFires \/ \E w \in Opens : CloseAsks(w)
  PROVE  LifeInv'
<1>1. /\ UNCHANGED <<haste, temporary, frame, windows, threadVars, playing, back, uiQuit, ended>>
      /\ asking' = frame /\ closes' \subseteq {frame} /\ timer' \in BOOLEAN
      /\ frame # 0 /\ Closing
      /\ Patient({"leave the box"}) => closes' = {}
  <2>1. CASE TimerFires
    <3>1. timer /\ asking # 0 /\ asking = frame
      BY <2>1 DEF TimerFires, LifeInv, Frames
    <3>2. Closing /\ ~Patient({"leave the box"})
      BY <2>1, <3>1 DEF TimerFires, Closing, Patient
    <3> QED BY <2>1, <3>1, <3>2, ClosingFrame DEF TimerFires
  <2>2. ASSUME NEW w \in Opens, CloseAsks(w)
        PROVE  <1>1!:
    <3>1. w \in closes /\ asking' = w /\ timer' = TRUE /\ closes' = closes \ {w}
          /\ UNCHANGED <<haste, temporary, frame, windows, threadVars, playing, back, uiQuit, ended>>
      BY <2>2 DEF CloseAsks
    <3>2. Closing
      BY <3>1 DEF Closing
    <3>3. w = frame /\ closes' = {}
      BY <3>1, <3>2, ClosingFrame
    <3>4. w # 0
      BY LifecycleAssumption DEF Opens
    <3> QED BY <3>1, <3>2, <3>3, <3>4
  <2> QED BY <2>1, <2>2
<1>2. UNCHANGED <<player, thread, mail>>
  BY <1>1 DEF threadVars
<1>3. frame \in Opens /\ windows = {frame} /\ ~back
  BY <1>1, ClosingFrame DEF LifeInv, Frames
<1>4. TypeOK'
  BY <1>1, <1>2, <1>3 DEF LifeInv, TypeOK
<1>5. Frames'
  BY <1>1, <1>3 DEF Frames
<1>6. Mails' /\ OneThread'
  BY <1>1, <1>2 DEF LifeInv, Mails, OneThread, Patient, Over, HasWindow
<1>7. Prompt' /\ OneBox'
  BY <1>1, <1>2, <1>3 DEF LifeInv, Prompt, OneBox, Patient
<1>8. Quiet'
  BY <1>1, <1>2 DEF LifeInv, Quiet, Patient
<1>9. Temporary'
  BY <1>1, <1>2 DEF LifeInv, Temporary, HasWindow, Over, Patient
<1>10. UISurvives' /\ FolderOutlivesThread'
  BY <1>1, <1>2 DEF LifeInv, UISurvives, FolderOutlivesThread, Patient, Over
<1> QED BY <1>4, <1>5, <1>6, <1>7, <1>8, <1>9, <1>10 DEF LifeInv

\* The handler window of the M3U object.
LEMMA HandlerKeeps == ASSUME LifeInv, EndNotified \/ FolderFreed PROVE LifeInv'
<1>1. /\ UNCHANGED <<haste, temporary, uiVars, threadVars, playing, uiQuit>>
      /\ ended # "waits" /\ ended' # "waits" /\ ended' \in {"timer", "freed"}
      /\ ended' = "freed"
           => \A n \in Opens : thread[n] # "ending" /\ ~(thread[n] = "ready" /\ mail[n] # <<>>)
  BY DEF EndNotified, FolderFreed
<1>2. UNCHANGED <<frame, windows, asking, timer, closes, back, player, thread, mail>>
  BY <1>1 DEF uiVars, threadVars
<1>3. TypeOK'
  BY <1>1, <1>2 DEF LifeInv, TypeOK
<1>4. Frames' /\ Mails' /\ OneThread'
  BY <1>1, <1>2 DEF LifeInv, Frames, Mails, OneThread, Patient, Over, HasWindow
<1>5. Prompt' /\ OneBox' /\ Quiet'
  BY <1>1, <1>2 DEF LifeInv, Prompt, OneBox, Quiet, Closing, Patient
<1>6. Temporary'
  BY <1>1, <1>2 DEF LifeInv, Temporary, HasWindow, Over, Patient
<1>7. UISurvives'
  BY <1>1 DEF LifeInv, UISurvives, Patient
<1>8. FolderOutlivesThread'
  BY <1>1, <1>2 DEF LifeInv, Temporary, FolderOutlivesThread, Patient, Over
<1> QED BY <1>3, <1>4, <1>5, <1>6, <1>7, <1>8 DEF LifeInv

\* Every step keeps the invariant.
LEMMA LifeNext == LifeInv /\ [Next]_vars => LifeInv'
<1> SUFFICES ASSUME LifeInv, [Next]_vars PROVE LifeInv'
  OBVIOUS
<1>1. CASE UNCHANGED vars
  <2>1. UNCHANGED <<haste, temporary, frame, windows, asking, timer, closes, back, player, thread,
                    mail, playing, uiQuit, ended>>
    BY <1>1 DEF vars, uiVars, threadVars
  <2>2. TypeOK' /\ Frames'
    BY <2>1 DEF LifeInv, TypeOK, Frames
  <2>3. Mails' /\ OneThread'
    BY <2>1 DEF LifeInv, Mails, OneThread, Patient, Over, HasWindow
  <2>4. Prompt' /\ OneBox' /\ Quiet'
    BY <2>1 DEF LifeInv, Prompt, OneBox, Quiet, Closing, Patient
  <2>5. Temporary'
    BY <2>1 DEF LifeInv, Temporary, Patient, HasWindow, Over
  <2>6. UISurvives' /\ FolderOutlivesThread'
    BY <2>1 DEF LifeInv, UISurvives, FolderOutlivesThread, Patient, Over
  <2> QED BY <2>2, <2>3, <2>4, <2>5, <2>6 DEF LifeInv
<1>2. CASE Next
  BY <1>2, OpenKeeps, BeginsKeeps, TakesKeeps, PlaysKeeps, QuitsKeeps, EndsKeeps, UserKeeps,
     ClosesKeeps, AsksKeeps, HandlerKeeps DEF Next, ThreadStep, UIStep
<1> QED BY <1>1, <1>2

LEMMA LifeAlways == Spec => []LifeInv
BY LifeInit, LifeNext, PTL DEF Spec

-----------------------------------------------------------------------------
(* Theorems.                                                               *)

\* The variables of the folder and of its threads keep their types.
THEOREM TypeCorrect == Spec => []TypeOK
BY LifeAlways, PTL DEF LifeInv

\* While nobody opens the folder again before its thread has gone, hwndPlayObject is the
\* window of the thread that was started for the frame (wpOpen, playThreadFunc).
THEOREM PlayThreadReached == Spec => []OnePlayThread
<1>1. LifeInv => OnePlayThread
  BY DEF LifeInv, TypeOK, Frames, OneThread, OnePlayThread
<1> QED BY <1>1, LifeAlways, PTL

\* Closing a folder posts WM_QUIT to its play thread and never to the user interface
\* (cwClose), if the user waits for the thread and answers the question.
THEOREM UIAlwaysSurvives == Spec => []UISurvives
BY LifeAlways, PTL DEF LifeInv

\* A folder that has been closed while no command was under way does not play.
THEOREM ClosedAlwaysSilent == Spec => []ClosedIsSilent
<1>1. LifeInv => ClosedIsSilent
  BY DEF LifeInv, Quiet, ClosedIsSilent
<1> QED BY <1>1, LifeAlways, PTL

\* The folder of an M3U object is freed after its play thread has ended, if the user
\* waited for the thread and for the start of a track before closing it.
THEOREM FolderAlwaysOutlives == Spec => []FolderOutlivesThread
BY LifeAlways, PTL DEF LifeInv
=============================================================================
