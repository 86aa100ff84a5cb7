-------------------------- MODULE MediaPlayer_proofs --------------------------
(****************************************************************************)
(* Type correctness of MediaPlayer, the safety of its devices, what it      *)
(* promises once both threads rest, and the proof that its commands do what *)
(* PlayOrder says; for every number of records, devices and waiting         *)
(* commands, for every set of user events, and with overlapping handlers    *)
(* where the property does not exclude them.                                *)
(****************************************************************************)
EXTENDS PlayOrderMapping, WellFoundedInduction, TLAPS

USE DEF Threads, UI, Play, Commands, PlayCommands, NoRecord, BadRecord

LEMMA OneOfType ==
  ASSUME NEW S PROVE OneOf(S) \in S \cup {NoRecord}
BY DEF OneOf

LEMMA SearchTypes ==
  ASSUME ContainerOK, NEW r
  PROVE  /\ PlayableFrom(r) \in Tracks
         /\ PlayableUpTo(r) \in Tracks
         /\ LastOf({s \in recs : s < r}) \in Tracks
         /\ OtherPlaying \in Records \cup {NoRecord}
BY OneOfType
DEF ContainerOK, Tracks, PlayableFrom, PlayableUpTo, FirstOf, LastOf, OtherPlaying

LEMMA InitType == Init => TypeOK
<1> SUFFICES ASSUME Init PROVE TypeOK
  OBVIOUS
<1>1. PlayerOK
  BY ConstantsAssumption DEF Init, PlayerOK, Tracks, DevStates
<1>2. FlagsOK
  BY DEF Init, FlagsOK
<1>3. ContainerOK
  BY DEF Init, ContainerOK
<1>4. queue \in Seq(Commands \cup {"pause"})
  BY DEF Init
<1>5. ThreadsOK
  BY ConstantsAssumption DEF Init, ThreadsOK, Tracks, Resumes, Steps
<1> QED BY <1>1, <1>3, <1>4, <1>5, <1>2 DEF TypeOK

\* What the building blocks of the steps leave of the locals of the threads.
LEMMA FinishType ==
  ASSUME ThreadsOK, NEW t \in Threads, Finish(t) PROVE ThreadsOK'
BY ConstantsAssumption DEF ThreadsOK, Finish, Goto, Steps, Tracks, Resumes

LEMMA GotoType ==
  ASSUME ThreadsOK, NEW t \in Threads, NEW l \in Steps, Goto(t, l),
         UNCHANGED locals
  PROVE  ThreadsOK'
BY DEF ThreadsOK, Goto, locals

LEMMA SearchStepType ==
  ASSUME ThreadsOK, NEW t \in Threads, NEW l \in Steps, NEW r \in Tracks,
         Goto(t, l), mrc' = [mrc EXCEPT ![t] = r], UNCHANGED <<cmd, priv, ret, arg>>
  PROVE  ThreadsOK'
BY DEF ThreadsOK, Goto

LEMMA CallStopType ==
  ASSUME ThreadsOK, NEW t \in Threads, NEW l \in Resumes, CallStop(t, l),
         UNCHANGED <<cmd, priv, arg>>,
         \/ UNCHANGED mrc
         \/ \E r \in Tracks : mrc' = [mrc EXCEPT ![t] = r]
  PROVE  ThreadsOK'
BY DEF ThreadsOK, CallStop, Goto, Steps, StopSteps

LEMMA LookType ==
  ASSUME ThreadsOK, PlayerOK, NEW t \in Threads, NEW d \in 0..MaxDev,
         priv' = [priv EXCEPT ![t] = d], Look(t), UNCHANGED arg
  PROVE  ThreadsOK'
<1>1. /\ priv' \in [Threads -> 0..MaxDev]
      /\ mrc' \in [Threads -> Tracks]
      /\ arg' \in [Threads -> Tracks]
  BY DEF ThreadsOK, PlayerOK, Look, Tracks
<1>2. pc' \in [Threads -> Steps]
  BY DEF ThreadsOK, Look, Goto, CallStop, Steps, PlaySteps, StopSteps
<1>3. cmd' \in [Threads -> Commands \cup {"none"}] /\ ret' \in [Threads -> Resumes]
  BY DEF ThreadsOK, Look, CallStop, Resumes
<1> QED BY <1>1, <1>2, <1>3 DEF ThreadsOK

LEMMA StopArgType ==
  ASSUME ThreadsOK, NEW t \in Threads, NEW l \in Steps, NEW r \in Tracks,
         Goto(t, l), arg' = [arg EXCEPT ![t] = r], UNCHANGED <<cmd, priv, mrc, ret>>
  PROVE  ThreadsOK'
BY DEF ThreadsOK, Goto

LEMMA ReturnType ==
  ASSUME ThreadsOK, NEW t \in Threads, ReturnFromStop(t) PROVE ThreadsOK'
<1>1. CASE ret[t] = "idle"
  BY <1>1, FinishType DEF ReturnFromStop
<1>2. CASE ret[t] # "idle"
  BY <1>2 DEF ReturnFromStop, ThreadsOK, Goto, Resumes, Steps, PlaySteps
<1> QED BY <1>1, <1>2

LEMMA RestartType ==
  ASSUME ThreadsOK, NEW t \in Threads, RestartWithFirst(t) PROVE ThreadsOK'
BY DEF ThreadsOK, RestartWithFirst, Goto, Steps, PlaySteps

LEMMA BeginType ==
  ASSUME ThreadsOK, NEW t \in Threads, NEW c \in Commands, Begin(t, c)
  PROVE  ThreadsOK'
BY DEF ThreadsOK, Begin, Goto, Steps, PlaySteps, StopSteps

\* What the steps of PAUSE and of the slider leave alone.
LEMMA ControlIs ==
  ASSUME NEW t \in Threads, ControlStep(t)
  PROVE  /\ UNCHANGED <<iWave, mrcPlaying, crossed, repeat, lastDev, recs, selected, inUse, other, queue>>
         /\ UNCHANGED <<cmd, priv, mrc, ret, arg>>
         /\ timerOn => timerOn'
         /\ pc[t] \in ControlSteps
         /\ \E l \in ControlSteps \cup {"idle"} : Goto(t, l)
         /\ (early' = early \/ early' \in BOOLEAN) /\ (bPaused' = bPaused \/ bPaused' \in BOOLEAN)
         /\ timerOn' = timerOn \/ timerOn' = TRUE
         /\ \E from \in SUBSET Sounding, to \in Sounding : dev' \in {dev, DeviceTo(iWave, from, to)}
<1> USE DEF ControlSteps, PauseSteps, playVars, cnrVars, locals, Sounding
<1>1. CASE SendPause(t)
  BY <1>1 DEF SendPause
<1>2. CASE SendResume(t)
  BY <1>2 DEF SendResume
<1>3. CASE SetPaused(t)
  BY <1>3 DEF SetPaused
<1>4. CASE SetResumed(t)
  BY <1>4 DEF SetResumed
<1>5. CASE ShowDisplay(t)
  BY <1>5 DEF ShowDisplay
<1>6. CASE SetSought(t)
  BY <1>6 DEF SetSought
<1> QED BY <1>1, <1>2, <1>3, <1>4, <1>5, <1>6 DEF ControlStep

LEMMA ControlType ==
  ASSUME TypeOK, NEW t \in Threads, ControlStep(t) PROVE TypeOK'
<1>1. PlayerOK /\ FlagsOK /\ ContainerOK /\ ThreadsOK
      /\ queue \in Seq(Commands \cup {"pause"})
  BY DEF TypeOK
<1>2. dev' \in [Devices -> DevStates]
  BY <1>1, ControlIs DEF PlayerOK, DeviceTo, DevStates, Sounding
<1>3. PlayerOK'
  BY <1>1, <1>2, ControlIs DEF PlayerOK
<1>4. FlagsOK'
  BY <1>1, ControlIs DEF FlagsOK
<1>5. ContainerOK' /\ queue' \in Seq(Commands \cup {"pause"})
  BY <1>1, ControlIs DEF ContainerOK
<1>6. ThreadsOK'
  BY <1>1, ControlIs, GotoType DEF locals, Steps
<1> QED BY <1>3, <1>4, <1>5, <1>6 DEF TypeOK

\* One step of a handler keeps the types.
LEMMA ThreadStepType ==
  ASSUME TypeOK, NEW t \in Threads, ThreadStep(t) PROVE TypeOK'
<1>1. PlayerOK /\ FlagsOK /\ ContainerOK /\ ThreadsOK
      /\ queue \in Seq(Commands \cup {"pause"})
  BY DEF TypeOK
<1>2. ASSUME GetDevice(t) PROVE TypeOK'
  <2>1. PlayerOK'
    BY <1>1, <1>2, ConstantsAssumption DEF GetDevice, PlayerOK, playVars
  <2>2. FlagsOK'
    BY <1>1, <1>2 DEF GetDevice, FlagsOK, playVars
  <2>3. ContainerOK'
    BY <1>1, <1>2 DEF GetDevice, ContainerOK, cnrVars
  <2>4. queue' \in Seq(Commands \cup {"pause"})
    BY <1>1, <1>2 DEF GetDevice
  <2>5. ThreadsOK'
    <3>1. lastDev' \in 0..MaxDev
      BY <2>1 DEF PlayerOK
    <3> QED BY <1>1, <1>2, <3>1, LookType DEF GetDevice
  <2> QED BY <2>1, <2>2, <2>3, <2>4, <2>5 DEF TypeOK
<1>3. ASSUME ChooseFirstWhilePlaying(t) PROVE TypeOK'
  <2>1. PlayerOK'
    BY <1>1, <1>3 DEF ChooseFirstWhilePlaying, PlayerOK, playVars
  <2>2. FlagsOK'
    BY <1>1, <1>3 DEF ChooseFirstWhilePlaying, FlagsOK, playVars
  <2>3. ContainerOK'
    BY <1>1, <1>3 DEF ChooseFirstWhilePlaying, ContainerOK, cnrVars
  <2>4. queue' \in Seq(Commands \cup {"pause"})
    BY <1>1, <1>3 DEF ChooseFirstWhilePlaying
  <2>5. ThreadsOK'
    BY <1>1, <1>3, CallStopType DEF ChooseFirstWhilePlaying, Resumes
  <2> QED BY <2>1, <2>2, <2>3, <2>4, <2>5 DEF TypeOK
<1>4. ASSUME ChooseFirst(t) PROVE TypeOK'
  <2>1. PlayerOK'
    BY <1>1, <1>4 DEF ChooseFirst, PlayerOK, playVars
  <2>2. FlagsOK'
    BY <1>1, <1>4 DEF ChooseFirst, FlagsOK, playVars
  <2>3. ContainerOK'
    BY <1>1, <1>4 DEF ChooseFirst, ContainerOK, cnrVars
  <2>4. queue' \in Seq(Commands \cup {"pause"})
    BY <1>1, <1>4 DEF ChooseFirst
  <2>5. ThreadsOK'
    BY <1>1, <1>4, FinishType, SearchStepType, SearchTypes DEF ChooseFirst, Steps, PlaySteps
  <2> QED BY <2>1, <2>2, <2>3, <2>4, <2>5 DEF TypeOK
<1>5. ASSUME ChooseNext(t) PROVE TypeOK'
  <2>1. PlayerOK'
    BY <1>1, <1>5 DEF ChooseNext, PlayerOK, playVars
  <2>2. FlagsOK'
    BY <1>1, <1>5 DEF ChooseNext, FlagsOK, playVars
  <2>3. ContainerOK'
    BY <1>1, <1>5 DEF ChooseNext, ContainerOK, cnrVars
  <2>4. queue' \in Seq(Commands \cup {"pause"})
    BY <1>1, <1>5 DEF ChooseNext
  <2>5. ThreadsOK'
    BY <1>1, <1>5, CallStopType, SearchTypes DEF ChooseNext, Resumes
  <2> QED BY <2>1, <2>2, <2>3, <2>4, <2>5 DEF TypeOK
<1>6. ASSUME ChoosePrev(t) PROVE TypeOK'
  <2>1. PlayerOK'
    BY <1>1, <1>6 DEF ChoosePrev, PlayerOK, playVars
  <2>2. FlagsOK'
    BY <1>1, <1>6 DEF ChoosePrev, FlagsOK, playVars
  <2>3. ContainerOK'
    BY <1>1, <1>6 DEF ChoosePrev, ContainerOK, cnrVars
  <2>4. queue' \in Seq(Commands \cup {"pause"})
    BY <1>1, <1>6 DEF ChoosePrev
  <2>5. ThreadsOK'
    <3>1. mrc[t] \in Tracks /\ LastOf({r \in recs : r < mrc[t]}) \in Tracks
      BY <1>1, SearchTypes DEF ThreadsOK
    <3>2. \E r \in Tracks : mrc' = [mrc EXCEPT ![t] = r]
      BY <1>6, <3>1 DEF ChoosePrev, Tracks
    <3> QED BY <1>1, <1>6, <3>2, CallStopType DEF ChoosePrev, Resumes
  <2> QED BY <2>1, <2>2, <2>3, <2>4, <2>5 DEF TypeOK
<1>7. ASSUME SearchBack(t) PROVE TypeOK'
  <2>1. PlayerOK'
    BY <1>1, <1>7 DEF SearchBack, PlayerOK, playVars
  <2>2. FlagsOK'
    BY <1>1, <1>7 DEF SearchBack, FlagsOK, playVars
  <2>3. ContainerOK'
    BY <1>1, <1>7 DEF SearchBack, ContainerOK, cnrVars
  <2>4. queue' \in Seq(Commands \cup {"pause"})
    BY <1>1, <1>7 DEF SearchBack
  <2>5. ThreadsOK'
    BY <1>1, <1>7, FinishType, SearchStepType, SearchTypes DEF SearchBack, Steps, PlaySteps, Tracks
  <2> QED BY <2>1, <2>2, <2>3, <2>4, <2>5 DEF TypeOK
<1>8. ASSUME Ended(t) PROVE TypeOK'
  <2>1. PlayerOK'
    BY <1>1, <1>8 DEF Ended, PlayerOK, playVars
  <2>2. FlagsOK'
    BY <1>1, <1>8 DEF Ended, FlagsOK, playVars
  <2>3. ContainerOK'
    BY <1>1, <1>8 DEF Ended, ContainerOK, cnrVars
  <2>4. queue' \in Seq(Commands \cup {"pause"})
    BY <1>1, <1>8 DEF Ended
  <2>5. ThreadsOK'
    BY <1>1, <1>8, FinishType, RestartType DEF Ended
  <2> QED BY <2>1, <2>2, <2>3, <2>4, <2>5 DEF TypeOK
<1>9. ASSUME OpenDevice(t) PROVE TypeOK'
  <2>1. PlayerOK'
    BY <1>1, <1>9 DEF OpenDevice, PlayerOK, playVars, DevStates
  <2>2. FlagsOK'
    BY <1>1, <1>9 DEF OpenDevice, FlagsOK, playVars
  <2>3. ContainerOK'
    BY <1>1, <1>9 DEF OpenDevice, ContainerOK, cnrVars
  <2>4. queue' \in Seq(Commands \cup {"pause"})
    BY <1>1, <1>9 DEF OpenDevice
  <2>5. ThreadsOK'
    BY <1>1, <1>9, FinishType, GotoType DEF OpenDevice, Steps, PlaySteps
  <2> QED BY <2>1, <2>2, <2>3, <2>4, <2>5 DEF TypeOK
<1>10. ASSUME StartDevice(t) PROVE TypeOK'
  <2>1. PlayerOK'
    BY <1>1, <1>10 DEF StartDevice, PlayerOK, playVars, DevStates
  <2>2. FlagsOK'
    BY <1>1, <1>10 DEF StartDevice, FlagsOK, playVars
  <2>3. ContainerOK'
    BY <1>1, <1>10 DEF StartDevice, ContainerOK, cnrVars
  <2>4. queue' \in Seq(Commands \cup {"pause"})
    BY <1>1, <1>10 DEF StartDevice
  <2>5. ThreadsOK'
    BY <1>1, <1>10, FinishType, GotoType DEF StartDevice, Steps, PlaySteps
  <2> QED BY <2>1, <2>2, <2>3, <2>4, <2>5 DEF TypeOK
<1>11. ASSUME MarkInUse(t) PROVE TypeOK'
  <2>1. PlayerOK'
    BY <1>1, <1>11 DEF MarkInUse, PlayerOK, playVars
  <2>2. FlagsOK'
    BY <1>1, <1>11 DEF MarkInUse, FlagsOK, playVars
  <2>3. ContainerOK'
    BY <1>1, <1>11 DEF MarkInUse, ContainerOK, cnrVars
  <2>4. queue' \in Seq(Commands \cup {"pause"})
    BY <1>1, <1>11 DEF MarkInUse
  <2>5. ThreadsOK'
    BY <1>1, <1>11, GotoType DEF MarkInUse, Steps, PlaySteps
  <2> QED BY <2>1, <2>2, <2>3, <2>4, <2>5 DEF TypeOK
<1>12. ASSUME SelectRecord(t) PROVE TypeOK'
  <2>1. PlayerOK'
    BY <1>1, <1>12 DEF SelectRecord, PlayerOK, playVars
  <2>2. FlagsOK'
    BY <1>1, <1>12 DEF SelectRecord, FlagsOK, playVars
  <2>3. ContainerOK'
    BY <1>1, <1>12 DEF SelectRecord, ContainerOK, cnrVars
  <2>4. queue' \in Seq(Commands \cup {"pause"})
    BY <1>1, <1>12 DEF SelectRecord
  <2>5. ThreadsOK'
    BY <1>1, <1>12, GotoType DEF SelectRecord, Steps, PlaySteps
  <2> QED BY <2>1, <2>2, <2>3, <2>4, <2>5 DEF TypeOK
<1>13. ASSUME Publish(t) PROVE TypeOK'
  <2>1. PlayerOK'
    BY <1>1, <1>13 DEF Publish, PlayerOK, playVars, ThreadsOK
  <2>2. FlagsOK'
    BY <1>1, <1>13 DEF Publish, FlagsOK, playVars
  <2>3. ContainerOK'
    BY <1>1, <1>13 DEF Publish, ContainerOK, cnrVars
  <2>4. queue' \in Seq(Commands \cup {"pause"})
    BY <1>1, <1>13 DEF Publish
  <2>5. ThreadsOK'
    BY <1>1, <1>13, FinishType DEF Publish
  <2> QED BY <2>1, <2>2, <2>3, <2>4, <2>5 DEF TypeOK
<1>14. ASSUME StopDevice(t) PROVE TypeOK'
  <2>1. PlayerOK'
    BY <1>1, <1>14 DEF StopDevice, PlayerOK, playVars, DevStates
  <2>2. FlagsOK'
    BY <1>1, <1>14 DEF StopDevice, FlagsOK, playVars
  <2>3. ContainerOK'
    BY <1>1, <1>14 DEF StopDevice, ContainerOK, cnrVars
  <2>4. queue' \in Seq(Commands \cup {"pause"})
    BY <1>1, <1>14 DEF StopDevice
  <2>5. ThreadsOK'
    BY <1>1, <1>14, GotoType DEF StopDevice, Steps, StopSteps
  <2> QED BY <2>1, <2>2, <2>3, <2>4, <2>5 DEF TypeOK
<1>15. ASSUME StopOther(t) PROVE TypeOK'
  <2>1. PlayerOK'
    BY <1>1, <1>15 DEF StopOther, PlayerOK, playVars
  <2>2. FlagsOK'
    BY <1>1, <1>15 DEF StopOther, FlagsOK, playVars
  <2>3. ContainerOK'
    BY <1>1, <1>15 DEF StopOther, ContainerOK, cnrVars
  <2>4. queue' \in Seq(Commands \cup {"pause"})
    BY <1>1, <1>15 DEF StopOther
  <2>5. ThreadsOK'
    BY <1>1, <1>15, ReturnType DEF StopOther
  <2> QED BY <2>1, <2>2, <2>3, <2>4, <2>5 DEF TypeOK
<1>16. ASSUME StopClose(t) PROVE TypeOK'
  <2>1. PlayerOK'
    BY <1>1, <1>16 DEF StopClose, PlayerOK, playVars, DevStates
  <2>2. FlagsOK'
    BY <1>1, <1>16 DEF StopClose, FlagsOK, playVars
  <2>3. ContainerOK'
    BY <1>1, <1>16 DEF StopClose, ContainerOK, cnrVars
  <2>4. queue' \in Seq(Commands \cup {"pause"})
    BY <1>1, <1>16 DEF StopClose
  <2>5. ThreadsOK'
    BY <1>1, <1>16, GotoType DEF StopClose, Steps, StopSteps
  <2> QED BY <2>1, <2>2, <2>3, <2>4, <2>5 DEF TypeOK
<1>17. ASSUME StopReset(t) PROVE TypeOK'
  <2>1. PlayerOK'
    BY <1>1, <1>17 DEF StopReset, PlayerOK, playVars
  <2>2. FlagsOK'
    BY <1>1, <1>17 DEF StopReset, FlagsOK, playVars
  <2>3. ContainerOK'
    BY <1>1, <1>17 DEF StopReset, ContainerOK, cnrVars
  <2>4. queue' \in Seq(Commands \cup {"pause"})
    BY <1>1, <1>17 DEF StopReset
  <2>5. ThreadsOK'
    BY <1>1, <1>17, StopArgType DEF StopReset, Steps, StopSteps, PlayerOK
  <2> QED BY <2>1, <2>2, <2>3, <2>4, <2>5 DEF TypeOK
<1>18. ASSUME StopDeselect(t) PROVE TypeOK'
  <2>1. PlayerOK'
    BY <1>1, <1>18 DEF StopDeselect, PlayerOK, playVars
  <2>2. FlagsOK'
    BY <1>1, <1>18 DEF StopDeselect, FlagsOK, playVars
  <2>3. ContainerOK'
    BY <1>1, <1>18 DEF StopDeselect, ContainerOK, cnrVars
  <2>4. queue' \in Seq(Commands \cup {"pause"})
    BY <1>1, <1>18 DEF StopDeselect
  <2>5. ThreadsOK'
    BY <1>1, <1>18, StopArgType DEF StopDeselect, Steps, StopSteps, Tracks
  <2> QED BY <2>1, <2>2, <2>3, <2>4, <2>5 DEF TypeOK
<1>19. ASSUME StopClear(t) PROVE TypeOK'
  <2>1. PlayerOK'
    BY <1>1, <1>19, ConstantsAssumption DEF StopClear, PlayerOK, playVars, Tracks
  <2>2. FlagsOK'
    BY <1>1, <1>19 DEF StopClear, FlagsOK, playVars
  <2>3. ContainerOK'
    BY <1>1, <1>19 DEF StopClear, ContainerOK, cnrVars
  <2>4. queue' \in Seq(Commands \cup {"pause"})
    BY <1>1, <1>19 DEF StopClear
  <2>5. ThreadsOK'
    BY <1>1, <1>19, ReturnType DEF StopClear
  <2> QED BY <2>1, <2>2, <2>3, <2>4, <2>5 DEF TypeOK
<1>20. ASSUME ChooseOther(t) PROVE TypeOK'
  <2>1. PlayerOK'
    BY <1>1, <1>20 DEF ChooseOther, PlayerOK, playVars
  <2>2. FlagsOK'
    BY <1>1, <1>20 DEF ChooseOther, FlagsOK, playVars
  <2>3. ContainerOK'
    BY <1>1, <1>20 DEF ChooseOther, ContainerOK, cnrVars
  <2>4. queue' \in Seq(Commands \cup {"pause"})
    BY <1>1, <1>20 DEF ChooseOther
  <2>5. ThreadsOK'
    BY <1>1, <1>20, RestartType, SearchStepType, SearchTypes DEF ChooseOther, Steps, PlaySteps, Tracks
  <2> QED BY <2>1, <2>2, <2>3, <2>4, <2>5 DEF TypeOK
<1>21. ASSUME StopNothing(t) PROVE TypeOK'
  <2>1. PlayerOK'
    BY <1>1, <1>21 DEF StopNothing, PlayerOK, playVars
  <2>2. FlagsOK'
    BY <1>1, <1>21 DEF StopNothing, FlagsOK, playVars
  <2>3. ContainerOK'
    BY <1>1, <1>21 DEF StopNothing, ContainerOK, cnrVars
  <2>4. queue' \in Seq(Commands \cup {"pause"})
    BY <1>1, <1>21 DEF StopNothing
  <2>5. ThreadsOK'
    BY <1>1, <1>21, GotoType DEF StopNothing, Steps, StopSteps
  <2> QED BY <2>1, <2>2, <2>3, <2>4, <2>5 DEF TypeOK
<1> QED
  BY <1>2, <1>3, <1>4, <1>5, <1>6, <1>7, <1>8, <1>9, <1>10, <1>11, <1>12, <1>13,
     <1>14, <1>15, <1>16, <1>17, <1>18, <1>19, <1>20, <1>21, ControlType DEF ThreadStep

\* So does every other step.
LEMMA NextType == TypeOK /\ [Next]_vars => TypeOK'
<1> SUFFICES ASSUME TypeOK, [Next]_vars PROVE TypeOK'
  OBVIOUS
<1>1. PlayerOK /\ FlagsOK /\ ContainerOK /\ ThreadsOK
      /\ queue \in Seq(Commands \cup {"pause"})
  BY DEF TypeOK
<1>2. ASSUME NEW t \in Threads, ThreadStep(t) PROVE TypeOK'
  BY <1>2, ThreadStepType
<1>3. ASSUME TakeCommand PROVE TypeOK'
  <2>1. PlayerOK'
    BY <1>1, <1>3 DEF TakeCommand, PlayerOK, playVars
  <2>2. FlagsOK'
    BY <1>1, <1>3 DEF TakeCommand, FlagsOK, playVars
  <2>3. ContainerOK'
    BY <1>1, <1>3 DEF TakeCommand, ContainerOK, cnrVars
  <2>4. queue' \in Seq(Commands \cup {"pause"})
    BY <1>1, <1>3 DEF TakeCommand
  <2>5. ThreadsOK'
    BY <1>1, <1>3, BeginType DEF TakeCommand, ThreadsOK, locals
  <2> QED BY <2>1, <2>2, <2>3, <2>4, <2>5 DEF TypeOK
<1>4. ASSUME TakePause PROVE TypeOK'
  <2>1. PlayerOK' /\ FlagsOK' /\ ContainerOK'
    BY <1>1, <1>4 DEF TakePause, BeginPausing, PlayerOK, FlagsOK, ContainerOK, cnrVars
  <2>2. queue' \in Seq(Commands \cup {"pause"})
    BY <1>1, <1>4 DEF TakePause
  <2>3. ThreadsOK'
    BY <1>1, <1>4, GotoType DEF TakePause, BeginPausing, Steps, ControlSteps, PauseSteps, Threads, Play
  <2> QED BY <2>1, <2>2, <2>3 DEF TypeOK
<1>5. ASSUME NEW c \in Commands \cup {"pause"}, PostCommand(c) PROVE TypeOK'
  <2>1. PlayerOK'
    BY <1>1, <1>5 DEF PostCommand, PlayerOK, playVars
  <2>2. FlagsOK'
    BY <1>1, <1>5 DEF PostCommand, FlagsOK, playVars
  <2>3. ContainerOK'
    BY <1>1, <1>5 DEF PostCommand, ContainerOK, cnrVars
  <2>4. queue' \in Seq(Commands \cup {"pause"})
    BY <1>1, <1>5 DEF PostCommand
  <2>5. ThreadsOK'
    BY <1>1, <1>5 DEF PostCommand, ThreadsOK, locals
  <2> QED BY <2>1, <2>2, <2>3, <2>4, <2>5 DEF TypeOK
<1>6. ASSUME TimerTick PROVE TypeOK'
  <2>1. PlayerOK'
    BY <1>1, <1>6 DEF TimerTick, PlayerOK, playVars
  <2>2. FlagsOK'
    BY <1>1, <1>6 DEF TimerTick, FlagsOK, playVars
  <2>3. ContainerOK'
    BY <1>1, <1>6 DEF TimerTick, ContainerOK, cnrVars
  <2>4. queue' \in Seq(Commands \cup {"pause"})
    BY <1>1, <1>6 DEF TimerTick
  <2>5. ThreadsOK'
    BY <1>1, <1>6, BeginType DEF TimerTick, ThreadsOK, locals
  <2> QED BY <2>1, <2>2, <2>3, <2>4, <2>5 DEF TypeOK
<1>7. ASSUME Seek PROVE TypeOK'
  <2>1. PlayerOK'
    BY <1>1, <1>7 DEF Seek, BeginPausing, PlayerOK, DeviceTo, DevStates
  <2>2. FlagsOK' /\ ContainerOK' /\ queue' \in Seq(Commands \cup {"pause"})
    BY <1>1, <1>7 DEF Seek, BeginPausing, FlagsOK, ContainerOK, cnrVars
  <2>3. ThreadsOK'
    BY <1>1, <1>7, GotoType DEF Seek, BeginPausing, Steps, ControlSteps, PauseSteps, Threads, UI
  <2> QED BY <2>1, <2>2, <2>3 DEF TypeOK
<1>8. ASSUME PassDevice PROVE TypeOK'
  <2>1. PlayerOK'
    BY <1>1, <1>8 DEF PassDevice, PlayerOK, playVars
  <2>2. FlagsOK'
    BY <1>1, <1>8 DEF PassDevice, FlagsOK, playVars
  <2>3. ContainerOK'
    BY <1>1, <1>8 DEF PassDevice, ContainerOK, cnrVars
  <2>4. queue' \in Seq(Commands \cup {"pause"})
    BY <1>1, <1>8 DEF PassDevice
  <2>5. ThreadsOK'
    BY <1>1, <1>8 DEF PassDevice, ThreadsOK, locals
  <2> QED BY <2>1, <2>2, <2>3, <2>4, <2>5 DEF TypeOK
<1>9. ASSUME ToggleRepeat PROVE TypeOK'
  <2>1. PlayerOK'
    BY <1>1, <1>9 DEF ToggleRepeat, PlayerOK, playVars
  <2>2. FlagsOK'
    BY <1>1, <1>9 DEF ToggleRepeat, FlagsOK, playVars
  <2>3. ContainerOK'
    BY <1>1, <1>9 DEF ToggleRepeat, ContainerOK, cnrVars
  <2>4. queue' \in Seq(Commands \cup {"pause"})
    BY <1>1, <1>9 DEF ToggleRepeat
  <2>5. ThreadsOK'
    BY <1>1, <1>9 DEF ToggleRepeat, ThreadsOK, locals
  <2> QED BY <2>1, <2>2, <2>3, <2>4, <2>5 DEF TypeOK
<1>10. ASSUME NEW S \in SUBSET recs, UserSelects(S) PROVE TypeOK'
  <2>1. PlayerOK'
    BY <1>1, <1>10 DEF UserSelects, PlayerOK, playVars
  <2>2. FlagsOK'
    BY <1>1, <1>10 DEF UserSelects, FlagsOK, playVars
  <2>3. ContainerOK'
    BY <1>1, <1>10 DEF UserSelects, ContainerOK, cnrVars
  <2>4. queue' \in Seq(Commands \cup {"pause"})
    BY <1>1, <1>10 DEF UserSelects
  <2>5. ThreadsOK'
    BY <1>1, <1>10 DEF UserSelects, ThreadsOK, locals
  <2> QED BY <2>1, <2>2, <2>3, <2>4, <2>5 DEF TypeOK
<1>11. ASSUME NEW r \in recs, UserDeletes(r) PROVE TypeOK'
  <2>1. PlayerOK'
    BY <1>1, <1>11 DEF UserDeletes, PlayerOK, playVars
  <2>2. FlagsOK'
    BY <1>1, <1>11 DEF UserDeletes, FlagsOK, playVars
  <2>3. ContainerOK'
    BY <1>1, <1>11 DEF UserDeletes, ContainerOK, cnrVars
  <2>4. queue' \in Seq(Commands \cup {"pause"})
    BY <1>1, <1>11 DEF UserDeletes
  <2>5. ThreadsOK'
    BY <1>1, <1>11 DEF UserDeletes, ThreadsOK, locals
  <2> QED BY <2>1, <2>2, <2>3, <2>4, <2>5 DEF TypeOK
<1>12. ASSUME NEW r \in recs, UserDoubleClicks(r) PROVE TypeOK'
  <2>1. PlayerOK'
    BY <1>1, <1>12 DEF UserDoubleClicks, PlayerOK, playVars
  <2>2. FlagsOK'
    BY <1>1, <1>12 DEF UserDoubleClicks, FlagsOK, playVars
  <2>3. ContainerOK'
    BY <1>1, <1>12 DEF UserDoubleClicks, ContainerOK, cnrVars
  <2>4. queue' \in Seq(Commands \cup {"pause"})
    BY <1>1, <1>12 DEF UserDoubleClicks
  <2>5. ThreadsOK'
    BY <1>1, <1>12 DEF UserDoubleClicks, ThreadsOK, locals
  <2> QED BY <2>1, <2>2, <2>3, <2>4, <2>5 DEF TypeOK
<1>13. ASSUME OtherEnds PROVE TypeOK'
  <2>1. PlayerOK'
    BY <1>1, <1>13 DEF OtherEnds, PlayerOK, playVars
  <2>2. FlagsOK'
    BY <1>1, <1>13 DEF OtherEnds, FlagsOK, playVars
  <2>3. ContainerOK'
    BY <1>1, <1>13 DEF OtherEnds, ContainerOK, cnrVars
  <2>4. queue' \in Seq(Commands \cup {"pause"})
    BY <1>1, <1>13 DEF OtherEnds
  <2>5. ThreadsOK'
    BY <1>1, <1>13 DEF OtherEnds, ThreadsOK, locals
  <2> QED BY <2>1, <2>2, <2>3, <2>4, <2>5 DEF TypeOK
<1>14. ASSUME NEW d \in Devices, TrackEnds(d) PROVE TypeOK'
  <2>1. PlayerOK'
    BY <1>1, <1>14 DEF TrackEnds, PlayerOK, playVars, DeviceTo, DevStates
  <2>2. FlagsOK'
    BY <1>1, <1>14 DEF TrackEnds, FlagsOK, playVars
  <2>3. ContainerOK'
    BY <1>1, <1>14 DEF TrackEnds, ContainerOK, cnrVars
  <2>4. queue' \in Seq(Commands \cup {"pause"})
    BY <1>1, <1>14 DEF TrackEnds
  <2>5. ThreadsOK'
    BY <1>1, <1>14 DEF TrackEnds, ThreadsOK, locals
  <2> QED BY <2>1, <2>2, <2>3, <2>4, <2>5 DEF TypeOK
<1>15. CASE UNCHANGED vars
  BY <1>1, <1>15
  DEF TypeOK, PlayerOK, FlagsOK, ContainerOK, ThreadsOK, vars, playVars, cnrVars, locals
<1> QED
  BY <1>2, <1>3, <1>4, <1>5, <1>6, <1>7, <1>8, <1>9, <1>10, <1>11, <1>12, <1>13, <1>14, <1>15 DEF Next

\* Every variable keeps its type, in every behaviour and for every choice of
\* the constants: in particular the alias counter stays within 0..MaxDev and
\* no thread is ever sent on to a step it has not.
THEOREM TypeCorrect == Spec => []TypeOK
<1>1. Init => TypeOK
  BY InitType
<1>2. TypeOK /\ [Next]_vars => TypeOK'
  BY NextType
<1> QED BY <1>1, <1>2, PTL DEF Spec

-----------------------------------------------------------------------------
(* The devices.  PublishedDeviceIsOpen is not inductive by itself: a thread *)
(* that starts a device may close it again, or publish it, so what it holds *)
(* must be open, and must be neither the device of the other thread nor,    *)
(* unless that is being given up, the one the folder plays on.              *)

\* A thread that is past getting an alias has one, even while it is inside
\* cwStopAudioFile on the way.
HasDevice ==
  \A t \in Threads :
    pc[t] \in {"choose", "chooseOther", "back", "ended", "open"} \cup Starting
      \/ ret[t] \in {"back", "ended", "open"}
    => priv[t] \in Devices

DevicesApart ==
  /\ PublishedDeviceIsOpen
  /\ StartingDeviceIsOpen
  /\ StartingDevicesDiffer

DeviceInv == TypeOK /\ HasDevice /\ DevicesApart

LEMMA DeviceInvInit == Init => DeviceInv
BY InitType
DEF Init, DeviceInv, HasDevice, DevicesApart, Starting, PublishedDeviceIsOpen,
    StartingDeviceIsOpen, StartingDevicesDiffer

\* A step that neither opens nor closes a device nor publishes one, and that
\* takes no thread into starting a device or out of closing one.
LEMMA DevicesUntouched ==
  ASSUME DeviceInv, iWave' = iWave,
         \A d \in Devices : dev'[d] = "closed" <=> dev[d] = "closed",
         \A u \in Threads :
           /\ pc'[u] \in Starting => pc[u] \in Starting /\ priv'[u] = priv[u]
           /\ pc[u] \in Closing => pc'[u] \in Closing
  PROVE  DevicesApart'
<1>1. PublishedDeviceIsOpen'
  BY DEF DeviceInv, DevicesApart, TypeOK, PlayerOK, PublishedDeviceIsOpen, Devices
<1>2. StartingDeviceIsOpen'
  BY DEF DeviceInv, DevicesApart, HasDevice, StartingDeviceIsOpen
<1>3. StartingDevicesDiffer'
  BY DEF DeviceInv, DevicesApart, StartingDevicesDiffer
<1> QED BY <1>1, <1>2, <1>3 DEF DevicesApart

\* A step of thread t keeps HasDevice if t itself has a device where it must.
LEMMA HasDeviceStep ==
  ASSUME DeviceInv, NEW t \in Threads,
         \A u \in Threads \ {t} :
           pc'[u] = pc[u] /\ ret'[u] = ret[u] /\ priv'[u] = priv[u],
         \/ priv'[t] \in Devices
         \/ /\ pc'[t] \notin {"choose", "chooseOther", "back", "ended", "open"} \cup Starting
            /\ ret'[t] \notin {"back", "ended", "open"}
  PROVE  HasDevice'
BY DEF DeviceInv, HasDevice

\* Where a thread is that is inside neither cwPlayAudioFile nor cwStopAudioFile.
Outside == {"idle"} \cup ControlSteps

\* A step that starts at most a handler and leaves every device open or closed.
LEMMA QuietStep ==
  ASSUME DeviceInv, UNCHANGED <<iWave, priv, ret>>,
         \/ pc' = pc
         \/ \E t \in Threads : pc[t] \in Outside /\ \E l \in {"stop", "getdev"} \cup Outside : Goto(t, l),
         \A d \in Devices : dev'[d] = "closed" <=> dev[d] = "closed"
  PROVE  HasDevice' /\ DevicesApart'
<1> USE DEF Outside, ControlSteps, PauseSteps
<1>1. \A u \in Threads :
        \/ pc'[u] = pc[u]
        \/ pc[u] \in Outside /\ pc'[u] \in {"stop", "getdev"} \cup Outside
  BY DEF DeviceInv, TypeOK, ThreadsOK, Goto
<1>2. HasDevice'
  BY <1>1 DEF DeviceInv, HasDevice, Starting
<1>3. DevicesApart'
  BY <1>1, DevicesUntouched DEF Starting, Closing
<1> QED BY <1>2, <1>3

LEMMA DeviceToKeepsOpen ==
  ASSUME PlayerOK, NEW d \in 0..MaxDev, NEW from, "closed" \notin from,
         NEW to \in DevStates \ {"closed"}, dev' = DeviceTo(d, from, to)
  PROVE  \A e \in Devices : dev'[e] = "closed" <=> dev[e] = "closed"
BY DEF PlayerOK, DeviceTo, DevStates

LEMMA ControlDevices ==
  ASSUME DeviceInv, NEW t \in Threads, ControlStep(t)
  PROVE  HasDevice' /\ DevicesApart'
<1>1. PlayerOK
  BY DEF DeviceInv, TypeOK
<1>2. \A d \in Devices : dev'[d] = "closed" <=> dev[d] = "closed"
  BY <1>1, ControlIs, DeviceToKeepsOpen DEF PlayerOK, Sounding, DevStates
<1> QED BY <1>2, ControlIs, QuietStep DEF Outside

LEMMA ThreadStepDevices ==
  ASSUME DeviceInv, NEW t \in Threads, ThreadStep(t)
  PROVE  HasDevice' /\ DevicesApart'
<1>1. ThreadsOK /\ PlayerOK
  BY DEF DeviceInv, TypeOK
<1> USE DEF Starting, Closing, Goto, locals
<1>2. ASSUME GetDevice(t) PROVE HasDevice' /\ DevicesApart'
  <2>1. HasDevice'
    BY <1>1, <1>2, HasDeviceStep, ConstantsAssumption
    DEF GetDevice, Look, CallStop, DeviceInv, HasDevice, ThreadsOK, Devices, PlayerOK
  <2>2. DevicesApart'
    BY <1>1, <1>2, DevicesUntouched
    DEF GetDevice, Look, CallStop, playVars, ThreadsOK, PlayerOK
  <2> QED BY <2>1, <2>2
<1>3. ASSUME ChooseFirstWhilePlaying(t) PROVE HasDevice' /\ DevicesApart'
  <2>1. HasDevice'
    BY <1>1, <1>3, HasDeviceStep
    DEF ChooseFirstWhilePlaying, CallStop, DeviceInv, HasDevice, ThreadsOK, Devices, PlayerOK
  <2>2. DevicesApart'
    BY <1>1, <1>3, DevicesUntouched
    DEF ChooseFirstWhilePlaying, CallStop, playVars, ThreadsOK, PlayerOK
  <2> QED BY <2>1, <2>2
<1>4. ASSUME ChooseFirst(t) PROVE HasDevice' /\ DevicesApart'
  <2>1. HasDevice'
    BY <1>1, <1>4, HasDeviceStep
    DEF ChooseFirst, Finish, DeviceInv, HasDevice, ThreadsOK, Devices, PlayerOK
  <2>2. DevicesApart'
    BY <1>1, <1>4, DevicesUntouched
    DEF ChooseFirst, Finish, playVars, ThreadsOK, PlayerOK
  <2> QED BY <2>1, <2>2
<1>5. ASSUME ChooseNext(t) PROVE HasDevice' /\ DevicesApart'
  <2>1. HasDevice'
    BY <1>1, <1>5, HasDeviceStep
    DEF ChooseNext, CallStop, DeviceInv, HasDevice, ThreadsOK, Devices, PlayerOK
  <2>2. DevicesApart'
    BY <1>1, <1>5, DevicesUntouched
    DEF ChooseNext, CallStop, playVars, ThreadsOK, PlayerOK
  <2> QED BY <2>1, <2>2
<1>6. ASSUME ChoosePrev(t) PROVE HasDevice' /\ DevicesApart'
  <2>1. HasDevice'
    BY <1>1, <1>6, HasDeviceStep
    DEF ChoosePrev, CallStop, DeviceInv, HasDevice, ThreadsOK, Devices, PlayerOK
  <2>2. DevicesApart'
    BY <1>1, <1>6, DevicesUntouched
    DEF ChoosePrev, CallStop, playVars, ThreadsOK, PlayerOK
  <2> QED BY <2>1, <2>2
<1>7. ASSUME SearchBack(t) PROVE HasDevice' /\ DevicesApart'
  <2>1. HasDevice'
    BY <1>1, <1>7, HasDeviceStep
    DEF SearchBack, Finish, DeviceInv, HasDevice, ThreadsOK, Devices, PlayerOK
  <2>2. DevicesApart'
    BY <1>1, <1>7, DevicesUntouched
    DEF SearchBack, Finish, playVars, ThreadsOK, PlayerOK
  <2> QED BY <2>1, <2>2
<1>8. ASSUME Ended(t) PROVE HasDevice' /\ DevicesApart'
  <2>1. HasDevice'
    BY <1>1, <1>8, HasDeviceStep
    DEF Ended, Finish, RestartWithFirst, DeviceInv, HasDevice, ThreadsOK, Devices, PlayerOK
  <2>2. DevicesApart'
    BY <1>1, <1>8, DevicesUntouched
    DEF Ended, Finish, RestartWithFirst, playVars, ThreadsOK, PlayerOK
  <2> QED BY <2>1, <2>2
<1>9. ASSUME MarkInUse(t) PROVE HasDevice' /\ DevicesApart'
  <2>1. HasDevice'
    BY <1>1, <1>9, HasDeviceStep
    DEF MarkInUse, DeviceInv, HasDevice, ThreadsOK, Devices, PlayerOK
  <2>2. DevicesApart'
    BY <1>1, <1>9, DevicesUntouched
    DEF MarkInUse, playVars, ThreadsOK, PlayerOK
  <2> QED BY <2>1, <2>2
<1>10. ASSUME SelectRecord(t) PROVE HasDevice' /\ DevicesApart'
  <2>1. HasDevice'
    BY <1>1, <1>10, HasDeviceStep
    DEF SelectRecord, DeviceInv, HasDevice, ThreadsOK, Devices, PlayerOK
  <2>2. DevicesApart'
    BY <1>1, <1>10, DevicesUntouched
    DEF SelectRecord, playVars, ThreadsOK, PlayerOK
  <2> QED BY <2>1, <2>2
<1>11. ASSUME StopDevice(t) PROVE HasDevice' /\ DevicesApart'
  <2>1. HasDevice'
    BY <1>1, <1>11, HasDeviceStep
    DEF StopDevice, DeviceInv, HasDevice, ThreadsOK, Devices, PlayerOK
  <2>2. DevicesApart'
    BY <1>1, <1>11, DevicesUntouched
    DEF StopDevice, playVars, ThreadsOK, PlayerOK
  <2> QED BY <2>1, <2>2
<1>12. ASSUME StopOther(t) PROVE HasDevice' /\ DevicesApart'
  <2>1. HasDevice'
    BY <1>1, <1>12, HasDeviceStep
    DEF StopOther, ReturnFromStop, Finish, DeviceInv, HasDevice, ThreadsOK, Resumes
  <2>2. DevicesApart'
    BY <1>1, <1>12, DevicesUntouched
    DEF StopOther, ReturnFromStop, Finish, playVars, ThreadsOK, Resumes
  <2> QED BY <2>1, <2>2
<1>13. ASSUME StopReset(t) PROVE HasDevice' /\ DevicesApart'
  <2>1. HasDevice'
    BY <1>1, <1>13, HasDeviceStep
    DEF StopReset, DeviceInv, HasDevice, ThreadsOK, Devices, PlayerOK
  <2>2. DevicesApart'
    BY <1>1, <1>13, DevicesUntouched
    DEF StopReset, playVars, ThreadsOK, PlayerOK
  <2> QED BY <2>1, <2>2
<1>14. ASSUME StopDeselect(t) PROVE HasDevice' /\ DevicesApart'
  <2>1. HasDevice'
    BY <1>1, <1>14, HasDeviceStep
    DEF StopDeselect, DeviceInv, HasDevice, ThreadsOK, Devices, PlayerOK
  <2>2. DevicesApart'
    BY <1>1, <1>14, DevicesUntouched
    DEF StopDeselect, playVars, ThreadsOK, PlayerOK
  <2> QED BY <2>1, <2>2
<1>15. ASSUME OpenDevice(t) PROVE HasDevice' /\ DevicesApart'
  <2>1. pc[t] = "open" /\ priv[t] \in Devices /\ iWave' = iWave
    BY <1>15 DEF OpenDevice, DeviceInv, HasDevice, playVars
  <2>2. HasDevice'
    BY <1>1, <1>15, HasDeviceStep
    DEF OpenDevice, Finish, DeviceInv, HasDevice, ThreadsOK
  <2>3. CASE dev[priv[t]] = "closed" /\ dev' = [dev EXCEPT ![priv[t]] = "open"]
             /\ Goto(t, "start") /\ UNCHANGED locals
    <3>1. PublishedDeviceIsOpen'
      BY <1>1, <2>1, <2>3
      DEF DeviceInv, DevicesApart, PublishedDeviceIsOpen, ThreadsOK, PlayerOK, Devices
    <3>2. StartingDeviceIsOpen'
      BY <1>1, <2>1, <2>3
      DEF DeviceInv, DevicesApart, HasDevice, StartingDeviceIsOpen, ThreadsOK, PlayerOK
    <3>3. \A u \in Threads \ {t} : pc[u] \in Starting => priv[u] # priv[t]
      BY <2>3 DEF DeviceInv, DevicesApart, StartingDeviceIsOpen
    <3>4. iWave = priv[t] => \A u \in Threads \ {t} : pc[u] \in Closing
      BY <2>1, <2>3 DEF DeviceInv, DevicesApart, PublishedDeviceIsOpen, Devices
    <3>5. StartingDevicesDiffer'
      BY <1>1, <2>1, <2>3, <3>3, <3>4
      DEF DeviceInv, DevicesApart, StartingDevicesDiffer, ThreadsOK
    <3> QED BY <2>2, <3>1, <3>2, <3>5 DEF DevicesApart
  <2>4. CASE Finish(t) /\ UNCHANGED dev
    BY <1>1, <2>1, <2>2, <2>4, DevicesUntouched DEF Finish, ThreadsOK
  <2> QED BY <1>15, <2>3, <2>4 DEF OpenDevice
<1>16. ASSUME StartDevice(t) PROVE HasDevice' /\ DevicesApart'
  <2>1. pc[t] = "start" /\ priv[t] \in Devices /\ iWave' = iWave
    BY <1>16 DEF StartDevice, DeviceInv, HasDevice, playVars
  <2>2. HasDevice'
    BY <1>1, <1>16, HasDeviceStep
    DEF StartDevice, Finish, DeviceInv, HasDevice, ThreadsOK
  <2>3. CASE dev' = [dev EXCEPT ![priv[t]] = "playing"]
             /\ Goto(t, "mark") /\ UNCHANGED locals
    <3>1. dev[priv[t]] # "closed"
      BY <2>1 DEF DeviceInv, DevicesApart, StartingDeviceIsOpen
    <3> QED
      BY <1>1, <2>1, <2>2, <2>3, <3>1, DevicesUntouched DEF ThreadsOK, PlayerOK
  <2>4. CASE dev' = [dev EXCEPT ![priv[t]] = "closed"] /\ Finish(t)
    <3>1. \A u \in Threads \ {t} : pc[u] \in Starting => priv[u] # priv[t]
      BY <2>1 DEF DeviceInv, DevicesApart, StartingDevicesDiffer
    <3>2. iWave = priv[t] => \E u \in Threads \ {t} : pc[u] \in Closing
      BY <2>1 DEF DeviceInv, DevicesApart, StartingDevicesDiffer
    <3>3. pc' = [pc EXCEPT ![t] = "idle"] /\ priv' = [priv EXCEPT ![t] = 0]
      BY <2>4 DEF Finish
    <3>4. PublishedDeviceIsOpen'
      BY <1>1, <2>1, <2>4, <3>2, <3>3
      DEF DeviceInv, DevicesApart, PublishedDeviceIsOpen, ThreadsOK, PlayerOK, Devices
    <3>5. StartingDeviceIsOpen'
      BY <1>1, <2>1, <2>4, <3>1, <3>3
      DEF DeviceInv, DevicesApart, HasDevice, StartingDeviceIsOpen, ThreadsOK, PlayerOK
    <3>6. StartingDevicesDiffer'
      BY <1>1, <2>1, <3>3
      DEF DeviceInv, DevicesApart, StartingDevicesDiffer, ThreadsOK
    <3> QED BY <2>2, <3>4, <3>5, <3>6 DEF DevicesApart
  <2> QED BY <1>16, <2>3, <2>4 DEF StartDevice
<1>17. ASSUME Publish(t) PROVE HasDevice' /\ DevicesApart'
  <2>1. HasDevice'
    BY <1>1, <1>17, HasDeviceStep
    DEF Publish, Finish, DeviceInv, HasDevice, ThreadsOK
  <2>2. PublishedDeviceIsOpen'
    <3>1. dev[priv[t]] # "closed"
      BY <1>17 DEF Publish, DeviceInv, DevicesApart, StartingDeviceIsOpen
    <3>2. dev'[iWave'] # "closed"
      BY <1>17, <3>1 DEF Publish
    <3> QED BY <3>2 DEF PublishedDeviceIsOpen
  <2>3. StartingDeviceIsOpen'
    BY <1>1, <1>17
    DEF Publish, Finish, DeviceInv, DevicesApart, StartingDeviceIsOpen, ThreadsOK
  <2>4. StartingDevicesDiffer'
    BY <1>1, <1>17
    DEF Publish, Finish, DeviceInv, DevicesApart, StartingDevicesDiffer, ThreadsOK
  <2> QED BY <2>1, <2>2, <2>3, <2>4 DEF DevicesApart
<1>18. ASSUME StopClose(t) PROVE HasDevice' /\ DevicesApart'
  <2>1. HasDevice'
    BY <1>1, <1>18, HasDeviceStep
    DEF StopClose, DeviceInv, HasDevice, ThreadsOK
  <2>2. PublishedDeviceIsOpen'
    BY <1>1, <1>18 DEF StopClose, PublishedDeviceIsOpen, ThreadsOK
  <2>3. \A u \in Threads : pc[u] \in Starting => priv[u] # iWave
    BY <1>18 DEF StopClose, DeviceInv, DevicesApart, StartingDevicesDiffer
  <2>4. StartingDeviceIsOpen'
    BY <1>1, <1>18, <2>3
    DEF StopClose, DeviceInv, DevicesApart, HasDevice, StartingDeviceIsOpen,
        ThreadsOK, PlayerOK
  <2>5. StartingDevicesDiffer'
    BY <1>1, <1>18
    DEF StopClose, playVars, DeviceInv, DevicesApart, StartingDevicesDiffer, ThreadsOK
  <2> QED BY <2>1, <2>2, <2>4, <2>5 DEF DevicesApart
<1>19. ASSUME StopClear(t) PROVE HasDevice' /\ DevicesApart'
  <2>1. HasDevice'
    BY <1>1, <1>19, HasDeviceStep
    DEF StopClear, ReturnFromStop, Finish, DeviceInv, HasDevice, ThreadsOK, Resumes
  <2>2. PublishedDeviceIsOpen'
    BY <1>19 DEF StopClear, PublishedDeviceIsOpen
  <2>3. /\ dev' = dev /\ iWave' = 0
        /\ \A u \in Threads : pc'[u] \in Starting => pc[u] \in Starting /\ priv'[u] = priv[u]
    BY <1>1, <1>19 DEF StopClear, ReturnFromStop, Finish, ThreadsOK, Resumes
  <2>4. StartingDeviceIsOpen'
    BY <2>3 DEF DeviceInv, DevicesApart, StartingDeviceIsOpen
  <2>5. StartingDevicesDiffer'
    BY <2>3 DEF DeviceInv, DevicesApart, HasDevice, StartingDevicesDiffer, Devices
  <2> QED BY <2>1, <2>2, <2>4, <2>5 DEF DevicesApart
<1>20. ASSUME ChooseOther(t) PROVE HasDevice' /\ DevicesApart'
  <2>1. HasDevice'
    BY <1>1, <1>20, HasDeviceStep
    DEF ChooseOther, RestartWithFirst, DeviceInv, HasDevice, ThreadsOK, Devices, PlayerOK
  <2>2. DevicesApart'
    BY <1>1, <1>20, DevicesUntouched
    DEF ChooseOther, RestartWithFirst, playVars, ThreadsOK, PlayerOK
  <2> QED BY <2>1, <2>2
<1>21. ASSUME StopNothing(t) PROVE HasDevice' /\ DevicesApart'
  <2>1. HasDevice'
    BY <1>1, <1>21, HasDeviceStep
    DEF StopNothing, DeviceInv, HasDevice, ThreadsOK, Devices, PlayerOK
  <2>2. DevicesApart'
    BY <1>1, <1>21, DevicesUntouched
    DEF StopNothing, playVars, ThreadsOK, PlayerOK
  <2> QED BY <2>1, <2>2
<1>22. ASSUME ControlStep(t) PROVE HasDevice' /\ DevicesApart'
  BY <1>22, ControlDevices
<1> QED
  BY <1>2, <1>3, <1>4, <1>5, <1>6, <1>7, <1>8, <1>9, <1>10, <1>11, <1>12, <1>13,
     <1>14, <1>15, <1>16, <1>17, <1>18, <1>19, <1>20, <1>21, <1>22 DEF ThreadStep

LEMMA DeviceInvNext == DeviceInv /\ [Next]_vars => DeviceInv'
<1> SUFFICES ASSUME DeviceInv, [Next]_vars PROVE HasDevice' /\ DevicesApart'
  BY NextType DEF DeviceInv
<1>1. PlayerOK
  BY DEF DeviceInv, TypeOK
<1>2. ASSUME NEW t \in Threads, ThreadStep(t) PROVE HasDevice' /\ DevicesApart'
  BY <1>2, ThreadStepDevices
<1>3. CASE TakeCommand
  <2>1. pc[Play] = "idle" /\ \E l \in {"stop", "getdev"} : Goto(Play, l)
    BY <1>3 DEF TakeCommand, MayBegin, Idle, Begin
  <2> QED BY <1>3, <2>1, QuietStep DEF TakeCommand, Begin, playVars, Outside
<1>4. CASE TimerTick
  <2>1. \/ pc' = pc
        \/ pc[UI] = "idle" /\ \E l \in {"stop", "getdev"} : Goto(UI, l)
    BY <1>4 DEF TimerTick, MayBegin, Idle, Begin, locals
  <2> QED BY <1>4, <2>1, QuietStep DEF TimerTick, Begin, locals, Outside
<1>5. CASE TakePause
  <2>1. \A e \in Devices : dev'[e] = "closed" <=> dev[e] = "closed"
    BY <1>1, <1>5 DEF TakePause, PlayerOK
  <2>2. pc[Play] = "idle" /\ \E l \in ControlSteps : Goto(Play, l)
    BY <1>5 DEF TakePause, BeginPausing, MayBegin, Idle, ControlSteps, PauseSteps
  <2> QED BY <1>5, <2>1, <2>2, QuietStep DEF TakePause, locals, Outside
<1>6. CASE Seek
  <2>1. \A e \in Devices : dev'[e] = "closed" <=> dev[e] = "closed"
    BY <1>1, <1>6, DeviceToKeepsOpen DEF Seek, PlayerOK, DevStates
  <2>2. pc[UI] = "idle" /\ \E l \in ControlSteps : Goto(UI, l)
    BY <1>6 DEF Seek, BeginPausing, MayBegin, Idle, ControlSteps, PauseSteps
  <2> QED BY <1>6, <2>1, <2>2, QuietStep DEF Seek, locals, Outside
<1>7. ASSUME NEW d \in Devices, TrackEnds(d) PROVE HasDevice' /\ DevicesApart'
  <2>1. \A e \in Devices : dev'[e] = "closed" <=> dev[e] = "closed"
    BY <1>1, <1>7 DEF TrackEnds, PlayerOK
  <2> QED BY <1>7, <2>1, QuietStep DEF TrackEnds, locals, playVars
<1>8. ASSUME NEW c \in Commands \cup {"pause"}, PostCommand(c)
      PROVE  HasDevice' /\ DevicesApart'
  BY <1>8, QuietStep DEF PostCommand, playVars, locals
<1>9. CASE PassDevice \/ ToggleRepeat \/ OtherEnds
  BY <1>9, QuietStep DEF PassDevice, ToggleRepeat, OtherEnds, playVars, locals
<1>10. ASSUME NEW x, UserSelects(x) \/ UserDeletes(x) \/ UserDoubleClicks(x)
      PROVE  HasDevice' /\ DevicesApart'
  BY <1>10, QuietStep
  DEF UserSelects, UserDeletes, UserDoubleClicks, playVars, locals
<1>11. CASE UNCHANGED vars
  BY <1>11, QuietStep DEF vars, playVars, locals
<1> QED
  BY <1>2, <1>3, <1>4, <1>5, <1>6, <1>7, <1>8, <1>9, <1>10, <1>11 DEF Next

LEMMA DeviceInvAlways == Spec => []DeviceInv
<1>1. Init => DeviceInv
  BY DeviceInvInit
<1>2. DeviceInv /\ [Next]_vars => DeviceInv'
  BY DeviceInvNext
<1> QED BY <1>1, <1>2, PTL DEF Spec

\* However the two threads interleave, and wherever the alias counter wraps
\* around: the folder believes in a closed device only while one of the threads
\* is inside cwStopAudioFile.
THEOREM PublishedDeviceAlwaysOpen == Spec => []PublishedDeviceIsOpen
<1>1. DeviceInv => PublishedDeviceIsOpen
  BY DEF DeviceInv, DevicesApart
<1> QED BY <1>1, DeviceInvAlways, PTL

\* A thread never loses the device it is starting in cwPlayAudioFile, whatever
\* the other one stops meanwhile.
THEOREM StartingDeviceAlwaysOpen == Spec => []StartingDeviceIsOpen
<1>1. DeviceInv => StartingDeviceIsOpen
  BY DEF DeviceInv, DevicesApart
<1> QED BY <1>1, DeviceInvAlways, PTL

\* The play thread and the timer's handler never start the same device, nor one
\* that the folder plays on.
THEOREM StartingDevicesAlwaysDiffer == Spec => []StartingDevicesDiffer
<1>1. DeviceInv => StartingDevicesDiffer
  BY DEF DeviceInv, DevicesApart
<1> QED BY <1>1, DeviceInvAlways, PTL

-----------------------------------------------------------------------------
(***************************************************************************)
(* What MediaPlayer promises once both threads rest: the pause button      *)
(* agrees with the device, a playing folder is tended, a silent one marks  *)
(* nothing.  None of it is true inside a handler, so each inductive        *)
(* invariant says what holds at every step of one.                         *)
(***************************************************************************)



-----------------------------------------------------------------------------
(* The pause button.                                                         *)

\* A device that is being started is never paused: PAUSE reaches only iWave,
\* and while that is the device of a starting thread, the play thread is busy.
NotPausedYet == \A t \in Threads : pc[t] \in Starting => dev[priv[t]] # "paused"

Agrees == IF bPaused THEN dev[iWave] # "playing" ELSE dev[iWave] # "paused"

PublishedAgrees ==
  /\ iWave # 0 /\ ~crossed
  /\ \A t \in Threads : ~Pausing(t) /\ (pc[t] \in Starting => priv[t] # iWave)
  => Agrees

\* A PAUSE or slider move that nothing has crossed is alone at it, and the device
\* the folder plays on still does what it was told.
PausingAgrees ==
  ~crossed => \A t \in Threads :
    /\ Pausing(t) => \A u \in Threads : Pausing(u) => u = t
    /\ pc[t] = "paused" /\ iWave # 0 => dev[iWave] # "playing"
    /\ pc[t] \in {"resumed", "sought"} /\ iWave # 0 => dev[iWave] # "paused"

PauseInv == NotPausedYet /\ PublishedAgrees /\ PausingAgrees

-----------------------------------------------------------------------------
(* Handlers one at a time.                                                   *)

OneHandler == \A t, u \in Threads : t = u \/ Idle(t) \/ Idle(u)

Forgetting == {"stopDeselect", "stopClear"}
Kept       == iWave # 0 /\ \A t \in Threads : pc[t] \notin Forgetting

Tended(r) == timerOn /\ (r \in recs => r \in inUse)

TendedInv ==
  /\ OneHandler
  /\ Kept => Tended(mrcPlaying)
  /\ \A t \in Threads : pc[t] \in {"select", "publish"} => Tended(mrc[t])

\* A device that PLAY with nothing selected has left to itself stays open, as
\* no alias is opened twice and nobody closes what nobody knows.
Orphan ==
  \E d \in Devices :
    /\ dev[d] # "closed" /\ d # iWave
    /\ \A t \in Threads : pc[t] \in Starting => priv[t] # d

Marked ==
  {r \in inUse :
    \/ Kept /\ r = mrcPlaying
    \/ \E t \in Threads : pc[t] \in {"select", "publish"} /\ r = mrc[t]}

UnusedInv == OneHandler /\ (Orphan \/ inUse \subseteq Marked)

-----------------------------------------------------------------------------
(* The pause button: proof.                                                  *)

\* A step that changes neither the folder's idea of its device nor makes any
\* device play or pause, and takes no thread into or out of starting one.
LEMMA PauseQuiet ==
  ASSUME DeviceInv, PauseInv, UNCHANGED <<iWave, bPaused, crossed>>,
         \A d \in Devices : dev'[d] \in Sounding => dev'[d] = dev[d],
         \A t \in Threads :
           /\ pc'[t] \in Starting <=> pc[t] \in Starting
           /\ pc[t] \in Starting => priv'[t] = priv[t]
           /\ pc[t] \in PauseSteps \/ pc'[t] \in PauseSteps => pc'[t] = pc[t]
  PROVE  PauseInv'
<1>1. NotPausedYet'
  BY DEF DeviceInv, HasDevice, PauseInv, NotPausedYet, Sounding
<1>2. iWave # 0 => iWave \in Devices
  BY DEF DeviceInv, TypeOK, PlayerOK, Devices
<1>3. PublishedAgrees'
  BY <1>2 DEF PauseInv, PublishedAgrees, Agrees, Sounding, Pausing
<1>4. PausingAgrees'
  BY <1>2 DEF PauseInv, PausingAgrees, Sounding, Pausing, PauseSteps
<1> QED BY <1>1, <1>3, <1>4 DEF PauseInv

\* The steps of PAUSE and of the slider themselves.
LEMMA ControlPause ==
  ASSUME DeviceInv, PauseInv, NEW t \in Threads, ControlStep(t) PROVE PauseInv'
<1>1. ThreadsOK /\ PlayerOK
  BY DEF DeviceInv, TypeOK
<1>2. UNCHANGED <<iWave, priv, crossed>> /\ pc[t] \in ControlSteps
      /\ \E l \in ControlSteps \cup {"idle"} : Goto(t, l)
  BY ControlIs
<1>3. \A u \in Threads : pc'[u] \in Starting <=> pc[u] \in Starting
  BY <1>1, <1>2 DEF Goto, ThreadsOK, Starting, ControlSteps, PauseSteps
<1>4. \A u \in Threads : pc[u] \in Starting => priv[u] # iWave
  BY <1>2 DEF DeviceInv, DevicesApart, StartingDevicesDiffer, Closing, Starting, ControlSteps, PauseSteps
<1>5. \A d \in Devices : d # iWave => dev'[d] = dev[d]
  BY <1>1, ControlIs DEF DeviceTo, PlayerOK
<1>6. NotPausedYet'
  BY <1>2, <1>3, <1>4, <1>5 DEF PauseInv, NotPausedYet, DeviceInv, HasDevice
<1>7. iWave # 0 => iWave \in Devices
  BY <1>1 DEF PlayerOK, Devices
<1> USE DEF Goto, Pausing, PauseSteps, PausingAgrees, PublishedAgrees, Agrees, ThreadsOK, PlayerOK
<1>8. ASSUME SendPause(t) PROVE PublishedAgrees' /\ PausingAgrees'
  <2>1. pc[t] = "pause" /\ pc' = [pc EXCEPT ![t] = "paused"]
    BY <1>8 DEF SendPause
  <2>2. iWave # 0 => dev'[iWave] # "playing"
    BY <1>1, <1>7, <1>8 DEF SendPause, DeviceTo
  <2>3. PausingAgrees'
    BY <1>1, <1>2, <2>1, <2>2 DEF PauseInv
  <2> QED BY <1>1, <2>1, <2>3
<1>9. ASSUME SendResume(t) PROVE PublishedAgrees' /\ PausingAgrees'
  <2>1. pc[t] = "resume" /\ pc' = [pc EXCEPT ![t] = "resumed"]
    BY <1>9 DEF SendResume
  <2>2. iWave # 0 => dev'[iWave] # "paused"
    BY <1>1, <1>7, <1>9 DEF SendResume, DeviceTo
  <2>3. PausingAgrees'
    BY <1>1, <1>2, <2>1, <2>2 DEF PauseInv
  <2> QED BY <1>1, <2>1, <2>3
<1>10. ASSUME SetPaused(t) \/ SetResumed(t) \/ SetSought(t)
       PROVE  PublishedAgrees' /\ PausingAgrees'
  <2>1. /\ dev' = dev /\ Pausing(t) /\ ~Pausing(t)'
        /\ \A u \in Threads \ {t} : pc'[u] = pc[u]
    BY <1>1, <1>10 DEF SetPaused, SetResumed, SetSought
  <2>2. \/ bPaused' = TRUE /\ pc[t] = "paused"
        \/ bPaused' = FALSE /\ pc[t] \in {"resumed", "sought"}
    BY <1>10 DEF SetPaused, SetResumed, SetSought
  <2>3. ~crossed /\ iWave # 0 => Agrees'
    BY <1>2, <2>1, <2>2 DEF PauseInv
  <2>4. PausingAgrees'
    BY <1>2, <2>1 DEF PauseInv
  <2> QED BY <1>2, <2>3, <2>4
<1>11. ASSUME ShowDisplay(t) PROVE PublishedAgrees' /\ PausingAgrees'
  <2>1. UNCHANGED <<dev, bPaused>> /\ \A u \in Threads : Pausing(u) \/ Pausing(u)' => pc'[u] = pc[u]
    BY <1>1, <1>11 DEF ShowDisplay, playVars
  <2> QED BY <1>2, <1>3, <2>1 DEF PauseInv
<1> QED BY <1>6, <1>8, <1>9, <1>10, <1>11 DEF ControlStep, PauseInv

LEMMA ThreadStepPause ==
  ASSUME DeviceInv, PauseInv, NEW t \in Threads, ThreadStep(t) PROVE PauseInv'
<1>1. ThreadsOK /\ PlayerOK
  BY DEF DeviceInv, TypeOK
<1> USE DEF Starting, Sounding, Goto, locals, Devices, PauseSteps, Pausing
<1>2. ASSUME GetDevice(t) PROVE PauseInv'
  BY <1>1, <1>2, PauseQuiet
  DEF GetDevice, Look, CallStop, playVars, ThreadsOK, PlayerOK
<1>3. ASSUME ChooseFirstWhilePlaying(t) PROVE PauseInv'
  BY <1>1, <1>3, PauseQuiet
  DEF ChooseFirstWhilePlaying, CallStop, playVars, ThreadsOK, PlayerOK
<1>4. ASSUME ChooseFirst(t) PROVE PauseInv'
  BY <1>1, <1>4, PauseQuiet
  DEF ChooseFirst, Finish, playVars, ThreadsOK, PlayerOK
<1>5. ASSUME ChooseOther(t) PROVE PauseInv'
  BY <1>1, <1>5, PauseQuiet
  DEF ChooseOther, RestartWithFirst, playVars, ThreadsOK, PlayerOK
<1>6. ASSUME ChooseNext(t) PROVE PauseInv'
  BY <1>1, <1>6, PauseQuiet
  DEF ChooseNext, CallStop, playVars, ThreadsOK, PlayerOK
<1>7. ASSUME ChoosePrev(t) PROVE PauseInv'
  BY <1>1, <1>7, PauseQuiet
  DEF ChoosePrev, CallStop, playVars, ThreadsOK, PlayerOK
<1>8. ASSUME SearchBack(t) PROVE PauseInv'
  BY <1>1, <1>8, PauseQuiet
  DEF SearchBack, Finish, playVars, ThreadsOK, PlayerOK
<1>9. ASSUME Ended(t) PROVE PauseInv'
  BY <1>1, <1>9, PauseQuiet
  DEF Ended, Finish, RestartWithFirst, playVars, ThreadsOK, PlayerOK
<1>10. ASSUME OpenDevice(t) PROVE PauseInv'
  <2>1. CASE dev[priv[t]] = "closed" /\ dev' = [dev EXCEPT ![priv[t]] = "open"]
             /\ Goto(t, "start") /\ UNCHANGED locals
    <3>1. pc[t] = "open" /\ priv[t] \in Devices /\ UNCHANGED <<iWave, bPaused, crossed>>
      BY <1>10 DEF OpenDevice, DeviceInv, HasDevice, playVars
    <3>2. NotPausedYet'
      BY <1>1, <2>1, <3>1 DEF PauseInv, NotPausedYet, ThreadsOK, PlayerOK
    <3>3. PublishedAgrees'
      BY <1>1, <2>1, <3>1 DEF PauseInv, PublishedAgrees, Agrees, ThreadsOK, PlayerOK
    <3>4. PausingAgrees'
      BY <1>1, <2>1, <3>1 DEF PauseInv, PausingAgrees, ThreadsOK, PlayerOK
    <3> QED BY <3>2, <3>3, <3>4 DEF PauseInv
  <2>2. CASE Finish(t) /\ UNCHANGED dev
    BY <1>1, <1>10, <2>2, PauseQuiet DEF OpenDevice, Finish, playVars, ThreadsOK, PlayerOK
  <2> QED BY <1>10, <2>1, <2>2 DEF OpenDevice
<1>11. ASSUME StartDevice(t) PROVE PauseInv'
  <2>1. pc[t] = "start" /\ priv[t] \in Devices /\ UNCHANGED <<iWave, bPaused, crossed>>
    BY <1>11 DEF StartDevice, DeviceInv, HasDevice, playVars
  <2>2. \A u \in Threads : pc[u] \in Starting => u = t \/ priv[u] # priv[t]
    BY <2>1 DEF DeviceInv, DevicesApart, StartingDevicesDiffer
  <2>5. \A u \in Threads : Pausing(u) => iWave # priv[t]
    BY <2>1 DEF DeviceInv, DevicesApart, StartingDevicesDiffer, Closing
  <2>3. CASE dev' = [dev EXCEPT ![priv[t]] = "playing"]
             /\ Goto(t, "mark") /\ UNCHANGED locals
    <3>1. NotPausedYet'
      BY <1>1, <2>1, <2>2, <2>3 DEF PauseInv, NotPausedYet, ThreadsOK, PlayerOK
    <3>2. PublishedAgrees'
      BY <1>1, <2>1, <2>3 DEF PauseInv, PublishedAgrees, Agrees, ThreadsOK, PlayerOK
    <3>3. PausingAgrees'
      BY <1>1, <2>1, <2>3, <2>5 DEF PauseInv, PausingAgrees, ThreadsOK, PlayerOK
    <3> QED BY <3>1, <3>2, <3>3 DEF PauseInv
  <2>4. CASE dev' = [dev EXCEPT ![priv[t]] = "closed"] /\ Finish(t)
    <3>1. pc' = [pc EXCEPT ![t] = "idle"] /\ priv' = [priv EXCEPT ![t] = 0]
      BY <2>4 DEF Finish
    <3>2. NotPausedYet'
      BY <1>1, <2>1, <2>2, <2>4, <3>1
      DEF PauseInv, NotPausedYet, DeviceInv, HasDevice, ThreadsOK, PlayerOK
    <3>3. PublishedAgrees'
      BY <1>1, <2>1, <2>4, <3>1 DEF PauseInv, PublishedAgrees, Agrees, ThreadsOK, PlayerOK
    <3>4. PausingAgrees'
      BY <1>1, <2>1, <2>4, <3>1 DEF PauseInv, PausingAgrees, ThreadsOK, PlayerOK
    <3> QED BY <3>2, <3>3, <3>4 DEF PauseInv
  <2> QED BY <1>11, <2>3, <2>4 DEF StartDevice
<1>12. ASSUME MarkInUse(t) PROVE PauseInv'
  BY <1>1, <1>12, PauseQuiet
  DEF MarkInUse, playVars, ThreadsOK, PlayerOK
<1>13. ASSUME SelectRecord(t) PROVE PauseInv'
  BY <1>1, <1>13, PauseQuiet
  DEF SelectRecord, playVars, ThreadsOK, PlayerOK
<1>14. ASSUME Publish(t) PROVE PauseInv'
  <2>1. dev' = dev /\ iWave' = priv[t] /\ bPaused' = FALSE /\ dev[priv[t]] # "paused"
    BY <1>14 DEF Publish, PauseInv, NotPausedYet
  <2>2. \A u \in Threads : pc'[u] \in Starting => pc[u] \in Starting /\ priv'[u] = priv[u]
    BY <1>1, <1>14 DEF Publish, Finish, ThreadsOK
  <2>3. crossed' = (\E u \in Threads : Pausing(u)) /\ pc[t] = "publish"
        /\ \A u \in Threads : Pausing(u)' <=> Pausing(u)
    BY <1>1, <1>14 DEF Publish, Finish, ThreadsOK
  <2>4. NotPausedYet' /\ PublishedAgrees'
    BY <2>1, <2>2 DEF PauseInv, NotPausedYet, PublishedAgrees, Agrees
  <2>5. PausingAgrees'
    BY <2>3 DEF PausingAgrees
  <2> QED BY <2>4, <2>5 DEF PauseInv
<1>15. ASSUME StopDevice(t) PROVE PauseInv'
  BY <1>1, <1>15, PauseQuiet DEF StopDevice, playVars, ThreadsOK, PlayerOK
<1>16. ASSUME StopNothing(t) PROVE PauseInv'
  BY <1>1, <1>16, PauseQuiet
  DEF StopNothing, playVars, ThreadsOK, PlayerOK
<1>17. ASSUME StopOther(t) PROVE PauseInv'
  BY <1>1, <1>17, PauseQuiet
  DEF StopOther, ReturnFromStop, Finish, Resumes, playVars, ThreadsOK, PlayerOK
<1>18. ASSUME StopClose(t) PROVE PauseInv'
  BY <1>1, <1>18, PauseQuiet DEF StopClose, playVars, ThreadsOK, PlayerOK
<1>19. ASSUME StopReset(t) PROVE PauseInv'
  BY <1>1, <1>19, PauseQuiet
  DEF StopReset, playVars, ThreadsOK, PlayerOK
<1>20. ASSUME StopDeselect(t) PROVE PauseInv'
  BY <1>1, <1>20, PauseQuiet
  DEF StopDeselect, playVars, ThreadsOK, PlayerOK
<1>21. ASSUME StopClear(t) PROVE PauseInv'
  <2>1. dev' = dev /\ iWave' = 0
    BY <1>21 DEF StopClear
  <2>2. \A u \in Threads : pc'[u] \in Starting => pc[u] \in Starting /\ priv'[u] = priv[u]
    BY <1>1, <1>21 DEF StopClear, ReturnFromStop, Finish, ThreadsOK, Resumes
  <2>3. crossed' = crossed /\ \A u \in Threads : Pausing(u)' <=> Pausing(u)
    BY <1>1, <1>21 DEF StopClear, ReturnFromStop, Finish, ThreadsOK, Resumes
  <2>4. PausingAgrees'
    BY <2>1, <2>3 DEF PauseInv, PausingAgrees
  <2> QED BY <2>1, <2>2, <2>4 DEF PauseInv, NotPausedYet, PublishedAgrees
<1>22. ASSUME ControlStep(t) PROVE PauseInv'
  BY <1>22, ControlPause
<1> QED
  BY <1>2, <1>3, <1>4, <1>5, <1>6, <1>7, <1>8, <1>9, <1>10, <1>11, <1>12, <1>13, <1>14, <1>15, <1>16, <1>17, <1>18, <1>19, <1>20, <1>21, <1>22
  DEF ThreadStep

LEMMA PauseNext ==
  ASSUME "share" \notin UserEvents, DeviceInv, PauseInv, [Next]_vars
  PROVE  PauseInv'
<1>1. ThreadsOK /\ PlayerOK /\ bPaused \in BOOLEAN
  BY DEF DeviceInv, TypeOK, FlagsOK
<1> USE DEF Starting, Sounding, Goto, Devices, Idle, MayBegin, PauseSteps
<1>2. ASSUME NEW t \in Threads, ThreadStep(t) PROVE PauseInv'
  BY <1>2, ThreadStepPause
<1>3. CASE TakeCommand
  BY <1>1, <1>3, PauseQuiet DEF TakeCommand, Begin, playVars, ThreadsOK, PlayerOK
<1>4. CASE TakePause
  <2>1. /\ UNCHANGED <<iWave, bPaused, dev, priv>> /\ pc[Play] = "idle"
        /\ \E l \in {"pause", "resume"} : pc' = [pc EXCEPT ![Play] = l]
        /\ crossed' = (\E u \in Threads : Pausing(u))
    BY <1>4 DEF TakePause, BeginPausing, locals
  <2>2. NotPausedYet'
    BY <1>1, <2>1 DEF PauseInv, NotPausedYet, ThreadsOK
  <2>3. PausingAgrees'
    BY <1>1, <2>1 DEF PausingAgrees, Pausing, PauseSteps, ThreadsOK
  <2>4. PublishedAgrees'
    BY <1>1, <2>1 DEF PublishedAgrees, Pausing, PauseSteps, ThreadsOK
  <2> QED BY <2>2, <2>3, <2>4 DEF PauseInv
<1>5. CASE Seek
  <2>1. /\ UNCHANGED <<iWave, bPaused, priv>> /\ pc[UI] = "idle"
        /\ pc' = [pc EXCEPT ![UI] = "sought"]
        /\ crossed' = (\E u \in Threads : Pausing(u))
    BY <1>5 DEF Seek, BeginPausing, locals
  <2>2. \A d \in Devices : dev'[d] = "paused" => dev[d] = "paused" /\ d # iWave
    BY <1>1, <1>5 DEF Seek, DeviceTo, PlayerOK
  <2>3. NotPausedYet'
    BY <1>1, <2>1, <2>2 DEF PauseInv, NotPausedYet, DeviceInv, HasDevice, ThreadsOK
  <2>4. iWave # 0 => dev'[iWave] # "paused"
    BY <1>1, <2>2 DEF PlayerOK
  <2>5. PausingAgrees'
    BY <1>1, <2>1, <2>4 DEF PausingAgrees, Pausing, PauseSteps, ThreadsOK
  <2>6. PublishedAgrees'
    BY <1>1, <2>1 DEF PublishedAgrees, Pausing, PauseSteps, ThreadsOK
  <2> QED BY <2>3, <2>5, <2>6 DEF PauseInv
<1>6. CASE TimerTick
  BY <1>1, <1>6, PauseQuiet DEF TimerTick, Begin, locals, ThreadsOK, PlayerOK
<1>7. ASSUME NEW c \in Commands \cup {"pause"}, PostCommand(c) PROVE PauseInv'
  BY <1>1, <1>7, PauseQuiet DEF PostCommand, locals, playVars, ThreadsOK, PlayerOK
<1>8. CASE ToggleRepeat \/ OtherEnds
  BY <1>1, <1>8, PauseQuiet
  DEF ToggleRepeat, OtherEnds, locals, playVars, ThreadsOK, PlayerOK
<1>9. ASSUME NEW x, UserSelects(x) \/ UserDeletes(x) \/ UserDoubleClicks(x)
      PROVE  PauseInv'
  BY <1>1, <1>9, PauseQuiet
  DEF UserSelects, UserDeletes, UserDoubleClicks, locals, playVars, ThreadsOK, PlayerOK
<1>10. ASSUME NEW d \in Devices, TrackEnds(d) PROVE PauseInv'
  BY <1>1, <1>10, PauseQuiet DEF TrackEnds, locals, playVars, ThreadsOK, PlayerOK
<1>11. CASE UNCHANGED vars
  BY <1>1, <1>11, PauseQuiet DEF vars, locals, playVars, ThreadsOK, PlayerOK
<1>12. ~PassDevice
  BY DEF PassDevice
<1> QED
  BY <1>2, <1>3, <1>4, <1>5, <1>6, <1>7, <1>8, <1>9, <1>10, <1>11, <1>12 DEF Next

\* However the steps of PAUSE, of the slider and of the handlers of both threads
\* interleave: unless the last PAUSE or slider move was crossed by a new track or by
\* the other of the two, a folder that is marked as paused does not sound, and one
\* that is not does not stand still; and one PAUSE, slider move or new track that
\* nothing crosses is enough to make it so again.  Another program that takes the
\* device is left out: it sets the mark whatever the device does.
THEOREM PauseAlwaysAgrees ==
  ASSUME "share" \notin UserEvents PROVE Spec => []PauseAgrees
<1>1. Init => PauseInv
  BY DEF Init, PauseInv, NotPausedYet, PublishedAgrees, PausingAgrees, Pausing, PauseSteps, Starting
<1>2. DeviceInv /\ PauseInv /\ [Next]_vars => PauseInv'
  BY PauseNext
<1>3. PauseInv => PauseAgrees
  BY DEF PauseInv, PublishedAgrees, Agrees, PauseAgrees
<1> QED BY <1>1, <1>2, <1>3, DeviceInvAlways, PTL DEF Spec

-----------------------------------------------------------------------------
(* One handler at a time: proof.                                             *)

\* A step of a handler is of a thread that does not rest, and of it alone.
LEMMA StepsAlone ==
  ASSUME TypeOK, NEW t \in Threads, ThreadStep(t)
  PROVE  pc[t] # "idle" /\ \A u \in Threads \ {t} : pc'[u] = pc[u]
<1>1. ThreadsOK
  BY DEF TypeOK
<1> USE DEF Goto
<1>2. CASE GetDevice(t)
  BY <1>1, <1>2 DEF GetDevice, Look, CallStop, ThreadsOK
<1>3. CASE ChooseFirstWhilePlaying(t)
  BY <1>1, <1>3 DEF ChooseFirstWhilePlaying, CallStop, ThreadsOK
<1>4. CASE ChooseFirst(t)
  BY <1>1, <1>4 DEF ChooseFirst, Finish, ThreadsOK
<1>5. CASE ChooseOther(t)
  BY <1>1, <1>5 DEF ChooseOther, RestartWithFirst, ThreadsOK
<1>6. CASE ChooseNext(t)
  BY <1>1, <1>6 DEF ChooseNext, CallStop, ThreadsOK
<1>7. CASE ChoosePrev(t)
  BY <1>1, <1>7 DEF ChoosePrev, CallStop, ThreadsOK
<1>8. CASE SearchBack(t)
  BY <1>1, <1>8 DEF SearchBack, Finish, ThreadsOK
<1>9. CASE Ended(t)
  BY <1>1, <1>9 DEF Ended, Finish, RestartWithFirst, ThreadsOK
<1>10. CASE OpenDevice(t)
  BY <1>1, <1>10 DEF OpenDevice, Finish, locals, ThreadsOK
<1>11. CASE StartDevice(t)
  BY <1>1, <1>11 DEF StartDevice, Finish, locals, ThreadsOK
<1>12. CASE MarkInUse(t)
  BY <1>1, <1>12 DEF MarkInUse, locals, ThreadsOK
<1>13. CASE SelectRecord(t)
  BY <1>1, <1>13 DEF SelectRecord, locals, ThreadsOK
<1>14. CASE Publish(t)
  BY <1>1, <1>14 DEF Publish, Finish, ThreadsOK
<1>15. CASE StopDevice(t)
  BY <1>1, <1>15 DEF StopDevice, locals, ThreadsOK
<1>16. CASE StopNothing(t)
  BY <1>1, <1>16 DEF StopNothing, locals, ThreadsOK
<1>17. CASE StopOther(t)
  BY <1>1, <1>17 DEF StopOther, ReturnFromStop, Finish, Resumes, ThreadsOK
<1>18. CASE StopClose(t)
  BY <1>1, <1>18 DEF StopClose, locals, ThreadsOK
<1>19. CASE StopReset(t)
  BY <1>1, <1>19 DEF StopReset, ThreadsOK
<1>20. CASE StopDeselect(t)
  BY <1>1, <1>20 DEF StopDeselect, ThreadsOK
<1>21. CASE StopClear(t)
  BY <1>1, <1>21 DEF StopClear, ReturnFromStop, Finish, Resumes, ThreadsOK
<1>22. CASE ControlStep(t)
  BY <1>1, <1>22, ControlIs DEF ThreadsOK, ControlSteps, PauseSteps
<1> QED
  BY <1>2, <1>3, <1>4, <1>5, <1>6, <1>7, <1>8, <1>9, <1>10, <1>11, <1>12, <1>13, <1>14, <1>15, <1>16, <1>17, <1>18, <1>19, <1>20, <1>21, <1>22
  DEF ThreadStep

LEMMA OthersRest ==
  ASSUME TypeOK, OneHandler, NEW t \in Threads, ThreadStep(t)
  PROVE  /\ OneHandler'
         /\ \A u \in Threads \ {t} : pc[u] = "idle" /\ pc'[u] = "idle"
BY StepsAlone DEF OneHandler, Idle

Beginnings == {"stop", "getdev", "pause", "resume", "sought"}

\* What is not a step of a handler leaves the handlers where they are, or begins
\* one when all rest.
LEMMA BeginsAlone ==
  ASSUME ~Overlap, TypeOK, OneHandler, [Next]_vars,
         \A t \in Threads : ~ThreadStep(t)
  PROVE  /\ OneHandler'
         /\ \A t \in Threads :
              pc'[t] = pc[t] \/ (pc[t] = "idle" /\ pc'[t] \in Beginnings)
         /\ UNCHANGED <<iWave, mrcPlaying, priv, mrc>>
<1> USE DEF Beginnings
<1>1. ThreadsOK
  BY DEF TypeOK
<1>2. \/ pc' = pc
      \/ AllIdle /\ \E t \in Threads, l \in Beginnings : Goto(t, l)
  <2>1. CASE TakeCommand
    BY <2>1 DEF TakeCommand, MayBegin, Begin, Threads, Play
  <2>2. CASE TimerTick
    BY <2>2 DEF TimerTick, MayBegin, Begin, Threads, UI
  <2>7. CASE TakePause \/ Seek
    BY <2>7 DEF TakePause, Seek, BeginPausing, MayBegin, Threads, Play, UI
  <2>3. CASE PassDevice \/ ToggleRepeat \/ OtherEnds
    BY <2>3 DEF PassDevice, ToggleRepeat, OtherEnds
  <2>4. ASSUME NEW x, PostCommand(x) \/ TrackEnds(x)
        PROVE  pc' = pc
    BY <2>4 DEF PostCommand, TrackEnds
  <2>5. ASSUME NEW x, UserSelects(x) \/ UserDeletes(x) \/ UserDoubleClicks(x)
        PROVE  pc' = pc
    BY <2>5 DEF UserSelects, UserDeletes, UserDoubleClicks
  <2>6. CASE UNCHANGED vars
    BY <2>6 DEF vars
  <2> QED BY <2>1, <2>2, <2>3, <2>4, <2>5, <2>6, <2>7 DEF Next
<1>3. UNCHANGED <<iWave, mrcPlaying, priv, mrc>>
  <2>1. CASE TakeCommand
    BY <2>1 DEF TakeCommand, Begin, playVars
  <2>2. CASE TimerTick
    BY <2>2 DEF TimerTick, Begin, locals
  <2>3. CASE TakePause \/ Seek \/ PassDevice \/ ToggleRepeat \/ OtherEnds
    BY <2>3 DEF TakePause, Seek, PassDevice, ToggleRepeat, OtherEnds, locals, playVars
  <2>4. ASSUME NEW x, PostCommand(x) \/ TrackEnds(x)
        PROVE  UNCHANGED <<iWave, mrcPlaying, priv, mrc>>
    BY <2>4 DEF PostCommand, TrackEnds, locals, playVars
  <2>5. ASSUME NEW x, UserSelects(x) \/ UserDeletes(x) \/ UserDoubleClicks(x)
        PROVE  UNCHANGED <<iWave, mrcPlaying, priv, mrc>>
    BY <2>5 DEF UserSelects, UserDeletes, UserDoubleClicks, locals, playVars
  <2>6. CASE UNCHANGED vars
    BY <2>6 DEF vars, locals, playVars
  <2> QED BY <2>1, <2>2, <2>3, <2>4, <2>5, <2>6 DEF Next
<1>4. OneHandler'
  <2>1. CASE pc' = pc
    BY <2>1 DEF OneHandler, Idle
  <2>2. CASE AllIdle /\ \E t \in Threads, l \in Beginnings : Goto(t, l)
    BY <1>1, <2>2 DEF OneHandler, AllIdle, Idle, Goto, ThreadsOK
  <2> QED BY <1>2, <2>1, <2>2
<1>5. \A t \in Threads :
        pc'[t] = pc[t] \/ (pc[t] = "idle" /\ pc'[t] \in Beginnings)
  <2>1. CASE pc' = pc
    BY <2>1
  <2>2. CASE AllIdle /\ \E t \in Threads, l \in Beginnings : Goto(t, l)
    <3>1. PICK u \in Threads, l \in Beginnings : pc' = [pc EXCEPT ![u] = l]
      BY <2>2 DEF Goto
    <3>2. \A t \in Threads : pc'[t] = IF t = u THEN l ELSE pc[t]
      BY <1>1, <3>1 DEF ThreadsOK
    <3> QED BY <2>2, <3>2 DEF AllIdle, Idle
  <2> QED BY <1>2, <2>1, <2>2
<1> QED BY <1>3, <1>4, <1>5

-----------------------------------------------------------------------------
(* A playing folder is tended: proof.                                        *)

\* A step that leaves what plays alone, unmarks only what it deletes, and takes
\* no thread out of a stop or behind MarkInUse.
LEMMA TendedQuiet ==
  ASSUME TendedInv, OneHandler', UNCHANGED <<iWave, mrcPlaying>>,
         timerOn => timerOn',
         \A r \in recs' : r \in recs /\ (r \in inUse => r \in inUse'),
         \A t \in Threads :
           /\ pc[t] \in Forgetting => pc'[t] \in Forgetting
           /\ pc'[t] \in {"select", "publish"} =>
                pc[t] \in {"select", "publish"} /\ mrc'[t] = mrc[t]
  PROVE  TendedInv'
BY DEF TendedInv, Kept, Tended

LEMMA ThreadStepTended ==
  ASSUME TypeOK, TendedInv, NEW t \in Threads, ThreadStep(t) PROVE TendedInv'
<1>1. ThreadsOK /\ ContainerOK
  BY DEF TypeOK
<1>2. OneHandler' /\ \A u \in Threads \ {t} : pc[u] = "idle" /\ pc'[u] = "idle"
  BY OthersRest DEF TendedInv
<1> USE DEF Goto, Forgetting
<1>3. CASE GetDevice(t)
  BY <1>1, <1>2, <1>3, TendedQuiet
  DEF GetDevice, Look, CallStop, playVars, cnrVars, ThreadsOK
<1>4. CASE ChooseFirstWhilePlaying(t)
  BY <1>1, <1>2, <1>4, TendedQuiet
  DEF ChooseFirstWhilePlaying, CallStop, playVars, cnrVars, ThreadsOK
<1>5. CASE ChooseFirst(t)
  BY <1>1, <1>2, <1>5, TendedQuiet
  DEF ChooseFirst, Finish, playVars, cnrVars, ThreadsOK
<1>6. CASE ChooseOther(t)
  BY <1>1, <1>2, <1>6, TendedQuiet
  DEF ChooseOther, RestartWithFirst, playVars, cnrVars, ThreadsOK
<1>7. CASE ChooseNext(t)
  BY <1>1, <1>2, <1>7, TendedQuiet
  DEF ChooseNext, CallStop, playVars, cnrVars, ThreadsOK
<1>8. CASE ChoosePrev(t)
  BY <1>1, <1>2, <1>8, TendedQuiet
  DEF ChoosePrev, CallStop, playVars, cnrVars, ThreadsOK
<1>9. CASE SearchBack(t)
  BY <1>1, <1>2, <1>9, TendedQuiet
  DEF SearchBack, Finish, playVars, cnrVars, ThreadsOK
<1>10. CASE Ended(t)
  BY <1>1, <1>2, <1>10, TendedQuiet
  DEF Ended, Finish, RestartWithFirst, playVars, cnrVars, ThreadsOK
<1>11. CASE OpenDevice(t)
  BY <1>1, <1>2, <1>11, TendedQuiet
  DEF OpenDevice, Finish, locals, playVars, cnrVars, ThreadsOK
<1>12. CASE StartDevice(t)
  BY <1>1, <1>2, <1>12, TendedQuiet
  DEF StartDevice, Finish, locals, playVars, cnrVars, ThreadsOK
<1>13. CASE MarkInUse(t)
  <2>1. /\ timerOn' /\ recs' = recs /\ inUse' = inUse \cup ({mrc[t]} \cap Records)
        /\ UNCHANGED <<iWave, mrcPlaying, mrc>> /\ pc'[t] = "select"
    BY <1>1, <1>13 DEF MarkInUse, locals, playVars, ThreadsOK
  <2>2. pc[t] \notin Forgetting
    BY <1>13 DEF MarkInUse
  <2> QED BY <1>1, <1>2, <2>1, <2>2 DEF TendedInv, Kept, Tended, ContainerOK
<1>14. CASE SelectRecord(t)
  BY <1>1, <1>2, <1>14, TendedQuiet
  DEF SelectRecord, locals, playVars, ThreadsOK
<1>15. CASE Publish(t)
  <2>1. Tended(mrc[t])
    BY <1>15 DEF Publish, TendedInv
  <2>2. /\ mrcPlaying' = mrc[t] /\ pc'[t] = "idle"
        /\ UNCHANGED <<timerOn, recs, inUse>>
    BY <1>1, <1>15 DEF Publish, Finish, cnrVars, ThreadsOK
  <2> QED BY <1>2, <2>1, <2>2 DEF TendedInv, Tended
<1>16. CASE StopDevice(t)
  BY <1>1, <1>2, <1>16, TendedQuiet
  DEF StopDevice, locals, playVars, cnrVars, ThreadsOK
<1>17. CASE StopNothing(t)
  BY <1>1, <1>2, <1>17, TendedQuiet
  DEF StopNothing, locals, playVars, cnrVars, ThreadsOK
<1>18. CASE StopOther(t)
  BY <1>1, <1>2, <1>18, TendedQuiet
  DEF StopOther, ReturnFromStop, Finish, Resumes, playVars, ThreadsOK
<1>19. CASE StopClose(t)
  BY <1>1, <1>2, <1>19, TendedQuiet
  DEF StopClose, locals, playVars, cnrVars, ThreadsOK
<1>20. CASE StopReset(t)
  <2>1. pc'[t] = "stopDeselect"
    BY <1>1, <1>20 DEF StopReset, ThreadsOK
  <2> QED BY <1>2, <2>1 DEF TendedInv, Kept
<1>21. CASE StopDeselect(t)
  BY <1>1, <1>2, <1>21, TendedQuiet
  DEF StopDeselect, playVars, ThreadsOK
<1>22. CASE StopClear(t)
  <2>1. iWave' = 0 /\ pc'[t] \notin {"select", "publish"}
    BY <1>1, <1>22 DEF StopClear, ReturnFromStop, Finish, ThreadsOK, Resumes
  <2> QED BY <1>2, <2>1 DEF TendedInv, Kept
<1>23. CASE ControlStep(t)
  <2>1. pc[t] \in ControlSteps /\ pc'[t] \in ControlSteps \cup {"idle"}
    BY <1>1, <1>23, ControlIs DEF ThreadsOK
  <2> QED BY <1>2, <1>23, <2>1, ControlIs, TendedQuiet DEF ControlSteps, PauseSteps
<1> QED
  BY <1>3, <1>4, <1>5, <1>6, <1>7, <1>8, <1>9, <1>10, <1>11, <1>12, <1>13, <1>14, <1>15, <1>16, <1>17, <1>18, <1>19, <1>20, <1>21, <1>22, <1>23
  DEF ThreadStep

LEMMA TendedNext ==
  ASSUME ~Overlap, TypeOK, TendedInv, [Next]_vars PROVE TendedInv'
<1>1. ASSUME NEW t \in Threads, ThreadStep(t) PROVE TendedInv'
  BY <1>1, ThreadStepTended
<1>2. CASE \A t \in Threads : ~ThreadStep(t)
  <2>1. /\ OneHandler'
        /\ \A t \in Threads :
             pc'[t] = pc[t] \/ (pc[t] = "idle" /\ pc'[t] \in Beginnings)
        /\ UNCHANGED <<iWave, mrcPlaying, mrc>>
    BY <1>2, BeginsAlone DEF TendedInv
  <2>2. /\ timerOn => timerOn'
        /\ \A r \in recs' : r \in recs /\ (r \in inUse => r \in inUse')
    <3>1. CASE UNCHANGED <<timerOn, recs, inUse>>
      BY <3>1
    <3>2. CASE Seek
      BY <3>2 DEF Seek, cnrVars
    <3>3. ASSUME NEW r, UserDeletes(r)
          PROVE  /\ timerOn => timerOn'
                 /\ \A x \in recs' : x \in recs /\ (x \in inUse => x \in inUse')
      BY <3>3 DEF UserDeletes
    <3>4. CASE TakeCommand \/ TakePause \/ TimerTick \/ PassDevice \/ ToggleRepeat
               \/ OtherEnds \/ UNCHANGED vars
      BY <3>1, <3>4
      DEF TakeCommand, TakePause, TimerTick, PassDevice, ToggleRepeat, OtherEnds,
          vars, cnrVars
    <3>5. ASSUME NEW x, PostCommand(x) \/ TrackEnds(x) \/ UserSelects(x)
                        \/ UserDoubleClicks(x)
          PROVE  UNCHANGED <<timerOn, recs, inUse>>
      BY <3>5 DEF PostCommand, TrackEnds, UserSelects, UserDoubleClicks, cnrVars
    <3> QED BY <1>2, <3>1, <3>2, <3>3, <3>4, <3>5 DEF Next
  <2> QED BY <2>1, <2>2, TendedQuiet DEF Forgetting, Beginnings
<1> QED BY <1>1, <1>2

\* With one handler at a time, for every number of records and aliases and
\* whatever the user does between them, a folder that plays has its timer and
\* has marked its record, unless the user has deleted that.
THEOREM PlayingAlwaysTended == ASSUME ~Overlap PROVE Spec => []PlayingIsTended
<1>1. Init => TendedInv
  BY DEF Init, TendedInv, OneHandler, Idle, Kept
<1>2. TypeOK /\ TendedInv /\ [Next]_vars => TendedInv'
  BY TendedNext
<1>3. TendedInv => PlayingIsTended
  BY DEF TendedInv, Kept, Tended, Forgetting, PlayingIsTended, AllIdle, Idle
<1> QED BY <1>1, <1>2, <1>3, TypeCorrect, PTL DEF Spec

-----------------------------------------------------------------------------
(* A silent folder marks nothing: proof.                                     *)

\* A step that publishes nothing, marks nothing, closes at most the device of
\* the folder or of a starting thread, and takes no thread into starting a
\* device, into forgetting one or out of having marked its record.
LEMMA UnusedQuiet ==
  ASSUME UnusedInv, OneHandler', UNCHANGED <<iWave, mrcPlaying>>,
         inUse' \subseteq inUse,
         \A d \in Devices :
           \/ dev[d] # "closed" => dev'[d] # "closed"
           \/ d = iWave
           \/ \E t \in Threads : pc[t] \in Starting /\ priv[t] = d,
         \A t \in Threads :
           /\ pc'[t] \in Starting => pc[t] \in Starting /\ priv'[t] = priv[t]
           /\ pc'[t] \in Forgetting => pc[t] \in Forgetting
           /\ pc[t] \in {"select", "publish"} =>
                pc'[t] \in {"select", "publish"} /\ mrc'[t] = mrc[t]
  PROVE  UnusedInv'
<1>1. Orphan => Orphan'
  BY DEF Orphan
<1>2. Kept => Kept'
  BY DEF Kept
<1>3. inUse \subseteq Marked => inUse' \subseteq Marked'
  BY <1>2 DEF Marked
<1> QED BY <1>1, <1>3 DEF UnusedInv

LEMMA ThreadStepUnused ==
  ASSUME DeviceInv, UnusedInv, NEW t \in Threads, ThreadStep(t) PROVE UnusedInv'
<1>1. ThreadsOK /\ PlayerOK
  BY DEF DeviceInv, TypeOK
<1>2. OneHandler' /\ \A u \in Threads \ {t} : pc[u] = "idle" /\ pc'[u] = "idle"
  BY OthersRest DEF DeviceInv, UnusedInv
<1> USE DEF Goto, Forgetting, Starting
<1>3. CASE GetDevice(t)
  BY <1>1, <1>2, <1>3, UnusedQuiet
  DEF GetDevice, Look, CallStop, playVars, cnrVars, ThreadsOK
<1>4. CASE ChooseFirstWhilePlaying(t)
  BY <1>1, <1>2, <1>4, UnusedQuiet
  DEF ChooseFirstWhilePlaying, CallStop, playVars, cnrVars, ThreadsOK
<1>5. CASE ChooseFirst(t)
  BY <1>1, <1>2, <1>5, UnusedQuiet
  DEF ChooseFirst, Finish, playVars, cnrVars, ThreadsOK
<1>6. CASE ChooseOther(t)
  BY <1>1, <1>2, <1>6, UnusedQuiet
  DEF ChooseOther, RestartWithFirst, playVars, cnrVars, ThreadsOK
<1>7. CASE ChooseNext(t)
  BY <1>1, <1>2, <1>7, UnusedQuiet
  DEF ChooseNext, CallStop, playVars, cnrVars, ThreadsOK
<1>8. CASE ChoosePrev(t)
  BY <1>1, <1>2, <1>8, UnusedQuiet
  DEF ChoosePrev, CallStop, playVars, cnrVars, ThreadsOK
<1>9. CASE SearchBack(t)
  BY <1>1, <1>2, <1>9, UnusedQuiet
  DEF SearchBack, Finish, playVars, cnrVars, ThreadsOK
<1>10. CASE Ended(t)
  BY <1>1, <1>2, <1>10, UnusedQuiet
  DEF Ended, Finish, RestartWithFirst, playVars, cnrVars, ThreadsOK
<1>11. CASE OpenDevice(t)
  <2>1. CASE dev[priv[t]] = "closed" /\ dev' = [dev EXCEPT ![priv[t]] = "open"]
             /\ Goto(t, "start") /\ UNCHANGED locals
    <3>1. /\ pc[t] = "open" /\ UNCHANGED <<iWave, mrcPlaying, inUse, priv, mrc>>
          /\ \A u \in Threads : pc'[u] = IF u = t THEN "start" ELSE pc[u]
      BY <1>1, <1>11, <2>1 DEF OpenDevice, playVars, cnrVars, locals, ThreadsOK
    <3>2. Orphan => Orphan'
      BY <1>1, <2>1, <3>1 DEF Orphan, PlayerOK
    <3>3. Marked' = Marked
      BY <3>1 DEF Marked, Kept
    <3> QED BY <1>2, <3>1, <3>2, <3>3 DEF UnusedInv
  <2>2. CASE Finish(t) /\ UNCHANGED dev
    BY <1>1, <1>2, <1>11, <2>2, UnusedQuiet
    DEF OpenDevice, Finish, playVars, cnrVars, ThreadsOK
  <2> QED BY <1>11, <2>1, <2>2 DEF OpenDevice
<1>12. CASE StartDevice(t)
  <2>1. pc[t] = "start" /\ UNCHANGED <<iWave, mrcPlaying, inUse>>
    BY <1>12 DEF StartDevice, playVars, cnrVars
  <2>2. \A d \in Devices : d # priv[t] => dev'[d] = dev[d]
    BY <1>1, <1>12 DEF StartDevice, PlayerOK
  <2>3. CASE Goto(t, "mark") /\ UNCHANGED locals
    BY <1>1, <1>2, <2>1, <2>2, <2>3, UnusedQuiet DEF locals, ThreadsOK
  <2>4. CASE Finish(t)
    BY <1>1, <1>2, <2>1, <2>2, <2>4, UnusedQuiet DEF Finish, ThreadsOK
  <2> QED BY <1>12, <2>3, <2>4 DEF StartDevice
<1>13. CASE MarkInUse(t)
  <2>1. /\ pc[t] = "mark" /\ UNCHANGED <<iWave, mrcPlaying, dev, priv, mrc>>
        /\ inUse' \subseteq inUse \cup {mrc[t]}
        /\ \A u \in Threads : pc'[u] = IF u = t THEN "select" ELSE pc[u]
    BY <1>1, <1>13 DEF MarkInUse, locals, playVars, ThreadsOK
  <2>2. Orphan => Orphan'
    BY <2>1 DEF Orphan
  <2>3. Kept => Kept'
    BY <2>1 DEF Kept
  <2>4. inUse \subseteq Marked => inUse' \subseteq Marked'
    BY <2>1, <2>3 DEF Marked
  <2> QED BY <1>2, <2>2, <2>4 DEF UnusedInv
<1>14. CASE SelectRecord(t)
  BY <1>1, <1>2, <1>14, UnusedQuiet
  DEF SelectRecord, locals, playVars, ThreadsOK
<1>15. CASE Publish(t)
  <2>1. /\ pc[t] = "publish" /\ iWave' = priv[t] /\ mrcPlaying' = mrc[t]
        /\ UNCHANGED <<dev, inUse>> /\ pc'[t] = "idle"
    BY <1>1, <1>15 DEF Publish, Finish, cnrVars, ThreadsOK
  <2>2. priv[t] \in Devices
    BY <2>1 DEF DeviceInv, HasDevice
  <2>3. Orphan => Orphan'
    BY <1>2, <2>1 DEF Orphan
  <2>4. CASE iWave # 0
    <3>1. iWave \in Devices
      BY <1>1, <2>4 DEF PlayerOK, Devices
    <3>2. \A u \in Threads : pc[u] \notin Closing
      BY <1>2, <2>1 DEF Closing
    <3>3. dev[iWave] # "closed"
      BY <2>4, <3>2 DEF DeviceInv, DevicesApart, PublishedDeviceIsOpen
    <3>4. \E u \in Threads : u # t
      BY DEF Threads, UI, Play
    <3>5. iWave # priv[t]
      BY <2>1, <3>2, <3>4 DEF DeviceInv, DevicesApart, StartingDevicesDiffer
    <3>6. Orphan'
      BY <1>2, <2>1, <3>1, <3>3, <3>5 DEF Orphan
    <3> QED BY <1>2, <3>6 DEF UnusedInv
  <2>5. CASE iWave = 0
    <3>1. inUse \subseteq Marked => inUse \subseteq {mrc[t]}
      BY <1>2, <2>5 DEF Marked, Kept
    <3>2. Kept'
      BY <1>2, <2>1, <2>2 DEF Kept, Devices
    <3>3. inUse \subseteq Marked => inUse' \subseteq Marked'
      BY <2>1, <3>1, <3>2 DEF Marked
    <3> QED BY <1>2, <2>3, <3>3 DEF UnusedInv
  <2> QED BY <2>4, <2>5
<1>16. CASE StopDevice(t)
  <2>1. \A d \in Devices : d # iWave => dev'[d] = dev[d]
    BY <1>1, <1>16 DEF StopDevice, PlayerOK
  <2> QED BY <1>1, <1>2, <1>16, <2>1, UnusedQuiet
    DEF StopDevice, locals, playVars, cnrVars, ThreadsOK
<1>17. CASE StopNothing(t)
  BY <1>1, <1>2, <1>17, UnusedQuiet
  DEF StopNothing, locals, playVars, cnrVars, ThreadsOK
<1>18. CASE StopOther(t)
  BY <1>1, <1>2, <1>18, UnusedQuiet
  DEF StopOther, ReturnFromStop, Finish, Resumes, playVars, ThreadsOK
<1>19. CASE StopClose(t)
  <2>1. \A d \in Devices : d # iWave => dev'[d] = dev[d]
    BY <1>1, <1>19 DEF StopClose, PlayerOK
  <2> QED BY <1>1, <1>2, <1>19, <2>1, UnusedQuiet
    DEF StopClose, locals, playVars, cnrVars, ThreadsOK
<1>20. CASE StopReset(t)
  <2>1. /\ pc[t] = "stopReset" /\ UNCHANGED <<iWave, dev, priv>>
        /\ inUse' = inUse \ {mrcPlaying}
        /\ \A u \in Threads : pc'[u] \notin Starting
    BY <1>1, <1>2, <1>20 DEF StopReset, playVars, ThreadsOK
  <2>2. Orphan => Orphan'
    BY <2>1 DEF Orphan
  <2>3. inUse \subseteq Marked => inUse' = {}
    BY <1>2, <2>1 DEF Marked
  <2> QED BY <1>2, <2>2, <2>3 DEF UnusedInv
<1>21. CASE StopDeselect(t)
  BY <1>1, <1>2, <1>21, UnusedQuiet
  DEF StopDeselect, playVars, ThreadsOK
<1>22. CASE StopClear(t)
  <2>1. /\ pc[t] = "stopClear" /\ iWave' = 0 /\ UNCHANGED <<dev, inUse>>
        /\ \A u \in Threads : pc'[u] \notin Starting
    BY <1>1, <1>2, <1>22 DEF StopClear, ReturnFromStop, Finish, cnrVars, ThreadsOK, Resumes
  <2>2. Orphan => Orphan'
    BY <2>1 DEF Orphan, Devices
  <2>3. inUse \subseteq Marked => inUse = {}
    BY <1>2, <2>1 DEF Marked, Kept
  <2> QED BY <1>2, <2>1, <2>2, <2>3 DEF UnusedInv
<1>23. CASE ControlStep(t)
  <2>1. pc[t] \in ControlSteps /\ pc'[t] \in ControlSteps \cup {"idle"}
    BY <1>1, <1>23, ControlIs DEF ThreadsOK
  <2>2. \A d \in Devices : d # iWave => dev'[d] = dev[d]
    BY <1>1, <1>23, ControlIs DEF DeviceTo, PlayerOK
  <2> QED BY <1>2, <1>23, <2>1, <2>2, ControlIs, UnusedQuiet DEF ControlSteps, PauseSteps
<1> QED
  BY <1>3, <1>4, <1>5, <1>6, <1>7, <1>8, <1>9, <1>10, <1>11, <1>12, <1>13, <1>14, <1>15, <1>16, <1>17, <1>18, <1>19, <1>20, <1>21, <1>22, <1>23
  DEF ThreadStep

LEMMA UnusedNext ==
  ASSUME ~Overlap, DeviceInv, UnusedInv, [Next]_vars PROVE UnusedInv'
<1>1. ASSUME NEW t \in Threads, ThreadStep(t) PROVE UnusedInv'
  BY <1>1, ThreadStepUnused
<1>2. CASE \A t \in Threads : ~ThreadStep(t)
  <2>1. /\ OneHandler'
        /\ \A t \in Threads :
             pc'[t] = pc[t] \/ (pc[t] = "idle" /\ pc'[t] \in Beginnings)
        /\ UNCHANGED <<iWave, mrcPlaying, priv, mrc>>
    BY <1>2, BeginsAlone DEF UnusedInv, DeviceInv
  <2>2. PlayerOK
    BY DEF DeviceInv, TypeOK
  <2>3. \A d \in Devices : dev[d] # "closed" => dev'[d] # "closed"
    <3>1. CASE dev' = dev
      BY <3>1
    <3>2. CASE TakePause \/ Seek
      BY <2>2, <3>2, DeviceToKeepsOpen DEF TakePause, Seek, PlayerOK, DevStates
    <3>3. ASSUME NEW d \in Devices, TrackEnds(d)
          PROVE  \A e \in Devices : dev[e] # "closed" => dev'[e] # "closed"
      BY <2>2, <3>3 DEF TrackEnds, PlayerOK
    <3>4. CASE TakeCommand \/ TimerTick \/ PassDevice \/ ToggleRepeat \/ OtherEnds
               \/ UNCHANGED vars
      BY <3>1, <3>4 DEF TakeCommand, TimerTick, PassDevice, ToggleRepeat, OtherEnds, vars
    <3>5. ASSUME NEW x, \/ PostCommand(x) \/ UserSelects(x) \/ UserDeletes(x)
                        \/ UserDoubleClicks(x)
          PROVE  dev' = dev
      BY <3>5 DEF PostCommand, UserSelects, UserDeletes, UserDoubleClicks
    <3> QED BY <1>2, <3>1, <3>2, <3>3, <3>4, <3>5 DEF Next
  <2>4. inUse' \subseteq inUse
    <3>1. CASE inUse' = inUse
      BY <3>1
    <3>2. ASSUME NEW r, UserDeletes(r) PROVE inUse' \subseteq inUse
      BY <3>2 DEF UserDeletes
    <3>3. CASE TakeCommand \/ TakePause \/ TimerTick \/ Seek \/ PassDevice \/ ToggleRepeat
               \/ OtherEnds \/ UNCHANGED vars
      BY <3>1, <3>3
      DEF TakeCommand, TakePause, TimerTick, Seek, PassDevice, ToggleRepeat, OtherEnds,
          vars, cnrVars
    <3>4. ASSUME NEW x, PostCommand(x) \/ TrackEnds(x) \/ UserSelects(x)
                        \/ UserDoubleClicks(x)
          PROVE  inUse' = inUse
      BY <3>4 DEF PostCommand, TrackEnds, UserSelects, UserDoubleClicks, cnrVars
    <3> QED BY <1>2, <3>1, <3>2, <3>3, <3>4 DEF Next
  <2> QED BY <2>1, <2>3, <2>4, UnusedQuiet DEF Starting, Forgetting, Beginnings
<1> QED BY <1>1, <1>2

\* With one handler at a time, whichever of the commands that start a device
\* have failed and whatever the user has deleted: a resting folder that plays
\* nothing and holds no device has no record left marked.
THEOREM SilentAlwaysUnused == ASSUME ~Overlap PROVE Spec => []SilentMeansUnused
<1>1. Init => UnusedInv
  BY DEF Init, UnusedInv, OneHandler, Idle, Marked
<1>2. DeviceInv /\ UnusedInv /\ [Next]_vars => UnusedInv'
  BY UnusedNext
<1>3. UnusedInv => SilentMeansUnused
  BY DEF UnusedInv, Orphan, Marked, Kept, SilentMeansUnused, AllIdle, Idle
<1> QED BY <1>1, <1>2, <1>3, DeviceInvAlways, PTL DEF Spec

-----------------------------------------------------------------------------
(* The searches through the container find what PlayOrder calls the first  *)
(* and the last of a set of records.                                       *)

\* A set of natural numbers has a least element.
LEMMA LeastNatural ==
  ASSUME NEW T, T \subseteq Nat, T # {} PROVE \E m \in T : \A k \in T : m <= k
<1>1. \E m \in T : \A k \in T : <<k, m>> \notin OpToRel(<, Nat)
  BY NatLessThanWellFounded, WFMin
<1>2. \A k, m \in T : <<k, m>> \notin OpToRel(<, Nat) => m <= k
  BY DEF OpToRel
<1> QED BY <1>1, <1>2

LEMMA RecordsAre == Records \subseteq Nat /\ NoRecord \notin Records /\ BadRecord \notin Records
BY ConstantsAssumption DEF Records, NoRecord, BadRecord

LEMMA FirstIs ==
  ASSUME NEW S, S \subseteq Records
  PROVE  IF S = {} THEN FirstOf(S) = NoRecord ELSE Order!IsFirst(FirstOf(S), S)
<1> DEFINE firsts == {r \in S : \A s \in S : r <= s}
<1>1. CASE S = {}
  <2>1. firsts = {}
    BY <1>1
  <2> QED BY <1>1, <2>1 DEF FirstOf, OneOf
<1>2. CASE S # {}
  <2>1. firsts # {}
    BY <1>2, LeastNatural, RecordsAre
  <2>2. FirstOf(S) \in firsts
    BY <2>1 DEF FirstOf, OneOf
  <2> QED BY <1>2, <2>2 DEF Order!IsFirst
<1> QED BY <1>1, <1>2

LEMMA LastIs ==
  ASSUME NEW S, S \subseteq Records
  PROVE  IF S = {} THEN LastOf(S) = NoRecord ELSE Order!IsLast(LastOf(S), S)
<1> DEFINE lasts == {r \in S : \A s \in S : r >= s}
<1>1. CASE S = {}
  <2>1. lasts = {}
    BY <1>1
  <2> QED BY <1>1, <2>1 DEF LastOf, OneOf
<1>2. CASE S # {}
  <2>1. lasts # {}
    <3> DEFINE T == {n \in Nat : \E s \in S : n = NumRecords - s}
    <3>1. \A s \in S : s \in Nat /\ NumRecords - s \in T /\ NumRecords \in Nat
      BY ConstantsAssumption DEF Records
    <3>2. PICK m \in T : \A k \in T : m <= k
      <4>1. T # {} /\ T \subseteq Nat
        BY <1>2, <3>1
      <4> HIDE DEF T
      <4> QED BY <4>1, LeastNatural
    <3>3. PICK s \in S : m = NumRecords - s
      OBVIOUS
    <3> HIDE DEF T
    <3>4. \A r \in S : s >= r
      BY <3>1, <3>2, <3>3
    <3> QED BY <3>4
  <2>2. LastOf(S) \in lasts
    BY <2>1 DEF LastOf, OneOf
  <2> QED BY <1>2, <2>2 DEF Order!IsLast
<1> QED BY <1>1, <1>2

-----------------------------------------------------------------------------
(* What PlayOrder lets a command end with, when it found what seen says.   *)

Situations ==
  [command : Commands \cup {"none"}, now : Tracks, selected : SUBSET Records,
   early : BOOLEAN, other : Records \cup {NoRecord}]

Fresh(S) == Order!Target(S) \cup {NoRecord}

PlayMayEnd(x) ==
  \/ seen.now = NoRecord /\ x \in Fresh(seen.selected)
  \/ seen.now # NoRecord /\ seen.selected # {} /\ x \in Fresh(seen.selected \ {seen.now})
  \/ seen.now # NoRecord /\ seen.selected = {} /\ x \in Order!Target({}) \cup {seen.now}

Base  == IF seen.now = NoRecord THEN seen.other ELSE seen.now
After == {r \in recs \cap Playable : r > Base}

NextMayEnd(x) ==
  \/ Base = NoRecord /\ x \in Fresh(seen.selected)
  \/ Base # NoRecord /\ Base \notin recs /\ x = NoRecord
  \/ Base \in recs /\ After # {} /\ (x = NoRecord \/ Order!IsFirst(x, After))
  \/ /\ Base \in recs /\ After = {}
     /\ \/ ~repeat /\ x = NoRecord
        \/ repeat /\ x \in Fresh(seen.selected \ {Base})
        \/ repeat /\ Base = seen.other /\ x \in Fresh(seen.selected)

UpTo   == IF seen.early /\ \E r \in recs : r < seen.now THEN seen.now - 1 ELSE seen.now
Before == {r \in recs \cap Playable : r <= UpTo}

PrevMayEnd(x) ==
  \/ seen.now = NoRecord /\ x \in Fresh(seen.selected)
  \/ seen.now # NoRecord /\ seen.now \notin recs /\ x \in {NoRecord, BadRecord}
  \/ seen.now \in recs /\ (x = NoRecord \/ Order!IsLast(x, Before))

MayEnd(x) ==
  \/ seen.command = "first" /\ PlayMayEnd(x)
  \/ seen.command = "next" /\ NextMayEnd(x)
  \/ seen.command = "prev" /\ PrevMayEnd(x)
  \/ seen.command = "stop" /\ x = NoRecord

Ends     == {x \in Tracks : MayEnd(x)}
Restarts == {S \in SUBSET Records : Fresh(S) \subseteq Ends}
Backs    == {r \in Tracks : (IF r \in recs THEN PlayableUpTo(r) ELSE BadRecord) \in Ends}

\* The record a folder says it plays.
Named(r) == IF r \in Records THEN r ELSE BadRecord

-----------------------------------------------------------------------------
(* The invariant: wherever a command is, it is on its way to such an end.  *)

\* At step l of a folder that does not play, with S selected.
GoesOn(t, l, S) ==
  /\ NoRecord \in Ends
  /\ l = "getdev" => cmd[t] = "first" /\ S \in Restarts
  /\ l = "ended" /\ repeat => S \in Restarts
  /\ l = "open" => Named(mrc[t]) \in Ends
  /\ l = "back" => mrc[t] \in Backs

\* Nothing has changed since the command began.
Found(t) ==
  /\ cmd[t] = seen.command /\ cmd[t] # "stop"
  /\ Now = seen.now /\ early = seen.early /\ selected = seen.selected

SilentStart(t) == cmd[t] = "first" /\ iWave = 0 /\ selected \in Restarts

Looked(t) ==
  \/ cmd[t] = "first"
  \/ cmd[t] \in {"next", "prev"} /\ iWave # 0 /\ mrc[t] = mrcPlaying /\ (cmd[t] = "prev" => early)
  \/ /\ cmd[t] = "next" /\ iWave = 0 /\ mrc[t] = seen.other /\ seen.other # NoRecord
     /\ OtherPlaying \in {NoRecord, seen.other}

Searching(t) ==
  /\ pc[t] = "getdev" =>
       SilentStart(t) \/ (Found(t) /\ (cmd[t] = "next" => seen.other = OtherPlaying))
  /\ pc[t] = "chooseOther" =>
       Found(t) /\ cmd[t] = "next" /\ iWave = 0 /\ seen.other = OtherPlaying
  /\ pc[t] = "choose" => SilentStart(t) \/ (Found(t) /\ Looked(t))
  /\ pc[t] \in {"back", "ended"} => iWave = 0 /\ GoesOn(t, pc[t], selected)

Stopping(t) ==
  /\ (pc[t] = "stop" /\ iWave # 0) \/ pc[t] \in {"stopClose", "stopReset"} =>
       iWave # 0 /\ GoesOn(t, ret[t], selected \ {mrcPlaying})
  /\ (pc[t] = "stop" /\ iWave = 0) \/ pc[t] = "stopOther" =>
       /\ iWave = 0
       /\ GoesOn(t, ret[t], selected) /\ GoesOn(t, ret[t], selected \ {OtherPlaying})
  /\ pc[t] = "stopDeselect" => GoesOn(t, ret[t], selected \ {arg[t]})
  /\ pc[t] = "stopClear" => GoesOn(t, ret[t], selected)

\* A track is only put on a silent folder, or by PLAY when nothing was selected.
PutOn(t) ==
  pc[t] \in {"open"} \cup Starting =>
    /\ Now \in Ends /\ Named(mrc[t]) \in Ends
    /\ iWave = 0 \/ (seen.command = "first" /\ seen.selected = {})

OnCourse(t) ==
  /\ seen.command \in Commands
  /\ selected \subseteq seen.selected \cup (IF pc[t] = "publish" THEN {mrc[t]} ELSE {})
  /\ Searching(t) /\ Stopping(t) /\ PutOn(t)

ContainerInv == selected \subseteq recs /\ other \in recs \cup {NoRecord}

OrderInv ==
  /\ seen \in Situations
  /\ ContainerInv
  /\ AllRest => seen = Situation
  /\ \A t \in Threads : IF Resting(t) THEN ret[t] = "idle" ELSE OnCourse(t)

-----------------------------------------------------------------------------
(* What a search chooses.                                                  *)

\* ChooseFirst plays what a fresh start may play, and nothing only if no record is there.
LEMMA StartChoice ==
  ASSUME recs \subseteq Records, NEW S, S \subseteq recs,
         NEW from, from = (IF S # {} THEN FirstOf(S) ELSE FirstOf(recs)), from # NoRecord
  PROVE  Named(PlayableFrom(from)) \in Order!Target(S)
<1> DEFINE anchor == IF S = {} THEN recs ELSE S
           after  == {r \in recs \cap Playable : \E a \in anchor : Order!IsFirst(a, anchor) /\ r >= a}
<1>1. anchor \subseteq Records /\ from = FirstOf(anchor)
  OBVIOUS
<1>2. anchor # {} /\ Order!IsFirst(from, anchor)
  <2> HIDE DEF anchor
  <2> QED BY <1>1, FirstIs
<1>3. after = {s \in recs \cap Playable : s >= from}
  <2> HIDE DEF anchor
  <2>1. \A a \in anchor : Order!IsFirst(a, anchor) => a = from
    BY <1>1, <1>2, RecordsAre DEF Order!IsFirst
  <2>2. from \in anchor
    BY <1>2 DEF Order!IsFirst
  <2> QED BY <1>2, <2>1, <2>2
<1>4. Order!Target(S) = IF after = {} THEN {BadRecord} ELSE {r \in after : Order!IsFirst(r, after)}
  BY <1>2 DEF Order!Target, Order!Unknown, BadRecord
<1>5. after \subseteq Records /\ PlayableFrom(from) = FirstOf(after)
  BY <1>3 DEF PlayableFrom
<1> HIDE DEF after
<1>6. CASE after = {}
  BY <1>4, <1>5, <1>6, FirstIs, RecordsAre DEF Named
<1>7. CASE after # {}
  <2>1. Order!IsFirst(FirstOf(after), after) /\ FirstOf(after) \in after
    BY <1>5, <1>7, FirstIs DEF Order!IsFirst
  <2> QED BY <1>4, <1>5, <1>7, <2>1 DEF Named
<1> QED BY <1>6, <1>7

LEMMA NothingToStart ==
  ASSUME recs \subseteq Records, NEW S, S \subseteq recs,
         (IF S # {} THEN FirstOf(S) ELSE FirstOf(recs)) = NoRecord
  PROVE  recs = {} /\ S = {}
<1>1. S \subseteq Records
  OBVIOUS
<1>2. CASE S # {}
  BY <1>1, <1>2, FirstIs, RecordsAre DEF Order!IsFirst
<1>3. CASE S = {}
  BY <1>3, FirstIs, RecordsAre DEF Order!IsFirst
<1> QED BY <1>2, <1>3

\* The forward search of ChooseNext.
LEMMA NextChoice ==
  ASSUME recs \subseteq Records, NEW r \in recs, r = Base
  PROVE  IF After = {} THEN PlayableFrom(r + 1) = NoRecord
         ELSE Order!IsFirst(PlayableFrom(r + 1), After) /\ PlayableFrom(r + 1) \in Records
<1>1. {s \in recs \cap Playable : s >= r + 1} = After /\ After \subseteq Records
  <2>1. \A s \in recs : s \in Nat /\ r \in Nat
    BY RecordsAre
  <2>2. \A s \in recs : (s >= r + 1) = (s > Base)
    BY <2>1
  <2>3. \A s : s \in {x \in recs \cap Playable : x >= r + 1} <=> s \in After
    BY <2>2 DEF After
  <2> QED BY <2>3 DEF After
<1>2. PlayableFrom(r + 1) = FirstOf(After)
  BY <1>1 DEF PlayableFrom
<1> QED BY <1>1, <1>2, FirstIs DEF Order!IsFirst

\* The backward search of SearchBack from record r.
LEMMA BackChoice ==
  ASSUME recs \subseteq Records, NEW r \in recs
  PROVE  LET S == {s \in recs \cap Playable : s <= r}
         IN  IF S = {} THEN PlayableUpTo(r) = NoRecord
             ELSE Order!IsLast(PlayableUpTo(r), S) /\ PlayableUpTo(r) \in Records
<1> DEFINE S == {s \in recs \cap Playable : s <= r}
<1>1. S \subseteq Records /\ PlayableUpTo(r) = LastOf(S)
  BY DEF PlayableUpTo
<1> HIDE DEF S
<1>2. IF S = {} THEN PlayableUpTo(r) = NoRecord
      ELSE Order!IsLast(PlayableUpTo(r), S) /\ PlayableUpTo(r) \in Records
  BY <1>1, LastIs DEF Order!IsLast
<1> QED BY <1>2 DEF S

-----------------------------------------------------------------------------
(* What follows from what a command has found.                             *)

Known == TypeOK /\ ContainerInv /\ seen \in Situations

LEMMA KnownIs ==
  ASSUME Known
  PROVE  /\ recs \subseteq Records /\ selected \subseteq recs /\ other \in recs \cup {NoRecord}
         /\ OtherPlaying \in recs \cup {NoRecord}
         /\ mrcPlaying \in Tracks /\ iWave \in 0..MaxDev
         /\ \A t \in Threads : mrc[t] \in Tracks
         /\ seen.selected \in SUBSET Records /\ seen.now \in Tracks /\ seen.early \in BOOLEAN
         /\ seen.other \in Records \cup {NoRecord}
BY DEF Known, TypeOK, ContainerOK, PlayerOK, ThreadsOK, ContainerInv, Situations, OtherPlaying

LEMMA NowIs ==
  ASSUME Known
  PROVE  /\ IF iWave = 0 THEN Now = NoRecord ELSE Now = Named(mrcPlaying) /\ Now # NoRecord
         /\ \A r : Named(r) \in Tracks \ {NoRecord}
         /\ \A S \in SUBSET Records : \A r : S \ {Named(r)} = S \ {r}
<1>1. \A r : Named(r) \in Tracks \ {NoRecord}
  BY RecordsAre DEF Named, Tracks, BadRecord, NoRecord
<1>2. IF iWave = 0 THEN Now = NoRecord ELSE Now = Named(mrcPlaying)
  BY DEF Now, Named
<1>3. ASSUME NEW S \in SUBSET Records, NEW r PROVE S \ {Named(r)} = S \ {r}
  BY RecordsAre DEF Named
<1> QED BY <1>1, <1>2, <1>3

LEMMA TargetType ==
  ASSUME Known, NEW S PROVE Order!Target(S) \subseteq Tracks /\ Fresh(S) \subseteq Tracks
<1>1. Order!Target(S) \subseteq recs \cup {BadRecord}
  BY DEF Order!Target, Order!Unknown, BadRecord
<1> QED BY <1>1, KnownIs DEF Tracks, Fresh

\* When PlayOrder allows every fresh start with S selected.
LEMMA RestartsIf ==
  ASSUME Known, NEW S \in SUBSET Records, \A x \in Fresh(S) : MayEnd(x)
  PROVE  S \in Restarts /\ NoRecord \in Ends /\ Order!Target(S) \subseteq Ends
<1>1. Fresh(S) \subseteq Ends
  BY TargetType DEF Ends
<1> QED BY <1>1 DEF Restarts, Fresh

\* PLAY.
LEMMA FoundFirst ==
  ASSUME Known, NEW t \in Threads, Found(t), cmd[t] = "first"
  PROVE  IF iWave # 0 /\ selected # {}
           THEN GoesOn(t, "getdev", selected \ {mrcPlaying})
           ELSE /\ Now \in Ends /\ Order!Target(selected) \subseteq Ends
                /\ iWave = 0 \/ (seen.command = "first" /\ seen.selected = {})
<1>1. CASE iWave # 0 /\ selected # {}
  <2>1. seen.now # NoRecord /\ seen.selected # {}
        /\ seen.selected \ {seen.now} = selected \ {mrcPlaying}
    BY <1>1, KnownIs, NowIs DEF Found
  <2>2. \A x \in Fresh(selected \ {mrcPlaying}) : MayEnd(x)
    BY <2>1 DEF MayEnd, PlayMayEnd, Found
  <2>3. selected \ {mrcPlaying} \in SUBSET Records
    BY KnownIs
  <2>4. selected \ {mrcPlaying} \in Restarts /\ NoRecord \in Ends
    BY <2>2, <2>3, RestartsIf
  <2> QED BY <1>1, <2>4 DEF GoesOn
<1>2. CASE iWave = 0
  <2>1. seen.now = NoRecord /\ selected = seen.selected /\ Now = NoRecord
    BY <1>2, NowIs DEF Found
  <2>2. \A x \in Fresh(selected) : MayEnd(x)
    BY <2>1 DEF MayEnd, PlayMayEnd, Found
  <2> QED BY <1>2, <2>1, <2>2, KnownIs, RestartsIf
<1>3. CASE iWave # 0 /\ selected = {}
  <2>1. seen.now # NoRecord /\ selected = seen.selected /\ Now = seen.now /\ Now \in Tracks
    BY <1>3, NowIs, KnownIs DEF Found
  <2>2. \A x \in Order!Target({}) \cup {seen.now} : MayEnd(x) /\ x \in Tracks
    BY <1>3, <2>1, TargetType DEF MayEnd, PlayMayEnd, Found
  <2> QED BY <1>3, <2>1, <2>2 DEF Ends, Found
<1> QED BY <1>1, <1>2, <1>3

LEMMA SilentFirst ==
  ASSUME Known, NEW t \in Threads, SilentStart(t)
  PROVE  Now \in Ends /\ NoRecord \in Ends /\ Order!Target(selected) \subseteq Ends
BY NowIs DEF SilentStart, Restarts, Fresh

\* |<< and >>| on a folder that does not play.
LEMMA FoundSilent ==
  ASSUME Known, NEW t \in Threads, Found(t), iWave = 0,
         cmd[t] = "prev" \/ (cmd[t] = "next" /\ seen.other = NoRecord)
  PROVE  selected \in Restarts
<1>1. seen.now = NoRecord /\ selected = seen.selected
  BY NowIs DEF Found
<1>2. \A x \in Fresh(selected) : MayEnd(x)
  BY <1>1 DEF MayEnd, PrevMayEnd, NextMayEnd, Base, Found
<1> QED BY <1>2, KnownIs, RestartsIf

\* >>|
LEMMA FoundNext ==
  ASSUME Known, NEW t \in Threads, Found(t), Looked(t), cmd[t] = "next",
         NEW next, next = PlayableFrom(mrc[t] + 1)
  PROVE  /\ NoRecord \in Ends
         /\ mrc[t] \in recs /\ next # NoRecord => Named(next) \in Ends
         /\ mrc[t] \in recs /\ next = NoRecord /\ repeat =>
              IF iWave # 0 THEN selected \ {mrcPlaying} \in Restarts
              ELSE selected \in Restarts /\ selected \ {OtherPlaying} \in Restarts
<1>1. /\ seen.command = "next" /\ selected = seen.selected /\ selected \in SUBSET Records
      /\ recs \subseteq Records /\ repeat \in BOOLEAN
  BY KnownIs DEF Found, Known, TypeOK, FlagsOK
<1>2. /\ Base # NoRecord /\ (mrc[t] \in recs => Base = mrc[t]) /\ (mrc[t] \notin recs => Base \notin recs)
      /\ iWave # 0 => selected \ {Base} = selected \ {mrcPlaying}
  <2>1. CASE iWave # 0
    <3>1. Base = Named(mrcPlaying) /\ Base # NoRecord /\ mrc[t] = mrcPlaying
      BY <2>1, NowIs DEF Found, Looked, Base
    <3> QED BY <1>1, <2>1, <3>1, NowIs, RecordsAre DEF Named
  <2>2. CASE iWave = 0
    <3>1. Base = seen.other /\ Base # NoRecord /\ mrc[t] = seen.other
      BY <2>2, NowIs DEF Found, Looked, Base
    <3> QED BY <2>2, <3>1
  <2> QED BY <2>1, <2>2
<1>3. CASE mrc[t] \notin recs
  <2>1. MayEnd(NoRecord)
    BY <1>1, <1>2, <1>3 DEF MayEnd, NextMayEnd
  <2> QED BY <1>3, <2>1 DEF Ends, Tracks
<1>4. CASE mrc[t] \in recs /\ After # {}
  <2>1. Base = mrc[t] /\ Order!IsFirst(next, After) /\ next \in Records
    BY <1>1, <1>2, <1>4, NextChoice
  <2>2. MayEnd(NoRecord) /\ MayEnd(next) /\ Named(next) = next
    BY <1>1, <1>2, <1>4, <2>1 DEF MayEnd, NextMayEnd, Named
  <2> QED BY <2>1, <2>2, RecordsAre DEF Ends, Tracks
<1>5. CASE mrc[t] \in recs /\ After = {}
  <2>1. Base = mrc[t] /\ next = NoRecord
    BY <1>1, <1>2, <1>5, NextChoice
  <2>2. CASE ~repeat
    <3>1. MayEnd(NoRecord)
      BY <1>1, <1>5, <2>1, <2>2 DEF MayEnd, NextMayEnd
    <3> QED BY <2>1, <2>2, <3>1 DEF Ends, Tracks
  <2>3. CASE repeat
    <3>1. \A x \in Fresh(selected \ {Base}) : MayEnd(x)
      BY <1>1, <1>5, <2>1, <2>3 DEF MayEnd, NextMayEnd
    <3>2. selected \ {Base} \in Restarts /\ NoRecord \in Ends
      BY <1>1, <3>1, RestartsIf
    <3>3. ASSUME iWave = 0 PROVE selected \in Restarts /\ selected \ {OtherPlaying} \in Restarts
      <4>1. Base = seen.other /\ OtherPlaying \in {NoRecord, Base}
        BY <3>3, NowIs DEF Found, Looked, Base
      <4>2. \A x \in Fresh(selected) : MayEnd(x)
        BY <1>1, <1>5, <2>1, <2>3, <4>1 DEF MayEnd, NextMayEnd
      <4>3. selected \in Restarts
        BY <1>1, <4>2, RestartsIf
      <4>4. selected \ {NoRecord} = selected
        BY <1>1, RecordsAre
      <4> QED BY <3>2, <4>1, <4>3, <4>4
    <3> QED BY <1>2, <2>1, <3>2, <3>3
  <2> QED BY <2>2, <2>3
<1> QED BY <1>3, <1>4, <1>5

\* |<<
LEMMA FoundPrev ==
  ASSUME Known, NEW t \in Threads, Found(t), cmd[t] = "prev", iWave # 0,
         NEW r, r = IF ~early THEN mrcPlaying
                    ELSE IF mrcPlaying \notin recs THEN BadRecord
                    ELSE IF \A s \in recs : s >= mrcPlaying THEN mrcPlaying
                    ELSE LastOf({s \in recs : s < mrcPlaying})
  PROVE  NoRecord \in Ends /\ r \in Backs
<1>1. /\ seen.command = "prev" /\ seen.now = Named(mrcPlaying) /\ seen.now # NoRecord
      /\ seen.early = early /\ early \in BOOLEAN /\ recs \subseteq Records
  BY KnownIs, NowIs DEF Found
<1>2. CASE mrcPlaying \notin recs
  <2>1. seen.now \notin recs
    BY <1>1, <1>2, RecordsAre DEF Named
  <2>2. MayEnd(NoRecord) /\ MayEnd(BadRecord)
    BY <1>1, <2>1 DEF MayEnd, PrevMayEnd
  <2>3. NoRecord \in Ends /\ BadRecord \in Ends
    BY <2>2 DEF Ends, Tracks
  <2>4. r \in {mrcPlaying, BadRecord} /\ r \notin recs /\ r \in Tracks
    BY <1>1, <1>2, KnownIs, RecordsAre DEF Tracks
  <2> QED BY <2>3, <2>4 DEF Backs
<1>3. CASE mrcPlaying \in recs
  <2>1. seen.now = mrcPlaying /\ mrcPlaying \in Nat
    BY <1>1, <1>3, RecordsAre DEF Named
  <2>2. r \in recs /\ Before = {s \in recs \cap Playable : s <= r}
    <3>1. CASE early /\ \E s \in recs : s < mrcPlaying
      <4> DEFINE S == {s \in recs : s < mrcPlaying}
      <4>1. r = LastOf(S) /\ S \subseteq Records /\ S # {}
        <5>1. \A s \in recs : s \in Nat
          BY <1>1, RecordsAre
        <5>2. ~ \A s \in recs : s >= mrcPlaying
          BY <2>1, <3>1, <5>1
        <5>3. S \subseteq Records /\ S # {}
          BY <1>1, <3>1
        <5> QED BY <1>3, <3>1, <5>2, <5>3
      <4> HIDE DEF S
      <4>2. r \in S /\ \A s \in S : r >= s
        BY <4>1, LastIs DEF Order!IsLast
      <4>3. UpTo = mrcPlaying - 1
        BY <1>1, <2>1, <3>1 DEF UpTo
      <4>4. r \in recs /\ r < mrcPlaying /\ \A s \in recs : s < mrcPlaying => r >= s
        BY <4>2 DEF S
      <4>5. \A s \in recs : s \in Nat /\ r \in Nat
        BY <1>1, <4>4, RecordsAre
      <4>6. \A s \in recs : s <= mrcPlaying - 1 <=> s <= r
        BY <2>1, <4>4, <4>5
      <4> HIDE DEF S
      <4> QED BY <4>3, <4>4, <4>6 DEF Before
    <3>2. CASE ~(early /\ \E s \in recs : s < mrcPlaying)
      <4>1. r = mrcPlaying
        <5>1. \A s \in recs : s \in Nat
          BY <1>1, RecordsAre
        <5> QED BY <1>1, <1>3, <2>1, <3>2, <5>1
      <4>2. UpTo = mrcPlaying
        BY <1>1, <2>1, <3>2 DEF UpTo
      <4> QED BY <1>3, <4>1, <4>2 DEF Before
    <3> QED BY <3>1, <3>2
  <2>3. IF Before = {} THEN PlayableUpTo(r) = NoRecord
        ELSE Order!IsLast(PlayableUpTo(r), Before) /\ PlayableUpTo(r) \in Records
    BY <1>1, <2>2, BackChoice
  <2>4. MayEnd(NoRecord) /\ MayEnd(PlayableUpTo(r))
    BY <1>1, <1>3, <2>1, <2>3 DEF MayEnd, PrevMayEnd
  <2>5. NoRecord \in Ends /\ PlayableUpTo(r) \in Ends
    BY <2>3, <2>4 DEF Ends, Tracks
  <2> QED BY <1>1, <2>2, <2>5 DEF Backs, Tracks
<1> QED BY <1>2, <1>3

-----------------------------------------------------------------------------
(* A step of a command keeps it on course, or ends it as it may end.       *)

\* What a command may end with does not change while it runs.
LEMMA MayEndKept ==
  ASSUME seen' = seen, recs' = recs, repeat' = repeat
  PROVE  Ends' = Ends /\ Restarts' = Restarts /\ Backs' = Backs
<1>1. \A S : Order!Target(S)' = Order!Target(S)
  BY DEF Order!Target
<1>2. \A S : Fresh(S)' = Fresh(S)
  BY <1>1 DEF Fresh
<1>3. Base' = Base /\ UpTo' = UpTo
  BY DEF Base, UpTo
<1>4. After' = After /\ Before' = Before
  BY <1>3 DEF After, Before
<1>5. \A x : PlayMayEnd(x)' <=> PlayMayEnd(x)
  BY <1>1, <1>2 DEF PlayMayEnd
<1>6. \A x : NextMayEnd(x)' <=> NextMayEnd(x)
  BY <1>2, <1>3, <1>4 DEF NextMayEnd
<1>7. \A x : PrevMayEnd(x)' <=> PrevMayEnd(x)
  BY <1>2, <1>4 DEF PrevMayEnd
<1>8. \A x : MayEnd(x)' <=> MayEnd(x)
  BY <1>5, <1>6, <1>7 DEF MayEnd
<1>9. Ends' = Ends
  BY <1>8 DEF Ends
<1>10. Restarts' = Restarts
  BY <1>2, <1>9 DEF Restarts
<1>11. \A r : PlayableUpTo(r)' = PlayableUpTo(r)
  BY DEF PlayableUpTo
<1>12. Backs' = Backs
  BY <1>9, <1>11 DEF Backs
<1> QED BY <1>9, <1>10, <1>12

LEMMA SightKept ==
  /\ UNCHANGED <<iWave, mrcPlaying>> => Now' = Now
  /\ UNCHANGED <<other, inUse>> => OtherPlaying' = OtherPlaying
BY DEF Now, OtherPlaying

Fine(t) ==
  IF pc'[t] = "idle"
    THEN Now' \in Ends /\ selected' \subseteq seen.selected \cup {Now'}
    ELSE OnCourse(t)'

OnWay(t) == /\ Known /\ TypeOK' /\ OnCourse(t)
            /\ pc'[t] # "idle" => seen' = seen

\* The steps that choose a record.
LEMMA GetDeviceOn == ASSUME NEW t \in Threads, OnWay(t), GetDevice(t) PROVE Fine(t)
<1>1. /\ pc[t] = "getdev" /\ ThreadsOK /\ recs' = recs /\ repeat' = repeat /\ selected' = selected
      /\ other' = other /\ inUse' = inUse /\ iWave' = iWave /\ mrcPlaying' = mrcPlaying
      /\ early' = early /\ arg' = arg
  BY DEF GetDevice, OnWay, Known, TypeOK, playVars, cnrVars
<1>2. Now' = Now /\ OtherPlaying' = OtherPlaying
  BY <1>1, SightKept
<1>3. SilentStart(t) \/ (Found(t) /\ (cmd[t] = "next" => seen.other = OtherPlaying))
  BY <1>1 DEF OnWay, OnCourse, Searching
<1>4. /\ seen.command \in Commands /\ selected \subseteq seen.selected /\ cmd[t] \in {"first", "next", "prev"}
  BY <1>1, <1>3 DEF OnWay, OnCourse, SilentStart, Found, Commands, PlayCommands
<1>5. mrc'[t] = IF cmd[t] = "first" \/ iWave = 0 THEN NoRecord ELSE mrcPlaying
  BY <1>1 DEF GetDevice, Look, ThreadsOK
<1>6. ASSUME pc'[t] # "idle" PROVE seen' = seen /\ Ends' = Ends /\ Restarts' = Restarts /\ Backs' = Backs
  BY <1>1, <1>6, MayEndKept DEF OnWay
<1>7. CASE cmd[t] = "first" \/ (iWave # 0 /\ (cmd[t] = "next" \/ early))
  <2>1. pc'[t] = "choose" /\ cmd' = cmd
    BY <1>1, <1>4, <1>7 DEF GetDevice, Look, Goto, CallStop, ThreadsOK
  <2>2. SilentStart(t)' \/ (Found(t)' /\ Looked(t)')
    BY <1>1, <1>2, <1>3, <1>4, <1>5, <1>6, <1>7, <2>1 DEF SilentStart, Found, Looked
  <2> QED BY <1>1, <1>4, <1>6, <2>1, <2>2 DEF Fine, OnCourse, Searching, Stopping, PutOn, Starting
<1>8. CASE cmd[t] = "prev" /\ iWave # 0 /\ ~early
  <2>1. pc'[t] = "stop" /\ ret'[t] = "back" /\ cmd' = cmd
    BY <1>1, <1>8 DEF GetDevice, Look, Goto, CallStop, ThreadsOK
  <2>2. NoRecord \in Ends /\ mrcPlaying \in Backs
    <3>1. Found(t)
      BY <1>3, <1>8 DEF SilentStart
    <3> QED BY <1>8, <3>1, FoundPrev DEF OnWay
  <2>3. GoesOn(t, ret[t], selected \ {mrcPlaying})'
    BY <1>1, <1>5, <1>6, <1>8, <2>1, <2>2 DEF GoesOn
  <2> QED BY <1>1, <1>4, <1>6, <1>8, <2>1, <2>3 DEF Fine, OnCourse, Searching, Stopping, PutOn, Starting
<1>9. CASE cmd[t] = "next" /\ iWave = 0
  <2>1. pc'[t] = "chooseOther" /\ cmd' = cmd
    BY <1>1, <1>9 DEF GetDevice, Look, Goto, CallStop, ThreadsOK
  <2>2. Found(t)' /\ seen'.other = OtherPlaying'
    BY <1>1, <1>2, <1>3, <1>6, <1>9, <2>1 DEF SilentStart, Found
  <2> QED BY <1>1, <1>4, <1>6, <1>9, <2>1, <2>2 DEF Fine, OnCourse, Searching, Stopping, PutOn, Starting
<1>10. CASE cmd[t] = "prev" /\ iWave = 0
  <2>1. pc'[t] = "getdev" /\ cmd'[t] = "first"
    BY <1>1, <1>10 DEF GetDevice, Look, Goto, CallStop, ThreadsOK
  <2>2. selected \in Restarts
    <3>1. Found(t)
      BY <1>3, <1>10 DEF SilentStart
    <3> QED BY <1>10, <3>1, FoundSilent DEF OnWay
  <2>3. SilentStart(t)'
    BY <1>1, <1>6, <1>10, <2>1, <2>2 DEF SilentStart
  <2> QED BY <1>1, <1>4, <1>6, <2>1, <2>3 DEF Fine, OnCourse, Searching, Stopping, PutOn, Starting
<1> QED BY <1>4, <1>7, <1>8, <1>9, <1>10

LEMMA ChooseFirstWhilePlayingOn ==
  ASSUME NEW t \in Threads, OnWay(t), ChooseFirstWhilePlaying(t) PROVE Fine(t)
<1>1. /\ pc[t] = "choose" /\ ThreadsOK /\ recs' = recs /\ repeat' = repeat /\ selected' = selected
      /\ iWave' = iWave /\ mrcPlaying' = mrcPlaying /\ cmd' = cmd /\ mrc' = mrc
      /\ cmd[t] = "first" /\ iWave # 0 /\ selected # {} /\ pc'[t] = "stop" /\ ret'[t] = "getdev"
  BY DEF ChooseFirstWhilePlaying, OnWay, Known, TypeOK, playVars, cnrVars, CallStop, Goto, ThreadsOK
<1>2. seen' = seen /\ Ends' = Ends /\ Restarts' = Restarts /\ Backs' = Backs
  BY <1>1, MayEndKept DEF OnWay
<1>3. Found(t) /\ seen.command \in Commands /\ selected \subseteq seen.selected
  BY <1>1 DEF OnWay, OnCourse, Searching, SilentStart
<1>4. GoesOn(t, "getdev", selected \ {mrcPlaying})
  BY <1>1, <1>3, FoundFirst DEF OnWay
<1>5. GoesOn(t, ret[t], selected \ {mrcPlaying})'
  BY <1>1, <1>2, <1>4 DEF GoesOn
<1> QED BY <1>1, <1>2, <1>3, <1>5 DEF Fine, OnCourse, Searching, Stopping, PutOn, Starting

LEMMA ChooseFirstOn == ASSUME NEW t \in Threads, OnWay(t), ChooseFirst(t) PROVE Fine(t)
<1> DEFINE from == IF selected # {} THEN FirstOf(selected) ELSE FirstOf(recs)
<1>1. /\ pc[t] = "choose" /\ ThreadsOK /\ recs' = recs /\ repeat' = repeat /\ selected' = selected
      /\ iWave' = iWave /\ mrcPlaying' = mrcPlaying /\ cmd[t] = "first" /\ (iWave = 0 \/ selected = {})
  BY DEF ChooseFirst, OnWay, Known, TypeOK, playVars, cnrVars
<1>2. Now' = Now /\ recs \subseteq Records /\ selected \subseteq recs
  BY <1>1, SightKept, KnownIs DEF OnWay
<1>3. /\ seen.command \in Commands /\ selected \subseteq seen.selected
      /\ SilentStart(t) \/ Found(t)
  BY <1>1 DEF OnWay, OnCourse, Searching
<1>4. /\ Now \in Ends /\ Order!Target(selected) \subseteq Ends
      /\ iWave = 0 \/ (seen.command = "first" /\ seen.selected = {})
  <2>1. CASE SilentStart(t)
    BY <2>1, SilentFirst DEF OnWay, SilentStart
  <2>2. CASE Found(t)
    BY <1>1, <2>2, FoundFirst DEF OnWay
  <2> QED BY <1>3, <2>1, <2>2
<1>5. CASE from = NoRecord
  <2>1. pc'[t] = "idle"
    BY <1>1, <1>5 DEF ChooseFirst, Finish, Goto, ThreadsOK
  <2> QED BY <1>1, <1>2, <1>3, <1>4, <2>1 DEF Fine
<1>6. CASE from # NoRecord
  <2>1. pc'[t] = "open" /\ mrc'[t] = PlayableFrom(from)
    BY <1>1, <1>6 DEF ChooseFirst, Goto, ThreadsOK
  <2>2. Named(PlayableFrom(from)) \in Order!Target(selected)
    <3> HIDE DEF from
    <3> QED BY <1>2, <1>6, StartChoice DEF from
  <2>3. seen' = seen /\ Ends' = Ends
    BY <1>1, <2>1, MayEndKept DEF OnWay
  <2>4. Named(mrc[t])' \in Ends'
    BY <1>4, <2>1, <2>2, <2>3 DEF Named
  <2> HIDE DEF from
  <2> QED BY <1>1, <1>2, <1>3, <1>4, <2>1, <2>3, <2>4 DEF Fine, OnCourse, Searching, Stopping, PutOn, Starting
<1> QED BY <1>5, <1>6

LEMMA ChooseOtherOn == ASSUME NEW t \in Threads, OnWay(t), ChooseOther(t) PROVE Fine(t)
<1>1. /\ pc[t] = "chooseOther" /\ ThreadsOK /\ recs' = recs /\ repeat' = repeat /\ selected' = selected
      /\ iWave' = iWave /\ mrcPlaying' = mrcPlaying /\ other' = other /\ inUse' = inUse /\ early' = early
  BY DEF ChooseOther, OnWay, Known, TypeOK, playVars, cnrVars
<1>2. Now' = Now /\ OtherPlaying' = OtherPlaying
  BY <1>1, SightKept
<1>3. /\ seen.command \in Commands /\ selected \subseteq seen.selected
      /\ Found(t) /\ cmd[t] = "next" /\ iWave = 0 /\ seen.other = OtherPlaying
  BY <1>1 DEF OnWay, OnCourse, Searching
<1>4. pc'[t] # "idle"
  BY <1>1 DEF ChooseOther, RestartWithFirst, Goto, ThreadsOK
<1>5. seen' = seen /\ Restarts' = Restarts
  BY <1>1, <1>4, MayEndKept DEF OnWay
<1>6. CASE OtherPlaying = NoRecord
  <2>1. pc'[t] = "getdev" /\ cmd'[t] = "first"
    BY <1>1, <1>6 DEF ChooseOther, RestartWithFirst, Goto, ThreadsOK
  <2>2. selected \in Restarts
    BY <1>3, <1>6, FoundSilent DEF OnWay
  <2>3. SilentStart(t)'
    BY <1>1, <1>3, <1>5, <2>1, <2>2 DEF SilentStart
  <2> QED BY <1>1, <1>3, <1>5, <2>1, <2>3 DEF Fine, OnCourse, Searching, Stopping, PutOn, Starting
<1>7. CASE OtherPlaying # NoRecord
  <2>1. pc'[t] = "choose" /\ mrc'[t] = OtherPlaying /\ cmd' = cmd
    BY <1>1, <1>7 DEF ChooseOther, Goto, ThreadsOK
  <2>2. Found(t)' /\ Looked(t)'
    BY <1>1, <1>2, <1>3, <1>5, <1>7, <2>1 DEF Found, Looked
  <2> QED BY <1>1, <1>3, <1>5, <2>1, <2>2 DEF Fine, OnCourse, Searching, Stopping, PutOn, Starting
<1> QED BY <1>6, <1>7

LEMMA ChooseNextOn == ASSUME NEW t \in Threads, OnWay(t), ChooseNext(t) PROVE Fine(t)
<1> DEFINE next == PlayableFrom(mrc[t] + 1)
<1>1. /\ pc[t] = "choose" /\ ThreadsOK /\ recs' = recs /\ repeat' = repeat /\ selected' = selected
      /\ iWave' = iWave /\ mrcPlaying' = mrcPlaying /\ other' = other /\ inUse' = inUse
      /\ cmd[t] = "next" /\ cmd' = cmd /\ pc'[t] = "stop" /\ repeat \in BOOLEAN
  BY DEF ChooseNext, CallStop, Goto, OnWay, Known, TypeOK, FlagsOK, playVars, cnrVars, ThreadsOK
<1>2. OtherPlaying' = OtherPlaying
  BY <1>1, SightKept
<1>3. /\ seen.command \in Commands /\ selected \subseteq seen.selected /\ Found(t) /\ Looked(t)
  BY <1>1 DEF OnWay, OnCourse, Searching, SilentStart
<1>4. seen' = seen /\ Ends' = Ends /\ Restarts' = Restarts /\ Backs' = Backs
  BY <1>1, MayEndKept DEF OnWay
<1>5. /\ NoRecord \in Ends
      /\ mrc[t] \in recs /\ next # NoRecord => Named(next) \in Ends
      /\ mrc[t] \in recs /\ next = NoRecord /\ repeat =>
           IF iWave # 0 THEN selected \ {mrcPlaying} \in Restarts
           ELSE selected \in Restarts /\ selected \ {OtherPlaying} \in Restarts
  BY <1>1, <1>3, FoundNext DEF OnWay
<1>6. CASE mrc[t] \notin recs
  <2>1. ret'[t] = "idle"
    BY <1>1, <1>6 DEF ChooseNext, CallStop, ThreadsOK
  <2>2. \A S : GoesOn(t, ret[t], S)'
    BY <1>4, <1>5, <2>1 DEF GoesOn
  <2>3. GoesOn(t, ret[t], selected)' /\ GoesOn(t, ret[t], selected \ {mrcPlaying})'
        /\ GoesOn(t, ret[t], selected \ {OtherPlaying})'
    BY <1>4, <1>5, <2>1 DEF GoesOn
  <2> QED BY <1>1, <1>3, <1>4, <2>3 DEF Fine, OnCourse, Searching, Stopping, PutOn, Starting
<1>7. CASE mrc[t] \in recs
  <2>1. ret'[t] = (IF next = NoRecord THEN "ended" ELSE "open") /\ mrc'[t] = next
    BY <1>1, <1>7 DEF ChooseNext, CallStop, ThreadsOK
  <2>2. Named(mrc[t])' = Named(next)
    BY <2>1 DEF Named
  <2> HIDE DEF next
  <2>3. iWave # 0 => GoesOn(t, ret[t], selected \ {mrcPlaying})'
    BY <1>1, <1>4, <1>5, <1>7, <2>1, <2>2 DEF GoesOn
  <2>4. iWave = 0 => GoesOn(t, ret[t], selected)' /\ GoesOn(t, ret[t], selected \ {OtherPlaying})'
    BY <1>1, <1>2, <1>4, <1>5, <1>7, <2>1, <2>2 DEF GoesOn
  <2> QED BY <1>1, <1>3, <1>4, <2>3, <2>4 DEF Fine, OnCourse, Searching, Stopping, PutOn, Starting
<1> QED BY <1>6, <1>7

LEMMA ChoosePrevOn == ASSUME NEW t \in Threads, OnWay(t), ChoosePrev(t) PROVE Fine(t)
<1> DEFINE before == IF mrc[t] \in recs THEN LastOf({r \in recs : r < mrc[t]}) ELSE BadRecord
           r == IF before = NoRecord THEN mrc[t] ELSE before
<1>1. /\ pc[t] = "choose" /\ ThreadsOK /\ recs' = recs /\ repeat' = repeat /\ selected' = selected
      /\ iWave' = iWave /\ mrcPlaying' = mrcPlaying /\ cmd[t] = "prev" /\ cmd' = cmd
      /\ pc'[t] = "stop" /\ ret'[t] = "back" /\ mrc'[t] = r
  BY DEF ChoosePrev, CallStop, Goto, OnWay, Known, TypeOK, playVars, cnrVars, ThreadsOK
<1>2. /\ seen.command \in Commands /\ selected \subseteq seen.selected
      /\ Found(t) /\ iWave # 0 /\ early /\ mrc[t] = mrcPlaying
  BY <1>1 DEF OnWay, OnCourse, Searching, SilentStart, Looked
<1>3. seen' = seen /\ Ends' = Ends /\ Restarts' = Restarts /\ Backs' = Backs
  BY <1>1, MayEndKept DEF OnWay
<1>4. r = IF ~early THEN mrcPlaying
          ELSE IF mrcPlaying \notin recs THEN BadRecord
          ELSE IF \A s \in recs : s >= mrcPlaying THEN mrcPlaying
          ELSE LastOf({s \in recs : s < mrcPlaying})
  <2>1. recs \subseteq Nat
    BY KnownIs, RecordsAre DEF OnWay
  <2>2. CASE mrcPlaying \notin recs
    BY <1>2, <2>2 DEF BadRecord, NoRecord
  <2>3. CASE mrcPlaying \in recs
    <3> DEFINE S == {s \in recs : s < mrcPlaying}
    <3>1. S \subseteq Records /\ (S = {} <=> \A s \in recs : s >= mrcPlaying)
      <4>1. recs \subseteq Records
        BY KnownIs DEF OnWay
      <4>2. \A s \in recs : s \in Nat /\ mrcPlaying \in Nat
        BY <2>1, <2>3
      <4> QED BY <4>1, <4>2
    <3>2. before = LastOf(S)
      BY <1>2, <2>3
    <3> HIDE DEF S, before
    <3>3. (before = NoRecord) <=> S = {}
      BY <3>1, <3>2, LastIs, RecordsAre DEF Order!IsLast
    <3> QED BY <1>2, <2>3, <3>1, <3>2, <3>3 DEF S
  <2> QED BY <2>2, <2>3
<1> HIDE DEF r
<1>5. NoRecord \in Ends /\ r \in Backs
  BY <1>1, <1>2, <1>4, FoundPrev DEF OnWay
<1>6. GoesOn(t, ret[t], selected \ {mrcPlaying})'
  BY <1>1, <1>3, <1>5 DEF GoesOn
<1> QED BY <1>1, <1>2, <1>3, <1>6 DEF Fine, OnCourse, Searching, Stopping, PutOn, Starting

LEMMA SearchBackOn == ASSUME NEW t \in Threads, OnWay(t), SearchBack(t) PROVE Fine(t)
<1>1. /\ pc[t] = "back" /\ ThreadsOK /\ recs' = recs /\ repeat' = repeat /\ selected' = selected
      /\ iWave' = iWave /\ mrcPlaying' = mrcPlaying
  BY DEF SearchBack, OnWay, Known, TypeOK, playVars, cnrVars
<1>2. /\ seen.command \in Commands /\ selected \subseteq seen.selected /\ iWave = 0
      /\ NoRecord \in Ends /\ mrc[t] \in Backs
  BY <1>1 DEF OnWay, OnCourse, Searching, GoesOn
<1>3. Now' = Now /\ Now = NoRecord
  BY <1>1, <1>2, SightKept, NowIs DEF OnWay
<1>4. CASE pc'[t] = "idle"
  BY <1>1, <1>2, <1>3, <1>4 DEF Fine
<1>5. CASE pc'[t] # "idle"
  <2> DEFINE r == IF mrc[t] \in recs THEN PlayableUpTo(mrc[t]) ELSE BadRecord
  <2>1. pc'[t] = "open" /\ mrc'[t] = r /\ r # NoRecord
    BY <1>1, <1>5 DEF SearchBack, Finish, Goto, ThreadsOK, BadRecord, NoRecord
  <2>2. seen' = seen /\ Ends' = Ends
    BY <1>1, <1>5, MayEndKept DEF OnWay
  <2>3. r \in Ends
    BY <1>2 DEF Backs
  <2> HIDE DEF r
  <2>4. Named(r) = r
    BY <2>1, <2>3, RecordsAre DEF Named, Ends, Tracks
  <2>5. Named(mrc[t])' = r
    BY <2>1, <2>4 DEF Named
  <2> QED BY <1>1, <1>2, <1>3, <2>1, <2>2, <2>3, <2>5 DEF Fine, OnCourse, Searching, Stopping, PutOn, Starting
<1> QED BY <1>4, <1>5

LEMMA EndedOn == ASSUME NEW t \in Threads, OnWay(t), Ended(t) PROVE Fine(t)
<1>1. /\ pc[t] = "ended" /\ ThreadsOK /\ recs' = recs /\ repeat' = repeat /\ selected' = selected
      /\ iWave' = iWave /\ mrcPlaying' = mrcPlaying
  BY DEF Ended, OnWay, Known, TypeOK, playVars, cnrVars
<1>2. /\ seen.command \in Commands /\ selected \subseteq seen.selected /\ iWave = 0
      /\ NoRecord \in Ends /\ (repeat => selected \in Restarts)
  BY <1>1 DEF OnWay, OnCourse, Searching, GoesOn
<1>3. Now' = Now /\ Now = NoRecord
  BY <1>1, <1>2, SightKept, NowIs DEF OnWay
<1>4. CASE repeat
  <2>1. pc'[t] = "getdev" /\ cmd'[t] = "first"
    BY <1>1, <1>4 DEF Ended, RestartWithFirst, Goto, ThreadsOK
  <2>2. seen' = seen /\ Restarts' = Restarts
    BY <1>1, <2>1, MayEndKept DEF OnWay
  <2>3. SilentStart(t)'
    BY <1>1, <1>2, <1>4, <2>1, <2>2 DEF SilentStart
  <2> QED BY <1>1, <1>2, <2>1, <2>2, <2>3 DEF Fine, OnCourse, Searching, Stopping, PutOn, Starting
<1>5. CASE ~repeat
  <2>1. pc'[t] = "idle"
    BY <1>1, <1>5 DEF Ended, Finish, Goto, ThreadsOK
  <2> QED BY <1>1, <1>2, <1>3, <2>1 DEF Fine
<1> QED BY <1>4, <1>5

\* The steps that put the record on.
LEMMA PuttingOn ==
  ASSUME NEW t \in Threads, OnWay(t),
         OpenDevice(t) \/ StartDevice(t) \/ MarkInUse(t) \/ SelectRecord(t)
  PROVE  Fine(t)
<1>1. /\ pc[t] \in {"open", "start", "mark", "select"} /\ ThreadsOK
      /\ recs' = recs /\ repeat' = repeat /\ iWave' = iWave /\ mrcPlaying' = mrcPlaying
  BY DEF OpenDevice, StartDevice, MarkInUse, SelectRecord, OnWay, Known, TypeOK, playVars, cnrVars
<1>2. /\ seen.command \in Commands /\ selected \subseteq seen.selected
      /\ Now \in Ends /\ Named(mrc[t]) \in Ends
      /\ iWave = 0 \/ (seen.command = "first" /\ seen.selected = {})
  BY <1>1 DEF OnWay, OnCourse, PutOn, Starting
<1>3. Now' = Now
  BY <1>1, SightKept
<1>4. CASE pc'[t] = "idle"
  <2>1. selected' = selected
    BY <1>1, <1>4
    DEF OpenDevice, StartDevice, MarkInUse, SelectRecord, Goto, cnrVars, ThreadsOK
  <2> QED BY <1>2, <1>3, <1>4, <2>1 DEF Fine
<1>5. CASE pc'[t] # "idle"
  <2>1. pc'[t] \in {"start", "mark", "select", "publish"} /\ mrc' = mrc
        /\ (pc'[t] = "publish" => selected' = selected \cup ({mrc[t]} \cap recs))
        /\ (pc'[t] # "publish" => selected' = selected)
    BY <1>1, <1>5
    DEF OpenDevice, StartDevice, MarkInUse, SelectRecord, Goto, Finish, cnrVars, locals, ThreadsOK
  <2>2. seen' = seen /\ Ends' = Ends
    BY <1>1, <1>5, MayEndKept DEF OnWay
  <2>3. Named(mrc[t])' \in Ends'
    BY <1>2, <2>1, <2>2 DEF Named
  <2>4. selected' \subseteq seen'.selected \cup (IF pc'[t] = "publish" THEN {mrc'[t]} ELSE {})
    BY <1>2, <2>1, <2>2
  <2> QED BY <1>1, <1>2, <1>3, <1>5, <2>1, <2>2, <2>3, <2>4
          DEF Fine, OnCourse, Searching, Stopping, PutOn, Starting
<1> QED BY <1>4, <1>5

LEMMA PublishOn == ASSUME NEW t \in Threads, OnWay(t), HasDevice, Publish(t) PROVE Fine(t)
<1>1. /\ pc[t] = "publish" /\ ThreadsOK /\ selected' = selected /\ pc'[t] = "idle"
      /\ iWave' = priv[t] /\ mrcPlaying' = mrc[t]
  BY DEF Publish, Finish, Goto, OnWay, Known, TypeOK, cnrVars, ThreadsOK
<1>2. priv[t] # 0
  BY <1>1, ConstantsAssumption DEF HasDevice, Starting, Devices
<1>3. Now' = Named(mrc[t])
  BY <1>1, <1>2 DEF Now, Named
<1>4. Named(mrc[t]) \in Ends /\ selected \subseteq seen.selected \cup {mrc[t]} /\ selected \subseteq Records
  BY <1>1, KnownIs DEF OnWay, OnCourse, PutOn, Starting
<1>5. selected \subseteq seen.selected \cup {Named(mrc[t])}
  BY <1>4 DEF Named
<1> QED BY <1>1, <1>3, <1>4, <1>5 DEF Fine

-----------------------------------------------------------------------------
\* The steps of cwStopAudioFile.

LEMMA StopDeviceOn == ASSUME NEW t \in Threads, OnWay(t), StopDevice(t) PROVE Fine(t)
<1>1. /\ pc[t] = "stop" /\ ThreadsOK /\ recs' = recs /\ repeat' = repeat /\ selected' = selected
      /\ iWave' = iWave /\ mrcPlaying' = mrcPlaying /\ iWave # 0 /\ pc'[t] = "stopClose"
      /\ cmd' = cmd /\ mrc' = mrc /\ ret' = ret
  BY DEF StopDevice, Goto, OnWay, Known, TypeOK, playVars, cnrVars, locals, ThreadsOK
<1>2. seen' = seen /\ Ends' = Ends /\ Restarts' = Restarts /\ Backs' = Backs
  BY <1>1, MayEndKept DEF OnWay
<1>3. /\ seen.command \in Commands /\ selected \subseteq seen.selected
      /\ GoesOn(t, ret[t], selected \ {mrcPlaying})
  BY <1>1 DEF OnWay, OnCourse, Stopping
<1>4. GoesOn(t, ret[t], selected \ {mrcPlaying})'
  BY <1>1, <1>2, <1>3 DEF GoesOn, Named
<1> QED BY <1>1, <1>2, <1>3, <1>4 DEF Fine, OnCourse, Searching, Stopping, PutOn, Starting

LEMMA StopNothingOn == ASSUME NEW t \in Threads, OnWay(t), StopNothing(t) PROVE Fine(t)
<1>1. /\ pc[t] = "stop" /\ ThreadsOK /\ recs' = recs /\ repeat' = repeat /\ selected' = selected
      /\ iWave' = iWave /\ other' = other /\ inUse' = inUse /\ iWave = 0 /\ pc'[t] = "stopOther"
      /\ cmd' = cmd /\ mrc' = mrc /\ ret' = ret
  BY DEF StopNothing, Goto, OnWay, Known, TypeOK, playVars, cnrVars, locals, ThreadsOK
<1>2. seen' = seen /\ Ends' = Ends /\ Restarts' = Restarts /\ Backs' = Backs
  BY <1>1, MayEndKept DEF OnWay
<1>3. /\ seen.command \in Commands /\ selected \subseteq seen.selected
      /\ GoesOn(t, ret[t], selected) /\ GoesOn(t, ret[t], selected \ {OtherPlaying})
  BY <1>1 DEF OnWay, OnCourse, Stopping
<1>4. OtherPlaying' = OtherPlaying
  BY <1>1, SightKept
<1>5. GoesOn(t, ret[t], selected)' /\ GoesOn(t, ret[t], selected \ {OtherPlaying})'
  BY <1>1, <1>2, <1>3, <1>4 DEF GoesOn, Named
<1> QED BY <1>1, <1>2, <1>3, <1>5 DEF Fine, OnCourse, Searching, Stopping, PutOn, Starting

LEMMA StopCloseOn == ASSUME NEW t \in Threads, OnWay(t), StopClose(t) PROVE Fine(t)
<1>1. /\ pc[t] = "stopClose" /\ ThreadsOK /\ recs' = recs /\ repeat' = repeat /\ selected' = selected
      /\ iWave' = iWave /\ mrcPlaying' = mrcPlaying /\ pc'[t] = "stopReset"
      /\ cmd' = cmd /\ mrc' = mrc /\ ret' = ret
  BY DEF StopClose, Goto, OnWay, Known, TypeOK, playVars, cnrVars, locals, ThreadsOK
<1>2. seen' = seen /\ Ends' = Ends /\ Restarts' = Restarts /\ Backs' = Backs
  BY <1>1, MayEndKept DEF OnWay
<1>3. /\ seen.command \in Commands /\ selected \subseteq seen.selected /\ iWave # 0
      /\ GoesOn(t, ret[t], selected \ {mrcPlaying})
  BY <1>1 DEF OnWay, OnCourse, Stopping
<1>4. GoesOn(t, ret[t], selected \ {mrcPlaying})'
  BY <1>1, <1>2, <1>3 DEF GoesOn, Named
<1> QED BY <1>1, <1>2, <1>3, <1>4 DEF Fine, OnCourse, Searching, Stopping, PutOn, Starting

LEMMA StopResetOn == ASSUME NEW t \in Threads, OnWay(t), StopReset(t) PROVE Fine(t)
<1>1. /\ pc[t] = "stopReset" /\ ThreadsOK /\ recs' = recs /\ repeat' = repeat /\ selected' = selected
      /\ arg'[t] = mrcPlaying /\ pc'[t] = "stopDeselect" /\ cmd' = cmd /\ mrc' = mrc /\ ret' = ret
  BY DEF StopReset, Goto, OnWay, Known, TypeOK, playVars, ThreadsOK
<1>2. seen' = seen /\ Ends' = Ends /\ Restarts' = Restarts /\ Backs' = Backs
  BY <1>1, MayEndKept DEF OnWay
<1>3. /\ seen.command \in Commands /\ selected \subseteq seen.selected
      /\ GoesOn(t, ret[t], selected \ {mrcPlaying})
  BY <1>1 DEF OnWay, OnCourse, Stopping
<1>4. GoesOn(t, ret[t], selected \ {arg[t]})'
  BY <1>1, <1>2, <1>3 DEF GoesOn, Named
<1> QED BY <1>1, <1>2, <1>3, <1>4 DEF Fine, OnCourse, Searching, Stopping, PutOn, Starting

LEMMA StopDeselectOn == ASSUME NEW t \in Threads, OnWay(t), StopDeselect(t) PROVE Fine(t)
<1>1. /\ pc[t] = "stopDeselect" /\ ThreadsOK /\ recs' = recs /\ repeat' = repeat
      /\ selected' = selected \ {arg[t]} /\ pc'[t] = "stopClear"
      /\ cmd' = cmd /\ mrc' = mrc /\ ret' = ret
  BY DEF StopDeselect, Goto, OnWay, Known, TypeOK, playVars, ThreadsOK
<1>2. seen' = seen /\ Ends' = Ends /\ Restarts' = Restarts /\ Backs' = Backs
  BY <1>1, MayEndKept DEF OnWay
<1>3. /\ seen.command \in Commands /\ selected \subseteq seen.selected
      /\ GoesOn(t, ret[t], selected \ {arg[t]})
  BY <1>1 DEF OnWay, OnCourse, Stopping
<1>4. GoesOn(t, ret[t], selected)'
  BY <1>1, <1>2, <1>3 DEF GoesOn, Named
<1>5. selected' \subseteq seen.selected
  BY <1>1, <1>3
<1> QED BY <1>1, <1>2, <1>3, <1>4, <1>5 DEF Fine, OnCourse, Searching, Stopping, PutOn, Starting

\* The stop is over and its caller goes on, or the command ends in silence.
LEMMA ReturnOn ==
  ASSUME NEW t \in Threads, OnWay(t), ReturnFromStop(t), iWave' = 0, selected' \subseteq seen.selected,
         seen.command \in Commands, GoesOn(t, ret[t], selected'), recs' = recs, repeat' = repeat
  PROVE  Fine(t)
<1>1. Now' = NoRecord /\ NoRecord \in Ends /\ ThreadsOK
  BY DEF Now, GoesOn, OnWay, Known, TypeOK
<1>2. CASE ret[t] = "idle"
  <2>1. pc'[t] = "idle"
    BY <1>1, <1>2 DEF ReturnFromStop, Finish, Goto, ThreadsOK
  <2> QED BY <1>1, <2>1 DEF Fine
<1>3. CASE ret[t] # "idle"
  <2>1. /\ pc'[t] = ret[t] /\ cmd' = cmd /\ mrc' = mrc
        /\ pc'[t] \in {"getdev", "back", "ended", "open"}
    BY <1>1, <1>3 DEF ReturnFromStop, Goto, ThreadsOK, Resumes
  <2>2. seen' = seen /\ Ends' = Ends /\ Restarts' = Restarts /\ Backs' = Backs
    BY <2>1, MayEndKept DEF OnWay
  <2>3. GoesOn(t, pc[t], selected)'
    BY <2>1, <2>2 DEF GoesOn, Named
  <2>4. pc'[t] = "getdev" => SilentStart(t)'
    BY <2>3 DEF GoesOn, SilentStart
  <2>5. pc'[t] = "open" => Named(mrc[t])' \in Ends' /\ Now' \in Ends'
    BY <1>1, <2>2, <2>3 DEF GoesOn
  <2> QED BY <2>1, <2>2, <2>3, <2>4, <2>5 DEF Fine, OnCourse, Searching, Stopping, PutOn, Starting
<1> QED BY <1>2, <1>3

LEMMA StopOtherOn == ASSUME NEW t \in Threads, OnWay(t), StopOther(t) PROVE Fine(t)
<1>1. /\ pc[t] = "stopOther" /\ recs' = recs /\ repeat' = repeat /\ iWave' = iWave /\ ReturnFromStop(t)
      /\ selected' \in {selected, selected \ {OtherPlaying}}
  BY DEF StopOther, playVars
<1>2. /\ seen.command \in Commands /\ selected \subseteq seen.selected /\ iWave = 0
      /\ GoesOn(t, ret[t], selected) /\ GoesOn(t, ret[t], selected \ {OtherPlaying})
  BY <1>1 DEF OnWay, OnCourse, Stopping
<1> QED BY <1>1, <1>2, ReturnOn

LEMMA StopClearOn == ASSUME NEW t \in Threads, OnWay(t), StopClear(t) PROVE Fine(t)
<1>1. /\ pc[t] = "stopClear" /\ recs' = recs /\ repeat' = repeat /\ iWave' = 0 /\ ReturnFromStop(t)
      /\ selected' = selected
  BY DEF StopClear, cnrVars
<1>2. /\ seen.command \in Commands /\ selected \subseteq seen.selected /\ GoesOn(t, ret[t], selected)
  BY <1>1 DEF OnWay, OnCourse, Stopping
<1> QED BY <1>1, <1>2, ReturnOn

\* Every step of a thread.
LEMMA ThreadStepOn ==
  ASSUME NEW t \in Threads, OnWay(t), HasDevice, ThreadStep(t), pc[t] \notin ControlSteps
  PROVE  Fine(t)
BY ControlIs, GetDeviceOn, ChooseFirstWhilePlayingOn, ChooseFirstOn, ChooseOtherOn, ChooseNextOn, ChoosePrevOn,
   SearchBackOn, EndedOn, PuttingOn, PublishOn, StopDeviceOn, StopNothingOn, StopOtherOn, StopCloseOn,
   StopResetOn, StopDeselectOn, StopClearOn
DEF ThreadStep

-----------------------------------------------------------------------------
(* What else a step leaves as PlayOrder needs it.                          *)

\* What a command never does: change the records or REPEAT, select a record that is
\* not there, start a track in another view, or leave something behind where it rests.
LEMMA StepOfCommand ==
  ASSUME TypeOK, ContainerInv, NEW t \in Threads, ThreadStep(t)
  PROVE  /\ recs' = recs /\ repeat' = repeat /\ ContainerInv'
         /\ pc'[t] = "idle" => ret'[t] = "idle" \/ pc[t] \in ControlSteps
         /\ \A u \in Threads \ {t} : pc'[u] = pc[u] /\ ret'[u] = ret[u]
         /\ pc[t] \in {"getdev", "chooseOther"} => other' = other
         /\ IF pc[t] \in ControlSteps THEN ControlStep(t) /\ pc'[t] \in ControlSteps \cup {"idle"}
                                      ELSE pc'[t] \notin ControlSteps
<1>1. ThreadsOK
  BY DEF TypeOK
<1> USE DEF Goto, ContainerInv, ControlSteps, PauseSteps
<1>2. CASE GetDevice(t)
  BY <1>1, <1>2 DEF GetDevice, Look, CallStop, ThreadsOK, cnrVars
<1>3. CASE ChooseFirstWhilePlaying(t)
  BY <1>1, <1>3 DEF ChooseFirstWhilePlaying, CallStop, ThreadsOK, cnrVars
<1>4. CASE ChooseFirst(t)
  BY <1>1, <1>4 DEF ChooseFirst, Finish, ThreadsOK, cnrVars
<1>5. CASE ChooseOther(t)
  BY <1>1, <1>5 DEF ChooseOther, RestartWithFirst, ThreadsOK, cnrVars
<1>6. CASE ChooseNext(t)
  BY <1>1, <1>6 DEF ChooseNext, CallStop, ThreadsOK, cnrVars
<1>7. CASE ChoosePrev(t)
  BY <1>1, <1>7 DEF ChoosePrev, CallStop, ThreadsOK, cnrVars
<1>8. CASE SearchBack(t)
  BY <1>1, <1>8 DEF SearchBack, Finish, ThreadsOK, cnrVars
<1>9. CASE Ended(t)
  BY <1>1, <1>9 DEF Ended, Finish, RestartWithFirst, ThreadsOK, cnrVars
<1>10. CASE OpenDevice(t)
  BY <1>1, <1>10 DEF OpenDevice, Finish, locals, ThreadsOK, cnrVars
<1>11. CASE StartDevice(t)
  BY <1>1, <1>11 DEF StartDevice, Finish, locals, ThreadsOK, cnrVars
<1>12. CASE MarkInUse(t)
  BY <1>1, <1>12 DEF MarkInUse, locals, ThreadsOK
<1>13. CASE SelectRecord(t)
  BY <1>1, <1>13 DEF SelectRecord, locals, ThreadsOK
<1>14. CASE Publish(t)
  BY <1>1, <1>14 DEF Publish, Finish, ThreadsOK, cnrVars
<1>15. CASE StopDevice(t)
  BY <1>1, <1>15 DEF StopDevice, locals, ThreadsOK, cnrVars
<1>16. CASE StopNothing(t)
  BY <1>1, <1>16 DEF StopNothing, locals, ThreadsOK, cnrVars
<1>17. CASE StopOther(t)
  BY <1>1, <1>17 DEF StopOther, ReturnFromStop, Finish, Resumes, ThreadsOK
<1>18. CASE StopClose(t)
  BY <1>1, <1>18 DEF StopClose, locals, ThreadsOK, cnrVars
<1>19. CASE StopReset(t)
  BY <1>1, <1>19 DEF StopReset, ThreadsOK
<1>20. CASE StopDeselect(t)
  BY <1>1, <1>20 DEF StopDeselect, ThreadsOK
<1>21. CASE StopClear(t)
  BY <1>1, <1>21 DEF StopClear, ReturnFromStop, Finish, Resumes, ThreadsOK, cnrVars
<1>22. CASE ControlStep(t)
  <2>1. /\ UNCHANGED <<recs, repeat, selected, other, ret>>
        /\ pc[t] \in ControlSteps
        /\ \E l \in ControlSteps \cup {"idle"} : pc' = [pc EXCEPT ![t] = l]
    BY <1>22, ControlIs
  <2> QED BY <1>1, <1>22, <2>1 DEF ThreadsOK
<1> QED
  BY <1>2, <1>3, <1>4, <1>5, <1>6, <1>7, <1>8, <1>9, <1>10, <1>11, <1>12, <1>13, <1>14, <1>15, <1>16, <1>17, <1>18, <1>19, <1>20, <1>21,
     <1>22
  DEF ThreadStep

\* How things are, as a history of a command.
LEMMA SituationType ==
  /\ TypeOK /\ ContainerInv
  /\ AllRest \/ \E t \in Threads : Running = {t} /\ cmd[t] \in Commands
  => Situation \in Situations
<1> SUFFICES ASSUME TypeOK, ContainerInv,
                    AllRest \/ \E t \in Threads : Running = {t} /\ cmd[t] \in Commands
             PROVE  Situation \in Situations
  OBVIOUS
<1>1. Now \in Tracks /\ OtherPlaying \in Records \cup {NoRecord}
  BY DEF Now, OtherPlaying, Tracks, TypeOK, ContainerOK, ContainerInv
<1>2. selected \in SUBSET Records /\ early \in BOOLEAN
  BY DEF TypeOK, ContainerOK, FlagsOK
<1>3. Situation.command \in Commands \cup {"none"}
  <2>1. CASE AllRest
    BY <2>1 DEF Situation
  <2>2. CASE ~AllRest /\ \E t \in Threads : Running = {t} /\ cmd[t] \in Commands
    <3>1. PICK t \in Threads : Running = {t} /\ cmd[t] \in Commands
      BY <2>2
    <3>2. (CHOOSE u \in Running : TRUE) = t
      BY <3>1
    <3> QED BY <2>2, <3>1, <3>2 DEF Situation
  <2> QED BY <2>1, <2>2
<1> QED BY <1>1, <1>2, <1>3 DEF Situation, Situations

LEMMA SituationTypeNext ==
  (/\ TypeOK /\ ContainerInv
   /\ AllRest \/ \E t \in Threads : Running = {t} /\ cmd[t] \in Commands
   => Situation \in Situations)'
BY SituationType, PTL

\* While a command runs, all that happens besides it is that a track ends.
LEMMA OnlyTracksEnd ==
  ASSUME ~Overlap, [Next]_vars, ~AllRest,
         (\A t \in Threads : ~ThreadStep(t)) \/ UNCHANGED vars
  PROVE  /\ UNCHANGED <<iWave, mrcPlaying, early, repeat, recs, selected, inUse, pc, cmd, mrc, ret, arg>>
         /\ other' = other \/ (other # NoRecord /\ other' = NoRecord)
<1>1. CASE OtherEnds
  BY <1>1 DEF OtherEnds, playVars, locals
<1>2. ASSUME NEW d \in Devices, TrackEnds(d)
      PROVE  /\ UNCHANGED <<iWave, mrcPlaying, early, repeat, recs, selected, inUse, pc, cmd, mrc, ret, arg>>
             /\ other' = other
  BY <1>2 DEF TrackEnds, playVars, locals, cnrVars
<1>3. CASE UNCHANGED vars
  BY <1>3 DEF vars, playVars, locals, cnrVars
<1>4. \A t \in Threads : ~MayBegin(t)
  BY DEF MayBegin, AllIdle, AllRest, Idle, Resting
<1> QED BY <1>1, <1>2, <1>3, <1>4
        DEF Next, TakeCommand, TakePause, PostCommand, TimerTick, Seek, PassDevice, ToggleRepeat,
            UserSelects, UserDeletes, UserDoubleClicks, Threads, UI, Play

\* While none runs, the desktop changes what it likes but what plays, or a command begins.
LEMMA Rests ==
  ASSUME ~Overlap, TypeOK, ContainerInv, [Next]_vars, AllRest
  PROVE  /\ UNCHANGED <<iWave, mrcPlaying, mrc, ret>>
         /\ ContainerInv' /\ recs' \subseteq recs
         /\ \/ AllRest'
            \/ /\ AllIdle /\ \E t \in Threads, c \in Commands : Begin(t, c)
               /\ early' \in {early, FALSE}
               /\ UNCHANGED <<repeat, recs, selected, inUse, other>>
<1>1. ThreadsOK
  BY DEF TypeOK
<1>2. pc' = pc => AllRest'
  BY DEF AllRest, Resting
<1> USE DEF ContainerInv
<1>3. CASE TakeCommand
  BY <1>3 DEF TakeCommand, MayBegin, Begin, playVars, cnrVars, Threads, Play
<1>4. CASE TimerTick
  BY <1>2, <1>4 DEF TimerTick, MayBegin, Begin, locals, cnrVars, Threads, UI, Commands, PlayCommands
<1>5. CASE PassDevice \/ ToggleRepeat \/ OtherEnds
  BY <1>2, <1>5 DEF PassDevice, ToggleRepeat, OtherEnds, locals, playVars, cnrVars
<1>6. ASSUME NEW x, PostCommand(x) \/ TrackEnds(x)
      PROVE  /\ UNCHANGED <<iWave, mrcPlaying, mrc, ret, pc>>
             /\ ContainerInv' /\ recs' \subseteq recs
  BY <1>6 DEF PostCommand, TrackEnds, locals, playVars, cnrVars
<1>7. ASSUME NEW S \in SUBSET recs, UserSelects(S)
      PROVE  /\ UNCHANGED <<iWave, mrcPlaying, mrc, ret, pc>>
             /\ ContainerInv' /\ recs' \subseteq recs
  BY <1>7 DEF UserSelects, locals, playVars
<1>8. ASSUME NEW x \in recs, UserDeletes(x) \/ UserDoubleClicks(x)
      PROVE  /\ UNCHANGED <<iWave, mrcPlaying, mrc, ret, pc>>
             /\ ContainerInv' /\ recs' \subseteq recs
  BY <1>8 DEF UserDeletes, UserDoubleClicks, locals, playVars
<1>9. CASE UNCHANGED vars
  BY <1>2, <1>9 DEF vars, locals, playVars, cnrVars
<1>10. CASE TakePause \/ Seek
  <2>1. \E t \in Threads, l \in ControlSteps : pc' = [pc EXCEPT ![t] = l]
    BY <1>10 DEF TakePause, Seek, BeginPausing, Goto, ControlSteps, PauseSteps, Threads, Play, UI
  <2>2. AllRest'
    BY <1>1, <2>1 DEF AllRest, Resting, ThreadsOK
  <2> QED BY <1>10, <2>2 DEF TakePause, Seek, locals, playVars, cnrVars
<1>11. ASSUME NEW t \in Threads, ThreadStep(t)
       PROVE  /\ UNCHANGED <<iWave, mrcPlaying, mrc, ret>>
              /\ ContainerInv' /\ recs' \subseteq recs /\ AllRest'
  <2>1. ControlStep(t) /\ pc'[t] \in ControlSteps \cup {"idle"}
        /\ \A u \in Threads \ {t} : pc'[u] = pc[u]
    BY <1>11, StepsAlone, StepOfCommand DEF AllRest, Resting
  <2> QED BY <2>1, ControlIs DEF AllRest, Resting
<1> QED BY <1>2, <1>3, <1>4, <1>5, <1>6, <1>7, <1>8, <1>9, <1>10, <1>11 DEF Next

-----------------------------------------------------------------------------
(* Every step is a step of PlayOrder, or none.                             *)

\* The end of a command is what PlayOrder says it is.
LEMMA EndIsDone ==
  ASSUME OrderInv, TypeOK', ContainerInv', UNCHANGED <<recs, repeat>>, seen' = Situation', AllRest',
         seen.command \in Commands, Now' \in Ends, selected' \subseteq seen.selected \cup {Now'}
  PROVE  Order!Done
<1>1. /\ seen'.command = "none" /\ seen'.now = Now' /\ seen'.selected = selected'
      /\ seen'.early = early' /\ seen'.other = OtherPlaying'
  BY DEF Situation
<1>2. MayEnd(Now')
  BY DEF Ends
<1>3. /\ PlayMayEnd(Now') => Order!PlayDone
      /\ PrevMayEnd(Now') => Order!PrevDone
      /\ NextMayEnd(Now') => Order!NextDone
  <2>1. PlayMayEnd(Now') => Order!PlayDone
    BY <1>1 DEF PlayMayEnd, Fresh, Order!PlayDone, Order!StartAfresh, Order!Nothing, NoRecord
  <2>2. PrevMayEnd(Now') => Order!PrevDone
    BY <1>1 DEF PrevMayEnd, Fresh, UpTo, Before, Order!PrevDone, Order!StartAfresh, Order!Nothing,
                Order!Unknown, NoRecord, BadRecord
  <2>3. NextMayEnd(Now') => Order!NextDone
    BY <1>1 DEF NextMayEnd, Fresh, Base, After, Order!NextDone, Order!StartAfresh, Order!Nothing, NoRecord
  <2> QED BY <2>1, <2>2, <2>3
<1>4. \/ seen.command = "first" /\ Order!PlayDone
      \/ seen.command = "next" /\ Order!NextDone
      \/ seen.command = "prev" /\ Order!PrevDone
      \/ seen.command = "stop" /\ Order!StopDone
  BY <1>1, <1>2, <1>3 DEF MayEnd, Order!StopDone, Order!Nothing, NoRecord
<1>5. early' \in BOOLEAN /\ OtherPlaying' \in recs \cup {NoRecord}
  BY DEF TypeOK, FlagsOK, ContainerInv, OtherPlaying
<1>6. seen.command # "none"
  BY DEF Commands, PlayCommands
<1> QED BY <1>1, <1>4, <1>5, <1>6 DEF Order!Done, Order!Nothing, NoRecord

Alone == ~Overlap /\ TypeOK /\ HasDevice /\ OneHandler /\ OrderInv

\* The running command takes a step.
LEMMA CommandStep ==
  ASSUME Alone, TypeOK', NEW t \in Threads, ThreadStep(t), ~Resting(t), RecordSeen
  PROVE  OrderInv' /\ (UNCHANGED Order!vars \/ Order!Done)
<1>1. /\ recs' = recs /\ repeat' = repeat /\ ContainerInv'
      /\ pc[t] \notin ControlSteps /\ pc'[t] \notin ControlSteps
      /\ pc'[t] = "idle" => ret'[t] = "idle"
      /\ \A u \in Threads \ {t} : pc'[u] = pc[u] /\ ret'[u] = ret[u]
      /\ pc[t] \in {"getdev", "chooseOther"} => other' = other
  BY StepOfCommand DEF Alone, OrderInv, Resting
<1>2. /\ \A u \in Threads \ {t} : Resting(u) /\ Resting(u)'
      /\ ~AllRest /\ (AllRest' <=> pc'[t] = "idle")
  BY <1>1, OthersRest DEF Alone, AllRest, Resting
<1>3. OnCourse(t) /\ Known /\ seen.command \in Commands
  BY DEF Alone, OrderInv, Known, OnCourse
<1>4. \A u \in Threads \ {t} : ret'[u] = "idle"
  BY <1>1, <1>2 DEF Alone, OrderInv
<1>5. CASE pc'[t] # "idle"
  <2>1. ~EndsUnseen
    BY <1>1, <1>2 DEF EndsUnseen, Running
  <2>2. seen' = seen
    BY <1>2, <1>5, <2>1 DEF RecordSeen
  <2>3. OnCourse(t)'
    BY <1>1, <1>3, <1>5, <2>2, ThreadStepOn DEF OnWay, Fine, Alone
  <2>4. OrderInv'
    BY <1>1, <1>2, <1>3, <1>4, <1>5, <2>2, <2>3 DEF OrderInv, Known, Resting, Situations
  <2> QED BY <1>1, <2>2, <2>4 DEF Order!vars
<1>6. CASE pc'[t] = "idle"
  <2>1. AllRest' /\ seen' = Situation'
    BY <1>2, <1>6 DEF RecordSeen
  <2>2. Now' \in Ends /\ selected' \subseteq seen.selected \cup {Now'}
    BY <1>1, <1>3, <1>6, ThreadStepOn DEF OnWay, Fine, Alone
  <2>3. Order!Done
    BY <1>1, <1>3, <2>1, <2>2, EndIsDone DEF Alone
  <2>4. Situation' \in Situations'
    BY <1>1, <2>1, SituationTypeNext
  <2>5. \A u \in Threads : Resting(u)' /\ ret'[u] = "idle"
    BY <1>1, <1>4, <1>6, <2>1 DEF AllRest
  <2>6. OrderInv'
    BY <1>1, <2>1, <2>4, <2>5 DEF OrderInv
  <2> QED BY <2>3, <2>6
<1> QED BY <1>5, <1>6

\* A track ends while a command runs.
LEMMA TrackEndsStep ==
  ASSUME Alone, [MNext]_mvars, ~AllRest,
         (\A t \in Threads : ~ThreadStep(t)) \/ UNCHANGED mvars
  PROVE  OrderInv' /\ (UNCHANGED Order!vars \/ Order!OtherEnds)
<1>1. /\ UNCHANGED <<iWave, mrcPlaying, early, repeat, recs, selected, inUse, pc, cmd, mrc, ret, arg>>
      /\ other' = other \/ (other # NoRecord /\ other' = NoRecord)
  BY OnlyTracksEnd DEF Alone, MNext, mvars
<1>2. /\ ~AllRest'
      /\ \/ EndsUnseen /\ seen' = [seen EXCEPT !.other = NoRecord]
         \/ seen' = seen /\ (other' = other \/ ~EndsUnseen)
  BY <1>1 DEF MNext, RecordSeen, AllRest, Resting, mvars, vars, cnrVars
<1>3. Now' = Now /\ OtherPlaying' \in {OtherPlaying, NoRecord} /\ (other' = NoRecord => OtherPlaying' = NoRecord)
      /\ (other' = other => OtherPlaying' = OtherPlaying)
  BY <1>1 DEF Now, OtherPlaying
<1>4. ContainerInv' /\ Known
  BY <1>1 DEF Alone, OrderInv, ContainerInv, Known
<1>5. PICK t \in Threads : ~Resting(t)
  BY DEF AllRest
<1>6. OnCourse(t) /\ \A u \in Threads \ {t} : Resting(u)
  BY <1>5 DEF Alone, OrderInv, OneHandler, Idle, Resting
<1>7. ASSUME EndsUnseen, seen' = [seen EXCEPT !.other = NoRecord]
      PROVE  OrderInv' /\ Order!OtherEnds
  <2>1. pc[t] \in {"getdev", "chooseOther"} /\ cmd[t] = "next" /\ other' = NoRecord
    BY <1>6, <1>7 DEF EndsUnseen, Running
  <2>2. seen' = [seen EXCEPT !.other = NoRecord] /\ seen \in Situations
    BY <1>7 DEF Alone, OrderInv
  <2>3. /\ seen' \in Situations /\ seen'.command = seen.command /\ seen'.now = seen.now
        /\ seen'.selected = seen.selected /\ seen'.early = seen.early /\ seen'.other = NoRecord
    BY <2>2 DEF Situations
  <2>4. Found(t) /\ selected \subseteq seen.selected /\ seen.command \in Commands
        /\ (pc[t] = "chooseOther" => iWave = 0)
    BY <1>6, <2>1 DEF OnCourse, Searching, SilentStart
  <2>5. Found(t)' /\ seen'.other = OtherPlaying'
    BY <1>1, <1>3, <2>1, <2>3, <2>4 DEF Found
  <2>6. OnCourse(t)'
    BY <1>1, <2>1, <2>3, <2>4, <2>5 DEF OnCourse, Searching, Stopping, PutOn, Starting
  <2>7. OrderInv'
    BY <1>1, <1>2, <1>4, <1>6, <2>3, <2>6 DEF OrderInv, Alone, Resting, Situations
  <2> QED BY <1>1, <2>3, <2>7 DEF Order!OtherEnds, Order!Nothing, NoRecord
<1>8. ASSUME seen' = seen, other' = other \/ ~EndsUnseen
      PROVE  OrderInv' /\ UNCHANGED Order!vars
  <2>1. Ends' = Ends /\ Restarts' = Restarts /\ Backs' = Backs
    BY <1>1, <1>8, MayEndKept
  <2>2. cmd[t] = "next" /\ pc[t] \in {"getdev", "chooseOther"} => OtherPlaying' = OtherPlaying
    BY <1>1, <1>3, <1>5, <1>8 DEF EndsUnseen, Running
  <2>3. selected \ {OtherPlaying'} \in {selected, selected \ {OtherPlaying}}
    <3>1. selected \ {NoRecord} = selected
      BY <1>4, KnownIs, RecordsAre
    <3> QED BY <1>3, <3>1
  <2>4. Searching(t)'
    <3>1. SilentStart(t) => SilentStart(t)'
      BY <1>1, <2>1 DEF SilentStart
    <3>2. Found(t) => Found(t)'
      BY <1>1, <1>3, <1>8 DEF Found
    <3>3. Looked(t) => Looked(t)'
      BY <1>1, <1>3, <1>8 DEF Looked
    <3>4. GoesOn(t, pc[t], selected) => GoesOn(t, pc[t], selected)'
      BY <1>1, <2>1 DEF GoesOn, Named
    <3> QED BY <1>1, <1>6, <1>8, <2>2, <3>1, <3>2, <3>3, <3>4 DEF OnCourse, Searching, Found
  <2>5. Stopping(t)'
    <3>1. GoesOn(t, ret[t], selected) => GoesOn(t, ret[t], selected)'
      BY <1>1, <2>1 DEF GoesOn, Named
    <3>2. GoesOn(t, ret[t], selected \ {mrcPlaying}) => GoesOn(t, ret[t], selected \ {mrcPlaying})'
      BY <1>1, <2>1 DEF GoesOn, Named
    <3>3. GoesOn(t, ret[t], selected \ {arg[t]}) => GoesOn(t, ret[t], selected \ {arg[t]})'
      BY <1>1, <2>1 DEF GoesOn, Named
    <3>4. GoesOn(t, ret[t], selected) /\ GoesOn(t, ret[t], selected \ {OtherPlaying})
            => GoesOn(t, ret[t], selected \ {OtherPlaying})'
      BY <1>1, <2>1, <2>3 DEF GoesOn, Named
    <3> QED BY <1>1, <1>6, <3>1, <3>2, <3>3, <3>4 DEF OnCourse, Stopping
  <2>6. PutOn(t)'
    BY <1>1, <1>3, <1>6, <1>8, <2>1 DEF OnCourse, PutOn, Starting, Named
  <2>7. OnCourse(t)'
    BY <1>1, <1>6, <1>8, <2>4, <2>5, <2>6 DEF OnCourse
  <2>8. OrderInv'
    BY <1>1, <1>2, <1>4, <1>6, <1>8, <2>7 DEF OrderInv, Alone, Resting, Situations
  <2> QED BY <1>1, <1>8, <2>8 DEF Order!vars
<1> QED BY <1>2, <1>7, <1>8

\* Nothing runs: the desktop changes, or a command begins.
LEMMA RestStep ==
  ASSUME Alone, TypeOK', MNext, AllRest
  PROVE  OrderInv' /\ (Order!Desktop \/ Order!Begin)
<1>1. /\ UNCHANGED <<iWave, mrcPlaying, mrc, ret>>
      /\ ContainerInv' /\ recs' \subseteq recs
      /\ \/ AllRest'
         \/ /\ AllIdle /\ \E t \in Threads, c \in Commands : Begin(t, c)
            /\ early' \in {early, FALSE}
            /\ UNCHANGED <<repeat, recs, selected, inUse, other>>
  BY Rests DEF Alone, OrderInv, MNext
<1>2. Now' = Now /\ seen' = Situation' /\ seen = Situation /\ ThreadsOK
  BY <1>1 DEF Now, MNext, RecordSeen, Alone, OrderInv, TypeOK
<1>3. /\ seen.command = "none" /\ seen.now = Now /\ seen.selected = selected
      /\ seen.early = early /\ seen.other = OtherPlaying
      /\ seen'.now = Now /\ seen'.selected = selected' /\ seen'.early = early'
      /\ seen'.other = OtherPlaying'
  BY <1>2 DEF Situation
<1>4. CASE AllRest'
  <2>1. seen'.command = "none"
    BY <1>2, <1>4 DEF Situation
  <2>2. seen' \in Situations
    BY <1>1, <1>2, <1>4, SituationTypeNext
  <2>3. OrderInv'
    BY <1>1, <1>2, <1>4, <2>2 DEF OrderInv, Alone, AllRest
  <2>4. selected' \subseteq recs' /\ early' \in BOOLEAN /\ repeat' \in BOOLEAN
        /\ OtherPlaying' \in recs' \cup {NoRecord}
    BY <1>1 DEF ContainerInv, TypeOK, FlagsOK, OtherPlaying
  <2>5. Order!Desktop
    BY <1>1, <1>3, <2>1, <2>4 DEF Order!Desktop, Order!Nothing, NoRecord
  <2> QED BY <2>3, <2>5
<1>5. ASSUME AllIdle, NEW t \in Threads, NEW c \in Commands, Begin(t, c), early' \in {early, FALSE},
             UNCHANGED <<repeat, recs, selected, inUse, other>>
      PROVE  OrderInv' /\ Order!Begin
  <2>1. /\ pc' = [pc EXCEPT ![t] = IF c = "stop" THEN "stop" ELSE "getdev"] /\ cmd' = [cmd EXCEPT ![t] = c]
    BY <1>5 DEF Begin, Goto
  <2>2. /\ pc'[t] = (IF c = "stop" THEN "stop" ELSE "getdev") /\ cmd'[t] = c
        /\ \A u \in Threads \ {t} : pc'[u] = "idle"
    BY <1>2, <1>5, <2>1 DEF ThreadsOK, AllIdle, Idle
  <2>3. Running' = {t} /\ ~AllRest'
    BY <2>2 DEF Running, AllRest, Resting, ControlSteps, PauseSteps
  <2>4. (CHOOSE u \in Running' : TRUE) = t
    BY <2>3
  <2>5. seen'.command = c
    BY <1>2, <2>2, <2>3, <2>4 DEF Situation
  <2>6. seen' \in Situations
    BY <1>1, <1>2, <2>2, <2>3, SituationTypeNext
  <2>7. OtherPlaying' = OtherPlaying
    BY <1>5, SightKept
  <2>8. OnCourse(t)'
    <3>1. CASE c = "stop"
      <4>1. NoRecord \in Ends'
        BY <2>5, <3>1 DEF Ends, MayEnd, Tracks
      <4>2. ret'[t] = "idle"
        BY <1>1 DEF Alone, OrderInv, AllRest
      <4>3. /\ GoesOn(t, ret[t], selected)' /\ GoesOn(t, ret[t], selected \ {mrcPlaying})'
            /\ GoesOn(t, ret[t], selected \ {OtherPlaying})'
        BY <4>1, <4>2 DEF GoesOn
      <4> QED BY <1>3, <2>2, <2>5, <3>1, <4>3 DEF OnCourse, Searching, Stopping, PutOn, Starting
    <3>2. CASE c # "stop"
      <4>1. Found(t)' /\ seen'.other = OtherPlaying'
        BY <1>2, <1>3, <2>2, <2>5, <3>2 DEF Found
      <4> QED BY <1>3, <2>2, <2>5, <3>2, <4>1 DEF OnCourse, Searching, Stopping, PutOn, Starting
    <3> QED BY <3>1, <3>2
  <2>9. OrderInv'
    BY <1>1, <2>2, <2>3, <2>6, <2>8 DEF OrderInv, Alone, AllRest, Resting, ControlSteps, PauseSteps
  <2>10. Order!Begin
    BY <1>3, <1>5, <2>5, <2>7 DEF Order!Begin, Order!Commands, Commands, PlayCommands
  <2> QED BY <2>9, <2>10
<1> QED BY <1>1, <1>4, <1>5

LEMMA OrderStep ==
  ASSUME Alone, TypeOK', [MNext]_mvars
  PROVE  OrderInv' /\ [Order!Next]_(Order!vars)
<1>1. CASE UNCHANGED mvars /\ AllRest
  <2>1. UNCHANGED <<Now, OtherPlaying, recs, repeat, selected, early, other, pc, ret, seen>>
    BY <1>1 DEF mvars, vars, playVars, cnrVars, locals, Now, OtherPlaying
  <2>2. AllRest' /\ Situation' = Situation
    BY <1>1, <2>1 DEF AllRest, Resting, Situation
  <2>3. OrderInv'
    BY <1>1, <2>1, <2>2 DEF Alone, OrderInv, ContainerInv, AllRest, Resting, Situations
  <2> QED BY <2>1, <2>3 DEF Order!vars
<1>2. CASE MNext /\ AllRest
  BY <1>2, RestStep DEF Order!Next
<1>3. CASE ~AllRest /\ ((\A t \in Threads : ~ThreadStep(t)) \/ UNCHANGED mvars)
  BY <1>3, TrackEndsStep DEF Order!Next
<1>4. ASSUME NEW t \in Threads, ThreadStep(t), MNext
      PROVE  OrderInv' /\ [Order!Next]_(Order!vars)
  <2>1. CASE AllRest
    BY <1>4, <2>1, RestStep DEF Order!Next
  <2>2. CASE ~AllRest
    <3>1. ~Resting(t)
      BY <1>4, <2>2, OthersRest DEF Alone, AllRest, Resting
    <3> QED BY <1>4, <3>1, CommandStep DEF MNext, Order!Next
  <2> QED BY <2>1, <2>2
<1> QED BY <1>1, <1>2, <1>3, <1>4

LEMMA OrderInit == MInit => OrderInv /\ Order!Init
<1> SUFFICES ASSUME MInit PROVE OrderInv /\ Order!Init
  OBVIOUS
<1>1. Init /\ seen = Situation /\ TypeOK
  BY InitType DEF MInit
<1>2. AllRest /\ Now = NoRecord /\ OtherPlaying = NoRecord
  BY <1>1 DEF Init, AllRest, Resting, Now, OtherPlaying
<1>3. ContainerInv
  BY <1>1 DEF Init, ContainerInv
<1>4. seen \in Situations
  BY <1>1, <1>2, <1>3, SituationType
<1>5. OrderInv
  BY <1>1, <1>2, <1>3, <1>4 DEF OrderInv, Init, AllRest
<1>6. Order!Init
  BY <1>1, <1>2 DEF Init, Situation, Order!Init, Order!Nothing, NoRecord
<1> QED BY <1>5, <1>6

LEMMA MStepIsStep == [MNext]_mvars => [Next]_vars
BY DEF MNext, mvars

LEMMA OrderAlways == ASSUME ~Overlap PROVE MSpec => []Alone /\ Order!Spec
<1>1. MInit => Alone /\ Order!Init
  BY OrderInit, DeviceInvInit DEF MInit, Init, Alone, OneHandler, Idle, DeviceInv
<1>2. Alone /\ DeviceInv /\ [MNext]_mvars => Alone'
  <2> SUFFICES ASSUME Alone, DeviceInv, [MNext]_mvars PROVE Alone'
    OBVIOUS
  <2>1. [Next]_vars /\ DeviceInv' /\ TypeOK' /\ HasDevice'
    BY MStepIsStep, DeviceInvNext DEF DeviceInv
  <2>2. OneHandler'
    <3>1. ASSUME NEW t \in Threads, ThreadStep(t) PROVE OneHandler'
      BY <3>1, OthersRest DEF Alone
    <3> QED BY <2>1, <3>1, BeginsAlone DEF Alone
  <2>3. OrderInv'
    BY <2>1, OrderStep
  <2> QED BY <2>1, <2>2, <2>3 DEF Alone
<1>3. MInit => DeviceInv
  BY DeviceInvInit DEF MInit
<1>4. DeviceInv /\ [MNext]_mvars => DeviceInv'
  BY MStepIsStep, DeviceInvNext
<1>5. Alone /\ TypeOK' /\ [MNext]_mvars => [Order!Next]_(Order!vars)
  BY OrderStep
<1>6. Alone => TypeOK
  BY DEF Alone
<1> QED BY <1>1, <1>2, <1>3, <1>4, <1>5, <1>6, PTL DEF MSpec, Order!Spec

-----------------------------------------------------------------------------
\* With one handler at a time, for every folder, number of devices and behaviour of the
\* desktop, the steps of cwPlayAudioFile and cwStopAudioFile implement PlayOrder: each
\* command ends with the record playing that PlayOrder names for what it found, and nothing
\* else changes that record.
THEOREM PlaysInOrder == ASSUME ~Overlap PROVE MSpec => ImplementsPlayOrder
BY OrderAlways, PTL DEF ImplementsPlayOrder

\* With one handler at a time "play" is only sent to MMPM/2 when the folder has given up the
\* device of the track before, except for PLAY over a track with nothing selected.
THEOREM AlwaysStartsInSilence == ASSUME ~Overlap PROVE MSpec => StartsInSilence
<1> DEFINE Silent == \A t \in Threads : pc[t] = "start" /\ pc'[t] = "mark" =>
                       \/ iWave = 0 \/ dev[iWave] \notin Sounding
                       \/ seen.command = "first" /\ seen.selected = {}
<1>1. Alone => Silent
  BY DEF Alone, OrderInv, Resting, ControlSteps, PauseSteps, OnCourse, PutOn, Starting
<1> QED BY <1>1, OrderAlways, PTL DEF StartsInSilence

===============================================================================
