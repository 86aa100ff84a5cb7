-------------------------- MODULE PlayOrderMapping --------------------------
(****************************************************************************)
(* MediaPlayer with a history variable that keeps what a command found when *)
(* it began, and the refinement mapping to PlayOrder.                       *)
(****************************************************************************)
EXTENDS MediaPlayer

VARIABLE seen   \* what the running command found when it began; while none
                \* runs, how things are

Now ==
  IF iWave = 0 THEN NoRecord
  ELSE IF mrcPlaying \in Records THEN mrcPlaying ELSE BadRecord

\* A thread that carries out none of the commands of PlayOrder: PAUSE and the
\* slider are not among them.
Resting(t) == pc[t] \in {"idle"} \cup ControlSteps
AllRest == \A t \in Threads : Resting(t)

Running == {t \in Threads : ~Resting(t)}

Situation ==
  [command |-> IF AllRest THEN "none" ELSE cmd[CHOOSE t \in Running : TRUE],
   now |-> Now, selected |-> selected, early |-> early, other |-> OtherPlaying]

\* A track that plays in a view of its own may end before the command looks.
EndsUnseen ==
  /\ other # NoRecord /\ other' = NoRecord /\ pc' = pc
  /\ \E t \in Running : cmd[t] = "next" /\ pc[t] \in {"getdev", "chooseOther"}

RecordSeen ==
  seen' = IF AllRest \/ AllRest' THEN Situation'
          ELSE IF EndsUnseen THEN [seen EXCEPT !.other = NoRecord]
          ELSE seen

MInit == Init /\ seen = Situation
MNext == Next /\ RecordSeen
mvars == <<vars, seen>>
MSpec == MInit /\ [][MNext]_mvars

Order == INSTANCE PlayOrder WITH
  now      <- seen.now,
  command  <- seen.command,
  selected <- seen.selected,
  early    <- seen.early,
  other    <- seen.other

\* Each command of the play buttons, and each tick of the play timer that
\* goes on to the next track, ends with the record playing that PlayOrder
\* says, whatever happens on the desktop between two commands.
ImplementsPlayOrder == Order!Spec

\* A track is only started when the one before it has been stopped, except when
\* PLAY is pressed over a track and nothing is selected.
StartsInSilence ==
  [][\A t \in Threads : pc[t] = "start" /\ pc'[t] = "mark" =>
       \/ iWave = 0 \/ dev[iWave] \notin Sounding
       \/ seen.command = "first" /\ seen.selected = {}]_mvars
=============================================================================
