------------------------------ MODULE PlayOrder ------------------------------
(****************************************************************************)
(* What the play buttons of a media folder promise, one command at a time:  *)
(* which record plays when the command has been carried out.  The devices,  *)
(* the play timer, the steps of cwPlayAudioFile and cwStopAudioFile and the *)
(* searches through the container are all gone.  MediaPlayer, with one      *)
(* handler at a time, implements this specification (see PlayOrderMapping). *)
(****************************************************************************)
EXTENDS Integers

CONSTANTS Records, Playable

Nothing == 0    \* no track plays
Unknown == -1   \* a track the folder cannot name

VARIABLES
  now,       \* the record that plays
  command,   \* the command that is being carried out, or "none"
  recs, selected, early, repeat,
  other      \* record the user has started in a view of its own

vars == <<now, command, recs, selected, early, repeat, other>>

Commands == {"first", "next", "prev", "stop"}

IsFirst(r, S) == r \in S /\ \A s \in S : r <= s
IsLast(r, S)  == r \in S /\ \A s \in S : r >= s

-----------------------------------------------------------------------------
\* The track a fresh start picks when the records of S are selected.
Target(S) ==
  LET anchor == IF S = {} THEN recs ELSE S
      after  == {r \in recs \cap Playable : \E a \in anchor : IsFirst(a, anchor) /\ r >= a}
  IN  IF anchor = {} THEN {}
      ELSE IF after = {} THEN {Unknown}
      ELSE {r \in after : IsFirst(r, after)}

\* Any track may turn out to be unplayable: then nothing plays.
StartAfresh(S) == now' \in Target(S) \cup {Nothing}

\* A track is only started over another one when nothing is selected.
PlayDone ==
  \/ now = Nothing /\ StartAfresh(selected)
  \/ now # Nothing /\ selected # {} /\ StartAfresh(selected \ {now})
  \/ now # Nothing /\ selected = {} /\ now' \in Target({}) \cup {now}

NextDone ==
  LET base  == IF now = Nothing THEN other ELSE now
      after == {r \in recs \cap Playable : r > base}
  IN  \/ base = Nothing /\ StartAfresh(selected)
      \/ base # Nothing /\ base \notin recs /\ now' = Nothing
      \/ base \in recs /\ after # {} /\ (now' = Nothing \/ IsFirst(now', after))
      \/ /\ base \in recs /\ after = {}
         /\ \/ ~repeat /\ now' = Nothing
            \/ repeat /\ StartAfresh(selected \ {base})
            \/ repeat /\ base = other /\ StartAfresh(selected)

PrevDone ==
  LET upTo   == IF early /\ \E r \in recs : r < now THEN now - 1 ELSE now
      before == {r \in recs \cap Playable : r <= upTo}
  IN  \/ now = Nothing /\ StartAfresh(selected)
      \/ now # Nothing /\ now \notin recs /\ now' \in {Nothing, Unknown}
      \/ now \in recs /\ (now' = Nothing \/ IsLast(now', before))

StopDone == now' = Nothing

-----------------------------------------------------------------------------
Begin ==
  /\ command = "none" /\ command' \in Commands
  /\ early' \in {early, FALSE}
  /\ UNCHANGED <<now, recs, selected, repeat, other>>

Done ==
  /\ command # "none" /\ command' = "none"
  /\ \/ command = "first" /\ PlayDone
     \/ command = "next" /\ NextDone
     \/ command = "prev" /\ PrevDone
     \/ command = "stop" /\ StopDone
  /\ selected' \subseteq selected \cup {now'}
  /\ early' \in BOOLEAN
  /\ other' \in recs \cup {Nothing}
  /\ UNCHANGED <<recs, repeat>>

\* Between two commands the user changes anything but the track.
Desktop ==
  /\ command = "none"
  /\ recs' \subseteq recs /\ selected' \subseteq recs'
  /\ early' \in BOOLEAN /\ repeat' \in BOOLEAN
  /\ other' \in recs' \cup {Nothing}
  /\ UNCHANGED <<now, command>>

OtherEnds ==
  /\ other' = Nothing
  /\ UNCHANGED <<now, command, recs, selected, early, repeat>>

Init ==
  /\ now = Nothing /\ command = "none"
  /\ recs = Records /\ selected = {} /\ other = Nothing
  /\ early = TRUE /\ repeat \in BOOLEAN

Next == Begin \/ Done \/ Desktop \/ OtherEnds

Spec == Init /\ [][Next]_vars
=============================================================================
