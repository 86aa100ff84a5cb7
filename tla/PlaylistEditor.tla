---------------------------- MODULE PlaylistEditor ----------------------------
(*******************************************************************************)
(* The editor of play lists: the M3U object on the desktop (MMM3U) opens a     *)
(* folder that exists only for the time of the edit (CWM3UFolder).  A thread   *)
(* fills the folder from the file, another one writes its contents back, and   *)
(* an object window frees the folder some time after it has been closed.       *)
(*                                                                             *)
(* fContentsChanged and fClosing are all that the three threads agree on; none *)
(* of it is locked.  The threads ask the container for its records with sent   *)
(* messages, one record a message, so the user can do anything in between.     *)
(*******************************************************************************)
EXTENDS Naturals, Sequences, SequencesExt, FiniteSets

CONSTANTS
  Tracks,      \* the tracks that a list can hold, each at most once
  NoTrack,     \* the answer of the container when there is no further record
  Missing,     \* those whose file does not exist
  MaxList,     \* bound: length of the list in the file when it is first opened
  MaxSavers,   \* bound: threads that write the list at the same time
  MaxBoxes,    \* bound: message boxes open at the same time
  MaxHaste     \* bound: how many members of Impatience one user has

\* What a user may do instead of waiting.
Impatience == {"save while loading", "close while loading", "edit while saving",
               "close while saving", "close again", "save while asked"}

ASSUME EditorAssumption ==
  /\ IsFiniteSet(Tracks) /\ Missing \subseteq Tracks /\ NoTrack \notin Tracks
  /\ MaxList \in Nat /\ MaxSavers \in Nat \ {0} /\ MaxBoxes \in Nat \ {0} /\ MaxHaste \in Nat

VARIABLES
  haste,       \* what this user does without waiting
  target,      \* the M3U file: "writable", "readonly", or "gone": deleted since
  file,        \* the list on disk
  folder,      \* the folder object: "none", "alive"
  window,      \* its frame window exists
  shown,       \* the records of its container, in item order
  changed,     \* fContentsChanged
  closing,     \* fClosing
  ui,          \* what the UI thread is in the middle of
  boxes,       \* nested message boxes that ask whether to save
  loader,      \* the script that fills the folder: [pc, left]
  savers,      \* the threads that write the list back, by slot
  queue,       \* of the UI thread: WM_CLOSE for the frame, WM_APPTERMINATENOTIFY
               \* for the handler window
  handler,     \* the handler window: "none", "waits", "timer"
  inUse        \* the use item of the M3U object

folderVars == <<folder, window, shown, changed, closing>>
msgVars == <<queue, handler, inUse>>
outside == <<haste, target>>
vars == <<outside, file, folderVars, ui, boxes, loader, savers, msgVars>>

-----------------------------------------------------------------------------
(* Helpers.                                                                    *)

Slots == 1..MaxSavers
Free == <<"free", NoTrack>>
NotLoading == [pc |-> "off", left |-> <<>>]
NoSaver == [pc |-> "off", closes |-> FALSE, cnr |-> FALSE, at |-> NoTrack, out |-> <<>>]

Lists == {s \in SeqOf(Tracks, Cardinality(Tracks)) : IsInjective(s)}

\* A list without the tracks that cannot be shown.
Found(list) ==
  LET kept[i \in 0..Len(list)] ==
        IF i = 0 THEN <<>>
        ELSE IF list[i] \in Missing THEN kept[i - 1]
        ELSE Append(kept[i - 1], list[i])
  IN  kept[Len(list)]

Loading == loader.pc # "off"
Saving == \E s \in Slots : savers[s].pc # "off"

\* What the user waits for before doing something.
Waits(h) == h \notin haste
Patient(hs) == haste \cap hs = {}

-----------------------------------------------------------------------------
(* MMM3U::wpOpen: a new folder, its window, the handler window, the thread     *)
(* that fills it.                                                              *)

\* (Bound: a box of the folder before is answered first; there is no telling what an
\* answer does to a folder that has been freed.)
Open ==
  /\ folder = "none" /\ ~Loading /\ ~Saving /\ ~inUse /\ boxes = 0
  /\ folder' = "alive" /\ window' = TRUE /\ shown' = <<>>
  /\ changed' = FALSE /\ closing' = FALSE
  /\ loader' = [pc |-> "read", left |-> <<>>]
  /\ handler' = "waits" /\ inUse' = TRUE
  /\ queue' = <<>>
  /\ UNCHANGED <<outside, file, ui, boxes, savers>>

\* The script reads the whole file, then creates the shadows, the last first, so
\* that the first one ends up at the top.
LoadRead ==
  /\ loader.pc = "read"
  /\ loader' = [pc |-> "insert", left |-> file]
  /\ UNCHANGED <<outside, file, folderVars, ui, boxes, savers, msgVars>>

LoadInsert ==
  /\ loader.pc = "insert" /\ loader.left # <<>> /\ ui = Free
  /\ shown' = IF window THEN Found(<<Last(loader.left)>>) \o shown ELSE shown
  /\ loader' = [loader EXCEPT !.left = Front(@)]
  /\ UNCHANGED <<outside, file, folder, window, changed, closing, ui, boxes, savers,
                 msgVars>>

LoadEnd ==
  /\ loader.pc = "insert" /\ loader.left = <<>>
  /\ loader' = NotLoading
  /\ UNCHANGED <<outside, file, folderVars, ui, boxes, savers, msgVars>>

-----------------------------------------------------------------------------
(* What the user does to the contents: CN_DROP and wpDeleteFromContent set the *)
(* flag first, the parent class changes the contents afterwards.               *)

\* A command of the user is handled after the messages that were posted before it.
Ready == window /\ ui = Free /\ queue = <<>>

MayEdit ==
  /\ Ready
  /\ Waits("edit while saving") => ~Saving /\ ~closing

\* Each track at most once: one that is dropped is not still to be inserted by the
\* script, nor written by a thread before it was deleted.
MayDrop(t) ==
  /\ MayEdit /\ t \notin Missing /\ ~Contains(shown, t)
  /\ ~Contains(IF loader.pc = "read" THEN file ELSE loader.left, t)
  /\ \A s \in Slots : savers[s].at # t /\ ~Contains(savers[s].out, t)

\* Mutant for ClosesSaved: the drop is left to the folder's own window procedure.
DropUnmarked(t) ==
  /\ MayDrop(t)
  /\ ui' = <<"drop", t>>
  /\ UNCHANGED <<outside, file, folderVars, boxes, loader, savers, msgVars>>

DropBegins(t) ==
  /\ MayDrop(t)
  /\ changed' = TRUE
  /\ ui' = <<"drop", t>>
  /\ UNCHANGED <<outside, file, folder, window, shown, closing, boxes, loader, savers,
                 msgVars>>

DropEnds ==
  /\ ui[1] = "drop"
  /\ \E i \in 1..Len(shown) + 1 : shown' = InsertAt(shown, i, ui[2])
  /\ ui' = Free
  /\ UNCHANGED <<outside, file, folder, window, changed, closing, boxes, loader, savers,
                 msgVars>>

\* Mutant for SavedIsShown: the parent's wpDeleteFromContent is all that is called.
DeleteUnmarked(t) ==
  /\ MayEdit /\ Contains(shown, t)
  /\ ui' = <<"delete", t>>
  /\ UNCHANGED <<outside, file, folderVars, boxes, loader, savers, msgVars>>

DeleteBegins(t) ==
  /\ MayEdit /\ Contains(shown, t)
  /\ changed' = TRUE
  /\ ui' = <<"delete", t>>
  /\ UNCHANGED <<outside, file, folder, window, shown, closing, boxes, loader, savers,
                 msgVars>>

DeleteEnds ==
  /\ ui[1] = "delete"
  /\ shown' = RemoveFirst(shown, ui[2])
  /\ ui' = Free
  /\ UNCHANGED <<outside, file, folder, window, changed, closing, boxes, loader, savers,
                 msgVars>>

-----------------------------------------------------------------------------
(* Saving: cwSavePlaylist and saveThreadFunc.                                  *)

\* (Bound: nobody saves before the script has read the file.)
StartSaver(closes) ==
  /\ loader.pc # "read"
  /\ \E s \in Slots :
       /\ savers[s].pc = "off"
       /\ savers' = [savers EXCEPT ![s] =
                       [pc |-> "begin", closes |-> closes, cnr |-> window, at |-> NoTrack,
                        out |-> <<>>]]

\* The menu item "Save".
Save ==
  /\ Ready
  /\ Waits("save while loading") => ~Loading
  /\ Waits("edit while saving") => ~Saving /\ ~closing
  /\ Waits("save while asked") => boxes = 0
  /\ StartSaver(FALSE)
  /\ UNCHANGED <<outside, file, folderVars, ui, boxes, loader, msgVars>>

At(s, pc) == savers[s].pc = pc
Goes(s, pc) == savers' = [savers EXCEPT ![s].pc = pc]

\* The name of a file that is gone cannot be had: the thread ends, whatever it was
\* to do.
SaveGivesUp(s) ==
  /\ At(s, "begin") /\ target = "gone"
  /\ savers' = [savers EXCEPT ![s] = NoSaver]
  /\ UNCHANGED <<outside, file, folderVars, ui, boxes, loader, msgVars>>

\* One thread that has the file open keeps the others from opening it.
Opens(s) ==
  /\ savers[s].cnr /\ window /\ target = "writable"
  /\ \A r \in Slots : savers[r].pc \notin {"ask", "write", "close"}

\* Opening the file empties it.
SaveOpen(s) ==
  /\ At(s, "begin") /\ Opens(s)
  /\ file' = <<>>
  /\ Goes(s, "ask")
  /\ UNCHANGED <<outside, folderVars, ui, boxes, loader, msgVars>>

\* No container to ask, or a file that cannot be opened; closing the stream that was
\* not opened is taken to do nothing.
SaveNothing(s) ==
  /\ At(s, "begin") /\ target # "gone" /\ ~Opens(s)
  /\ Goes(s, "mark")
  /\ UNCHANGED <<outside, file, folderVars, ui, boxes, loader, msgVars>>

\* Mutant for TypeOK: the first record is asked for again and again.
AfterFirst(t) == Head(shown \o <<NoTrack>>)

\* CM_QUERYRECORD: the record after this one, or none: after the last one, after one
\* that has been removed, and when the window is gone.
After(t) ==
  IF ~window THEN NoTrack
  ELSE IF t = NoTrack THEN Head(shown \o <<NoTrack>>)
  ELSE IF Contains(shown, t)
       THEN (Tail(shown) \o <<NoTrack>>)[SelectInSeq(shown, LAMBDA u : u = t)]
  ELSE NoTrack

SaveAsk(s) ==
  /\ At(s, "ask") /\ ui = Free
  /\ LET t == After(savers[s].at) IN
       savers' = [savers EXCEPT ![s].at = t,
                                ![s].pc = IF t = NoTrack THEN "close" ELSE "write"]
  /\ UNCHANGED <<outside, file, folderVars, ui, boxes, loader, msgVars>>

SaveWrite(s) ==
  /\ At(s, "write")
  /\ savers' = [savers EXCEPT ![s].out = Append(@, savers[s].at), ![s].pc = "ask"]
  /\ UNCHANGED <<outside, file, folderVars, ui, boxes, loader, msgVars>>

SaveClose(s) ==
  /\ At(s, "close")
  /\ file' = savers[s].out
  /\ Goes(s, "mark")
  /\ UNCHANGED <<outside, folderVars, ui, boxes, loader, msgVars>>

\* Mark as saved.
SaveMark(s) ==
  /\ At(s, "mark")
  /\ changed' = FALSE
  /\ savers' = [savers EXCEPT ![s] = IF @.closes THEN [@ EXCEPT !.pc = "post"] ELSE NoSaver]
  /\ UNCHANGED <<outside, file, folder, window, shown, closing, ui, boxes, loader, msgVars>>

PostClose == queue' = IF window THEN Append(queue, "WM_CLOSE") ELSE queue
PostEnd == queue' = IF handler # "none" THEN Append(queue, "WM_APPTERMINATENOTIFY") ELSE queue

\* Mutant for InUseWhileOpen: the end is reported before the frame is told to close.
SaveAsksEnd(s) ==
  /\ At(s, "post")
  /\ PostEnd
  /\ Goes(s, "report")
  /\ UNCHANGED <<outside, file, folderVars, ui, boxes, loader, handler, inUse>>

SaveAsksClose(s) ==
  /\ At(s, "post")
  /\ PostClose
  /\ Goes(s, "report")
  /\ UNCHANGED <<outside, file, folderVars, ui, boxes, loader, handler, inUse>>

\* Mutant for EditorEnds: the thread leaves the report to cwClose.
SaveEnds(s) ==
  /\ At(s, "report")
  /\ savers' = [savers EXCEPT ![s] = NoSaver]
  /\ UNCHANGED <<outside, file, folderVars, ui, boxes, loader, msgVars>>

SaveReports(s) ==
  /\ At(s, "report")
  /\ PostEnd
  /\ savers' = [savers EXCEPT ![s] = NoSaver]
  /\ UNCHANGED <<outside, file, folderVars, ui, boxes, loader, handler, inUse>>

SaverStep(s) ==
  \/ SaveGivesUp(s) \/ SaveOpen(s) \/ SaveNothing(s)
  \/ SaveAsk(s) \/ SaveWrite(s) \/ SaveClose(s)
  \/ SaveMark(s) \/ SaveAsksClose(s) \/ SaveReports(s)

-----------------------------------------------------------------------------
(* Closing: WM_CLOSE, cwClose, the handler window.                             *)

UserCloses ==
  /\ window /\ ui = Free /\ ~Contains(queue, "WM_CLOSE")
  /\ Waits("close while loading") => ~Loading
  /\ Waits("close while saving") => ~Saving /\ (closing => target = "gone")
  /\ Waits("close again") => boxes = 0
  /\ queue' = Append(queue, "WM_CLOSE")
  /\ UNCHANGED <<outside, file, folderVars, ui, boxes, loader, savers, handler, inUse>>

\* The UI thread takes the next message.
Takes(m) == ui = Free /\ queue # <<>> /\ Head(queue) = m

\* The messages for the handler window are all that is left when the frame has gone.
ForHandler(q) ==
  [i \in 1..Cardinality({j \in 1..Len(q) : q[j] # "WM_CLOSE"}) |-> "WM_APPTERMINATENOTIFY"]

\* The frame goes, and with it the messages that wait for it.
DestroysWindow(rest) ==
  /\ window' = FALSE /\ shown' = <<>>
  /\ queue' = IF closing \/ handler = "none" THEN ForHandler(rest)
              ELSE Append(ForHandler(rest), "WM_APPTERMINATENOTIFY")

\* fClosing is set already: whoever set it reports the end.
CloseAfterSave ==
  /\ Takes("WM_CLOSE") /\ closing
  /\ DestroysWindow(Tail(queue))
  /\ UNCHANGED <<outside, file, folder, changed, closing, ui, boxes, loader, savers, handler,
                 inUse>>

CloseUnchanged ==
  /\ Takes("WM_CLOSE") /\ ~closing /\ ~changed
  /\ closing' = TRUE
  /\ DestroysWindow(Tail(queue))
  /\ UNCHANGED <<outside, file, folder, changed, ui, boxes, loader, savers, handler, inUse>>

CloseAsks ==
  /\ Takes("WM_CLOSE") /\ ~closing /\ changed
  /\ boxes < MaxBoxes
  /\ boxes' = boxes + 1
  /\ queue' = Tail(queue)
  /\ UNCHANGED <<outside, file, folderVars, ui, loader, savers, handler, inUse>>

AnswerCancel ==
  /\ boxes > 0 /\ ui = Free
  /\ boxes' = boxes - 1
  /\ UNCHANGED <<outside, file, folderVars, ui, loader, savers, msgVars>>

\* Mutant for FolderOutlivesSaver: after the thread has been started the folder is
\* closed as if the answer were No.
AnswerYesCloses ==
  /\ boxes > 0 /\ ui = Free
  /\ boxes' = boxes - 1
  /\ StartSaver(TRUE)
  /\ closing' = TRUE
  /\ DestroysWindow(queue)
  /\ UNCHANGED <<outside, file, folder, changed, ui, loader, handler, inUse>>

AnswerYes ==
  /\ boxes > 0 /\ ui = Free
  /\ boxes' = boxes - 1
  /\ StartSaver(TRUE)
  /\ closing' = TRUE
  /\ UNCHANGED <<outside, file, folder, window, shown, changed, ui, loader, msgVars>>

AnswerNo ==
  /\ boxes > 0 /\ ui = Free
  /\ boxes' = boxes - 1
  /\ closing' = TRUE
  /\ DestroysWindow(queue)
  /\ UNCHANGED <<outside, file, folder, changed, ui, loader, savers, handler, inUse>>

\* The handler window takes the object out of use, and frees the folder a second
\* later, when the timer ticks and nothing else is in the queue.
EndNotified ==
  /\ Takes("WM_APPTERMINATENOTIFY")
  /\ queue' = Tail(queue)
  /\ inUse' = FALSE
  /\ handler' = "timer"
  /\ UNCHANGED <<outside, file, folderVars, ui, boxes, loader, savers>>

FolderFreed ==
  /\ handler = "timer" /\ ui = Free /\ queue = <<>>
  /\ handler' = "none"
  /\ folder' = "none" /\ window' = FALSE /\ shown' = <<>>
  /\ UNCHANGED <<outside, file, changed, closing, ui, boxes, loader, savers, queue, inUse>>

-----------------------------------------------------------------------------

Init ==
  /\ haste \in {h \in SUBSET Impatience : Cardinality(h) <= MaxHaste}
  /\ target \in {"writable", "readonly", "gone"}
  /\ file \in {l \in Lists : Len(l) <= MaxList}
  /\ folder = "none" /\ window = FALSE /\ shown = <<>>
  /\ changed = FALSE /\ closing = FALSE
  /\ ui = Free /\ boxes = 0
  /\ loader = NotLoading /\ savers = [s \in Slots |-> NoSaver]
  /\ queue = <<>> /\ handler = "none" /\ inUse = FALSE

UIStep ==
  \/ DropEnds \/ DeleteEnds
  \/ CloseAfterSave \/ CloseUnchanged \/ CloseAsks
  \/ EndNotified \/ FolderFreed

Next ==
  \/ Open
  \/ LoadRead \/ LoadInsert \/ LoadEnd
  \/ \E t \in Tracks : DropBegins(t) \/ DeleteBegins(t)
  \/ Save
  \/ \E s \in Slots : SaverStep(s)
  \/ UserCloses
  \/ AnswerCancel \/ AnswerYes \/ AnswerNo
  \/ UIStep

Spec == Init /\ [][Next]_vars

\* The threads run and the UI thread takes what is posted to it; a message that is sent
\* to it is taken before anything else, however busy the user keeps it (SF).  The user
\* need not do anything.
FairSpec ==
  /\ Spec
  /\ WF_vars(LoadRead \/ LoadInsert \/ LoadEnd)
  /\ \A s \in Slots : SF_vars(SaverStep(s))
  /\ WF_vars(UIStep)

-----------------------------------------------------------------------------

Savers == [pc : {"off", "begin", "ask", "write", "close", "mark", "post", "report"},
           closes : BOOLEAN, cnr : BOOLEAN, at : Tracks \cup {NoTrack}, out : Lists]

\* Types of the variables.  That out and shown are lists also says that the thread
\* never writes a track twice, however the container changes while it asks.
TypeOK ==
  /\ haste \subseteq Impatience /\ target \in {"writable", "readonly", "gone"}
  /\ file \in Lists /\ shown \in Lists
  /\ folder \in {"none", "alive"} /\ handler \in {"none", "waits", "timer"}
  /\ {window, changed, closing, inUse} \subseteq BOOLEAN
  /\ ui \in {Free} \cup ({"drop", "delete"} \X Tracks)
  /\ boxes \in 0..MaxBoxes
  /\ loader \in [pc : {"off", "read", "insert"}, left : Lists]
  /\ savers \in [Slots -> Savers]
  /\ \A i \in 1..Len(queue) : queue[i] \in {"WM_CLOSE", "WM_APPTERMINATENOTIFY"}

\* While nothing is under way and the folder says that it is unchanged, the file holds
\* what the folder shows, in the same order (cwClose throws the contents away without
\* a question when fContentsChanged is FALSE).
SavedIsShown ==
  (/\ Patient({"save while loading", "close while loading", "edit while saving"})
   /\ window /\ ~changed /\ ~Loading /\ ~Saving /\ ui = Free /\ target = "writable")
    => Found(file) = shown

\* The window goes only when the file holds what it showed, or when the user has said
\* that the changes are to be thrown away.
ClosesSaved ==
  [][(/\ window /\ ~window' /\ Patient(Impatience)
      /\ target = "writable" /\ (closing \/ ~changed))
       => Found(file) = shown]_vars

\* The folder is not freed while a thread still writes its contents (saveThreadFunc uses
\* it to the last line), nor while the script still fills it.
FolderOutlivesSaver ==
  /\ (Saving /\ Patient(Impatience \ {"save while loading", "close while loading"}))
       => folder = "alive"
  /\ (Loading /\ Patient({"close while loading"})) => folder = "alive"

\* As long as the editor is on the screen its M3U object is in use.
InUseWhileOpen == window => inUse

\* An editor that is closing ends: its folder is freed and its object is no longer in
\* use, unless the file has been deleted meanwhile.
EditorEnds == (closing /\ target # "gone") ~> (folder = "none" /\ ~inUse)
=============================================================================
