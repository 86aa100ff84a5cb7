---------------------------- MODULE BitmapCreation ----------------------------
(*******************************************************************************)
(* The bitmaps of one image object (class MMImage, cwimage.c): _hBitmap, the   *)
(* image as it was read from its file, and _hBitmapSmall, what light table     *)
(* folders draw as its icon.  They are used by                                 *)
(*                                                                             *)
(*   - the threads that paint the views (WM_DRAWITEM in mmfolder.c), which     *)
(*     take the small bitmap, discard one that is too small and ask the        *)
(*     creation thread for another;                                            *)
(*   - the creation thread (createBMPObjectProc), which makes the small bitmap *)
(*     by way of the large one and has the view paint the icon again;          *)
(*   - the deletion thread (cwmmFreeBitmaps; see BitmapDeletion, here only     *)
(*     whether a request is waiting);                                          *)
(*   - any other thread that asks for a bitmap of its own                      *)
(*     (wpQueryBitmapHandle).                                                  *)
(*                                                                             *)
(* None of it is protected ("Not threadsafe!!!").  A step runs up to the next  *)
(* call into the graphics, multimedia or message system, or to the middle of   *)
(* the two assignments to the small bitmap and its size.  A view is known by   *)
(* the icon size it asks for.  The object stays awake: BitmapDeletion treats   *)
(* dormant ones.                                                               *)
(*******************************************************************************)
EXTENDS Integers, Sequences, FiniteSets

CONSTANTS
  Views,      \* the views, each the size of its icons
  Creation, Deletion, Caller,  \* the other threads
  SmallSize,  \* MAX_SIZE_SMALLBITMAP
  QueueSize,  \* messages that fit into the queue of the creation thread; 50
  Ids,        \* to tell bitmaps apart
  None

ASSUME BitmapCreationAssumption ==
  /\ Views \subseteq Nat \ {0} /\ SmallSize \in Nat \ {0} /\ QueueSize \in Nat
  /\ Ids \subseteq Nat /\ None \notin Nat \X Nat /\ None \notin Nat
  /\ Creation # Deletion /\ Creation # Caller /\ Deletion # Caller
  /\ Nat \cap {Creation, Deletion, Caller} = {}

\* "if(ulSize<MAX_SIZE_SMALLBITMAP)": the size of the small bitmap for a view.
Size(v) == IF v < SmallSize THEN SmallSize ELSE v

Small == {Size(v) : v \in Views} \X Ids
Large == {0} \X Ids
Threads == Views \cup {Creation, Deletion, Caller}

VARIABLES
  hBitmap, hBitmapSmall,  \* _hBitmap and _hBitmapSmall, a bitmap or None
  ulSizeSmallBitmap,
  bNoIOProcAvailable,
  icon,     \* of each view: "closed", "hidden" (scrolled out of sight), "dirty"
            \* (to be painted), "blank", or "settled" (painted, or given up)
  queue,    \* of the creation thread: the views that have asked, in order
  wanted,   \* a request to delete the bitmaps waits for the deletion thread
  pc,       \* of each thread
  view,     \* the view the creation thread works for
  bLoaded,
  clash,    \* history: two threads have loaded the image, or loaded it and
            \* discarded it after loading, or discarded the same kind of
            \* bitmap, at the same time
  hbm,      \* of each thread: the bitmap it is deleting, up to that moment
  live,     \* the bitmaps that exist in the graphics system, up to that moment
  lost      \* history: a bitmap exists that nobody knows, up to that moment

fields == <<hBitmap, hBitmapSmall, ulSizeSmallBitmap, bNoIOProcAvailable>>
shared == <<icon, queue, wanted>>
locals == <<pc, view, bLoaded>>
history == <<clash, hbm, live, lost>>
vars == <<fields, shared, locals, history>>

Loading == {"readHeader", "load"}
LargeGoing == {"discard", "delLarge"}
SmallGoing == {"tooSmall", "delSmall"}

TypeOK ==
  /\ hBitmap \in Large \cup {None} /\ hBitmapSmall \in Small \cup {None}
  /\ ulSizeSmallBitmap \in {Size(v) : v \in Views} \cup {0}
  /\ bNoIOProcAvailable \in BOOLEAN
  /\ icon \in [Views -> {"closed", "hidden", "dirty", "blank", "settled"}]
  /\ queue \in Seq(Views) /\ Len(queue) <= QueueSize
  /\ wanted \in BOOLEAN
  /\ \A v \in Views : pc[v] \in {"idle", "tooSmall", "leave"}
  /\ pc[Creation] \in Loading \cup {"idle", "scale", "setSize", "discard", "show",
                                    "unlock"}
  /\ pc[Deletion] \in {"idle", "delLarge", "delSmall", "forgetSize"}
  /\ pc[Caller] \in {"idle"} \cup Loading
  /\ view \in Views \cup {None} /\ (view = None <=> pc[Creation] = "idle")
  /\ bLoaded \in BOOLEAN
  /\ hbm \in [Threads -> Large \cup Small \cup {None}]
  /\ clash \in BOOLEAN /\ live \subseteq Large \cup Small /\ lost \in BOOLEAN

Open == {v \in Views : icon[v] # "closed"}
Seen == {v \in Open : icon[v] # "hidden"}

\* A new bitmap of size n.
Known == {hBitmap, hBitmapSmall} \cup {hbm[t] : t \in Threads}
NewBitmap(n) ==
  LET new == {i \in Ids : clash \/ <<n, i>> \notin Known \cup live}
  IN  <<n, CHOOSE i \in new : \A j \in new : i <= j>>

To(t, l) == pc' = [pc EXCEPT ![t] = l]

\* The history of a step of thread t, which makes some bitmaps, begins to delete
\* another (or None), and has deleted the one it had begun to delete before.
Overlap(P) == \E t, u \in Threads : t # u /\ pc'[t] \in P /\ pc'[u] \in P
Account(t, made, going) ==
  LET exist == (live \cup made) \ {hbm[t]}
      hold == [hbm EXCEPT ![t] = going]
      known == {hBitmap', hBitmapSmall'} \cup {hold[u] : u \in Threads}
  IN  /\ clash' = (clash \/ Overlap(Loading \cup {"discard"})
                         \/ Overlap(LargeGoing) \/ Overlap(SmallGoing))
      /\ hbm' = IF clash' THEN [u \in Threads |-> None] ELSE hold
      /\ live' = IF clash' THEN {} ELSE exist \cap known
      /\ lost' = (lost \/ (~clash' /\ ~(exist \subseteq known)))

-----------------------------------------------------------------------------
(* Painting an icon: WM_DRAWITEM and cwmmQuerySmallBitmapHandle.               *)

\* The small bitmap, or a request for one; whether WinPostMsg could deliver it
\* is not looked at.
QuerySmallBitmap(v, small) ==
  IF small = None
    THEN /\ ulSizeSmallBitmap' = 0
         /\ IF Len(queue) < QueueSize
              THEN queue' = Append(queue, v) /\ icon' = [icon EXCEPT ![v] = "blank"]
              ELSE icon' = [icon EXCEPT ![v] = "settled"] /\ UNCHANGED queue
    ELSE /\ icon' = [icon EXCEPT ![v] = "settled"]
         /\ UNCHANGED <<ulSizeSmallBitmap, queue>>

Paint(v) ==
  /\ pc[v] = "idle" /\ icon[v] = "dirty" /\ ~bNoIOProcAvailable
  /\ UNCHANGED <<hBitmap, hBitmapSmall, bNoIOProcAvailable, wanted, view, bLoaded>>
  /\ IF Size(v) > ulSizeSmallBitmap /\ hBitmapSmall # None
       THEN /\ To(v, "tooSmall")
            /\ UNCHANGED <<icon, queue, ulSizeSmallBitmap>>
            /\ Account(v, {}, hBitmapSmall)
       ELSE /\ QuerySmallBitmap(v, hBitmapSmall)
            /\ UNCHANGED pc
            /\ Account(v, {}, None)

\* "No IO-proc for this image format. Don't try again in the future."
PaintUnknown(v) ==
  /\ pc[v] = "idle" /\ icon[v] = "dirty" /\ bNoIOProcAvailable
  /\ icon' = [icon EXCEPT ![v] = "settled"]
  /\ UNCHANGED <<fields, queue, wanted, locals, history>>

TooSmallForgotten(v) ==  \* mutant: it is forgotten, not deleted
  /\ pc[v] = "tooSmall"
  /\ hBitmapSmall' = None
  /\ QuerySmallBitmap(v, None)
  /\ To(v, "idle")
  /\ lost' = (lost \/ (~clash /\ hbm[v] \in live))
  /\ UNCHANGED <<hBitmap, bNoIOProcAvailable, wanted, view, bLoaded, clash, hbm, live>>

\* GpiDeleteBitmap returns.
TooSmall(v) ==
  /\ pc[v] = "tooSmall"
  /\ hBitmapSmall' = None
  /\ QuerySmallBitmap(v, None)
  /\ To(v, "idle")
  /\ UNCHANGED <<hBitmap, bNoIOProcAvailable, wanted, view, bLoaded>>
  /\ Account(v, {}, None)

-----------------------------------------------------------------------------
(* Reading the image: wpReadImageFile, on the creation thread or another.      *)

After(t) == IF t = Creation THEN "show" ELSE "idle"
Scaling(t) == IF t = Creation THEN "scale" ELSE "idle"

\* wpQueryBitmapInfoHeader returns: the image is unknown, or it is read anew.
ReadHeader(t) ==
  /\ pc[t] = "readHeader"
  /\ \/ To(t, "load") /\ hBitmap' = None /\ UNCHANGED bNoIOProcAvailable
     \/ /\ To(t, After(t)) /\ bNoIOProcAvailable' \in {bNoIOProcAvailable, TRUE}
        /\ UNCHANGED hBitmap
  /\ UNCHANGED <<hBitmapSmall, ulSizeSmallBitmap, shared, view, bLoaded>>
  /\ Account(t, {}, None)

\* loadBitmap has made the bitmap, has failed, or traps, which marks the image.
Load(t) ==
  /\ pc[t] = "load"
  /\ UNCHANGED <<hBitmapSmall, ulSizeSmallBitmap, shared, view, bLoaded>>
  /\ \/ /\ hBitmap' = NewBitmap(0) /\ UNCHANGED bNoIOProcAvailable
        /\ To(t, Scaling(t))
        /\ Account(t, {hBitmap'}, None)
     \/ /\ hBitmap' = None /\ UNCHANGED bNoIOProcAvailable
        /\ To(t, After(t))
        /\ Account(t, {}, None)
     \/ /\ bNoIOProcAvailable' = TRUE /\ UNCHANGED hBitmap
        /\ To(t, IF hBitmap # None THEN Scaling(t) ELSE After(t))
        /\ Account(t, {}, None)

ReadStep(t) == ReadHeader(t) \/ Load(t)

\* Another thread wants a bitmap of its own, which it scales from the large one.
Call ==
  /\ pc[Caller] = "idle" /\ hBitmap = None
  /\ To(Caller, "readHeader")
  /\ UNCHANGED <<fields, shared, view, bLoaded>>
  /\ Account(Caller, {}, None)

-----------------------------------------------------------------------------
(* The creation thread: ACKEY_CREATE_SMALLBITMAP.                              *)

Drop ==
  /\ pc[Creation] = "idle" /\ queue # <<>>
  /\ Head(queue) \notin Seen
  /\ queue' = Tail(queue)
  /\ UNCHANGED <<fields, icon, wanted, locals, history>>

\* "Check if in the meantime the bitmap was created"
HasSmallNever == FALSE  \* mutant: it is not checked
HasSmall == hBitmapSmall # None

MadeQuietly == "unlock"  \* mutant: nothing was made, so nothing is painted
\* What follows when there is nothing (more) to make.
Made == "show"

\* The view has answered where its icon is.
Take ==
  /\ pc[Creation] = "idle" /\ queue # <<>>
  /\ Head(queue) \in Seen /\ pc[Head(queue)] = "idle"
  /\ queue' = Tail(queue) /\ view' = Head(queue)
  /\ bLoaded' = (hBitmap # None)
  /\ To(Creation, IF HasSmall THEN Made
                  ELSE IF hBitmap # None THEN "scale" ELSE "readHeader")
  /\ UNCHANGED <<fields, icon, wanted>>
  /\ Account(Creation, {}, None)

\* createNewBitmap returns, for wpQueryBitmapHandle.
Scale ==
  /\ pc[Creation] = "scale"
  /\ UNCHANGED <<hBitmap, ulSizeSmallBitmap, bNoIOProcAvailable, shared, view,
                 bLoaded>>
  /\ \/ /\ hBitmapSmall' = NewBitmap(Size(view))
        /\ To(Creation, "setSize")
        /\ Account(Creation, {hBitmapSmall'}, None)
     \/ To(Creation, Made) /\ UNCHANGED hBitmapSmall /\ Account(Creation, {}, None)

\* The size that was asked for.
AskedLast ==  \* mutant: one info structure for all requests
  IF queue = <<>> THEN Size(view) ELSE Size(queue[Len(queue)])
Asked == Size(view)

\* "The bitmap wasn't loaded so discard it now, we don't need it any more"
SetSize ==
  /\ pc[Creation] = "setSize"
  /\ ulSizeSmallBitmap' = Asked
  /\ UNCHANGED <<hBitmap, hBitmapSmall, bNoIOProcAvailable, shared, view, bLoaded>>
  /\ To(Creation, IF bLoaded THEN "show" ELSE "discard")
  /\ Account(Creation, {}, IF bLoaded THEN None ELSE hBitmap)

Discard ==
  /\ pc[Creation] = "discard"
  /\ hBitmap' = None
  /\ To(Creation, "show")
  /\ UNCHANGED <<hBitmapSmall, ulSizeSmallBitmap, bNoIOProcAvailable, shared,
                 view, bLoaded>>
  /\ Account(Creation, {}, None)

\* CM_INVALIDATERECORD is sent: the thread of the view takes it between two
\* of its messages.
Show ==
  /\ pc[Creation] = "show" /\ pc[view] = "idle"
  /\ icon' = [icon EXCEPT ![view] = IF view \in Seen THEN "dirty" ELSE @]
  /\ To(Creation, "unlock")
  /\ UNCHANGED <<fields, queue, wanted, view, bLoaded>>
  /\ Account(Creation, {}, None)

\* wpUnlockObject: the bitmaps of an image that is in no view are not kept.
ObsoleteLarge == hBitmap # None /\ Open = {}  \* mutant: only the large one counts
Obsolete == (hBitmap # None \/ hBitmapSmall # None) /\ Open = {}

Unlock ==
  /\ pc[Creation] = "unlock"
  /\ wanted' = (wanted \/ Obsolete)
  /\ To(Creation, "idle") /\ view' = None /\ bLoaded' = FALSE
  /\ UNCHANGED <<fields, icon, queue>>
  /\ Account(Creation, {}, None)

CreationThread ==
  Drop \/ Take \/ ReadStep(Creation) \/ Scale \/ SetSize \/ Discard \/ Show \/ Unlock

-----------------------------------------------------------------------------
(* The deletion thread: cwmmFreeBitmaps.                                       *)

\* The step is over with the large bitmap; the small one is next.
FreeSmall ==
  /\ To(Deletion, IF hBitmapSmall # None THEN "delSmall" ELSE "idle")
  /\ Account(Deletion, {}, hBitmapSmall)

Free ==
  /\ pc[Deletion] = "idle" /\ wanted
  /\ wanted' = FALSE
  /\ UNCHANGED <<fields, icon, queue, view, bLoaded>>
  /\ IF hBitmap # None THEN To(Deletion, "delLarge") /\ Account(Deletion, {}, hBitmap)
                       ELSE FreeSmall

LargeDeleted ==
  /\ pc[Deletion] = "delLarge"
  /\ hBitmap' = None
  /\ UNCHANGED <<hBitmapSmall, ulSizeSmallBitmap, bNoIOProcAvailable, shared,
                 view, bLoaded>>
  /\ FreeSmall

SmallDeleted ==
  /\ pc[Deletion] = "delSmall"
  /\ hBitmapSmall' = None
  /\ To(Deletion, "forgetSize")
  /\ UNCHANGED <<hBitmap, ulSizeSmallBitmap, bNoIOProcAvailable, shared, view,
                 bLoaded>>
  /\ Account(Deletion, {}, None)

ForgetSize ==
  /\ pc[Deletion] = "forgetSize"
  /\ ulSizeSmallBitmap' = 0
  /\ To(Deletion, "idle")
  /\ UNCHANGED <<hBitmap, hBitmapSmall, bNoIOProcAvailable, shared, view, bLoaded>>
  /\ Account(Deletion, {}, None)

DeletionThread == Free \/ LargeDeleted \/ SmallDeleted \/ ForgetSize

-----------------------------------------------------------------------------
(* The views.                                                                  *)

IconTo(v, how) ==
  /\ pc[v] = "idle"
  /\ icon' = [icon EXCEPT ![v] = how]
  /\ UNCHANGED <<fields, queue, wanted, locals, history>>

Appear(v) == icon[v] # "dirty" /\ IconTo(v, "dirty")  \* opened, scrolled, exposed
Hide(v) == v \in Seen /\ IconTo(v, "hidden")

\* The folder is closed: the record goes, then wpUnlockObject is called.
Close(v) ==
  /\ pc[v] = "idle" /\ v \in Open
  /\ icon' = [icon EXCEPT ![v] = "closed"]
  /\ To(v, "leave")
  /\ UNCHANGED <<fields, queue, wanted, view, bLoaded>>
  /\ Account(v, {}, None)

Leave(v) ==
  /\ pc[v] = "leave"
  /\ To(v, "idle")
  /\ wanted' = (wanted \/ Obsolete)
  /\ UNCHANGED <<fields, icon, queue, view, bLoaded>>
  /\ Account(v, {}, None)

ViewThread(v) == Paint(v) \/ PaintUnknown(v) \/ TooSmall(v) \/ Leave(v)

Init ==
  /\ hBitmap = None /\ hBitmapSmall = None /\ ulSizeSmallBitmap = 0
  /\ bNoIOProcAvailable = FALSE
  /\ icon = [v \in Views |-> "closed"] /\ queue = <<>> /\ wanted = FALSE
  /\ pc = [t \in Threads |-> "idle"] /\ hbm = [t \in Threads |-> None]
  /\ view = None /\ bLoaded = FALSE
  /\ clash = FALSE /\ live = {} /\ lost = FALSE

Next ==
  \/ CreationThread
  \/ DeletionThread
  \/ Call \/ ReadStep(Caller)
  \/ \E v \in Views : ViewThread(v) \/ Appear(v) \/ Hide(v) \/ Close(v)

\* Threads go on when they can; a message sent to a view is taken in the end,
\* however often its thread is busy.
Fairness ==
  /\ SF_vars(CreationThread)
  /\ WF_vars(DeletionThread)
  /\ \A v \in Views : WF_vars(ViewThread(v))

Spec == Init /\ [][Next]_vars
FairSpec == Spec /\ Fairness

-----------------------------------------------------------------------------
(* Properties.                                                                 *)

\* As long as no two threads load the image, or load and discard it, or discard
\* the same kind of bitmap, at the same time, no bitmap is lost, whatever else
\* overlaps: painting, creation, deletion in the background and calls by others.
NothingLost == lost => clash

\* Once the threads that change it are done, the small bitmap is as big as
\* ulSizeSmallBitmap says, or that says nothing, so that a view never keeps one
\* that is too small for its icons; in whatever order the requests of views with
\* different icon sizes are carried out.
AtRest == pc[Creation] # "setSize" /\ pc[Deletion] # "forgetSize"
SizeIsTrue ==
  AtRest /\ hBitmapSmall # None => ulSizeSmallBitmap \in {0, hBitmapSmall[1]}

\* A small bitmap is never stored over another, however many views have asked
\* meanwhile and whoever has discarded the last one.
SmallNotOverwritten ==
  [][hBitmapSmall # None => hBitmapSmall' \in {hBitmapSmall, None}]_vars

\* An icon in sight that is blank for want of a bitmap is waiting for an answer
\* of the creation thread: no interleaving of requests, discards and scrolling
\* leaves it blank for good, except a request that did not fit into the queue.
BlankIsAwaited ==
  \A v \in Views :
    icon[v] = "blank" => view = v \/ \E k \in DOMAIN queue : queue[k] = v

\* When the image has left its last view, the small bitmap goes too, even if the
\* creation thread makes it just then, unless the image comes back to a view.
SmallGoesWithViews ==
  Open = {} /\ hBitmapSmall # None ~> Open # {} \/ hBitmapSmall = None
=============================================================================
