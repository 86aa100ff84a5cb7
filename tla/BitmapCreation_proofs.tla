------------------------- MODULE BitmapCreation_proofs -------------------------
(******************************************************************************)
(* Theorems about BitmapCreation: for any views and icon sizes, any length of *)
(* the queue and any number of bitmaps.                                       *)
(******************************************************************************)
EXTENDS BitmapCreation, TLAPS

-----------------------------------------------------------------------------
(* The inductive invariant, in parts.                                         *)

\* What is a function or a sequence of what.
Shapes ==
  /\ DOMAIN pc = Threads /\ DOMAIN hbm = Threads /\ DOMAIN icon = Views
  /\ queue \in Seq(Views)

\* A blank icon waits in the queue, or the creation thread will still paint it.
Awaited ==
  \A v \in Views :
    icon[v] = "blank" => \/ view = v /\ pc[Creation] \notin {"idle", "unlock"}
                         \/ \E k \in DOMAIN queue : queue[k] = v

\* The creation thread makes a small bitmap only where there is none.
NoneYet == pc[Creation] \in {"readHeader", "load", "scale"} => hBitmapSmall = None

\* Between the two assignments the small bitmap has the size of the second.
SizeKept ==
  /\ pc[Creation] = "setSize" /\ hBitmapSmall # None => hBitmapSmall[1] = Size(view)
  /\ SizeIsTrue

Overlaps(P) == \E t, u \in Threads : t # u /\ pc[t] \in P /\ pc[u] \in P

\* A thread loads only where there is no bitmap, and deletes the one that is still stored.
Doing(t) ==
  /\ pc[t] \in Loading => hBitmap = None
  /\ pc[t] \in LargeGoing => hbm[t] = hBitmap
  /\ pc[t] = "delLarge" => hBitmap # None
  /\ pc[t] \in SmallGoing => hbm[t] = hBitmapSmall /\ hBitmapSmall # None

\* Without a clash every bitmap that exists is known.
Held ==
  /\ ~lost
  /\ live \subseteq Known
  /\ ~Overlaps(Loading \cup {"discard"}) /\ ~Overlaps(LargeGoing) /\ ~Overlaps(SmallGoing)
  /\ \A t \in Threads : Doing(t)

CreateInv == Shapes /\ Awaited /\ NoneYet /\ SizeKept /\ (~clash => Held)

-----------------------------------------------------------------------------
(* Threads and their histories.                                               *)

\* No thread is two.
LEMMA ThreadsApart ==
  /\ Creation \in Threads /\ Deletion \in Threads /\ Caller \in Threads
  /\ Creation # Deletion /\ Creation # Caller /\ Deletion # Caller
  /\ \A v \in Views : v \in Threads /\ v # Creation /\ v # Deletion /\ v # Caller
BY BitmapCreationAssumption DEF Threads

\* The first states satisfy the invariant.
LEMMA CreateInit == Init => CreateInv
<1> SUFFICES ASSUME Init PROVE CreateInv
  OBVIOUS
<1>1. Shapes
  BY DEF Init, Shapes
<1>2. \A t \in Threads : pc[t] = "idle" /\ hbm[t] = None
  BY DEF Init
<1>3. Awaited /\ NoneYet /\ SizeKept
  BY <1>2, ThreadsApart DEF Init, Awaited, NoneYet, SizeKept, SizeIsTrue
<1>4. \A t \in Threads : Doing(t)
  BY <1>2 DEF Doing, Loading, LargeGoing, SmallGoing
<1>5. ~Overlaps(Loading \cup {"discard"}) /\ ~Overlaps(LargeGoing) /\ ~Overlaps(SmallGoing)
  BY <1>2 DEF Overlaps, Loading, LargeGoing, SmallGoing
<1>6. Held
  BY <1>4, <1>5 DEF Init, Held
<1> QED BY <1>1, <1>3, <1>6 DEF CreateInv

\* The history of a step that ends at l, changes a bitmap only where it may, and begins
\* to delete (going) only what is stored.
LEMMA HeldKeeps ==
  ASSUME CreateInv, NEW t \in Threads, NEW l, NEW made, NEW going,
         pc' = [pc EXCEPT ![t] = l] \/ (pc' = pc /\ pc[t] = l),
         Account(t, made, going),
         made \subseteq {hBitmap', hBitmapSmall'},
         \/ hBitmap' = hBitmap
         \/ pc[t] \in LargeGoing /\ hBitmap' = None
         \/ pc[t] \in Loading /\ (going = None \/ hBitmap' = None),
         \/ hBitmapSmall' = hBitmapSmall
         \/ pc[t] \in SmallGoing /\ hBitmapSmall' = None
         \/ hBitmapSmall = None /\ going = None,
         l \in Loading => hBitmap' = None,
         l \in LargeGoing => going = hBitmap',
         l = "delLarge" => hBitmap' # None,
         l \in SmallGoing => going = hBitmapSmall' /\ hBitmapSmall' # None
  PROVE  DOMAIN hbm' = Threads /\ (~clash' => Held')
<1> DEFINE hold == [hbm EXCEPT ![t] = going]
           known == {hBitmap', hBitmapSmall'} \cup {hold[u] : u \in Threads}
           exist == (live \cup made) \ {hbm[t]}
<1>1. /\ clash' = (clash \/ Overlap(Loading \cup {"discard"})
                         \/ Overlap(LargeGoing) \/ Overlap(SmallGoing))
      /\ hbm' = IF clash' THEN [u \in Threads |-> None] ELSE hold
      /\ live' = IF clash' THEN {} ELSE exist \cap known
      /\ lost' = (lost \/ (~clash' /\ ~(exist \subseteq known)))
  BY DEF Account
<1>2. DOMAIN hbm' = Threads
  BY <1>1 DEF CreateInv, Shapes
<1>3. SUFFICES ASSUME ~clash' PROVE Held'
  BY <1>2
<1>4. Held /\ hbm' = hold /\ live' = exist \cap known
  BY <1>1, <1>3 DEF CreateInv
<1>5. /\ pc'[t] = l /\ hold[t] = going
      /\ \A u \in Threads \ {t} : pc'[u] = pc[u] /\ hold[u] = hbm[u]
  BY DEF CreateInv, Shapes
<1>6. /\ ~Overlaps(Loading \cup {"discard"})' /\ ~Overlaps(LargeGoing)' /\ ~Overlaps(SmallGoing)'
  BY <1>1, <1>3 DEF Overlap, Overlaps, Loading, LargeGoing, SmallGoing
<1>7. \A P : \A u \in Threads \ {t} : ~Overlaps(P) /\ pc[t] \in P => pc[u] \notin P
  BY DEF Overlaps
<1>8. exist \subseteq known
  <2>1. SUFFICES ASSUME NEW x \in exist PROVE x \in known
    OBVIOUS
  <2>2. CASE x \in made
    BY <2>2
  <2>3. CASE \E u \in Threads : x = hbm[u]
    BY <1>5, <2>1, <2>3
  <2>4. going \in known
    BY <1>5
  <2>5. CASE x = hBitmap
    BY <1>4, <2>1, <2>4, <2>5 DEF Held, Doing
  <2>6. CASE x = hBitmapSmall
    BY <1>4, <2>1, <2>4, <2>6 DEF Held, Doing
  <2> QED BY <1>4, <2>1, <2>2, <2>3, <2>5, <2>6 DEF Held, Known
<1>9. Doing(t)'
  BY <1>4, <1>5 DEF Doing, Loading, LargeGoing, SmallGoing
<1>10. ASSUME NEW u \in Threads \ {t} PROVE Doing(u)'
  <2>1. Doing(u) /\ Doing(t) /\ pc'[u] = pc[u] /\ hbm'[u] = hbm[u]
    BY <1>4, <1>5 DEF Held
  <2>2. /\ pc[t] \in Loading => pc[u] \notin Loading \cup {"discard"}
        /\ pc[t] \in LargeGoing => pc[u] \notin LargeGoing
        /\ pc[t] \in SmallGoing => pc[u] \notin SmallGoing
    BY <1>4, <1>7 DEF Held
  <2>3. /\ pc'[u] \in Loading => hBitmap' = None
        /\ pc'[u] \in LargeGoing => hbm'[u] = hBitmap'
        /\ pc'[u] = "delLarge" => hBitmap' # None
    BY <2>1, <2>2 DEF Doing, Loading, LargeGoing
  <2>4. pc'[u] \in SmallGoing => hbm'[u] = hBitmapSmall' /\ hBitmapSmall' # None
    BY <2>1, <2>2 DEF Doing
  <2> QED BY <2>3, <2>4 DEF Doing, Loading, LargeGoing, SmallGoing
<1>11. ~lost' /\ live' \subseteq Known'
  BY <1>1, <1>3, <1>4, <1>8 DEF Held, Known
<1> QED BY <1>6, <1>9, <1>10, <1>11 DEF Held

\* A step that changes no bitmap and deletes none.
LEMMA HeldStays ==
  ASSUME CreateInv, UNCHANGED <<hBitmap, hBitmapSmall, pc, history>>
  PROVE  DOMAIN hbm' = Threads /\ (~clash' => Held')
BY DEF CreateInv, Shapes, Held, Overlaps, Doing, Known, history, Loading, LargeGoing, SmallGoing

-----------------------------------------------------------------------------
(* Steps.                                                                     *)

\* A queue to which a view is added has it, and all that it had.
LEMMA Added ==
  \A q \in Seq(Views), v \in Views :
    /\ Append(q, v) \in Seq(Views)
    /\ \E k \in DOMAIN Append(q, v) : Append(q, v)[k] = v
    /\ \A w : (\E k \in DOMAIN q : q[k] = w)
                => \E k \in DOMAIN Append(q, v) : Append(q, v)[k] = w
<1> TAKE q \in Seq(Views), v \in Views
<1>1. /\ Append(q, v) \in Seq(Views) /\ DOMAIN Append(q, v) = 1..Len(q)+1
      /\ Append(q, v)[Len(q)+1] = v /\ \A k \in 1..Len(q) : Append(q, v)[k] = q[k]
      /\ DOMAIN q = 1..Len(q)
  OBVIOUS
<1>2. \A w : (\E k \in DOMAIN q : q[k] = w) => \E k \in DOMAIN Append(q, v) : Append(q, v)[k] = w
  <2> SUFFICES ASSUME NEW k \in 1..Len(q)
               PROVE  k \in DOMAIN Append(q, v) /\ Append(q, v)[k] = q[k]
    BY <1>1
  <2> QED BY <1>1
<1>3. Len(q)+1 \in 1..Len(q)+1
  OBVIOUS
<1> QED BY <1>1, <1>2, <1>3

\* A queue without its first member has all others.
LEMMA Removed ==
  \A q \in Seq(Views) : q # <<>> =>
    /\ Head(q) \in Views /\ Tail(q) \in Seq(Views)
    /\ \A w : (\E k \in DOMAIN q : q[k] = w)
                => w = Head(q) \/ \E k \in DOMAIN Tail(q) : Tail(q)[k] = w
<1> SUFFICES ASSUME NEW q \in Seq(Views), q # <<>>, NEW k \in DOMAIN q
             PROVE  /\ Head(q) \in Views /\ Tail(q) \in Seq(Views)
                    /\ q[k] = Head(q) \/ \E j \in DOMAIN Tail(q) : Tail(q)[j] = q[k]
  <2>1. \A r \in Seq(Views) : r # <<>> => Head(r) \in Views /\ Tail(r) \in Seq(Views)
    OBVIOUS
  <2> QED BY <2>1
<1>1. k \in 1..Len(q) /\ Head(q) = q[1] /\ DOMAIN Tail(q) = 1..Len(q)-1
      /\ Head(q) \in Views /\ Tail(q) \in Seq(Views)
  OBVIOUS
<1>2. CASE k = 1
  BY <1>1, <1>2
<1>3. CASE k # 1
  <2>1. k-1 \in DOMAIN Tail(q) /\ Tail(q)[k-1] = q[k]
    BY <1>1, <1>3
  <2> QED BY <1>1, <2>1
<1> QED BY <1>2, <1>3

\* What is drawn: without a small bitmap one is asked for.
LEMMA Queries ==
  ASSUME CreateInv, NEW v \in Views, NEW small, QuerySmallBitmap(v, small),
         UNCHANGED view, pc'[Creation] = pc[Creation]
  PROVE  /\ DOMAIN icon' = Views /\ queue' \in Seq(Views) /\ Awaited'
         /\ ulSizeSmallBitmap' \in {0, ulSizeSmallBitmap}
<1>1. /\ \/ icon' = [icon EXCEPT ![v] = "blank"] /\ queue' = Append(queue, v)
         \/ icon' = [icon EXCEPT ![v] = "settled"] /\ queue' = queue
      /\ ulSizeSmallBitmap' \in {0, ulSizeSmallBitmap}
  BY DEF QuerySmallBitmap
<1>2. queue \in Seq(Views) /\ DOMAIN icon = Views /\ DOMAIN icon' = Views
  BY <1>1 DEF CreateInv, Shapes
<1>3. CASE icon' = [icon EXCEPT ![v] = "settled"] /\ queue' = queue
  BY <1>1, <1>2, <1>3 DEF CreateInv, Awaited
<1>4. CASE icon' = [icon EXCEPT ![v] = "blank"] /\ queue' = Append(queue, v)
  <2>1. /\ queue' \in Seq(Views)
        /\ \E k \in DOMAIN queue' : queue'[k] = v
        /\ \A w : (\E k \in DOMAIN queue : queue[k] = w) => \E k \in DOMAIN queue' : queue'[k] = w
    <3>1. queue' = Append(queue, v) /\ queue \in Seq(Views) /\ v \in Views
      BY <1>2, <1>4
    <3>2. /\ Append(queue, v) \in Seq(Views)
          /\ \E k \in DOMAIN Append(queue, v) : Append(queue, v)[k] = v
          /\ \A w : (\E k \in DOMAIN queue : queue[k] = w)
                       => \E k \in DOMAIN Append(queue, v) : Append(queue, v)[k] = w
      BY <3>1, Added, Zenon
    <3> QED BY <3>1, <3>2, Zenon
  <2>2. Awaited'
    BY <1>2, <1>4, <2>1 DEF CreateInv, Awaited
  <2> QED BY <1>1, <1>2, <2>1, <2>2
<1> QED BY <1>1, <1>3, <1>4, <1>2

\* An icon is painted.
LEMMA PaintKeeps == ASSUME CreateInv, NEW v \in Views, Paint(v) PROVE CreateInv'
<1>1. /\ pc[v] = "idle" /\ UNCHANGED <<hBitmap, hBitmapSmall, view>>
      /\ \/ /\ hBitmapSmall # None /\ To(v, "tooSmall")
            /\ UNCHANGED <<icon, queue, ulSizeSmallBitmap>>
            /\ Account(v, {}, hBitmapSmall)
         \/ /\ QuerySmallBitmap(v, hBitmapSmall) /\ UNCHANGED pc /\ Account(v, {}, None)
  BY DEF Paint
<1>2. pc' = [pc EXCEPT ![v] = "tooSmall"] \/ pc' = pc
  BY <1>1 DEF To
<1>3. /\ DOMAIN pc' = Threads /\ pc'[Creation] = pc[Creation] /\ pc'[Deletion] = pc[Deletion]
  BY <1>2, ThreadsApart DEF CreateInv, Shapes
<1>4. /\ DOMAIN icon' = Views /\ queue' \in Seq(Views) /\ Awaited'
      /\ ulSizeSmallBitmap' \in {0, ulSizeSmallBitmap}
  BY <1>1, <1>3, Queries DEF CreateInv, Shapes, Awaited
<1>5. NoneYet' /\ SizeKept'
  BY <1>1, <1>3, <1>4 DEF CreateInv, NoneYet, SizeKept, SizeIsTrue, AtRest, Size
<1>6. DOMAIN hbm' = Threads /\ (~clash' => Held')
  <2>1. CASE hBitmapSmall # None /\ To(v, "tooSmall") /\ Account(v, {}, hBitmapSmall)
    BY <1>1, <2>1, ThreadsApart, HeldKeeps DEF To, Loading, LargeGoing
  <2>2. CASE UNCHANGED pc /\ Account(v, {}, None)
    <3>1. Account(v, {}, None) /\ pc' = pc /\ pc[v] = "idle" /\ v \in Threads
      BY <1>1, <2>2, ThreadsApart
    <3> QED BY <1>1, <3>1, HeldKeeps DEF Loading, LargeGoing, SmallGoing
  <2> QED BY <1>1, <2>1, <2>2
<1> QED BY <1>3, <1>4, <1>5, <1>6 DEF CreateInv, Shapes

\* A small bitmap that is too small has been deleted.
LEMMA TooSmallKeeps == ASSUME CreateInv, NEW v \in Views, TooSmall(v) PROVE CreateInv'
<1>1. /\ pc[v] = "tooSmall" /\ hBitmapSmall' = None /\ QuerySmallBitmap(v, None)
      /\ pc' = [pc EXCEPT ![v] = "idle"] /\ UNCHANGED <<hBitmap, view>> /\ Account(v, {}, None)
  BY DEF TooSmall, To
<1>2. DOMAIN pc' = Threads /\ pc'[Creation] = pc[Creation]
  BY <1>1, ThreadsApart DEF CreateInv, Shapes
<1>3. DOMAIN icon' = Views /\ queue' \in Seq(Views) /\ Awaited'
  BY <1>1, <1>2, Queries
<1>4. NoneYet' /\ SizeKept'
  BY <1>1 DEF NoneYet, SizeKept, SizeIsTrue
<1>5. v \in Threads /\ pc[v] \in SmallGoing /\ "idle" \notin Loading \cup LargeGoing \cup SmallGoing
  BY <1>1, ThreadsApart DEF Loading, LargeGoing, SmallGoing
<1>6. DOMAIN hbm' = Threads /\ (~clash' => Held')
  BY <1>1, <1>5, HeldKeeps DEF LargeGoing
<1> QED BY <1>2, <1>3, <1>4, <1>6 DEF CreateInv, Shapes

\* An icon that appears, is hidden or is given up; a view that closes or leaves.
LEMMA ViewKeeps ==
  ASSUME CreateInv, NEW v \in Views,
         PaintUnknown(v) \/ Appear(v) \/ Hide(v) \/ Close(v) \/ Leave(v)
  PROVE  CreateInv'
<1>1. /\ UNCHANGED <<hBitmap, hBitmapSmall, ulSizeSmallBitmap, queue, view>>
      /\ \/ UNCHANGED icon
         \/ \E how \in {"settled", "dirty", "hidden", "closed"} : icon' = [icon EXCEPT ![v] = how]
      /\ \/ UNCHANGED <<pc, history>>
         \/ /\ pc[v] \in {"idle", "leave"} /\ Account(v, {}, None)
            /\ \E l \in {"idle", "leave"} : pc' = [pc EXCEPT ![v] = l]
  BY DEF PaintUnknown, Appear, Hide, IconTo, Close, Leave, fields, locals, To
<1>2. /\ DOMAIN pc' = Threads /\ pc'[Creation] = pc[Creation] /\ pc'[Deletion] = pc[Deletion]
  BY <1>1, ThreadsApart DEF CreateInv, Shapes
<1>3. /\ DOMAIN icon' = Views /\ \A w \in Views : icon'[w] = "blank" => icon[w] = "blank"
  BY <1>1 DEF CreateInv, Shapes
<1>4. Awaited'
  BY <1>1, <1>2, <1>3 DEF CreateInv, Awaited
<1>5. NoneYet' /\ SizeKept'
  BY <1>1, <1>2 DEF CreateInv, NoneYet, SizeKept, SizeIsTrue, AtRest, Size
<1>6. DOMAIN hbm' = Threads /\ (~clash' => Held')
  <2>1. CASE UNCHANGED <<pc, history>>
    BY <1>1, <2>1, HeldStays
  <2>2. CASE /\ pc[v] \in {"idle", "leave"} /\ Account(v, {}, None)
             /\ \E l \in {"idle", "leave"} : pc' = [pc EXCEPT ![v] = l]
    BY <1>1, <2>2, ThreadsApart, HeldKeeps DEF Loading, LargeGoing, SmallGoing
  <2> QED BY <1>1, <2>1, <2>2
<1> QED BY <1>1, <1>2, <1>3, <1>4, <1>5, <1>6 DEF CreateInv, Shapes

\* The image is read, by the creation thread or for a caller.
LEMMA ReadKeeps ==
  ASSUME CreateInv, NEW t \in {Creation, Caller}, ReadStep(t) \/ (t = Caller /\ Call)
  PROVE  CreateInv'
<1>1. UNCHANGED <<hBitmapSmall, ulSizeSmallBitmap, icon, queue, view>>
  BY DEF ReadStep, ReadHeader, Load, Call, fields, shared
<1>2. PICK l \in {"readHeader", "load", "scale", "show", "idle"} :
        /\ pc' = [pc EXCEPT ![t] = l]
        /\ t = Creation => /\ pc[t] \in {"readHeader", "load"}
                           /\ l \in {"load", "scale", "show"}
        /\ \/ hBitmap' = hBitmap /\ Account(t, {}, None) /\ (l \in Loading => hBitmap = None)
           \/ pc[t] \in Loading /\ hBitmap' = None /\ Account(t, {}, None)
           \/ pc[t] \in Loading /\ l \notin Loading /\ Account(t, {hBitmap'}, None)
  <2>1. CASE t = Caller /\ Call
    BY <2>1, ThreadsApart DEF Call, To, fields
  <2>2. CASE ReadHeader(t)
    BY <2>2, ThreadsApart DEF ReadHeader, To, After, Loading
  <2>3. CASE Load(t)
    BY <2>3, ThreadsApart DEF Load, To, After, Scaling, Loading
  <2> QED BY <2>1, <2>2, <2>3 DEF ReadStep
<1>3. t \in Threads /\ t # Deletion
  BY ThreadsApart
<1>4. /\ DOMAIN pc' = Threads /\ pc'[Deletion] = pc[Deletion]
      /\ \/ pc'[Creation] = pc[Creation]
         \/ pc[Creation] \in {"readHeader", "load"} /\ pc'[Creation] \in {"load", "scale", "show"}
  BY <1>2, <1>3, ThreadsApart DEF CreateInv, Shapes
<1>5. Awaited'
  BY <1>1, <1>4 DEF CreateInv, Awaited
<1>6. NoneYet'
  BY <1>1, <1>4 DEF CreateInv, NoneYet
<1>7. SizeKept'
  BY <1>1, <1>4 DEF CreateInv, SizeKept, SizeIsTrue, AtRest, Size
<1>8. DOMAIN hbm' = Threads /\ (~clash' => Held')
  BY <1>1, <1>2, <1>3, HeldKeeps DEF Loading, LargeGoing, SmallGoing
<1> QED BY <1>1, <1>4, <1>5, <1>6, <1>7, <1>8 DEF CreateInv, Shapes

\* The creation thread takes a request; one whose icon is not in sight is dropped.
LEMMA TakeKeeps == ASSUME CreateInv, Drop \/ Take PROVE CreateInv'
<1>1. /\ UNCHANGED <<hBitmap, hBitmapSmall, ulSizeSmallBitmap, icon>>
      /\ pc[Creation] = "idle" /\ queue # <<>> /\ queue' = Tail(queue)
      /\ \/ /\ Head(queue) \notin Seen /\ UNCHANGED <<pc, view, history>>
         \/ /\ view' = Head(queue) /\ Account(Creation, {}, None)
            /\ \E l \in {"show", "scale", "readHeader"} :
                 /\ pc' = [pc EXCEPT ![Creation] = l]
                 /\ l = "readHeader" => hBitmap = None
                 /\ l \in {"scale", "readHeader"} => hBitmapSmall = None
  BY DEF Drop, Take, To, Made, HasSmall, fields, locals
<1>2. queue \in Seq(Views) /\ DOMAIN icon = Views
  BY DEF CreateInv, Shapes
<1>3. /\ queue' \in Seq(Views)
      /\ \A w : (\E k \in DOMAIN queue : queue[k] = w)
                  => w = Head(queue) \/ \E k \in DOMAIN queue' : queue'[k] = w
  BY <1>1, <1>2, Removed
<1>4. /\ DOMAIN pc' = Threads /\ pc'[Deletion] = pc[Deletion]
      /\ pc'[Creation] # "setSize"
      /\ pc'[Creation] \in {"scale", "readHeader"} => hBitmapSmall = None
      /\ pc'[Creation] # "load"
  BY <1>1, ThreadsApart DEF CreateInv, Shapes
<1>5. Awaited'
  <2>1. SUFFICES ASSUME NEW w \in Views, icon[w] = "blank"
                 PROVE  \/ view' = w /\ pc'[Creation] \notin {"idle", "unlock"}
                        \/ \E k \in DOMAIN queue' : queue'[k] = w
    BY <1>1 DEF Awaited
  <2>2. \E k \in DOMAIN queue : queue[k] = w
    BY <1>1, <2>1 DEF CreateInv, Awaited
  <2>3. w \in Seen
    BY <2>1 DEF Seen, Open
  <2>4. CASE w = Head(queue)
    BY <1>1, <2>3, <2>4, ThreadsApart DEF CreateInv, Shapes
  <2> QED BY <1>3, <2>2, <2>4
<1>6. NoneYet'
  BY <1>1, <1>4 DEF NoneYet
<1>7. SizeKept'
  BY <1>1, <1>4 DEF CreateInv, SizeKept, SizeIsTrue, AtRest
<1>8. DOMAIN hbm' = Threads /\ (~clash' => Held')
  <2>1. CASE UNCHANGED <<pc, history>>
    BY <1>1, <2>1, HeldStays
  <2>2. ASSUME Account(Creation, {}, None), NEW l \in {"show", "scale", "readHeader"},
               pc' = [pc EXCEPT ![Creation] = l], l = "readHeader" => hBitmap = None
        PROVE  DOMAIN hbm' = Threads /\ (~clash' => Held')
    BY <1>1, <2>2, ThreadsApart, HeldKeeps DEF Loading, LargeGoing, SmallGoing
  <2> QED BY <1>1, <2>1, <2>2
<1> QED BY <1>1, <1>2, <1>3, <1>4, <1>5, <1>6, <1>7, <1>8 DEF CreateInv, Shapes

\* The creation thread makes the small bitmap and notes its size.
LEMMA ScaleKeeps == ASSUME CreateInv, Scale \/ SetSize PROVE CreateInv'
<1>1. UNCHANGED <<hBitmap, icon, queue, view>>
  BY DEF Scale, SetSize, shared
<1>2. PICK l \in {"setSize", "show", "discard"} :
        /\ pc' = [pc EXCEPT ![Creation] = l]
        /\ pc[Creation] \in {"scale", "setSize"}
  BY DEF Scale, SetSize, To, Made
<1>3. /\ DOMAIN pc' = Threads /\ pc'[Deletion] = pc[Deletion] /\ pc'[Creation] = l
  BY <1>2, ThreadsApart DEF CreateInv, Shapes
<1>4. Awaited' /\ NoneYet'
  BY <1>1, <1>2, <1>3 DEF CreateInv, Awaited, NoneYet
<1>5. CASE Scale
  <2>1. pc[Creation] = "scale" /\ hBitmapSmall = None /\ UNCHANGED ulSizeSmallBitmap
    BY <1>5 DEF Scale, CreateInv, NoneYet
  <2>2. l \in {"setSize", "show"}
    BY <1>3, <1>5, ThreadsApart DEF Scale, To, Made, CreateInv, Shapes
  <2>3. \/ hBitmapSmall' = NewBitmap(Size(view)) /\ l = "setSize" /\ Account(Creation, {hBitmapSmall'}, None)
        \/ UNCHANGED hBitmapSmall /\ l = "show" /\ Account(Creation, {}, None)
    BY <1>3, <1>5, ThreadsApart DEF Scale, To, Made, CreateInv, Shapes
  <2>4. SizeKept'
    BY <1>1, <1>3, <2>1, <2>3 DEF SizeKept, SizeIsTrue, AtRest, NewBitmap, Size
  <2>5. DOMAIN hbm' = Threads /\ (~clash' => Held')
    BY <1>1, <1>2, <2>1, <2>2, <2>3, ThreadsApart, HeldKeeps DEF Loading, LargeGoing, SmallGoing
  <2> QED BY <1>1, <1>3, <1>4, <2>4, <2>5 DEF CreateInv, Shapes
<1>6. CASE SetSize
  <2>1. /\ pc[Creation] = "setSize" /\ UNCHANGED hBitmapSmall /\ ulSizeSmallBitmap' = Size(view)
        /\ \/ l = "show" /\ Account(Creation, {}, None)
           \/ l = "discard" /\ Account(Creation, {}, hBitmap)
    BY <1>3, <1>6, ThreadsApart DEF SetSize, To, Asked, CreateInv, Shapes
  <2>2. SizeKept'
    BY <1>1, <1>3, <2>1 DEF CreateInv, SizeKept, SizeIsTrue, AtRest
  <2>3. DOMAIN hbm' = Threads /\ (~clash' => Held')
    BY <1>1, <1>2, <2>1, ThreadsApart, HeldKeeps DEF Loading, LargeGoing, SmallGoing
  <2> QED BY <1>1, <1>3, <1>4, <2>2, <2>3 DEF CreateInv, Shapes
<1> QED BY <1>5, <1>6

\* The creation thread discards the large bitmap, has the icon painted, and leaves the object.
LEMMA FinishKeeps == ASSUME CreateInv, Discard \/ Show \/ Unlock PROVE CreateInv'
<1>1. UNCHANGED <<hBitmapSmall, ulSizeSmallBitmap, queue>> /\ Account(Creation, {}, None)
  BY DEF Discard, Show, Unlock, fields, shared
<1>2. PICK l \in {"show", "unlock", "idle"} :
        /\ pc' = [pc EXCEPT ![Creation] = l]
        /\ \/ pc[Creation] = "discard" /\ l = "show" /\ hBitmap' = None /\ UNCHANGED <<icon, view>>
           \/ /\ pc[Creation] = "show" /\ l = "unlock" /\ UNCHANGED <<hBitmap, view>>
              /\ icon' = [icon EXCEPT ![view] = IF view \in Seen THEN "dirty" ELSE @]
           \/ pc[Creation] = "unlock" /\ l = "idle" /\ UNCHANGED <<icon, hBitmap>>
  BY DEF Discard, Show, Unlock, To, fields, shared
<1>3. /\ DOMAIN pc' = Threads /\ pc'[Deletion] = pc[Deletion] /\ pc'[Creation] = l
      /\ DOMAIN icon' = Views
  BY <1>2, ThreadsApart DEF CreateInv, Shapes
<1>4. Awaited'
  <2>1. SUFFICES ASSUME NEW w \in Views, icon'[w] = "blank"
                 PROVE  \/ view' = w /\ pc'[Creation] \notin {"idle", "unlock"}
                        \/ \E k \in DOMAIN queue : queue[k] = w
    BY <1>1 DEF Awaited
  <2>2. icon[w] = "blank"
    BY <1>2, <2>1 DEF CreateInv, Shapes
  <2>3. w \in Seen
    BY <2>2 DEF Seen, Open
  <2>4. pc[Creation] = "show" => w # view
    BY <1>2, <2>1, <2>3 DEF CreateInv, Shapes
  <2> QED BY <1>2, <1>3, <2>2, <2>4 DEF CreateInv, Awaited
<1>5. NoneYet' /\ SizeKept'
  BY <1>1, <1>2, <1>3 DEF CreateInv, NoneYet, SizeKept, SizeIsTrue, AtRest
<1>6. DOMAIN hbm' = Threads /\ (~clash' => Held')
  BY <1>1, <1>2, ThreadsApart, HeldKeeps DEF Loading, LargeGoing, SmallGoing
<1> QED BY <1>1, <1>3, <1>4, <1>5, <1>6 DEF CreateInv, Shapes

\* The deletion thread.
LEMMA FreeKeeps == ASSUME CreateInv, DeletionThread PROVE CreateInv'
<1>1. UNCHANGED <<icon, queue, view>>
  BY DEF DeletionThread, Free, LargeDeleted, SmallDeleted, ForgetSize, shared
<1>2. PICK l \in {"idle", "delLarge", "delSmall", "forgetSize"} : \E going :
        /\ pc' = [pc EXCEPT ![Deletion] = l] /\ Account(Deletion, {}, going)
        /\ l = "delLarge" => going = hBitmap' /\ hBitmap' # None
        /\ l = "delSmall" => going = hBitmapSmall' /\ hBitmapSmall' # None
        /\ hBitmap' = hBitmap \/ (pc[Deletion] = "delLarge" /\ hBitmap' = None)
        /\ \/ hBitmapSmall' = hBitmapSmall
           \/ pc[Deletion] = "delSmall" /\ hBitmapSmall' = None /\ l = "forgetSize"
        /\ \/ UNCHANGED ulSizeSmallBitmap /\ (pc[Deletion] # "forgetSize")
           \/ ulSizeSmallBitmap' = 0
  <2>1. CASE Free /\ hBitmap # None
    BY <2>1 DEF Free, To, fields
  <2>2. CASE Free /\ hBitmap = None
    BY <2>2 DEF Free, FreeSmall, To, fields
  <2>3. CASE LargeDeleted
    BY <2>3 DEF LargeDeleted, FreeSmall, To
  <2>4. CASE SmallDeleted
    BY <2>4 DEF SmallDeleted, To
  <2>5. CASE ForgetSize
    BY <2>5 DEF ForgetSize, To
  <2> QED BY <2>1, <2>2, <2>3, <2>4, <2>5 DEF DeletionThread
<1>3. PICK going :
        /\ pc' = [pc EXCEPT ![Deletion] = l] /\ Account(Deletion, {}, going)
        /\ l = "delLarge" => going = hBitmap' /\ hBitmap' # None
        /\ l = "delSmall" => going = hBitmapSmall' /\ hBitmapSmall' # None
        /\ hBitmap' = hBitmap \/ (pc[Deletion] = "delLarge" /\ hBitmap' = None)
        /\ \/ hBitmapSmall' = hBitmapSmall
           \/ pc[Deletion] = "delSmall" /\ hBitmapSmall' = None /\ l = "forgetSize"
        /\ \/ UNCHANGED ulSizeSmallBitmap /\ (pc[Deletion] # "forgetSize")
           \/ ulSizeSmallBitmap' = 0
  BY <1>2
<1>4. /\ DOMAIN pc' = Threads /\ pc'[Creation] = pc[Creation] /\ pc'[Deletion] = l
  BY <1>3, ThreadsApart DEF CreateInv, Shapes
<1>5. Awaited'
  BY <1>1, <1>4 DEF CreateInv, Awaited
<1>6. NoneYet'
  BY <1>3, <1>4 DEF CreateInv, NoneYet
<1>7. SizeKept'
  BY <1>1, <1>3, <1>4 DEF CreateInv, SizeKept, SizeIsTrue, AtRest, Size
<1>8. DOMAIN hbm' = Threads /\ (~clash' => Held')
  <2>1. /\ hBitmap' = hBitmap \/ (pc[Deletion] \in LargeGoing /\ hBitmap' = None)
        /\ hBitmapSmall' = hBitmapSmall \/ (pc[Deletion] \in SmallGoing /\ hBitmapSmall' = None)
        /\ l \notin Loading
        /\ l \in LargeGoing => going = hBitmap'
        /\ l \in SmallGoing => going = hBitmapSmall' /\ hBitmapSmall' # None
    BY <1>3 DEF Loading, LargeGoing, SmallGoing
  <2> QED BY <1>3, <2>1, ThreadsApart, HeldKeeps
<1> QED BY <1>1, <1>4, <1>5, <1>6, <1>7, <1>8 DEF CreateInv, Shapes

\* Every step keeps the invariant.
LEMMA CreateNext == CreateInv /\ [Next]_vars => CreateInv'
<1> SUFFICES ASSUME CreateInv, [Next]_vars PROVE CreateInv'
  OBVIOUS
<1>1. CASE UNCHANGED vars
  <2>1. UNCHANGED <<hBitmap, hBitmapSmall, ulSizeSmallBitmap, icon, queue, pc, view, history>>
    BY <1>1 DEF vars, fields, shared, locals
  <2>2. DOMAIN hbm' = Threads /\ (~clash' => Held')
    BY <2>1, HeldStays
  <2> QED BY <2>1, <2>2 DEF CreateInv, Shapes, Awaited, NoneYet, SizeKept, SizeIsTrue, AtRest
<1>2. CASE CreationThread
  BY <1>2, TakeKeeps, ReadKeeps, ScaleKeeps, FinishKeeps DEF CreationThread
<1>3. CASE DeletionThread
  BY <1>3, FreeKeeps
<1>4. CASE Call \/ ReadStep(Caller)
  BY <1>4, ReadKeeps
<1>5. ASSUME NEW v \in Views, ViewThread(v) \/ Appear(v) \/ Hide(v) \/ Close(v)
      PROVE  CreateInv'
  BY <1>5, PaintKeeps, TooSmallKeeps, ViewKeeps DEF ViewThread
<1> QED BY <1>1, <1>2, <1>3, <1>4, <1>5 DEF Next

LEMMA CreateAlways == Spec => []CreateInv
BY CreateInit, CreateNext, PTL DEF Spec

-----------------------------------------------------------------------------
(* Theorems.                                                                  *)

\* As long as no two threads load or discard the same kind of bitmap at the same time, no
\* bitmap is lost.
THEOREM NeverLost == Spec => []NothingLost
<1>1. CreateInv => NothingLost
  BY DEF CreateInv, Held, NothingLost
<1> QED BY <1>1, CreateAlways, PTL

\* The size that is noted is that of the small bitmap, in whatever order the views ask
\* and the threads go on.
THEOREM SizeAlwaysTrue == Spec => []SizeIsTrue
<1>1. CreateInv => SizeIsTrue
  BY DEF CreateInv, SizeKept
<1> QED BY <1>1, CreateAlways, PTL

\* A blank icon in sight waits for an answer of the creation thread.
THEOREM BlankAlwaysAwaited == Spec => []BlankIsAwaited
<1>1. CreateInv => BlankIsAwaited
  BY DEF CreateInv, Awaited, BlankIsAwaited
<1> QED BY <1>1, CreateAlways, PTL

\* No small bitmap is stored over another.
THEOREM SmallNeverOverwritten == Spec => SmallNotOverwritten
<1>1. CreateInv /\ [Next]_vars => [hBitmapSmall # None => hBitmapSmall' \in {hBitmapSmall, None}]_vars
  <2> SUFFICES ASSUME CreateInv, [Next]_vars, hBitmapSmall # None
               PROVE  hBitmapSmall' \in {hBitmapSmall, None}
    OBVIOUS
  <2>1. CASE UNCHANGED vars
    BY <2>1 DEF vars, fields
  <2>2. CASE CreationThread
    BY <2>2 DEF CreationThread, Drop, Take, ReadStep, ReadHeader, Load, Scale, SetSize, Discard,
                Show, Unlock, fields, CreateInv, NoneYet
  <2>3. CASE DeletionThread
    BY <2>3 DEF DeletionThread, Free, LargeDeleted, SmallDeleted, ForgetSize, fields
  <2>4. CASE Call \/ ReadStep(Caller)
    BY <2>4 DEF Call, ReadStep, ReadHeader, Load, fields
  <2>5. ASSUME NEW v \in Views, ViewThread(v) \/ Appear(v) \/ Hide(v) \/ Close(v)
        PROVE  hBitmapSmall' \in {hBitmapSmall, None}
    BY <2>5 DEF ViewThread, Paint, PaintUnknown, TooSmall, Leave, Appear, Hide, IconTo, Close, fields
  <2> QED BY <2>1, <2>2, <2>3, <2>4, <2>5 DEF Next
<1> QED BY <1>1, CreateAlways, PTL DEF Spec, SmallNotOverwritten
=============================================================================
