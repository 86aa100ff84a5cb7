---------------------------- MODULE BitmapDeletion ----------------------------
(*****************************************************************************)
(* The background deletion of the bitmaps of image objects (class MMImage,   *)
(* cwimage.c).  Threads that close folders or scroll them send requests to   *)
(* the deletion thread (sendDeleteBMPMsg, cwmmRequestBmpDeletion), which     *)
(* mostly waits on an event semaphore (deleteBMPThreadFunc).  ulNumBMPDelete *)
(* counts the requests in the message queue, which holds BMP_QUEUE_SIZE; it  *)
(* is changed by all these threads without a lock.                           *)
(*                                                                           *)
(* A step is the code up to the next call that lets other threads run.  The  *)
(* single increments and decrements of the counter are one instruction.  The *)
(* age of a request, which decides whether the thread deletes it after a     *)
(* timeout, is left open.  So are the containers an image has records in:    *)
(* the test that would spare the bitmaps of a file that was inserted into    *)
(* one again is disabled in deleteBMPObjectProc.                             *)
(*****************************************************************************)
EXTENDS Integers, Sequences, FiniteSets

CONSTANTS
  Images,
  Senders,    \* the threads that request deletions
  QueueSize,  \* BMP_QUEUE_SIZE
  Upper,      \* BMP_DEL_UPPER
  Lower,      \* BMP_DEL_LOWER
  Margin,     \* 7
  Word,       \* the counter is unsigned and wraps around here; 2^32
  MayQuit,    \* may bQuit, read without having been set, be other than 0?
  None

ASSUME BitmapDeletionAssumption ==
  /\ IsFiniteSet(Senders) /\ Cardinality(Senders) <= Margin
  /\ {QueueSize, Upper, Lower, Margin, Word} \subseteq Nat
  /\ Lower < Upper /\ Upper < QueueSize - Margin
  /\ Word > QueueSize + Cardinality(Senders)
  /\ MayQuit \in BOOLEAN
  /\ None \notin Images

BurstSize == Upper - Lower

VARIABLES
  bitmaps,  \* the images that keep a bitmap (_hBitmap or _hBitmapSmall)
  alive,    \* those whose object exists
  queue,    \* the requests in the message queue of the deletion thread
  count,    \* ulNumBMPDelete
  posted,   \* hevDeleteBMP
  pc,       \* of the deletion thread
  a,        \* requests dispatched in this burst
  sender,   \* of each sender: its step, ...
  image,    \* ... and the image it requests to delete
  exact     \* history: the counter has never been cleared while requests waited

objects == <<bitmaps, alive>>
vars == <<objects, queue, count, posted, pc, a, sender, image, exact>>

TypeOK ==
  /\ bitmaps \subseteq alive /\ alive \subseteq Images
  /\ queue \in Seq(Images) /\ Len(queue) <= QueueSize
  /\ count \in 0..Word - 1
  /\ posted \in BOOLEAN
  /\ pc \in {"get", "wait", "peek", "clear", "burst", "reset", "rest", "gone"}
  /\ a \in 0..BurstSize
  /\ sender \in [Senders -> {"idle", "notify", "slept", "count", "post"}]
  /\ image \in [Senders -> Images \cup {None}]
  /\ exact \in BOOLEAN

Queued(i) == \E k \in DOMAIN queue : queue[k] = i
Wanted(i) == Queued(i) \/ \E s \in Senders : image[s] = i

-----------------------------------------------------------------------------
(* A request.                                                                *)

SenderTo(s, l) == sender' = [sender EXCEPT ![s] = l]

SenderDone(s) == SenderTo(s, "idle") /\ image' = [image EXCEPT ![s] = None]

\* wpUnlockObject of an image with a bitmap that is in no container, or
\* cwmmRequestBmpDeletion, bitmap or not, for one that is in none or scrolled
\* out of sight.
Request(s, i) ==
  /\ sender[s] = "idle" /\ i \in alive
  /\ image' = [image EXCEPT ![s] = i]
  /\ SenderTo(s, IF count > Upper THEN "notify" ELSE "count")
  /\ UNCHANGED <<objects, queue, count, posted, pc, a, exact>>

\* The queue is nearly full: wake the deletion thread and sleep for 20 ms.
Notify(s) ==
  /\ sender[s] = "notify"
  /\ posted' = TRUE
  /\ SenderTo(s, "slept")
  /\ UNCHANGED <<objects, queue, count, pc, a, image, exact>>

\* "Thread isn't fast enough so delete the bitmap directly".
StillFullLate == count > QueueSize  \* mutant: without the margin
StillFull == count > QueueSize - Margin

Awake(s) ==
  /\ sender[s] = "slept"
  /\ IF StillFull
       THEN bitmaps' = bitmaps \ {image[s]} /\ SenderDone(s)
       ELSE SenderTo(s, "count") /\ UNCHANGED <<bitmaps, image>>
  /\ UNCHANGED <<alive, queue, count, posted, pc, a, exact>>

Count(s) ==
  /\ sender[s] = "count"
  /\ count' = (count + 1) % Word
  /\ SenderTo(s, "post")
  /\ UNCHANGED <<objects, queue, posted, pc, a, image, exact>>

\* WinPostMsg fails when the queue is full or its window is gone.
Post(s) ==
  /\ sender[s] = "post"
  /\ queue' = IF Len(queue) < QueueSize /\ pc # "gone"
                THEN Append(queue, image[s]) ELSE queue
  /\ SenderDone(s)
  /\ UNCHANGED <<objects, count, posted, pc, a, exact>>

-----------------------------------------------------------------------------
(* The deletion thread.                                                      *)

ThreadTo(l) == pc' = l

\* deleteBMPObjectProc for the oldest request: cwmmFreeBitmaps.
DispatchCountedTwice ==  \* mutant
  /\ queue' = Tail(queue) /\ bitmaps' = bitmaps \ {Head(queue)}
  /\ count' = (count - 2) % Word
Dispatch ==
  /\ queue' = Tail(queue)
  /\ IF Head(queue) \in alive
       THEN /\ bitmaps' = bitmaps \ {Head(queue)}
            /\ count' = (count - 1) % Word
       ELSE UNCHANGED <<bitmaps, count>>

\* "First message is always dispatched no matter how old"
First ==
  /\ pc = "get" /\ queue # <<>>
  /\ Dispatch
  /\ ThreadTo("wait")
  /\ UNCHANGED <<alive, posted, a, sender, image, exact>>

Timeout ==
  /\ pc = "wait" /\ ~posted
  /\ ThreadTo("peek")
  /\ UNCHANGED <<objects, queue, count, posted, a, sender, image, exact>>

Woken ==
  /\ pc = "wait" /\ posted
  /\ ThreadTo("burst") /\ a' = 0
  /\ UNCHANGED <<objects, queue, count, posted, sender, image, exact>>

\* A request that is not old enough ends the round, an older one is carried out.
Peek ==
  /\ pc = "peek"
  /\ \/ queue = <<>> /\ ThreadTo("clear") /\ UNCHANGED <<bitmaps, queue, count>>
     \/ queue # <<>> /\ ThreadTo("rest") /\ UNCHANGED <<bitmaps, queue, count>>
     \/ queue # <<>> /\ Dispatch /\ UNCHANGED pc
  /\ UNCHANGED <<alive, posted, a, sender, image, exact>>

\* "No messages in queue (but maybe another thread is just adding them...)"
Clear ==
  /\ pc = "clear"
  /\ count' = 0
  /\ exact' = (exact /\ queue = <<>> /\ \A s \in Senders : sender[s] # "post")
  /\ ThreadTo("rest")
  /\ UNCHANGED <<objects, queue, posted, a, sender, image>>

BurstDropsTwo ==  \* mutant
  /\ pc = "burst" /\ queue # <<>>
  /\ IF a < BurstSize
       THEN Dispatch /\ a' = a + 1 /\ UNCHANGED pc
       ELSE /\ queue' = SubSeq(queue, 3, Len(queue)) /\ ThreadTo("reset")
            /\ UNCHANGED <<bitmaps, count, a>>
  /\ UNCHANGED <<alive, posted, sender, image, exact>>

\* Up to BurstSize requests are carried out, waiting for each; then one more is
\* taken from the queue and dropped.
Burst ==
  /\ pc = "burst" /\ queue # <<>>
  /\ IF a < BurstSize
       THEN Dispatch /\ a' = a + 1 /\ UNCHANGED pc
       ELSE /\ queue' = Tail(queue) /\ ThreadTo("reset")
            /\ UNCHANGED <<bitmaps, count, a>>
  /\ UNCHANGED <<alive, posted, sender, image, exact>>

\* The semaphore is reset.  After a timeout ("rest") bQuit has not been set.
Reset ==
  /\ pc \in {"rest", "reset"}
  /\ posted' = FALSE
  /\ a' = 0
  /\ \/ ThreadTo("get") /\ UNCHANGED queue
     \/ MayQuit /\ pc = "rest" /\ ThreadTo("gone") /\ queue' = <<>>
  /\ UNCHANGED <<objects, count, sender, image, exact>>

DeletionThread ==
  First \/ Timeout \/ Woken \/ Peek \/ Clear \/ Burst \/ Reset

-----------------------------------------------------------------------------
(* The desktop.                                                              *)

\* A bitmap is made to paint the icon in a container.
Paint(i) ==
  /\ i \in alive \ bitmaps
  /\ bitmaps' = bitmaps \cup {i}
  /\ UNCHANGED <<alive, queue, count, posted, pc, a, sender, image, exact>>

\* wpUnInitData: the object goes dormant and frees its bitmaps itself.
Sleep(i) ==
  /\ i \in alive /\ \A s \in Senders : image[s] # i
  /\ alive' = alive \ {i} /\ bitmaps' = bitmaps \ {i}
  /\ UNCHANGED <<queue, count, posted, pc, a, sender, image, exact>>

\* It awakes as another object, so that no request is for it.
Wake(i) ==
  /\ i \in Images \ alive /\ ~Wanted(i)
  /\ alive' = alive \cup {i}
  /\ UNCHANGED <<bitmaps, queue, count, posted, pc, a, sender, image, exact>>

Init ==
  /\ bitmaps = {} /\ alive = Images
  /\ queue = <<>> /\ count = 0 /\ posted = FALSE
  /\ pc = "get" /\ a = 0
  /\ sender = [s \in Senders |-> "idle"]
  /\ image = [s \in Senders |-> None]
  /\ exact = TRUE

SenderStep(s) == Notify(s) \/ Awake(s) \/ Count(s) \/ Post(s)

Next ==
  \/ DeletionThread
  \/ \E s \in Senders : SenderStep(s) \/ \E i \in Images : Request(s, i)
  \/ \E i \in Images : Paint(i) \/ Sleep(i) \/ Wake(i)

\* Threads go on when they can; the wait on the semaphore ends by its timeout.
Fairness ==
  /\ WF_vars(DeletionThread)
  /\ \A s \in Senders : WF_vars(SenderStep(s))

Spec == Init /\ [][Next]_vars
FairSpec == Spec /\ Fairness

-----------------------------------------------------------------------------
(* Properties.                                                               *)

\* The margin before the end of the queue is enough for all senders that have
\* already looked at the counter, whatever dormant objects and dropped requests
\* do to it, until it is cleared with requests waiting.
RoomForRequests ==
  exact => \A s \in Senders : sender[s] = "post" => Len(queue) < QueueSize

\* The counter never falls behind the queue before that.
CountCoversQueue ==
  exact => count >= Len(queue) + Cardinality({s \in Senders : sender[s] = "post"})

\* The request at the head of the queue is the one too many at the end of a burst.
OneTooMany == pc = "burst" /\ a = BurstSize /\ queue # <<>>

\* A request in the queue is carried out, unless the thread quits or drops it, and no
\* other, at the end of a burst: those behind it in the queue are not lost, whatever
\* has been painted again or become dormant in between.
RequestsCarriedOut ==
  \A i \in Images :
    Queued(i) ~> i \notin bitmaps \/ pc = "gone" \/ (OneTooMany /\ Head(queue) = i)
=============================================================================
