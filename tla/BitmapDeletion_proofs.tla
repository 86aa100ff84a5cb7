------------------------- MODULE BitmapDeletion_proofs -------------------------
(******************************************************************************)
(* Theorems about BitmapDeletion, for any number of images, any queue, and as *)
(* many senders as the margin of the code allows for.                         *)
(******************************************************************************)
EXTENDS BitmapDeletion, FiniteSetTheorems, TLAPS

-----------------------------------------------------------------------------
(* Types.                                                                     *)

\* A sender under way knows the image it is about.
ImageKnown == \A s \in Senders : sender[s] # "idle" => image[s] \in Images

TypeInv == TypeOK /\ ImageKnown

\* A word has room for the queue and for all senders.
LEMMA Sizes ==
  /\ IsFiniteSet(Senders) /\ Cardinality(Senders) \in Nat /\ Cardinality(Senders) <= Margin
  /\ QueueSize \in Nat /\ Upper \in Nat /\ Lower \in Nat /\ Margin \in Nat /\ Word \in Nat
  /\ Lower < Upper /\ Upper < QueueSize - Margin /\ Word > QueueSize + Cardinality(Senders)
  /\ BurstSize \in Nat \ {0}
BY BitmapDeletionAssumption, FS_CardinalityType DEF BurstSize

\* Every remainder is a value of the counter.
LEMMA CountRange ==
  ASSUME NEW n \in Int
  PROVE  n % Word \in 0..Word-1
BY Sizes

\* What a dispatched request does to the variables.
LEMMA DispatchType ==
  ASSUME TypeOK, queue # <<>>, Dispatch
  PROVE  /\ queue' \in Seq(Images) /\ Len(queue') = Len(queue) - 1 /\ Len(queue') <= QueueSize
         /\ bitmaps' \subseteq bitmaps
         /\ count' \in 0..Word-1
<1>1. queue \in Seq(Images) /\ count \in 0..Word-1
  BY DEF TypeOK
<1>2. Tail(queue) \in Seq(Images) /\ Len(Tail(queue)) = Len(queue) - 1
  BY <1>1
<1>3. (count - 1) % Word \in 0..Word-1
  <2>1. count - 1 \in Int
    BY <1>1, Sizes
  <2> QED BY <2>1, CountRange
<1>4. Len(queue') <= QueueSize
  BY <1>1, <1>2, Sizes DEF Dispatch, TypeOK
<1> QED BY <1>1, <1>2, <1>3, <1>4 DEF Dispatch

\* The first states have the types; ...
LEMMA TypeInit == Init => TypeInv
<1> SUFFICES ASSUME Init PROVE TypeInv
  OBVIOUS
<1>1. 0 \in 0..Word-1 /\ 0 \in 0..BurstSize /\ 0 <= QueueSize
  BY Sizes
<1>2. queue \in Seq(Images) /\ Len(queue) = 0
  BY DEF Init
<1> QED BY <1>1, <1>2 DEF Init, TypeInv, TypeOK, ImageKnown

\* ... a step keeps them.
LEMMA TypeNext == TypeInv /\ [Next]_vars => TypeInv'
<1> SUFFICES ASSUME TypeInv, [Next]_vars PROVE TypeInv'
  OBVIOUS
<1> USE DEF TypeInv, ImageKnown
<1>1. ASSUME NEW s \in Senders, NEW i \in Images, Request(s, i) PROVE TypeInv'
  BY <1>1 DEF Request, SenderTo, TypeOK, objects
<1>2. ASSUME NEW s \in Senders, Notify(s) PROVE TypeInv'
  BY <1>2 DEF Notify, SenderTo, TypeOK, objects
<1>3. ASSUME NEW s \in Senders, Awake(s) PROVE TypeInv'
  BY <1>3 DEF Awake, SenderDone, SenderTo, TypeOK
<1>4. ASSUME NEW s \in Senders, Count(s) PROVE TypeInv'
  <2>1. count' \in 0..Word-1
    <3>1. count + 1 \in Int
      BY Sizes DEF TypeOK
    <3> QED BY <1>4, <3>1, CountRange DEF Count
  <2> QED BY <1>4, <2>1 DEF Count, SenderTo, TypeOK, objects
<1>5. ASSUME NEW s \in Senders, Post(s) PROVE TypeInv'
  <2>1. image[s] \in Images
    BY <1>5 DEF Post
  <2>2. queue' \in Seq(Images) /\ Len(queue') <= QueueSize
    BY <1>5, <2>1, Sizes DEF Post, TypeOK
  <2> QED BY <1>5, <2>2 DEF Post, SenderDone, SenderTo, TypeOK, objects
<1>6. CASE First
  BY <1>6, DispatchType DEF First, ThreadTo, TypeOK
<1>7. CASE Timeout
  BY <1>7 DEF Timeout, ThreadTo, TypeOK, objects
<1>8. CASE Woken
  <2>1. 0 \in 0..BurstSize
    BY Sizes
  <2> QED BY <1>8, <2>1 DEF Woken, ThreadTo, TypeOK, objects
<1>9. CASE Peek
  <2>1. CASE UNCHANGED <<bitmaps, queue, count>>
    BY <1>9, <2>1 DEF Peek, Dispatch, ThreadTo, TypeOK
  <2>2. CASE queue # <<>> /\ Dispatch /\ UNCHANGED pc
    BY <1>9, <2>2, DispatchType DEF Peek, TypeOK
  <2> QED BY <1>9, <2>1, <2>2 DEF Peek
<1>10. CASE Clear
  <2>1. 0 \in 0..Word-1
    BY Sizes
  <2>2. exact' \in BOOLEAN
    BY <1>10 DEF Clear
  <2> QED BY <1>10, <2>1, <2>2 DEF Clear, ThreadTo, TypeOK, objects
<1>11. CASE Burst
  <2>1. CASE a < BurstSize
    <3>1. a' \in 0..BurstSize
      BY <1>11, <2>1, Sizes DEF Burst, TypeOK
    <3>2. Dispatch /\ queue # <<>>
      BY <1>11, <2>1 DEF Burst
    <3> QED BY <1>11, <2>1, <3>1, <3>2, DispatchType DEF Burst, TypeOK
  <2>2. CASE ~(a < BurstSize)
    <3>1. queue' \in Seq(Images) /\ Len(queue') <= QueueSize
      BY <1>11, <2>2, Sizes DEF Burst, TypeOK
    <3> QED BY <1>11, <2>2, <3>1 DEF Burst, ThreadTo, TypeOK
  <2> QED BY <2>1, <2>2
<1>12. CASE Reset
  <2>1. 0 \in 0..BurstSize /\ <<>> \in Seq(Images) /\ Len(<<>>) <= QueueSize
    BY Sizes
  <2> QED BY <1>12, <2>1 DEF Reset, ThreadTo, TypeOK, objects
<1>13. ASSUME NEW i \in Images, Paint(i) \/ Sleep(i) \/ Wake(i)
       PROVE  TypeInv'
  BY <1>13 DEF Paint, Sleep, Wake, TypeOK
<1>14. CASE UNCHANGED vars
  BY <1>14 DEF vars, objects, TypeOK
<1> QED BY <1>1, <1>2, <1>3, <1>4, <1>5, <1>6, <1>7, <1>8, <1>9, <1>10, <1>11, <1>12, <1>13,
           <1>14 DEF Next, DeletionThread, SenderStep

\* The variables keep their types.
THEOREM TypeCorrect == Spec => []TypeOK
<1> QED BY TypeInit, TypeNext, PTL DEF Spec, TypeInv

-----------------------------------------------------------------------------
(* How many senders are at a step.                                            *)

At(l) == {s \in Senders : sender[s] = l}
N(l) == Cardinality(At(l))

\* A number of senders is a number, and within the margin.
LEMMA NumberType ==
  ASSUME NEW l
  PROVE  IsFiniteSet(At(l)) /\ N(l) \in Nat /\ N(l) <= Margin
<1>1. At(l) \in SUBSET Senders
  BY DEF At
<1>2. IsFiniteSet(At(l)) /\ Cardinality(At(l)) <= Cardinality(Senders)
  BY <1>1, Sizes, FS_Subset
<1>3. Cardinality(At(l)) \in Nat
  BY <1>2, FS_CardinalityType
<1> QED BY <1>2, <1>3, Sizes DEF N

\* So it is after a step.
LEMMA NextNumberType ==
  ASSUME NEW l
  PROVE  N(l)' \in Nat /\ N(l)' <= Margin
<1>1. At(l)' \in SUBSET Senders
  BY DEF At
<1>2. IsFiniteSet(At(l)') /\ Cardinality(At(l)') <= Cardinality(Senders)
  BY <1>1, Sizes, FS_Subset
<1>3. Cardinality(At(l)') \in Nat
  BY <1>2, FS_CardinalityType
<1> QED BY <1>2, <1>3, Sizes DEF N

\* A sender that moves is missed where it was and found where it is.
LEMMA Moves ==
  ASSUME TypeOK, NEW s \in Senders, NEW from, NEW to, sender[s] = from, from # to,
         SenderTo(s, to)
  PROVE  /\ N(from)' = N(from) - 1
         /\ N(to)' = N(to) + 1
         /\ \A l : l \notin {from, to} => N(l)' = N(l)
<1>1. sender' = [sender EXCEPT ![s] = to] /\ DOMAIN sender = Senders
  BY DEF SenderTo, TypeOK
<1>2. /\ {r \in Senders : sender'[r] = from} = At(from) \ {s}
      /\ {r \in Senders : sender'[r] = to} = At(to) \cup {s}
      /\ \A l : l \notin {from, to} => {r \in Senders : sender'[r] = l} = At(l)
      /\ s \in At(from) /\ s \notin At(to)
  BY <1>1 DEF At
<1>3. /\ Cardinality(At(from) \ {s}) = N(from) - 1
      /\ Cardinality(At(to) \cup {s}) = N(to) + 1
  BY <1>2, NumberType, FS_AddElement, FS_RemoveElement DEF N
<1>4. \A l : N(l)' = Cardinality({r \in Senders : sender'[r] = l})
  BY DEF N, At
<1> QED BY <1>2, <1>3, <1>4 DEF N

\* While no sender moves the numbers stay.
LEMMA NobodyMoves == ASSUME UNCHANGED sender PROVE \A l : N(l)' = N(l)
BY DEF N, At

-----------------------------------------------------------------------------
(* The counter.  It is not behind the queue and the requests about to be      *)
(* posted, and together with the senders that have looked at it, and are      *)
(* about to count, it is not beyond the queue.                                *)

CountInv ==
  exact => /\ count >= Len(queue) + N("post")
           /\ count + N("count") <= QueueSize

\* What the numbers are.
LEMMA NumbersAre ==
  ASSUME TypeOK
  PROVE  /\ count \in Nat /\ count < Word /\ Len(queue) \in Nat
         /\ N("post") \in Nat /\ N("count") \in Nat /\ N("count") <= Margin
         /\ QueueSize \in Nat /\ Margin \in Nat /\ Word \in Nat
BY NumberType, Sizes DEF TypeOK

\* A dispatched request leaves the queue; it leaves the counter too, or the counter stays.
LEMMA DispatchCounts ==
  ASSUME TypeOK, CountInv, exact, queue # <<>>, Dispatch, UNCHANGED sender
  PROVE  /\ count' >= Len(queue') + N("post")'
         /\ count' + N("count")' <= QueueSize
<1>1. Len(queue) \in Nat \ {0} /\ Len(queue') = Len(queue) - 1
  BY DispatchType DEF TypeOK
<1>2. N("post")' = N("post") /\ N("count")' = N("count")
  BY NobodyMoves
<1>3. count >= Len(queue) + N("post") /\ count + N("count") <= QueueSize
  BY DEF CountInv
<1>4. count' \in {count, count - 1}
  <2>1. count - 1 \in Nat /\ count - 1 < Word
    BY <1>1, <1>3, NumbersAre
  <2>2. (count - 1) % Word = count - 1
    BY <2>1, NumbersAre
  <2> QED BY <2>2 DEF Dispatch
<1> QED BY <1>1, <1>2, <1>3, <1>4, NumbersAre

\* A step of a sender.
LEMMA SenderCounts ==
  ASSUME TypeOK, CountInv, NEW s \in Senders,
         SenderStep(s) \/ \E i \in Images : Request(s, i)
  PROVE  CountInv'
<1> SUFFICES ASSUME exact'
             PROVE  /\ count' >= Len(queue') + N("post")'
                    /\ count' + N("count")' <= QueueSize
  BY DEF CountInv
<1>1. exact
  BY DEF SenderStep, Request, Notify, Awake, Count, Post
<1>2. count >= Len(queue) + N("post") /\ count + N("count") <= QueueSize
  BY <1>1 DEF CountInv
<1>3. CASE \E i \in Images : Request(s, i)
  <2>1. UNCHANGED <<count, queue>> /\ sender[s] = "idle"
    BY <1>3 DEF Request
  <2>2. CASE count > Upper
    <3>1. SenderTo(s, "notify")
      BY <1>3, <2>2 DEF Request
    <3>2. N("post")' = N("post") /\ N("count")' = N("count")
      BY <2>1, <3>1, Moves
    <3> QED BY <1>2, <2>1, <3>2
  <2>3. CASE ~(count > Upper)
    <3>1. SenderTo(s, "count")
      BY <1>3, <2>3 DEF Request
    <3>2. N("post")' = N("post") /\ N("count")' = N("count") + 1
      BY <2>1, <3>1, Moves
    <3>3. N("count")' <= Margin
      BY NextNumberType
    <3> QED BY <1>2, <2>1, <2>3, <3>2, <3>3, NumbersAre, Sizes
  <2> QED BY <2>2, <2>3
<1>4. CASE Notify(s)
  <2>1. UNCHANGED <<count, queue>> /\ sender[s] = "notify" /\ SenderTo(s, "slept")
    BY <1>4 DEF Notify
  <2>2. N("post")' = N("post") /\ N("count")' = N("count")
    BY <2>1, Moves
  <2> QED BY <1>2, <2>1, <2>2
<1>5. CASE Awake(s)
  <2>1. UNCHANGED <<count, queue>> /\ sender[s] = "slept"
    BY <1>5 DEF Awake
  <2>2. CASE StillFull
    <3>1. SenderTo(s, "idle")
      BY <1>5, <2>2 DEF Awake, SenderDone
    <3>2. N("post")' = N("post") /\ N("count")' = N("count")
      BY <2>1, <3>1, Moves
    <3> QED BY <1>2, <2>1, <3>2
  <2>3. CASE ~StillFull
    <3>1. SenderTo(s, "count") /\ ~(count > QueueSize - Margin)
      BY <1>5, <2>3 DEF Awake, StillFull
    <3>2. N("post")' = N("post") /\ N("count")' = N("count") + 1
      BY <2>1, <3>1, Moves
    <3>3. N("count")' <= Margin
      BY NextNumberType
    <3> QED BY <1>2, <2>1, <3>1, <3>2, <3>3, NumbersAre, Sizes
  <2> QED BY <2>2, <2>3
<1>6. CASE Count(s)
  <2>1. UNCHANGED queue /\ sender[s] = "count" /\ SenderTo(s, "post")
        /\ count' = (count + 1) % Word
    BY <1>6 DEF Count
  <2>2. N("post")' = N("post") + 1 /\ N("count")' = N("count") - 1
    BY <2>1, Moves
  <2>3. count' = count + 1
    <3>1. N("count") >= 1
      <4>1. s \in At("count")
        BY <2>1 DEF At
      <4>2. N("count") # 0
        BY <4>1, NumberType, FS_EmptySet DEF N
      <4> QED BY <4>2, NumbersAre
    <3>2. count + 1 \in Nat /\ count + 1 < Word
      BY <1>2, <3>1, NumbersAre, Sizes
    <3> QED BY <2>1, <3>2, NumbersAre
  <2> QED BY <1>2, <2>1, <2>2, <2>3, NumbersAre
<1>7. CASE Post(s)
  <2>1. UNCHANGED count /\ sender[s] = "post" /\ SenderTo(s, "idle")
    BY <1>7 DEF Post, SenderDone
  <2>2. N("post")' = N("post") - 1 /\ N("count")' = N("count")
    BY <2>1, Moves
  <2>3. Len(queue') <= Len(queue) + 1 /\ Len(queue') \in Nat
    BY <1>7 DEF Post, TypeOK
  <2> QED BY <1>2, <2>1, <2>2, <2>3, NumbersAre
<1> QED BY <1>3, <1>4, <1>5, <1>6, <1>7 DEF SenderStep

\* A step of the deletion thread.
LEMMA ThreadCounts ==
  ASSUME TypeOK, CountInv, DeletionThread
  PROVE  CountInv'
<1> SUFFICES ASSUME exact'
             PROVE  /\ count' >= Len(queue') + N("post")'
                    /\ count' + N("count")' <= QueueSize
  BY DEF CountInv
<1>1. exact /\ UNCHANGED sender
  BY DEF DeletionThread, First, Timeout, Woken, Peek, Clear, Burst, Reset
<1>2. /\ count >= Len(queue) + N("post") /\ count + N("count") <= QueueSize
      /\ N("post")' = N("post") /\ N("count")' = N("count")
  BY <1>1, NobodyMoves DEF CountInv
<1>3. CASE UNCHANGED <<queue, count>>
  BY <1>2, <1>3
<1>4. CASE queue # <<>> /\ Dispatch
  BY <1>1, <1>4, DispatchCounts
<1>5. CASE UNCHANGED count /\ Len(queue') \in Nat /\ Len(queue') <= Len(queue)
  BY <1>2, <1>5, NumbersAre
<1>6. CASE Clear
  <2>1. count' = 0 /\ queue' = <<>> /\ \A s \in Senders : sender[s] # "post"
    BY <1>6 DEF Clear
  <2>2. At("post") = {}
    BY <2>1 DEF At
  <2>3. N("post") = 0
    BY <2>2, FS_EmptySet DEF N
  <2> QED BY <1>2, <2>1, <2>3, NumbersAre
<1>7. CASE First
  BY <1>4, <1>7 DEF First
<1>8. CASE Timeout \/ Woken
  BY <1>3, <1>8 DEF Timeout, Woken
<1>9. CASE Peek
  BY <1>3, <1>4, <1>9 DEF Peek
<1>10. CASE Burst
  <2>1. CASE a < BurstSize
    BY <1>4, <1>10, <2>1 DEF Burst
  <2>2. CASE ~(a < BurstSize)
    <3>1. Len(Tail(queue)) \in Nat /\ Len(Tail(queue)) <= Len(queue)
      BY <1>10 DEF Burst, TypeOK
    <3> QED BY <1>5, <1>10, <2>2, <3>1 DEF Burst
  <2> QED BY <2>1, <2>2
<1>11. CASE Reset
  <2>1. queue' = queue \/ queue' = <<>>
    BY <1>11 DEF Reset
  <2>2. Len(<<>>) = 0 /\ Len(queue) \in Nat
    BY DEF TypeOK
  <2>3. UNCHANGED count
    BY <1>11 DEF Reset
  <2> QED BY <1>3, <1>5, <2>1, <2>2, <2>3, NumbersAre
<1> QED BY <1>6, <1>7, <1>8, <1>9, <1>10, <1>11 DEF DeletionThread

\* The counter in every state.
LEMMA CountAlways == Spec => [](TypeInv /\ CountInv)
<1>1. Init => CountInv
  <2> SUFFICES ASSUME Init PROVE CountInv
    OBVIOUS
  <2>1. TypeOK
    BY TypeInit DEF TypeInv
  <2>2. At("post") = {} /\ At("count") = {}
    BY DEF Init, At
  <2>3. N("post") = 0 /\ N("count") = 0
    BY <2>2, FS_EmptySet DEF N
  <2>4. count = 0 /\ Len(queue) = 0
    BY DEF Init
  <2> QED BY <2>1, <2>3, <2>4, NumbersAre DEF CountInv
<1>2. TypeInv /\ CountInv /\ [Next]_vars => CountInv'
  <2> SUFFICES ASSUME TypeInv, CountInv, [Next]_vars PROVE CountInv'
    OBVIOUS
  <2>1. TypeOK
    BY DEF TypeInv
  <2>2. CASE DeletionThread
    BY <2>1, <2>2, ThreadCounts
  <2>3. CASE \E s \in Senders : SenderStep(s) \/ \E i \in Images : Request(s, i)
    BY <2>1, <2>3, SenderCounts
  <2>4. CASE UNCHANGED vars \/ \E i \in Images : Paint(i) \/ Sleep(i) \/ Wake(i)
    <3>1. UNCHANGED <<exact, count, queue, sender>>
      BY <2>4 DEF vars, Paint, Sleep, Wake
    <3> QED BY <3>1, NobodyMoves DEF CountInv
  <2> QED BY <2>2, <2>3, <2>4 DEF Next
<1> QED BY <1>1, <1>2, TypeInit, TypeNext, PTL DEF Spec

\* Until it is cleared with requests waiting, the counter is never behind the requests in
\* the queue and those about to be posted, however many objects have gone dormant.
THEOREM CounterNeverBehind == Spec => []CountCoversQueue
<1>1. CountInv => CountCoversQueue
  BY DEF CountInv, CountCoversQueue, N, At
<1> QED BY <1>1, CountAlways, PTL

\* Until then no request is posted to a full queue: the margin of the code is enough for
\* any number of senders up to the margin.
THEOREM AlwaysRoom == Spec => []RoomForRequests
<1>1. TypeInv /\ CountInv => RoomForRequests
  <2> SUFFICES ASSUME TypeInv, CountInv, exact, NEW s \in Senders, sender[s] = "post"
               PROVE  Len(queue) < QueueSize
    BY DEF RoomForRequests
  <2>1. s \in At("post")
    BY DEF At
  <2>2. N("post") # 0
    BY <2>1, NumberType, FS_EmptySet DEF N
  <2> QED BY <2>2, NumbersAre DEF CountInv, TypeInv
<1> QED BY <1>1, CountAlways, PTL
=============================================================================
