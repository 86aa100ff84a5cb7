--------------------------- MODULE RandomPlay_proofs ---------------------------
(****************************************************************************)
(* Theorems about RandomPlay: for every folder, every size of the array and *)
(* whatever the user changes meanwhile, on both threads.                    *)
(****************************************************************************)
EXTENDS RandomPlay, FiniteSetTheorems, TLAPS

-----------------------------------------------------------------------------
(* The inductive invariant.                                                 *)

CnrOK == cnr \in Seq(Records) /\ \A i, j \in DOMAIN cnr : cnr[i] = cnr[j] => i = j

RestOK ==
  /\ playing \in Records \cup {Nothing}
  /\ ended \in BOOLEAN /\ repeat \in BOOLEAN
  /\ array \in Arrays /\ toPlay \in 0..MaxObjects /\ played \in 0..MaxObjects
  /\ pc \in [Threads -> Steps] /\ ret \in [Threads -> Returns]
  /\ drawn \in [Threads -> 0..MaxObjects]
  /\ track \in [Threads -> Records \cup {Nothing}]
  /\ aside \in [Threads -> Arrays]
  /\ chosen \subseteq Records /\ calm \in BOOLEAN /\ crossed \in BOOLEAN
  /\ \A t \in Threads : pc[t] = "look" => drawn[t] \in 1..MaxObjects

\* A thread that relies on the round: it has tested the array, or frees it.
Deep(t) ==
  \/ pc[t] \in {"fill", "draw", "look", "aside", "restore", "start", "clear"}
  \/ pc[t] \in {"stop", "silence"} /\ ret[t] \in {"quit", "restore"}

\* Its array is put aside; it has drawn a track that is not counted yet.
Away(t) ==
  \/ pc[t] = "restore"
  \/ pc[t] \in {"stop", "silence"} /\ ret[t] = "restore"
Drew(t) == pc[t] \in {"look", "aside", "start"}

\* The counters belong to the array.
CountOK(a) ==
  /\ toPlay \in 1..MaxObjects /\ a.marked \subseteq 1..toPlay
  /\ played <= Cardinality(a.marked)

\* As long as no two threads have used the round at a time, one thread at most
\* relies on it, and finds it as it has left it.
OneDeep == \A t \in Threads : Deep(t) => ~Deep(Other(t))
HasArray == \A t \in Threads : (pc[t] = "draw" \/ Drew(t)) => array.state = "live"
HasAside == \A t \in Threads : Away(t) =>
              /\ array.state = "null" /\ aside[t].state = "live"
              /\ CountOK(aside[t])
              /\ played + 1 <= Cardinality(aside[t].marked)
Counted == array.state # "null" => CountOK(array)
Uncounted == \A t \in Threads : Drew(t) => played + 1 <= Cardinality(array.marked)
FreedByClear == array.state = "freed" => \E t \in Threads : pc[t] = "clear"
AsideSafe == \A t \in Threads : pc[t] = "clear" => ret[t] # "restore"
CrossInv ==
  /\ OneDeep /\ HasArray /\ HasAside /\ Counted /\ Uncounted /\ FreedByClear /\ AsideSafe

\* The tracks that have had their turn are the ones on the positions marked.
Kept(a) ==
  /\ toPlay <= Len(cnr)
  /\ \A i \in DOMAIN cnr :
       /\ cnr[i] \in chosen => i \in a.marked
       /\ (i \in a.marked /\ cnr[i] \in Audio)
            => cnr[i] \in chosen \/ \E t \in Threads : pc[t] = "look" /\ drawn[t] = i

KeptHere == array.state # "null" => Kept(array)
KeptAside == \A t \in Threads : Away(t) => Kept(aside[t])
FreshDraw == \A t \in Threads : pc[t] = "look" =>
               /\ drawn[t] \in array.marked
               /\ drawn[t] \in DOMAIN cnr => cnr[drawn[t]] \notin chosen
GivesUp(t) == pc[t] = "stop" /\ ret[t] \in {"over", "quit"}
AllMarked == array.state # "null" =>
               array.marked = 1..toPlay /\ \A u \in Threads : pc[u] # "look"
GivenUp == \A t \in Threads : GivesUp(t) => AllMarked
CalmInv == KeptHere /\ KeptAside /\ FreshDraw /\ GivenUp

RandomInv ==
  /\ CnrOK /\ RestOK
  /\ ~crossed => CrossInv
  /\ calm => ~crossed /\ CalmInv

-----------------------------------------------------------------------------
(* Threads and their moves.                                                 *)

LEMMA Others ==
  ASSUME NEW t \in Threads
  PROVE  /\ Other(t) \in Threads /\ Other(t) # t /\ Other(Other(t)) = t
         /\ \A u \in Threads : u = t \/ u = Other(t)
BY DEF Threads, Other, UI, Play

\* A step of a thread leaves the other where it is.
LEMMA Moves ==
  ASSUME RestOK, NEW t \in Threads, NEW u \in Threads
  PROVE  /\ \A l : Goto(t, l) => /\ ret' = ret
                                 /\ pc'[u] = IF u = t THEN l ELSE pc[u]
         /\ \A b : CallStop(t, b) => /\ pc'[u] = IF u = t THEN "stop" ELSE pc[u]
                                     /\ ret'[u] = IF u = t THEN b ELSE ret[u]
         /\ Return(t) => /\ pc'[u] = IF u = t THEN IF ret[t] = "quit" THEN "idle" ELSE ret[t]
                                     ELSE pc[u]
                         /\ ret'[u] = IF u = t THEN "idle" ELSE ret[u]
BY DEF RestOK, Goto, CallStop, Return

\* Who does not use the round does not rely on it.
LEMMA Outsider ==
  ASSUME NEW t \in Threads, ~Using(t)
  PROVE  ~Deep(t) /\ ~Away(t) /\ ~Drew(t) /\ ~GivesUp(t) /\ pc[t] \notin {"draw", "look", "clear"}
BY DEF Using, Deep, Away, Drew, GivesUp

LEMMA Shallow ==
  ASSUME NEW t \in Threads, ~Deep(t)
  PROVE  ~Away(t) /\ ~Drew(t) /\ pc[t] \notin {"draw", "look", "clear"}
BY DEF Deep, Away, Drew

\* What a step that acts on the round does to the history.
LEMMA Watching ==
  ASSUME RestOK, NEW lucky \in BOOLEAN, NEW clash \in BOOLEAN, Watch(lucky, clash)
  PROVE  /\ crossed' \in BOOLEAN /\ calm' \in BOOLEAN /\ chosen' \subseteq Records
         /\ ~crossed' => ~crossed /\ ~clash
         /\ calm' => calm /\ lucky /\ ~clash /\ chosen' = chosen
         /\ (calm => ~crossed) => (calm' => ~crossed')
BY DEF RestOK, Watch

-----------------------------------------------------------------------------
(* Sets of positions.                                                       *)

\* Sets of positions are finite.
LEMMA PositionsFinite ==
  ASSUME NEW n \in Nat, NEW S \in SUBSET (1..n)
  PROVE  IsFiniteSet(S) /\ Cardinality(S) \in Nat /\ Cardinality(S) <= n
<1>1. IsFiniteSet(1..n) /\ Cardinality(1..n) = n
  BY FS_Interval
<1>2. IsFiniteSet(S) /\ Cardinality(S) <= n
  BY <1>1, FS_Subset
<1> QED BY <1>2, FS_CardinalityType

LEMMA AllOfThem ==
  ASSUME NEW n \in Nat, NEW M \in SUBSET (1..n), Cardinality(M) = n
  PROVE  M = 1..n
<1>1. 1 \in Int /\ n \in Int
  OBVIOUS
<1>2. IsFiniteSet(1..n) /\ Cardinality(1..n) = IF 1 > n THEN 0 ELSE n-1+1
  BY <1>1, FS_Interval, Zenon
<1>3. Cardinality(1..n) = n
  BY <1>2
<1> QED BY <1>2, <1>3, FS_Subset

-----------------------------------------------------------------------------
(* Types.                                                                   *)

LEMMA NoArrayOK == NoArray \in Arrays
BY DEF NoArray, Arrays

LEMMA GotoType ==
  ASSUME RestOK, NEW t \in Threads, NEW l \in Steps, Goto(t, l)
  PROVE  pc' \in [Threads -> Steps] /\ ret' \in [Threads -> Returns]
BY DEF RestOK, Goto

LEMMA CallType ==
  ASSUME RestOK, NEW t \in Threads, NEW b \in Returns, CallStop(t, b)
  PROVE  pc' \in [Threads -> Steps] /\ ret' \in [Threads -> Returns]
BY DEF RestOK, CallStop, Steps, StopSteps

LEMMA ReturnType ==
  ASSUME RestOK, NEW t \in Threads, Return(t)
  PROVE  pc' \in [Threads -> Steps] /\ ret' \in [Threads -> Returns]
<1>1. ret[t] \in Returns
  BY DEF RestOK
<1>2. (IF ret[t] = "quit" THEN "idle" ELSE ret[t]) \in Steps
  BY <1>1 DEF Returns, Steps
<1>3. "idle" \in Returns
  BY DEF Returns
<1> QED BY <1>2, <1>3 DEF RestOK, Return

\* Nobody who was not looking looks.
LEMMA LookingOn ==
  ASSUME RestOK, NEW t \in Threads, NEW u \in Threads, pc'[t] # "look", UNCHANGED drawn,
         pc'[Other(t)] = pc[Other(t)], pc'[u] = "look"
  PROVE  drawn'[u] \in 1..MaxObjects
BY Others DEF RestOK

LEMMA StopType ==
  ASSUME RestOK, NEW t \in Threads, StopStep(t)
  PROVE  RestOK'
<1>1. ret[t] \in Returns /\ pc[t] \in Steps /\ Other(t) \in Threads /\ Other(t) # t
  BY Others DEF RestOK
<1>2. "silence" \in Steps /\ "clear" \in Steps
  BY DEF Steps, StopSteps
<1>3. pc' \in [Threads -> Steps] /\ ret' \in [Threads -> Returns]
  BY <1>2, GotoType, ReturnType DEF StopStep, NothingToStop, NoRoundToFree, FreeArray, FreedTwice,
                                    ClearRound, Silence
<1>4. pc'[t] # "look" /\ pc'[Other(t)] = pc[Other(t)]
  BY <1>1, Moves DEF StopStep, NothingToStop, NoRoundToFree, FreeArray, FreedTwice, ClearRound,
                     Silence, Returns
<1>5. UNCHANGED locals /\ playing' \in {playing, Nothing} /\ ended' \in {ended, FALSE}
      /\ repeat' = repeat
  BY DEF StopStep, NothingToStop, NoRoundToFree, FreeArray, FreedTwice, ClearRound, Silence, contents
<1>6. array' \in Arrays /\ toPlay' \in 0..MaxObjects /\ played' \in 0..MaxObjects
  <2>1. 0 \in 0..MaxObjects
    BY RandomAssumption
  <2>2. [array EXCEPT !.state = "freed"] \in Arrays
    BY DEF RestOK, Arrays
  <2> QED BY <2>1, <2>2, NoArrayOK DEF RestOK, StopStep, NothingToStop, NoRoundToFree, FreeArray,
                                 FreedTwice, ClearRound, Silence, round
<1>7. Using(Other(t)) \in BOOLEAN
  BY DEF Using
<1>8. chosen' \subseteq Records /\ calm' \in BOOLEAN /\ crossed' \in BOOLEAN
  <2>1. CASE UNCHANGED history
    BY <2>1 DEF history, RestOK
  <2>2. CASE Touches(t)
    BY <1>7, <2>2, Watching DEF Touches
  <2> QED BY <2>1, <2>2 DEF StopStep, NothingToStop, NoRoundToFree, FreeArray, FreedTwice, ClearRound,
                        Silence
<1>9. \A u \in Threads : pc'[u] = "look" => drawn'[u] \in 1..MaxObjects
  BY <1>4, <1>5, LookingOn DEF locals
<1> QED BY <1>3, <1>5, <1>6, <1>8, <1>9 DEF RestOK, locals

LEMMA PlayType ==
  ASSUME CnrOK, RestOK, NEW t \in Threads, PlayStep(t)
  PROVE  RestOK'
<1>1. ret[t] \in Returns /\ pc[t] \in Steps /\ Other(t) \in Threads /\ Other(t) # t
  BY Others DEF RestOK
<1>2. /\ {"idle", "over", "test", "fill", "draw", "look", "aside", "restore", "start", "dead"}
           \subseteq Steps
      /\ {"idle", "quit", "restore"} \subseteq Returns
  BY DEF Steps, Returns
<1>3. pc' \in [Threads -> Steps] /\ ret' \in [Threads -> Returns]
  <2>1. CASE TrapInDraw(t)
    <3>1. pc' = [u \in Threads |-> IF t = UI THEN "dead" ELSE IF u = t THEN "idle" ELSE pc[u]]
          /\ ret' = ret
      BY <2>1 DEF TrapInDraw
    <3>2. \A u \in Threads : pc[u] \in Steps
      BY DEF RestOK
    <3> QED BY <1>2, <3>1, <3>2 DEF RestOK
  <2>2. CASE ~TrapInDraw(t)
    BY <1>2, <2>2, GotoType, CallType
      DEF PlayStep, RoundOver, TestArray, EmptyFolder, NewRound, DrawTrack, NoTrackLeft, NoRecord,
          NotPlayable, FoundTrack, PutAside, RestoreArray, StartFails, StartTrack
  <2> QED BY <2>1, <2>2
<1>4. Using(Other(t)) \in BOOLEAN /\ (Free = {}) \in BOOLEAN
  BY DEF Using
<1>5. chosen' \subseteq Records /\ calm' \in BOOLEAN /\ crossed' \in BOOLEAN
  <2>1. CASE UNCHANGED history
    BY <2>1 DEF history, RestOK
  <2>2. CASE Touches(t) \/ NoTrackLeft(t)
    BY <1>4, <2>2, Watching DEF Touches, NoTrackLeft
  <2>3. CASE NewRound(t)
    BY <1>4, <2>3 DEF NewRound
  <2>4. CASE FoundTrack(t)
    BY <2>4, RandomAssumption DEF FoundTrack, RestOK
  <2> QED BY <2>1, <2>2, <2>3, <2>4
        DEF PlayStep, RoundOver, TestArray, EmptyFolder, DrawTrack, TrapInDraw, NoRecord,
            NotPlayable, PutAside, RestoreArray, StartFails, StartTrack
<1>6. array' \in Arrays /\ toPlay' \in 0..MaxObjects /\ played' \in 0..MaxObjects
  <2>1. CASE UNCHANGED round
    BY <2>1 DEF round, RestOK
  <2>2. CASE NewRound(t)
    <3>1. Len(cnr) \in Nat
      BY DEF CnrOK
    <3> QED BY <2>2, <3>1, RandomAssumption DEF NewRound, Arrays
  <2>3. CASE DrawTrack(t)
    <3>1. PICK i \in Free : array' = Marking(i)
      BY <2>3 DEF DrawTrack
    <3>2. i \in 1..MaxObjects
      BY <3>1, RandomAssumption DEF Free, RestOK
    <3> QED BY <2>3, <3>1, <3>2 DEF Marking, DrawTrack, RestOK, Arrays
  <2>4. CASE PutAside(t) \/ RestoreArray(t)
    BY <2>4, NoArrayOK DEF PutAside, RestoreArray, Hidden, RestOK
  <2>5. CASE StartTrack(t)
    BY <2>5, RandomAssumption DEF StartTrack, CountedUp, RestOK
  <2> QED BY <2>1, <2>2, <2>3, <2>4, <2>5
        DEF PlayStep, RoundOver, TestArray, EmptyFolder, NoTrackLeft, TrapInDraw, NoRecord,
            NotPlayable, FoundTrack, StartFails
<1>7. /\ playing' \in Records \cup {Nothing} /\ ended' \in BOOLEAN /\ repeat' \in BOOLEAN
      /\ cnr' = cnr
  BY DEF RestOK, contents, PlayStep, RoundOver, TestArray, EmptyFolder, NewRound, DrawTrack,
         NoTrackLeft, TrapInDraw, NoRecord, NotPlayable, FoundTrack, PutAside, RestoreArray,
         StartFails, StartTrack
<1>8. /\ drawn' \in [Threads -> 0..MaxObjects]
      /\ track' \in [Threads -> Records \cup {Nothing}]
      /\ aside' \in [Threads -> Arrays]
      /\ \A u \in Threads : pc'[u] = "look" => drawn'[u] \in 1..MaxObjects
  <2>1. CASE UNCHANGED locals /\ pc'[t] # "look" /\ pc'[Other(t)] = pc[Other(t)]
    BY <2>1, LookingOn DEF locals, RestOK
  <2>2. CASE DrawTrack(t)
    <3>1. PICK i \in Free : drawn' = [drawn EXCEPT ![t] = i]
      BY <2>2 DEF DrawTrack
    <3>2. i \in 1..MaxObjects /\ i \in 0..MaxObjects
      BY <3>1, RandomAssumption DEF Free, RestOK
    <3>3. \A u \in Threads : pc'[u] = IF u = t THEN "look" ELSE pc[u]
      BY <2>2, Moves DEF DrawTrack
    <3> QED BY <2>2, <3>1, <3>2, <3>3 DEF DrawTrack, RestOK
  <2>3. CASE NoRecord(t) \/ NotPlayable(t) \/ FoundTrack(t)
    <3>1. /\ drawn' = [drawn EXCEPT ![t] = 0] /\ aside' = aside
          /\ track' = track \/ (track' = [track EXCEPT ![t] = cnr[drawn[t]]] /\ cnr[drawn[t]] \in Audio)
      BY <2>3 DEF NoRecord, NotPlayable, FoundTrack
    <3>2. 0 \in 0..MaxObjects
      BY RandomAssumption
    <3>3. \A u \in Threads : pc'[u] = "look" => u # t /\ pc[u] = "look"
      BY <2>3, Moves DEF NoRecord, NotPlayable, FoundTrack
    <3> QED BY <3>1, <3>2, <3>3, RandomAssumption DEF RestOK
  <2>4. CASE PutAside(t) \/ RestoreArray(t) \/ StartFails(t) \/ StartTrack(t)
    <3>1. /\ drawn' = drawn
          /\ track' \in [Threads -> Records \cup {Nothing}]
          /\ aside' \in [Threads -> Arrays]
      BY <2>4, NoArrayOK DEF PutAside, RestoreArray, StartFails, StartTrack, RestOK
    <3>2. pc'[t] # "look" /\ pc'[Other(t)] = pc[Other(t)]
      BY <1>1, <2>4, Moves DEF PutAside, RestoreArray, StartFails, StartTrack
    <3>3. \A u \in Threads : pc'[u] = "look" => drawn'[u] \in 1..MaxObjects
      BY <3>1, <3>2, LookingOn
    <3> QED BY <3>1, <3>3 DEF RestOK
  <2>5. CASE TrapInDraw(t)
    BY <2>5 DEF TrapInDraw, locals, RestOK
  <2>6. CASE RoundOver(t) \/ TestArray(t) \/ EmptyFolder(t) \/ NewRound(t) \/ NoTrackLeft(t)
    BY <1>1, <2>1, <2>6, Moves DEF RoundOver, TestArray, EmptyFolder, NewRound, NoTrackLeft
  <2> QED BY <2>2, <2>3, <2>4, <2>5, <2>6 DEF PlayStep
<1> QED BY <1>3, <1>5, <1>6, <1>7, <1>8 DEF RestOK

LEMMA UserType ==
  ASSUME CnrOK, RestOK,
         \/ Press \/ Tick \/ TrackEnds \/ ToggleRepeat \/ UNCHANGED vars
         \/ \E t \in Threads : Stop(t)
         \/ \E r \in Records : PlayInOrder(r) \/ Delete(r) \/ Insert(r)
  PROVE  RestOK'
<1> USE DEF contents, round, locals, history, vars
<1>1. CASE \/ Press \/ Tick \/ \E t \in Threads : Stop(t)
  <2>1. PICK t \in Threads : PlayRandom(t) \/ Stop(t)
    BY <1>1 DEF Press, Tick, Threads
  <2>2. /\ pc' \in [Threads -> Steps] /\ ret' \in [Threads -> Returns]
        /\ pc'[t] # "look" /\ pc'[Other(t)] = pc[Other(t)]
    <3>1. {"over", "idle"} \subseteq Returns /\ "test" \in Steps
      BY DEF Returns, Steps
    <3>2. Other(t) \in Threads /\ Other(t) # t
      BY Others
    <3> QED BY <2>1, <3>1, <3>2, GotoType, CallType, Moves DEF PlayRandom, Stop
  <2>3. UNCHANGED <<contents, round, locals, history>>
    BY <2>1 DEF PlayRandom, Stop
  <2>4. \A u \in Threads : pc'[u] = "look" => drawn'[u] \in 1..MaxObjects
    BY <2>2, <2>3, LookingOn
  <2> QED BY <2>2, <2>3, <2>4 DEF RestOK
<1>2. CASE TrackEnds \/ ToggleRepeat \/ UNCHANGED vars
  BY <1>2 DEF TrackEnds, ToggleRepeat, RestOK
<1>3. CASE \E r \in Records : PlayInOrder(r)
  <2>1. 0 \in 0..MaxObjects
    BY RandomAssumption
  <2> QED BY <1>3, <2>1, NoArrayOK DEF PlayInOrder, RestOK
<1>4. CASE \E r \in Records : Delete(r) \/ Insert(r)
  <2>1. Watch(FALSE, FALSE)
    BY <1>4 DEF Delete, Insert
  <2>2. chosen' \subseteq Records /\ calm' \in BOOLEAN /\ crossed' \in BOOLEAN
    BY <2>1, Watching
  <2>3. UNCHANGED <<playing, ended, repeat, round, pc, ret, locals>>
    BY <1>4 DEF Delete, Insert
  <2> QED BY <2>2, <2>3 DEF RestOK
<1> QED BY <1>1, <1>2, <1>3, <1>4

-----------------------------------------------------------------------------
(* One thread relies on the round.                                          *)

\* A step of a thread on its own: the other one does not rely on the round.
LEMMA AloneStep ==
  ASSUME RestOK, NEW t \in Threads, ~Deep(Other(t)),
         pc'[Other(t)] = pc[Other(t)], ret'[Other(t)] = ret[Other(t)],
         (pc'[t] = "draw" \/ Drew(t)') => array'.state = "live",
         Away(t)' => /\ array'.state = "null" /\ aside'[t].state = "live"
                     /\ CountOK(aside[t])'
                     /\ played' + 1 <= Cardinality(aside'[t].marked),
         array'.state # "null" => CountOK(array)',
         Drew(t)' => played' + 1 <= Cardinality(array'.marked),
         array'.state = "freed" => pc'[t] = "clear",
         pc'[t] = "clear" => ret'[t] # "restore"
  PROVE  CrossInv'
<1>1. Other(t) \in Threads /\ Other(Other(t)) = t /\ \A u \in Threads : u = t \/ u = Other(t)
  BY Others
<1>2. ~Deep(Other(t))'
  BY DEF Deep
<1>3. ~Away(Other(t))' /\ ~Drew(Other(t))' /\ pc'[Other(t)] \notin {"draw", "clear"}
  BY <1>2 DEF Deep, Away, Drew
<1>4. OneDeep'
  BY <1>1, <1>2 DEF OneDeep
<1>5. HasArray' /\ HasAside' /\ Uncounted'
  BY <1>1, <1>3 DEF HasArray, HasAside, Uncounted
<1>6. Counted' /\ FreedByClear' /\ AsideSafe'
  BY <1>1, <1>3 DEF Counted, FreedByClear, AsideSafe
<1> QED BY <1>4, <1>5, <1>6 DEF CrossInv

\* A step of a thread that does not rely on the round.
LEMMA AsideStep ==
  ASSUME RestOK, CrossInv, NEW t \in Threads, ~Deep(t), ~Deep(t)',
         pc'[Other(t)] = pc[Other(t)], ret'[Other(t)] = ret[Other(t)],
         UNCHANGED <<round, aside>>
  PROVE  CrossInv'
<1> DEFINE o == Other(t)
<1>1. o \in Threads /\ Other(o) = t /\ \A u \in Threads : u = t \/ u = o
  BY Others
<1>2. pc[t] # "clear" /\ ~Away(t)' /\ ~Drew(t)' /\ pc'[t] \notin {"draw", "clear"}
  BY DEF Deep, Away, Drew
<1>3. array' = array /\ toPlay' = toPlay /\ played' = played /\ aside' = aside
  BY DEF round
<1>4. (Deep(o)' <=> Deep(o)) /\ (Away(o)' <=> Away(o)) /\ (Drew(o)' <=> Drew(o))
  BY DEF Deep, Away, Drew
<1> HIDE DEF o
<1>5. OneDeep'
  BY <1>1 DEF OneDeep
<1>6. HasArray' /\ Uncounted' /\ HasAside'
  BY <1>1, <1>2, <1>3, <1>4 DEF o, CrossInv, HasArray, HasAside, Uncounted, CountOK
<1>7. Counted' /\ FreedByClear' /\ AsideSafe'
  BY <1>1, <1>2, <1>3 DEF o, CrossInv, Counted, FreedByClear, AsideSafe, CountOK
<1> QED BY <1>5, <1>6, <1>7 DEF CrossInv

\* cwStopAudioFile
LEMMA StopCross ==
  ASSUME RestOK, ~crossed => CrossInv, NEW t \in Threads, StopStep(t), ~crossed'
  PROVE  CrossInv'
<1> DEFINE o == Other(t)
<1> USE DEF round, locals, history
<1>1. o \in Threads /\ o # t /\ Other(o) = t /\ ret[t] \in Returns
  BY Others DEF RestOK
<1>2. pc'[o] = pc[o] /\ ret'[o] = ret[o]
  BY <1>1, Moves DEF StopStep, NothingToStop, NoRoundToFree, FreeArray, FreedTwice, ClearRound, Silence
<1>3. ASSUME Touches(t)
      PROVE  ~crossed /\ ~Using(o) /\ ~Deep(o)
  <2>1. Using(o) \in BOOLEAN
    BY DEF Using
  <2> QED BY <1>1, <1>3, <2>1, Watching, Outsider DEF Touches
<1>4. CASE FreeArray(t)
  <2>1. CrossInv /\ ~Deep(o) /\ pc[t] = "stop" /\ array.state # "null"
    BY <1>3, <1>4 DEF FreeArray
  <2>2. pc'[t] = "clear" /\ ret'[t] = ret[t] /\ ret[t] # "restore"
    BY <1>4, <2>1, Moves DEF FreeArray, CrossInv, HasAside, Away
  <2>3. array' = [array EXCEPT !.state = "freed"] /\ toPlay' = toPlay /\ played' = played
    BY <1>4 DEF FreeArray
  <2>4. array'.marked = array.marked
    BY <2>3 DEF RestOK, Arrays
  <2>5. CountOK(array)'
    BY <2>1, <2>3, <2>4 DEF CrossInv, Counted, CountOK
  <2> QED BY <1>2, <2>1, <2>2, <2>5, AloneStep DEF Away, Drew
<1>5. CASE ClearRound(t)
  <2>1. CrossInv /\ ~Deep(o) /\ pc[t] = "clear" /\ array' = NoArray
    BY <1>3, <1>5 DEF ClearRound
  <2>2. pc'[t] = "silence" /\ ret'[t] # "restore" /\ array'.state = "null"
    BY <1>5, <2>1, Moves DEF ClearRound, NoArray, CrossInv, AsideSafe
  <2> QED BY <1>2, <2>1, <2>2, AloneStep DEF Away, Drew
<1>6. CASE NothingToStop(t) \/ NoRoundToFree(t) \/ Silence(t) \/ FreedTwice(t)
  <2>1. CrossInv /\ UNCHANGED <<round, aside>> /\ pc[t] \in {"stop", "silence"}
    <3>1. ~crossed
      BY <1>3, <1>6 DEF NothingToStop, NoRoundToFree, Silence, FreedTwice
    <3> QED BY <1>6, <3>1 DEF NothingToStop, NoRoundToFree, Silence, FreedTwice
  <2>2. /\ pc'[t] \in {"idle", "over", "restore", "silence"}
        /\ pc'[t] = "restore" => ret[t] = "restore"
        /\ pc'[t] = "silence" => ret'[t] = ret[t]
    BY <1>1, <1>6, Moves DEF NothingToStop, NoRoundToFree, Silence, FreedTwice, Returns
  <2>3. (Away(t)' => Away(t)) /\ ~Drew(t)' /\ (Deep(t)' => Deep(t))
        /\ pc'[t] \notin {"draw", "clear"}
    BY <2>1, <2>2 DEF Away, Drew, Deep
  <2>4. CASE ~Deep(t)
    BY <1>2, <2>1, <2>3, <2>4, AsideStep
  <2>5. CASE Deep(t)
    <3>1. ~Deep(o)
      BY <2>1, <2>5 DEF CrossInv, OneDeep
    <3>2. pc[o] # "clear" /\ array.state # "freed"
      BY <1>1, <2>1, <3>1, Others DEF Deep, CrossInv, FreedByClear
    <3>3. CountOK(array)' <=> CountOK(array)
      BY <2>1 DEF CountOK
    <3>4. CountOK(aside[t])' <=> CountOK(aside[t])
      BY <2>1 DEF CountOK
    <3>5. Away(t)' => /\ array'.state = "null" /\ aside'[t].state = "live"
                      /\ CountOK(aside[t])'
                      /\ played' + 1 <= Cardinality(aside'[t].marked)
      BY <2>1, <2>3, <3>4 DEF CrossInv, HasAside
    <3> QED BY <1>2, <2>1, <2>3, <3>1, <3>2, <3>3, <3>5, AloneStep DEF CrossInv, Counted
  <2> QED BY <2>4, <2>5
<1> QED BY <1>4, <1>5, <1>6 DEF StopStep

\* Marking one more position.
LEMMA OneMore ==
  ASSUME NEW n \in Nat, NEW M \in SUBSET (1..n), NEW i \in (1..n) \ M
  PROVE  /\ M \cup {i} \subseteq 1..n
         /\ Cardinality(M \cup {i}) = Cardinality(M) + 1 /\ Cardinality(M) \in Nat
         /\ Cardinality(M \cup {i}) <= n
<1>1. IsFiniteSet(M) /\ Cardinality(M) \in Nat
  BY PositionsFinite
<1>2. M \cup {i} \in SUBSET (1..n)
  OBVIOUS
<1>3. Cardinality(M \cup {i}) <= n
  BY <1>2, PositionsFinite
<1> QED BY <1>1, <1>2, <1>3, FS_AddElement

\* cwPlayRandomAudioFile
LEMMA PlayCross ==
  ASSUME CnrOK, RestOK, ~crossed => CrossInv, NEW t \in Threads, PlayStep(t), ~crossed'
  PROVE  CrossInv'
<1> DEFINE o == Other(t)
<1> USE DEF round, locals, history
<1>1. o \in Threads /\ o # t /\ Other(o) = t
  BY Others
<1>2. ASSUME Touches(t)
      PROVE  ~crossed /\ ~Using(o) /\ ~Deep(o) /\ CrossInv
  <2>1. Using(o) \in BOOLEAN
    BY DEF Using
  <2> QED BY <1>1, <1>2, <2>1, Watching, Outsider DEF Touches
<1>3. ASSUME Deep(t), CrossInv
      PROVE  ~Deep(o) /\ (array.state = "freed" => pc[t] = "clear")
  <2>1. ~Deep(o)
    BY <1>3 DEF CrossInv, OneDeep
  <2>2. pc[o] # "clear"
    BY <2>1 DEF Deep
  <2>3. \A u \in Threads : u = t \/ u = o
    BY Others
  <2> QED BY <1>3, <2>1, <2>2, <2>3 DEF CrossInv, FreedByClear
<1>4. CASE RoundOver(t)
  <2>1. /\ CrossInv /\ pc[t] = "over" /\ pc'[t] \in {"test", "idle"} /\ UNCHANGED <<round, aside>>
        /\ pc'[o] = pc[o] /\ ret'[o] = ret[o]
    BY <1>1, <1>4, Moves DEF RoundOver
  <2> QED BY <2>1, AsideStep DEF Deep
<1>5. CASE TestArray(t)
  <2>1. /\ CrossInv /\ ~Deep(o) /\ ~Using(o) /\ pc[t] = "test" /\ UNCHANGED <<round, aside>>
        /\ pc'[t] = (IF array.state = "null" THEN "fill" ELSE "draw")
        /\ pc'[o] = pc[o] /\ ret'[o] = ret[o]
    BY <1>1, <1>2, <1>5, Moves DEF TestArray
  <2>2. pc[o] # "clear" /\ array.state # "freed"
    BY <1>1, <2>1, Others, Outsider DEF CrossInv, FreedByClear
  <2>3. array.state # "null" => array.state = "live"
    BY <2>2 DEF RestOK, Arrays
  <2>4. array.state # "null" => CountOK(array)'
    BY <2>1 DEF CrossInv, Counted, CountOK
  <2>5. ~Away(t)' /\ ~Drew(t)'
    BY <2>1 DEF Away, Drew
  <2> QED BY <2>1, <2>2, <2>3, <2>4, <2>5, AloneStep
<1>6. CASE EmptyFolder(t) \/ StartFails(t) \/ NotPlayable(t)
  <2>1. /\ CrossInv /\ Deep(t) /\ pc[t] \in {"fill", "start", "look"} /\ UNCHANGED <<round, aside>>
        /\ pc'[t] \in {"idle", "draw"} /\ (pc'[t] = "draw" => pc[t] = "look")
        /\ pc'[o] = pc[o] /\ ret'[o] = ret[o]
    BY <1>1, <1>6, Moves DEF EmptyFolder, StartFails, NotPlayable, Deep
  <2>2. ~Away(t)' /\ ~Drew(t)'
    BY <2>1 DEF Away, Drew
  <2>3. pc'[t] = "draw" => array.state = "live"
    BY <2>1 DEF CrossInv, HasArray, Drew
  <2>4. array.state # "null" => CountOK(array)'
    BY <2>1 DEF CrossInv, Counted, CountOK
  <2> QED BY <1>3, <2>1, <2>2, <2>3, <2>4, AloneStep
<1>7. CASE NewRound(t)
  <2>1. ~Using(o)
    BY <1>7 DEF NewRound
  <2>2. /\ pc'[t] = "draw" /\ pc'[o] = pc[o] /\ ret'[o] = ret[o]
        /\ array' = [state |-> "live", marked |-> {}] /\ played' = 0
    BY <1>1, <1>7, Moves DEF NewRound
  <2>3. toPlay' \in 1..MaxObjects
    <3>1. Len(cnr) \in Nat /\ Len(cnr) # 0
      BY <1>7 DEF CnrOK, NewRound
    <3> QED BY <1>7, <3>1, RandomAssumption DEF NewRound
  <2>4. CountOK(array)'
    BY <2>2, <2>3, FS_EmptySet DEF CountOK
  <2> QED BY <1>1, <2>1, <2>2, <2>4, AloneStep, Outsider DEF Away, Drew
<1>8. CASE DrawTrack(t)
  <2>1. /\ CrossInv /\ ~Deep(o) /\ pc[t] = "draw" /\ pc'[t] = "look"
        /\ pc'[o] = pc[o] /\ ret'[o] = ret[o] /\ toPlay' = toPlay /\ played' = played
    BY <1>1, <1>2, <1>8, Moves DEF DrawTrack
  <2>2. array.state = "live" /\ CountOK(array)
    BY <2>1 DEF CrossInv, HasArray, Counted
  <2>3. PICK i \in (1..toPlay) \ array.marked : array' = Marking(i)
    BY <1>8, <2>2 DEF DrawTrack, Free
  <2>4. array'.state = "live" /\ array'.marked = array.marked \cup {i}
    BY <2>2, <2>3 DEF Marking, RestOK, Arrays
  <2>5. toPlay \in Nat /\ played \in Nat /\ array.marked \subseteq 1..toPlay
    BY <2>2, RandomAssumption DEF CountOK, RestOK
  <2>6. /\ array.marked \cup {i} \subseteq 1..toPlay
        /\ played + 1 <= Cardinality(array.marked \cup {i})
        /\ played <= Cardinality(array.marked \cup {i})
    <3>1. /\ array.marked \cup {i} \subseteq 1..toPlay
          /\ Cardinality(array.marked \cup {i}) = Cardinality(array.marked) + 1
          /\ Cardinality(array.marked) \in Nat
      BY <2>5, OneMore
    <3>2. played <= Cardinality(array.marked)
      BY <2>2 DEF CountOK
    <3> QED BY <2>5, <3>1, <3>2
  <2>7. CountOK(array)'
    BY <2>1, <2>2, <2>4, <2>6 DEF CountOK
  <2> QED BY <2>1, <2>4, <2>6, <2>7, AloneStep DEF Away
<1>9. CASE NoTrackLeft(t) \/ NoRecord(t)
  <2>1. /\ CrossInv /\ Deep(t) /\ ~Deep(o) /\ pc[t] \in {"draw", "look"} /\ UNCHANGED <<round, aside>>
    <3>1. ~crossed
      BY <1>9, Watching DEF NoTrackLeft, NoRecord, Using
    <3>2. pc[t] \in {"draw", "look"} /\ UNCHANGED <<round, aside>>
      BY <1>9 DEF NoTrackLeft, NoRecord
    <3> QED BY <1>3, <3>1, <3>2 DEF Deep
  <2>2. /\ pc'[t] = "stop" /\ ret'[t] = "quit"
        /\ pc'[o] = pc[o] /\ ret'[o] = ret[o]
    BY <1>1, <1>9, Moves DEF NoTrackLeft, NoRecord
  <2>3. array.state # "null" => CountOK(array)'
    BY <2>1 DEF CrossInv, Counted, CountOK
  <2> QED BY <1>3, <2>1, <2>2, <2>3, AloneStep DEF Away, Drew
<1>10. CASE TrapInDraw(t)
  <2>1. CrossInv /\ pc[t] = "draw"
    BY <1>10 DEF TrapInDraw
  <2>2. array.state = "live" /\ CountOK(array)
    BY <2>1 DEF CrossInv, HasArray, Counted
  <2>3. toPlay # 0
    BY <2>2, RandomAssumption DEF CountOK
  <2> QED BY <1>10, <2>2, <2>3 DEF TrapInDraw, CanDraw
<1>11. CASE FoundTrack(t)
  <2>1. /\ CrossInv /\ Deep(t) /\ pc[t] = "look" /\ UNCHANGED <<round, aside>>
        /\ pc'[t] = "aside"
        /\ pc'[o] = pc[o] /\ ret'[o] = ret[o]
    BY <1>1, <1>11, Moves DEF FoundTrack, Deep
  <2>2. array.state = "live" /\ CountOK(array)' /\ played' + 1 <= Cardinality(array'.marked)
    BY <2>1 DEF CrossInv, HasArray, Uncounted, Counted, CountOK, Drew
  <2> QED BY <1>3, <2>1, <2>2, AloneStep DEF Away
<1>12. CASE PutAside(t)
  <2>1. /\ CrossInv /\ ~Deep(o) /\ pc[t] = "aside" /\ toPlay' = toPlay /\ played' = played
        /\ pc'[t] = "stop" /\ ret'[t] = "restore" /\ array' = NoArray /\ aside'[t] = array
        /\ pc'[o] = pc[o] /\ ret'[o] = ret[o]
    BY <1>1, <1>2, <1>12, Moves DEF PutAside, Hidden, RestOK
  <2>2. array.state = "live" /\ CountOK(array) /\ played + 1 <= Cardinality(array.marked)
    BY <2>1 DEF CrossInv, HasArray, Uncounted, Counted, Drew
  <2>3. array'.state = "null" /\ CountOK(aside[t])'
    BY <2>1, <2>2 DEF NoArray, CountOK
  <2> QED BY <2>1, <2>2, <2>3, AloneStep DEF Drew
<1>13. CASE RestoreArray(t)
  <2>1. /\ CrossInv /\ ~Deep(o) /\ pc[t] = "restore" /\ toPlay' = toPlay /\ played' = played
        /\ pc'[t] = "start" /\ array' = aside[t]
        /\ pc'[o] = pc[o] /\ ret'[o] = ret[o]
    BY <1>1, <1>2, <1>13, Moves DEF RestoreArray
  <2>2. /\ aside[t].state = "live" /\ CountOK(aside[t])
        /\ played + 1 <= Cardinality(aside[t].marked)
    BY <2>1 DEF CrossInv, HasAside, Away
  <2>3. CountOK(array)'
    BY <2>1, <2>2 DEF CountOK
  <2> QED BY <2>1, <2>2, <2>3, AloneStep DEF Away
<1>14. CASE StartTrack(t)
  <2>1. /\ CrossInv /\ Deep(t) /\ pc[t] = "start" /\ array' = array /\ toPlay' = toPlay
        /\ played' = CountedUp /\ pc'[t] = "idle"
        /\ pc'[o] = pc[o] /\ ret'[o] = ret[o]
    BY <1>1, <1>14, Moves DEF StartTrack, Deep
  <2>2. array.state = "live" /\ CountOK(array) /\ played + 1 <= Cardinality(array.marked)
    BY <2>1 DEF CrossInv, HasArray, Uncounted, Counted, Drew
  <2>3. toPlay \in Nat /\ played \in Nat
    BY RandomAssumption DEF RestOK
  <2>4. Cardinality(array.marked) \in Nat
    BY <2>2, <2>3, PositionsFinite DEF CountOK
  <2>5. played' <= Cardinality(array.marked)
    BY <2>1, <2>2, <2>3, <2>4 DEF CountedUp
  <2>6. CountOK(array)'
    BY <2>1, <2>2, <2>5 DEF CountOK
  <2> QED BY <1>3, <2>1, <2>2, <2>6, AloneStep DEF Away, Drew
<1> QED BY <1>4, <1>5, <1>6, <1>7, <1>8, <1>9, <1>10, <1>11, <1>12, <1>13, <1>14 DEF PlayStep

-----------------------------------------------------------------------------
(* Turns.                                                                   *)

\* A thread that does not look does not matter to what is kept.
LEMMA KeptMore ==
  ASSUME NEW a, NEW b, Kept(a), UNCHANGED <<cnr, toPlay, chosen>>, b.marked = a.marked,
         \A t \in Threads : pc[t] = "look" =>
            \/ pc'[t] = "look" /\ drawn'[t] = drawn[t]
            \/ drawn[t] \in DOMAIN cnr => cnr[drawn[t]] \notin Audio
  PROVE  Kept(b)'
BY DEF Kept

\* A step of a thread that leaves the round and its history alone and does not
\* draw.
LEMMA CalmStep ==
  ASSUME RestOK, CalmInv, NEW t \in Threads,
         pc'[Other(t)] = pc[Other(t)], ret'[Other(t)] = ret[Other(t)],
         UNCHANGED <<cnr, array, toPlay, aside, chosen>>,
         drawn'[Other(t)] = drawn[Other(t)],
         pc'[t] # "look", Away(t)' => Away(t),
         pc[t] = "look" => (drawn[t] \in DOMAIN cnr => cnr[drawn[t]] \notin Audio),
         GivesUp(t)' => AllMarked
  PROVE  CalmInv'
<1> DEFINE o == Other(t)
<1>1. o \in Threads /\ \A u \in Threads : u = t \/ u = o
  BY Others
<1>2. (Away(o)' <=> Away(o)) /\ (GivesUp(o)' <=> GivesUp(o))
  BY DEF Away, GivesUp
<1> HIDE DEF o
<1>3. \A u \in Threads : pc[u] = "look" =>
            \/ pc'[u] = "look" /\ drawn'[u] = drawn[u]
            \/ drawn[u] \in DOMAIN cnr => cnr[drawn[u]] \notin Audio
  BY <1>1 DEF o
<1>4. KeptHere'
  BY <1>3, KeptMore DEF CalmInv, KeptHere
<1>5. KeptAside'
  BY <1>1, <1>2, <1>3, KeptMore DEF CalmInv, KeptAside
<1>6. FreshDraw'
  BY <1>1 DEF o, CalmInv, FreshDraw
<1>7. AllMarked => AllMarked'
  BY <1>1 DEF o, AllMarked
<1>8. GivenUp'
  BY <1>1, <1>2, <1>7 DEF CalmInv, GivenUp
<1> QED BY <1>4, <1>5, <1>6, <1>8 DEF CalmInv

\* What a calm step of a thread alone has to keep.
LEMMA CalmAlone ==
  ASSUME NEW t \in Threads, pc'[Other(t)] \notin {"look", "restore"},
         ~Away(Other(t))', ~GivesUp(Other(t))' \/ AllMarked',
         KeptHere', Away(t)' => Kept(aside[t])',
         pc'[t] = "look" => /\ drawn'[t] \in array'.marked
                            /\ drawn'[t] \in DOMAIN cnr' => cnr'[drawn'[t]] \notin chosen',
         ~GivesUp(t)' \/ AllMarked'
  PROVE  CalmInv'
<1>1. \A u \in Threads : u = t \/ u = Other(t)
  BY Others
<1> QED BY <1>1 DEF CalmInv, KeptAside, FreshDraw, GivenUp

\* cwStopAudioFile
LEMMA StopCalm ==
  ASSUME RestOK, calm => ~crossed /\ CrossInv /\ CalmInv, NEW t \in Threads, StopStep(t), calm'
  PROVE  ~crossed' /\ CalmInv'
<1> DEFINE o == Other(t)
<1> USE DEF contents, round, locals, history
<1>1. o \in Threads /\ o # t /\ Other(o) = t /\ ret[t] \in Returns
  BY Others DEF RestOK
<1>2. pc'[o] = pc[o] /\ ret'[o] = ret[o]
  BY <1>1, Moves DEF StopStep, NothingToStop, NoRoundToFree, FreeArray, FreedTwice, ClearRound, Silence
<1>3. ASSUME Touches(t)
      PROVE  calm /\ ~crossed' /\ ~Using(o) /\ chosen' = chosen
  <2>1. Using(o) \in BOOLEAN
    BY DEF Using
  <2> QED BY <1>3, <2>1, Watching DEF Touches
<1>4. calm /\ ~crossed' /\ CrossInv /\ CalmInv /\ chosen' = chosen
  <2>1. Touches(t) \/ UNCHANGED history
    BY DEF StopStep, NothingToStop, NoRoundToFree, FreeArray, FreedTwice, ClearRound, Silence
  <2>2. calm /\ ~crossed' /\ chosen' = chosen
    <3>1. CASE Touches(t)
      BY <1>3, <3>1
    <3>2. CASE UNCHANGED history
      <4>1. calm' = calm /\ crossed' = crossed /\ chosen' = chosen
        BY <3>2
      <4>2. calm
        BY <4>1
      <4> QED BY <4>1, <4>2
    <3> QED BY <2>1, <3>1, <3>2
  <2> QED BY <2>2
<1>5. cnr' = cnr /\ UNCHANGED <<drawn, aside>> /\ pc[t] # "look"
  BY DEF StopStep, NothingToStop, NoRoundToFree, FreeArray, FreedTwice, ClearRound, Silence
<1>6. CASE NothingToStop(t) \/ NoRoundToFree(t) \/ Silence(t) \/ FreedTwice(t)
  <2>1. UNCHANGED <<round, aside>> /\ pc[t] \in {"stop", "silence"}
    BY <1>6 DEF NothingToStop, NoRoundToFree, Silence, FreedTwice
  <2>2. /\ pc'[t] \in {"idle", "over", "restore", "silence"}
        /\ pc'[t] = "restore" => ret[t] = "restore"
        /\ pc'[t] = "silence" => ret'[t] = ret[t]
    <3>1. CASE NoRoundToFree(t)
      BY <3>1, Moves DEF NoRoundToFree
    <3>2. CASE Return(t)
      BY <1>1, <3>2, Moves DEF Returns
    <3> QED BY <1>6, <3>1, <3>2 DEF NothingToStop, Silence, FreedTwice
  <2>3. (Away(t)' => Away(t)) /\ pc'[t] # "look" /\ ~GivesUp(t)'
    BY <2>1, <2>2 DEF Away, GivesUp
  <2> QED BY <1>2, <1>4, <1>5, <2>1, <2>3, CalmStep
<1>7. CASE FreeArray(t)
  <2>1. /\ ~Using(o) /\ pc'[t] = "clear" /\ array' = [array EXCEPT !.state = "freed"]
        /\ array.state # "null" /\ toPlay' = toPlay
    BY <1>3, <1>7, Moves DEF FreeArray
  <2>2. array'.marked = array.marked
    BY <2>1 DEF RestOK, Arrays
  <2>3. \A u \in Threads : pc[u] # "look"
    BY <1>1, <1>5, <2>1, Others, Outsider
  <2>4. KeptHere'
    BY <1>4, <1>5, <2>1, <2>2, <2>3, KeptMore DEF CalmInv, KeptHere
  <2>5. ~Away(o)' /\ ~GivesUp(o)' /\ pc'[o] \notin {"look", "restore"}
    BY <1>1, <1>2, <2>1, Outsider DEF Away, GivesUp
  <2> QED BY <1>4, <2>1, <2>4, <2>5, CalmAlone DEF Away, GivesUp
<1>8. CASE ClearRound(t)
  <2>1. ~Using(o) /\ pc'[t] = "silence" /\ ret'[t] = ret[t] /\ pc[t] = "clear" /\ array' = NoArray
    BY <1>3, <1>8, Moves DEF ClearRound
  <2>2. array'.state = "null" /\ ret[t] # "restore"
    BY <1>4, <2>1 DEF NoArray, CrossInv, AsideSafe
  <2>3. ~Away(o)' /\ ~GivesUp(o)' /\ pc'[o] \notin {"look", "restore"}
    BY <1>1, <1>2, <2>1, Outsider DEF Away, GivesUp
  <2> QED BY <1>4, <2>1, <2>2, <2>3, CalmAlone DEF Away, GivesUp, KeptHere
<1> QED BY <1>6, <1>7, <1>8 DEF StopStep

\* cwPlayRandomAudioFile
LEMMA PlayCalm ==
  ASSUME CnrOK, RestOK, calm => ~crossed /\ CrossInv /\ CalmInv, NEW t \in Threads, PlayStep(t), calm'
  PROVE  ~crossed' /\ CalmInv'
<1> DEFINE o == Other(t)
<1> USE DEF contents, round, locals, history
<1>1. o \in Threads /\ o # t /\ Other(o) = t /\ \A u \in Threads : u = t \/ u = o
  BY Others
<1>2. ASSUME Touches(t)
      PROVE  /\ calm /\ ~crossed' /\ ~Using(o) /\ chosen' = chosen /\ CrossInv /\ CalmInv
             /\ ~Deep(o) /\ ~Away(o) /\ ~GivesUp(o) /\ pc[o] \notin {"look", "restore"}
  <2>1. Using(o) \in BOOLEAN
    BY DEF Using
  <2>2. calm /\ ~crossed' /\ ~Using(o) /\ chosen' = chosen
    BY <1>2, <2>1, Watching DEF Touches
  <2> QED BY <1>1, <2>2, Outsider DEF Away
<1>3. cnr' = cnr
  BY DEF PlayStep, RoundOver, TestArray, EmptyFolder, NewRound, DrawTrack, NoTrackLeft, TrapInDraw,
         NoRecord, NotPlayable, FoundTrack, PutAside, RestoreArray, StartFails, StartTrack
<1>4. CASE RoundOver(t) \/ EmptyFolder(t) \/ StartFails(t) \/ StartTrack(t) \/ NotPlayable(t)
  <2>1. /\ calm /\ ~crossed' /\ UNCHANGED <<cnr, array, toPlay, aside, chosen>>
        /\ pc[t] \in {"over", "fill", "start", "look"}
        /\ pc[t] = "look" => (drawn[t] \in DOMAIN cnr => cnr[drawn[t]] \notin Audio)
        /\ drawn'[o] = drawn[o]
    <3>1. drawn' = drawn \/ drawn' = [drawn EXCEPT ![t] = 0]
      BY <1>4 DEF RoundOver, EmptyFolder, StartFails, StartTrack, NotPlayable
    <3>2. drawn'[o] = drawn[o]
      BY <1>1, <3>1 DEF RestOK
    <3>3. UNCHANGED <<cnr, array, toPlay, aside, chosen, calm, crossed>>
      BY <1>4 DEF RoundOver, EmptyFolder, StartFails, StartTrack, NotPlayable
    <3>4. /\ pc[t] \in {"over", "fill", "start", "look"}
          /\ pc[t] = "look" => (drawn[t] \in DOMAIN cnr => cnr[drawn[t]] \notin Audio)
      BY <1>4 DEF RoundOver, EmptyFolder, StartFails, StartTrack, NotPlayable
    <3>5. calm /\ ~crossed'
      <4>1. calm' = calm /\ crossed' = crossed
        BY <3>3
      <4>2. calm
        BY <4>1
      <4> QED BY <4>1, <4>2
    <3> QED BY <3>2, <3>3, <3>4, <3>5
  <2>2. pc'[o] = pc[o] /\ ret'[o] = ret[o] /\ pc'[t] \in {"test", "idle", "draw"}
    BY <1>1, <1>4, Moves DEF RoundOver, EmptyFolder, StartFails, StartTrack, NotPlayable
  <2> QED BY <2>1, <2>2, CalmStep DEF Away, GivesUp
<1>5. CASE TestArray(t)
  <2>1. /\ calm /\ ~crossed' /\ CalmInv /\ UNCHANGED <<cnr, array, toPlay, aside, chosen, drawn>>
        /\ pc[t] = "test"
    BY <1>2, <1>5 DEF TestArray
  <2>2. pc'[o] = pc[o] /\ ret'[o] = ret[o] /\ pc'[t] \in {"fill", "draw"}
    BY <1>1, <1>5, Moves DEF TestArray
  <2> QED BY <2>1, <2>2, CalmStep DEF Away, GivesUp
<1>6. CASE NewRound(t)
  <2>1. ~Using(o) /\ ~crossed' /\ chosen' = {} /\ array' = [state |-> "live", marked |-> {}]
    BY <1>6 DEF NewRound, RestOK
  <2>2. pc'[t] = "draw" /\ pc'[o] = pc[o] /\ ret'[o] = ret[o]
    BY <1>1, <1>6, Moves DEF NewRound
  <2>3. toPlay' <= Len(cnr')
    BY <1>3, <1>6, RandomAssumption DEF NewRound, CnrOK
  <2>4. KeptHere'
    BY <2>1, <2>3 DEF KeptHere, Kept
  <2>5. ~Away(o)' /\ ~GivesUp(o)' /\ pc'[o] \notin {"look", "restore"}
    BY <1>1, <2>1, <2>2, Outsider DEF Away, GivesUp
  <2> QED BY <2>1, <2>2, <2>4, <2>5, CalmAlone DEF Away, GivesUp
<1>7. CASE DrawTrack(t)
  <2>1. /\ pc[t] = "draw" /\ pc'[t] = "look" /\ pc'[o] = pc[o] /\ ret'[o] = ret[o]
        /\ toPlay' = toPlay
    BY <1>1, <1>7, Moves DEF DrawTrack
  <2>2. array.state = "live" /\ Kept(array)
    BY <1>2, <1>7, <2>1 DEF CrossInv, HasArray, CalmInv, KeptHere, DrawTrack
  <2>3. PICK i \in (1..toPlay) \ array.marked :
          array' = Marking(i) /\ drawn' = [drawn EXCEPT ![t] = i]
    BY <1>7, <2>2 DEF DrawTrack, Free
  <2>4. /\ array'.state = "live" /\ array'.marked = array.marked \cup {i}
        /\ drawn'[t] = i
    BY <2>2, <2>3 DEF Marking, RestOK, Arrays
  <2>5. \A u \in Threads : pc[u] # "look"
    BY <1>1, <1>2, <1>7, <2>1 DEF DrawTrack
  <2>6. i \in DOMAIN cnr => cnr[i] \notin chosen
    BY <2>2, <2>3 DEF Kept
  <2>7. Kept(array)'
    BY <1>2, <1>3, <1>7, <2>1, <2>2, <2>4, <2>5 DEF Kept, DrawTrack
  <2>8. ~Away(o)' /\ ~GivesUp(o)' /\ pc'[o] \notin {"look", "restore"}
    BY <1>2, <1>7, <2>1 DEF Away, GivesUp, DrawTrack
  <2>9. chosen' = chosen /\ ~crossed'
    BY <1>2, <1>7 DEF DrawTrack
  <2> QED BY <1>3, <2>1, <2>4, <2>6, <2>7, <2>8, <2>9, CalmAlone DEF Away, GivesUp, KeptHere
<1>8. CASE NoTrackLeft(t)
  <2>1. calm /\ Free = {} /\ ~Using(o) /\ ~crossed' /\ chosen' = chosen
    <3>1. Using(o) \in BOOLEAN /\ (Free = {}) \in BOOLEAN
      BY DEF Using
    <3> QED BY <1>8, <3>1, Watching DEF NoTrackLeft
  <2>2. /\ pc[t] = "draw" /\ pc'[t] = "stop" /\ pc'[o] = pc[o] /\ ret'[o] = ret[o] /\ ret'[t] = "quit"
        /\ UNCHANGED <<cnr, array, toPlay, aside, drawn>>
    BY <1>1, <1>8, Moves DEF NoTrackLeft
  <2>3. \A u \in Threads : pc[u] # "look"
    BY <1>1, <2>1, <2>2, Outsider
  <2>4. array.state = "live" /\ CountOK(array)
    BY <2>1, <2>2 DEF CrossInv, HasArray, Counted
  <2>5. array.marked = 1..toPlay
    BY <2>1, <2>4 DEF Free, CountOK
  <2>6. AllMarked
    BY <2>3, <2>5 DEF AllMarked
  <2> QED BY <2>1, <2>2, <2>6, CalmStep DEF Away
<1>9. CASE TrapInDraw(t)
  <2>1. calm /\ pc[t] = "draw"
    BY <1>9 DEF TrapInDraw
  <2>2. array.state = "live" /\ CountOK(array)
    BY <2>1 DEF CrossInv, HasArray, Counted
  <2> QED BY <1>9, <2>2, RandomAssumption DEF TrapInDraw, CanDraw, CountOK
<1>10. CASE NoRecord(t)
  <2>1. calm /\ pc[t] = "look" /\ drawn[t] > Len(cnr)
    BY <1>10 DEF NoRecord
  <2>2. array.state = "live" /\ CountOK(array) /\ Kept(array) /\ drawn[t] \in array.marked
    BY <2>1 DEF CrossInv, HasArray, Drew, Counted, CalmInv, KeptHere, FreshDraw
  <2>3. drawn[t] \in 1..toPlay /\ toPlay <= Len(cnr) /\ Len(cnr) \in Nat /\ toPlay \in Nat
    BY <2>2, RandomAssumption DEF CountOK, Kept, CnrOK, RestOK
  <2> QED BY <2>1, <2>3
<1>11. CASE FoundTrack(t)
  <2>1. /\ calm /\ ~crossed' /\ pc[t] = "look" /\ drawn[t] <= Len(cnr) /\ cnr[drawn[t]] \in Audio
        /\ chosen' = chosen \cup {cnr[drawn[t]]} /\ UNCHANGED <<array, toPlay, aside>>
    BY <1>11 DEF FoundTrack
  <2>2. pc'[t] = "aside" /\ pc'[o] = pc[o] /\ ret'[o] = ret[o]
    BY <1>1, <1>11, Moves DEF FoundTrack
  <2>3. array.state = "live" /\ Kept(array) /\ drawn[t] \in array.marked
    BY <2>1 DEF CrossInv, HasArray, Drew, CalmInv, KeptHere, FreshDraw
  <2>4. drawn[t] \in DOMAIN cnr
    <3>1. drawn[t] \in 1..MaxObjects /\ Len(cnr) \in Nat /\ DOMAIN cnr = 1..Len(cnr)
      BY <2>1 DEF RestOK, CnrOK
    <3> QED BY <2>1, <3>1, RandomAssumption
  <2>5. \A j \in DOMAIN cnr : cnr[j] = cnr[drawn[t]] => j = drawn[t]
    BY <2>4 DEF CnrOK
  <2>6. ~Deep(o) /\ pc[o] # "look"
    <3>1. ~Deep(o)
      BY <2>1 DEF CrossInv, OneDeep, Deep
    <3> QED BY <3>1 DEF Deep
  <2>7. ASSUME NEW i \in DOMAIN cnr
        PROVE  /\ cnr[i] \in chosen' => i \in array.marked
               /\ (i \in array.marked /\ cnr[i] \in Audio) => cnr[i] \in chosen'
    <3>1. cnr[i] \in chosen' => i \in array.marked
      BY <2>1, <2>3, <2>5, <2>7 DEF Kept
    <3>2. ASSUME i \in array.marked, cnr[i] \in Audio, cnr[i] \notin chosen
          PROVE  cnr[i] \in chosen'
      <4>1. PICK u \in Threads : pc[u] = "look" /\ drawn[u] = i
        BY <2>3, <2>7, <3>2 DEF Kept
      <4>2. u = t
        BY <1>1, <2>6, <4>1
      <4> QED BY <2>1, <4>1, <4>2
    <3> QED BY <2>1, <3>1, <3>2
  <2>8. Kept(array)'
    BY <1>3, <2>1, <2>3, <2>7 DEF Kept
  <2>9. ~Away(o)' /\ ~GivesUp(o)' /\ pc'[o] \notin {"look", "restore"}
    <3>1. ~GivesUp(o)
      BY <1>1, <2>1, <2>3 DEF CalmInv, GivenUp, AllMarked
    <3> QED BY <2>2, <2>6, <3>1 DEF Away, GivesUp, Deep
  <2> QED BY <2>1, <2>2, <2>8, <2>9, CalmAlone DEF Away, GivesUp, KeptHere
<1>12. CASE PutAside(t)
  <2>1. /\ pc[t] = "aside" /\ toPlay' = toPlay /\ drawn' = drawn
        /\ pc'[t] = "stop" /\ ret'[t] = "restore" /\ array' = NoArray /\ aside'[t] = array
        /\ pc'[o] = pc[o] /\ ret'[o] = ret[o]
    BY <1>1, <1>12, Moves DEF PutAside, Hidden, RestOK
  <2>2. Touches(t)
    BY <1>12 DEF PutAside
  <2>3. array.state = "live" /\ Kept(array)
    BY <1>2, <2>1, <2>2 DEF CrossInv, HasArray, Drew, CalmInv, KeptHere
  <2>4. \A u \in Threads : pc[u] # "look"
    BY <1>1, <1>2, <2>1, <2>2
  <2>5. Kept(aside[t])'
    BY <1>2, <1>3, <2>1, <2>2, <2>3, <2>4, KeptMore
  <2>6. array'.state = "null"
    BY <2>1 DEF NoArray
  <2>7. ~Away(o)' /\ ~GivesUp(o)' /\ pc'[o] \notin {"look", "restore"}
    BY <1>2, <2>1, <2>2 DEF Away, GivesUp
  <2> QED BY <1>2, <2>1, <2>2, <2>5, <2>6, <2>7, CalmAlone DEF GivesUp, KeptHere
<1>13. CASE RestoreArray(t)
  <2>1. /\ pc[t] = "restore" /\ toPlay' = toPlay /\ drawn' = drawn
        /\ pc'[t] = "start" /\ array' = aside[t]
        /\ pc'[o] = pc[o] /\ ret'[o] = ret[o]
    BY <1>1, <1>13, Moves DEF RestoreArray
  <2>2. Touches(t)
    BY <1>13 DEF RestoreArray
  <2>3. Kept(aside[t])
    BY <1>2, <2>1, <2>2 DEF CalmInv, KeptAside, Away
  <2>4. \A u \in Threads : pc[u] # "look"
    BY <1>1, <1>2, <2>1, <2>2
  <2>5. Kept(array)'
    BY <1>2, <1>3, <2>1, <2>2, <2>3, <2>4, KeptMore
  <2>6. ~Away(o)' /\ ~GivesUp(o)' /\ pc'[o] \notin {"look", "restore"}
    BY <1>2, <2>1, <2>2 DEF Away, GivesUp
  <2> QED BY <1>2, <2>1, <2>2, <2>5, <2>6, CalmAlone DEF Away, GivesUp, KeptHere
<1> QED BY <1>4, <1>5, <1>6, <1>7, <1>8, <1>9, <1>10, <1>11, <1>12, <1>13 DEF PlayStep

-----------------------------------------------------------------------------
(* The folder's contents.                                                   *)

\* A container from which a record is removed is a container.
LEMMA WithoutOK ==
  ASSUME CnrOK, NEW i \in DOMAIN cnr, cnr' = Without(cnr, i)
  PROVE  CnrOK'
<1>1. Len(cnr) \in Nat /\ DOMAIN cnr = 1..Len(cnr) /\ i \in 1..Len(cnr)
  BY DEF CnrOK
<1>2. \A k \in 1..Len(cnr)-1 : k \in DOMAIN cnr /\ k+1 \in DOMAIN cnr /\ k \in Int
  BY <1>1
<1>3. cnr' = [k \in 1..Len(cnr)-1 |-> IF k < i THEN cnr[k] ELSE cnr[k+1]]
  BY DEF Without
<1>4. cnr' \in Seq(Records)
  <2>1. \A k \in DOMAIN cnr : cnr[k] \in Records
    BY DEF CnrOK
  <2>2. cnr' \in [1..Len(cnr)-1 -> Records]
    BY <1>2, <1>3, <2>1
  <2>3. Len(cnr) - 1 \in Nat
    BY <1>1
  <2> QED BY <2>2, <2>3
<1>5. \A j, k \in DOMAIN cnr' : cnr'[j] = cnr'[k] => j = k
  <2>1. DOMAIN cnr' = 1..Len(cnr)-1
    BY <1>3
  <2> TAKE j, k \in DOMAIN cnr'
  <2>2. j \in Int /\ k \in Int
    BY <1>1, <2>1
  <2>3. /\ cnr'[j] = cnr[IF j < i THEN j ELSE j+1]
        /\ cnr'[k] = cnr[IF k < i THEN k ELSE k+1]
    BY <1>3, <2>1
  <2>4. (IF j < i THEN j ELSE j+1) \in DOMAIN cnr /\ (IF k < i THEN k ELSE k+1) \in DOMAIN cnr
    BY <1>2, <2>1
  <2> HAVE cnr'[j] = cnr'[k]
  <2>5. (IF j < i THEN j ELSE j+1) = (IF k < i THEN k ELSE k+1)
    BY <2>3, <2>4 DEF CnrOK
  <2> QED BY <1>1, <2>2, <2>5
<1> QED BY <1>4, <1>5 DEF CnrOK

\* So is one that gets another record.
LEMMA AppendOK ==
  ASSUME CnrOK, NEW r \in Records, r \notin Here, cnr' = Append(cnr, r)
  PROVE  CnrOK'
<1>1. cnr' \in Seq(Records) /\ Len(cnr') = Len(cnr) + 1 /\ cnr'[Len(cnr) + 1] = r
  BY DEF CnrOK
<1>2. \A k \in 1..Len(cnr) : cnr'[k] = cnr[k] /\ cnr[k] # r
  BY DEF CnrOK, Here
<1>3. \A j, k \in DOMAIN cnr' : cnr'[j] = cnr'[k] => j = k
  BY <1>1, <1>2 DEF CnrOK
<1> QED BY <1>1, <1>3 DEF CnrOK

-----------------------------------------------------------------------------
(* The theorems.                                                            *)

LEMMA RandomInit == Init => RandomInv
<1> SUFFICES ASSUME Init PROVE RandomInv
  OBVIOUS
<1>1. CnrOK
  <2>1. Cardinality(Records) \in Nat
    BY RandomAssumption, FS_CardinalityType
  <2>2. cnr \in [1..Cardinality(Records) -> Records]
    BY DEF Init
  <2>3. \A i, j \in DOMAIN cnr : cnr[i] = cnr[j] => i = j
    BY DEF Init
  <2>4. cnr \in Seq(Records)
    BY <2>1, <2>2
  <2> QED BY <2>3, <2>4 DEF CnrOK
<1>2. RestOK
  <2>1. 0 \in 0..MaxObjects /\ "idle" \in Steps /\ "idle" \in Returns
    BY RandomAssumption DEF Steps, Returns
  <2> QED BY <2>1, NoArrayOK DEF Init, RestOK
<1>3. array.state = "null" /\ \A t \in Threads : pc[t] = "idle"
  BY DEF Init, NoArray
<1>4. CrossInv /\ CalmInv
  BY <1>3 DEF CrossInv, OneDeep, HasArray, HasAside, Counted, Uncounted, FreedByClear, AsideSafe,
              CalmInv, KeptHere, KeptAside, FreshDraw, GivenUp, Deep, Away, Drew, GivesUp
<1> QED BY <1>1, <1>2, <1>4 DEF RandomInv, Init

\* A play command or a stop begins.
LEMMA BeginKeeps ==
  ASSUME RandomInv, NEW t \in Threads, PlayRandom(t) \/ Stop(t)
  PROVE  (~crossed' => CrossInv') /\ (calm' => ~crossed' /\ CalmInv')
<1> DEFINE o == Other(t)
<1>1. o \in Threads /\ o # t /\ \A u \in Threads : u = t \/ u = o
  BY Others
<1>2. RestOK
  BY DEF RandomInv
<1>3. pc[t] = "idle" /\ UNCHANGED <<contents, round, locals, history>>
  BY DEF PlayRandom, Stop
<1>4. /\ pc'[o] = pc[o] /\ ret'[o] = ret[o]
      /\ \/ pc'[t] = "test"
         \/ pc'[t] = "stop" /\ ret'[t] = "idle"
         \/ pc'[t] = "stop" /\ ret'[t] = "over" /\ LastTrack
  BY <1>1, <1>2, Moves DEF PlayRandom, Stop
<1>5. ~Deep(t) /\ ~Deep(t)' /\ ~Away(t)'
  BY <1>3, <1>4 DEF Deep, Away
<1>6. ASSUME ~crossed PROVE CrossInv'
  BY <1>2, <1>3, <1>4, <1>5, <1>6, AsideStep DEF RandomInv, locals
<1>7. ASSUME calm PROVE CalmInv'
  <2>1. CrossInv /\ CalmInv
    BY <1>7 DEF RandomInv
  <2>2. ASSUME GivesUp(t)'
        PROVE  AllMarked
    <3>1. LastTrack
      BY <1>4, <2>2 DEF GivesUp
    <3>2. CountOK(array) /\ played >= toPlay /\ toPlay \in Nat /\ played \in Nat
      BY <1>2, <2>1, <3>1, RandomAssumption DEF LastTrack, CrossInv, Counted, RestOK
    <3>3. /\ array.marked \in SUBSET (1..toPlay) /\ played <= Cardinality(array.marked)
          /\ Cardinality(array.marked) \in Nat /\ Cardinality(array.marked) <= toPlay
      BY <3>2, PositionsFinite DEF CountOK
    <3>4. array.marked = 1..toPlay
      <4>1. Cardinality(array.marked) = toPlay
        BY <3>2, <3>3
      <4> QED BY <3>2, <3>3, <4>1, AllOfThem
    <3>5. \A u \in Threads : pc[u] # "look"
      BY <2>1, <3>2, <3>3 DEF CrossInv, Uncounted, Drew
    <3> QED BY <3>4, <3>5 DEF AllMarked
  <2> QED BY <1>2, <1>3, <1>4, <1>5, <2>1, <2>2, CalmStep DEF contents, round, locals, history
<1> QED BY <1>3, <1>6, <1>7 DEF RandomInv, history

LEMMA RandomNext == RandomInv /\ [Next]_vars => RandomInv'
<1> SUFFICES ASSUME RandomInv, [Next]_vars PROVE RandomInv'
  OBVIOUS
<1> DEFINE Rest == (~crossed' => CrossInv') /\ (calm' => ~crossed' /\ CalmInv')
<1>1. CnrOK /\ RestOK /\ (~crossed => CrossInv) /\ (calm => ~crossed /\ CrossInv /\ CalmInv)
  BY DEF RandomInv
<1>2. CASE \E t \in Threads : StopStep(t)
  <2>1. PICK t \in Threads : StopStep(t)
    BY <1>2
  <2>2. cnr' = cnr
    BY <2>1 DEF contents, StopStep, NothingToStop, NoRoundToFree, FreeArray, FreedTwice, ClearRound,
                Silence
  <2> QED BY <1>1, <2>1, <2>2, StopType, StopCross, StopCalm DEF RandomInv, CnrOK
<1>3. CASE \E t \in Threads : PlayStep(t)
  <2>1. PICK t \in Threads : PlayStep(t)
    BY <1>3
  <2>2. cnr' = cnr
    BY <2>1 DEF contents, PlayStep, RoundOver, TestArray, EmptyFolder, NewRound, DrawTrack,
                NoTrackLeft, TrapInDraw, NoRecord, NotPlayable, FoundTrack, PutAside, RestoreArray,
                StartFails, StartTrack
  <2> QED BY <1>1, <2>1, <2>2, PlayType, PlayCross, PlayCalm DEF RandomInv, CnrOK
<1>4. CASE \/ Press \/ Tick \/ \E t \in Threads : Stop(t)
  <2>1. PICK t \in Threads : PlayRandom(t) \/ Stop(t)
    BY <1>4 DEF Press, Tick, Threads
  <2>2. cnr' = cnr
    BY <2>1 DEF PlayRandom, Stop, contents
  <2>3. RestOK'
    BY <1>1, <1>4, UserType
  <2> QED BY <1>1, <2>1, <2>2, <2>3, BeginKeeps DEF RandomInv, CnrOK
<1>5. CASE TrackEnds \/ ToggleRepeat \/ UNCHANGED vars
  <2>1. RestOK'
    BY <1>1, <1>5, UserType
  <2>2. UNCHANGED <<cnr, array, toPlay, played, pc, ret, drawn, aside, chosen, calm, crossed>>
    BY <1>5 DEF TrackEnds, ToggleRepeat, vars, contents, round, locals, history
  <2>3. \A t \in Threads : (Deep(t)' <=> Deep(t)) /\ (Away(t)' <=> Away(t)) /\ (Drew(t)' <=> Drew(t))
                            /\ (GivesUp(t)' <=> GivesUp(t))
    BY <2>2 DEF Deep, Away, Drew, GivesUp
  <2>4. CrossInv => CrossInv'
    <3>1. /\ OneDeep => OneDeep'
          /\ HasArray => HasArray'
          /\ Counted => Counted'
          /\ Uncounted => Uncounted'
      BY <2>2, <2>3, Others DEF OneDeep, HasArray, Counted, Uncounted, CountOK
    <3>2. /\ HasAside => HasAside'
          /\ FreedByClear => FreedByClear'
          /\ AsideSafe => AsideSafe'
      BY <2>2, <2>3 DEF HasAside, FreedByClear, AsideSafe, CountOK
    <3> QED BY <3>1, <3>2 DEF CrossInv
  <2>5. CalmInv => CalmInv'
    BY <2>2, <2>3 DEF CalmInv, KeptHere, KeptAside, FreshDraw, GivenUp, AllMarked, Kept
  <2> QED BY <1>1, <2>1, <2>2, <2>4, <2>5 DEF RandomInv, CnrOK
<1>6. CASE \E r \in Records : PlayInOrder(r)
  <2>1. RestOK'
    BY <1>1, <1>6, UserType
  <2>2. /\ \A t \in Threads : pc[t] = "idle" /\ pc'[t] = "idle"
        /\ UNCHANGED <<cnr, chosen, calm, crossed>>
        /\ UNCHANGED round \/ array' = NoArray
    BY <1>6 DEF PlayInOrder, locals, history
  <2>3. ASSUME ~crossed PROVE CrossInv'
    <3>1. array'.state # "null" => CountOK(array)' /\ array'.state # "freed"
      BY <1>1, <2>2, <2>3 DEF round, NoArray, CrossInv, Counted, CountOK, FreedByClear
    <3> QED BY <2>2, <3>1 DEF CrossInv, OneDeep, HasArray, HasAside, Counted, Uncounted,
                              FreedByClear, AsideSafe, Deep, Away, Drew, NoArray
  <2>4. ASSUME calm PROVE CalmInv'
    <3>1. KeptHere'
      BY <1>1, <2>2, <2>4 DEF round, NoArray, CalmInv, KeptHere, Kept
    <3> QED BY <2>2, <3>1 DEF CalmInv, KeptAside, FreshDraw, GivenUp, GivesUp, Away
  <2> QED BY <1>1, <2>1, <2>2, <2>3, <2>4 DEF RandomInv, CnrOK
<1>7. CASE \E r \in Records : Delete(r) \/ Insert(r)
  <2>1. RestOK'
    BY <1>1, <1>7, UserType
  <2>2. CnrOK'
    BY <1>1, <1>7, WithoutOK, AppendOK DEF Delete, Insert
  <2>3. /\ ~calm' /\ crossed' = crossed
        /\ UNCHANGED <<array, toPlay, played, pc, ret, drawn, aside>>
    BY <1>1, <1>7 DEF Delete, Insert, Watch, round, locals, RestOK
  <2>4. \A t \in Threads : (Deep(t)' <=> Deep(t)) /\ (Away(t)' <=> Away(t)) /\ (Drew(t)' <=> Drew(t))
    BY <2>3 DEF Deep, Away, Drew
  <2>5. CrossInv => CrossInv'
    <3>1. /\ OneDeep => OneDeep'
          /\ HasArray => HasArray'
          /\ Counted => Counted'
          /\ Uncounted => Uncounted'
      BY <2>3, <2>4, Others DEF OneDeep, HasArray, Counted, Uncounted, CountOK
    <3>2. /\ HasAside => HasAside'
          /\ FreedByClear => FreedByClear'
          /\ AsideSafe => AsideSafe'
      BY <2>3, <2>4 DEF HasAside, FreedByClear, AsideSafe, CountOK
    <3> QED BY <3>1, <3>2 DEF CrossInv
  <2> QED BY <1>1, <2>1, <2>2, <2>3, <2>5 DEF RandomInv
<1> QED BY <1>2, <1>3, <1>4, <1>5, <1>6, <1>7 DEF Next

LEMMA RandomAlways == Spec => []RandomInv
<1> QED BY RandomInit, RandomNext, PTL DEF Spec

\* The variables keep their types.
THEOREM TypeCorrect == Spec => []TypeOK
<1>1. RandomInv => TypeOK
  BY DEF RandomInv, CnrOK, RestOK, TypeOK
<1> QED BY <1>1, RandomAlways, PTL

\* No draw divides by zero or leaves the array in a round that no two threads
\* have used at a time: whatever happened before it and to the contents.
THEOREM DrawAlwaysDefined == Spec => []DrawIsDefined
<1>1. ASSUME RandomInv, ~crossed, NEW t \in Threads, pc[t] = "draw"
      PROVE  /\ array.state = "live" /\ toPlay \in 1..MaxObjects
             /\ array.marked \subseteq 1..toPlay
  BY <1>1 DEF RandomInv, CrossInv, HasArray, Counted, CountOK
<1>2. RandomInv => DrawIsDefined
  BY <1>1 DEF DrawIsDefined
<1> QED BY <1>2, RandomAlways, PTL

\* A track that has been found in a calm round is not found again.
THEOREM NoTrackTwice == Spec => EveryTrackOnce
<1> DEFINE Once == calm => \A t \in Threads : track'[t] # track[t] => track'[t] \notin chosen
<1>1. ASSUME RandomInv, Next, calm, NEW t \in Threads, track'[t] # track[t]
      PROVE  track'[t] \notin chosen
  <2>1. RestOK /\ CalmInv /\ Nothing \notin chosen
    BY <1>1, RandomAssumption DEF RandomInv, RestOK
  <2>2. CASE \E u \in Threads : FoundTrack(u)
    <3>1. PICK u \in Threads : FoundTrack(u)
      BY <2>2
    <3>2. u = t /\ track'[t] = cnr[drawn[t]]
      BY <1>1, <2>1, <3>1 DEF FoundTrack, RestOK
    <3>3. pc[t] = "look" /\ drawn[t] <= Len(cnr) /\ drawn[t] \in 1..MaxObjects
      BY <2>1, <3>1, <3>2 DEF FoundTrack, RestOK
    <3>4. drawn[t] \in DOMAIN cnr
      <4>1. Len(cnr) \in Nat /\ DOMAIN cnr = 1..Len(cnr)
        BY <1>1 DEF RandomInv, CnrOK
      <4> QED BY <3>3, <4>1, RandomAssumption
    <3> QED BY <2>1, <3>2, <3>3, <3>4 DEF CalmInv, FreshDraw
  <2>3. CASE \E u \in Threads : StartFails(u) \/ StartTrack(u)
    <3>1. track'[t] = Nothing
      BY <1>1, <2>1, <2>3 DEF StartFails, StartTrack, RestOK
    <3> QED BY <2>1, <3>1
  <2>4. CASE UNCHANGED track
    BY <1>1, <2>4
  <2> QED BY <1>1, <2>2, <2>3, <2>4
        DEF Next, Press, Tick, PlayRandom, Stop, TrackEnds, ToggleRepeat, PlayInOrder, Delete, Insert,
            locals, StopStep, NothingToStop, NoRoundToFree, FreeArray, FreedTwice, ClearRound, Silence,
            PlayStep, RoundOver, TestArray, EmptyFolder, NewRound, DrawTrack, NoTrackLeft, TrapInDraw,
            NoRecord, NotPlayable, PutAside, RestoreArray
<1>2. RandomInv /\ [Next]_vars => [Once]_vars
  BY <1>1
<1> QED BY <1>2, RandomAlways, PTL DEF Spec, EveryTrackOnce

\* A calm round that the random player gives up has had every track it covers.
THEOREM RoundAlwaysComplete == Spec => RoundIsComplete
<1> DEFINE All == \A i \in 1..toPlay : cnr[i] \in Audio => cnr[i] \in chosen
<1>1. ASSUME RandomInv, Next, calm, NEW t \in Threads, pc[t] = "stop", pc'[t] = "clear",
             ret[t] # "idle"
      PROVE  All
  <2>1. CnrOK /\ RestOK /\ CrossInv /\ CalmInv /\ ret[t] \in Returns
    BY <1>1 DEF RandomInv, RestOK
  <2>2. FreeArray(t)
    <3>1. CASE \E u \in Threads : StopStep(u)
      <4>1. PICK u \in Threads : StopStep(u)
        BY <3>1
      <4>2. u = t
        BY <1>1, <2>1, <4>1, Moves DEF StopStep, NothingToStop, NoRoundToFree, FreeArray, FreedTwice,
                                       ClearRound, Silence
      <4>3. ~NoRoundToFree(t) /\ ~ClearRound(t)
        BY <1>1, <2>1, Moves DEF NoRoundToFree, ClearRound
      <4>4. ~Return(t)
        BY <1>1, <2>1, Moves DEF Returns
      <4> QED BY <4>1, <4>2, <4>3, <4>4 DEF StopStep, NothingToStop, FreedTwice, Silence
    <3>2. CASE \E u \in Threads : PlayStep(u)
      <4>1. PICK u \in Threads : PlayStep(u)
        BY <3>2
      <4>2. u # t
        BY <1>1, <4>1 DEF PlayStep, RoundOver, TestArray, EmptyFolder, NewRound, DrawTrack,
                          NoTrackLeft, TrapInDraw, NoRecord, NotPlayable, FoundTrack, PutAside,
                          RestoreArray, StartFails, StartTrack
      <4>3. pc'[t] \in {pc[t], "dead"}
        <5>1. CASE TrapInDraw(u)
          BY <4>2, <5>1 DEF TrapInDraw
        <5>2. CASE ~TrapInDraw(u)
          BY <2>1, <4>1, <4>2, <5>2, Moves
             DEF PlayStep, RoundOver, TestArray, EmptyFolder, NewRound, DrawTrack, NoTrackLeft,
                 NoRecord, NotPlayable, FoundTrack, PutAside, RestoreArray, StartFails, StartTrack
        <5> QED BY <5>1, <5>2
      <4> QED BY <1>1, <4>3
    <3>3. CASE Press \/ Tick \/ \E u \in Threads : Stop(u)
      <4>1. PICK u \in Threads : PlayRandom(u) \/ Stop(u)
        BY <3>3 DEF Press, Tick, Threads
      <4>2. pc'[t] \in {pc[t], "stop", "test"}
        BY <2>1, <4>1, Moves DEF PlayRandom, Stop
      <4> QED BY <1>1, <4>2
    <3>4. CASE \/ TrackEnds \/ ToggleRepeat
               \/ \E r \in Records : PlayInOrder(r) \/ Delete(r) \/ Insert(r)
      BY <1>1, <3>4 DEF TrackEnds, ToggleRepeat, PlayInOrder, Delete, Insert
    <3> QED BY <1>1, <3>1, <3>2, <3>3, <3>4 DEF Next
  <2>3. array.state # "null" /\ Kept(array) /\ CountOK(array)
    BY <2>1, <2>2 DEF FreeArray, CalmInv, KeptHere, CrossInv, Counted
  <2>4. ret[t] \in {"over", "quit"}
    BY <1>1, <2>1, <2>3 DEF Returns, CrossInv, HasAside, Away
  <2>5. array.marked = 1..toPlay /\ \A u \in Threads : pc[u] # "look"
    BY <1>1, <2>1, <2>3, <2>4 DEF CalmInv, GivenUp, GivesUp, AllMarked
  <2>6. 1..toPlay \subseteq DOMAIN cnr
    <3>1. toPlay <= Len(cnr) /\ Len(cnr) \in Nat /\ toPlay \in Nat /\ DOMAIN cnr = 1..Len(cnr)
      BY <2>1, <2>3, RandomAssumption DEF Kept, CnrOK, RestOK
    <3> QED BY <3>1
  <2> QED BY <2>3, <2>5, <2>6 DEF Kept
<1>2. RandomInv /\ [Next]_vars
        => [calm /\ (\E t \in Threads : pc[t] = "stop" /\ pc'[t] = "clear" /\ ret[t] # "idle")
              => All]_vars
  BY <1>1
<1> QED BY <1>2, RandomAlways, PTL DEF Spec, RoundIsComplete
=============================================================================
