------------------------- MODULE PlaylistEditor_proofs -------------------------
(***************************************************************************)
(* Theorems about PlaylistEditor: for any tracks and any bounds, and every *)
(* kind of impatience that the property does not exclude.                  *)
(***************************************************************************)
EXTENDS PlaylistEditor, FiniteSetTheorems, SequenceTheorems, WellFoundedInduction, TLAPS

-----------------------------------------------------------------------------
(* The inductive invariant, in parts.                                      *)

\* The contracts of the properties.
Loads == Patient({"close while loading"})
Orderly == Patient(Impatience \ {"save while loading", "close while loading"})

Messages == {"WM_CLOSE", "WM_APPTERMINATENOTIFY"}
Waiting(m) == \E i \in 1..Len(queue) : queue[i] = m

\* What is a record, a function or a sequence of what.
Shapes ==
  /\ DOMAIN savers = Slots /\ DOMAIN loader = {"pc", "left"}
  /\ \A s \in Slots : DOMAIN savers[s] = {"pc", "closes", "cnr", "at", "out"}
  /\ queue \in Seq(Messages) /\ boxes \in Nat

\* The folder and its handler window come and go together, and nothing is posted to
\* them before or after.
Together ==
  /\ folder \in {"none", "alive"} /\ handler \in {"none", "waits", "timer"}
  /\ (folder = "none") <=> (handler = "none")
  /\ handler = "none" => ~window /\ queue = <<>>

\* A thread that closes the folder has set fClosing.
Closers ==
  \A s \in Slots :
    /\ savers[s].pc \in {"post", "report"} => savers[s].closes
    /\ savers[s].closes /\ savers[s].pc # "off" => closing

\* The end is not reported before the frame has been told to close.
Ordered ==
  window =>
    /\ (\E s \in Slots : savers[s].pc = "report") => Waiting("WM_CLOSE")
    /\ \A i \in 1..Len(queue) : queue[i] = "WM_APPTERMINATENOTIFY" =>
         closing /\ \E j \in 1..i-1 : queue[j] = "WM_CLOSE"

\* A folder that is being closed has been filled, and one that does not exist is not.
Filled ==
  Loads /\ (queue # <<>> \/ boxes > 0 \/ closing \/ handler # "waits")
    => ~Loading

\* One thing at a time: a question, a thread that writes, the end.
OneWay ==
  Orderly =>
    /\ boxes > 0 => /\ boxes = 1 /\ ~closing /\ ~Saving /\ handler = "waits"
                    /\ ~Waiting("WM_CLOSE")
    /\ ~closing => /\ Waiting("WM_CLOSE") => ~Saving
                   /\ \A i, j \in 1..Len(queue) :
                        queue[i] = "WM_CLOSE" /\ queue[j] = "WM_CLOSE" => i = j
    /\ Waiting("WM_APPTERMINATENOTIFY") \/ handler = "timer" => closing /\ ~Saving
    /\ Saving => handler = "waits"
    /\ \A r, s \in Slots : savers[r].pc # "off" /\ savers[s].pc # "off" => r = s

EditInv ==
  Shapes /\ Together /\ Closers /\ Ordered /\ Filled /\ OneWay /\ InUseWhileOpen

-----------------------------------------------------------------------------
(* The queue of the UI thread.                                             *)

\* A queue without messages, a message that is added, and one that is taken.
LEMMA Posts ==
  \A q \in Seq(Messages), m \in Messages :
    /\ Append(q, m) \in Seq(Messages) /\ Len(Append(q, m)) = Len(q)+1 /\ Len(q) \in Nat
    /\ Append(q, m)[Len(q)+1] = m /\ \A i \in 1..Len(q) : Append(q, m)[i] = q[i]
    /\ Append(q, m) # <<>>
OBVIOUS

LEMMA Takings ==
  \A q \in Seq(Messages) : q # <<>> =>
    /\ Tail(q) \in Seq(Messages) /\ Len(Tail(q)) = Len(q)-1 /\ Len(q) \in Nat \ {0}
    /\ Head(q) = q[1] /\ \A i \in 1..Len(q)-1 : Tail(q)[i] = q[i+1]
OBVIOUS

\* What is left for the handler window was there for it before.
LEMMA Leaves ==
  \A q \in Seq(Messages) :
    /\ ForHandler(q) \in Seq(Messages)
    /\ \A i \in 1..Len(ForHandler(q)) : ForHandler(q)[i] = "WM_APPTERMINATENOTIFY"
    /\ (\A i \in 1..Len(q) : q[i] # "WM_APPTERMINATENOTIFY") => ForHandler(q) = <<>>
    /\ q = <<>> => ForHandler(q) = <<>>
<1> SUFFICES ASSUME NEW q \in Seq(Messages)
             PROVE  /\ ForHandler(q) \in Seq(Messages)
                    /\ \A i \in 1..Len(ForHandler(q)) : ForHandler(q)[i] = "WM_APPTERMINATENOTIFY"
                    /\ (\A i \in 1..Len(q) : q[i] # "WM_APPTERMINATENOTIFY") => ForHandler(q) = <<>>
                    /\ q = <<>> => ForHandler(q) = <<>>
  OBVIOUS
<1> DEFINE J == {j \in 1..Len(q) : q[j] # "WM_CLOSE"}
           n == Cardinality(J)
<1>1. IsFiniteSet(1..Len(q))
  BY FS_Interval
<1>2. IsFiniteSet(J) /\ n \in Nat
  BY <1>1, FS_Subset, FS_CardinalityType
<1>3. ForHandler(q) = [i \in 1..n |-> "WM_APPTERMINATENOTIFY"]
  BY DEF ForHandler
<1> HIDE DEF n
<1>4. ForHandler(q) \in Seq(Messages) /\ Len(ForHandler(q)) = n
      /\ \A i \in 1..n : ForHandler(q)[i] = "WM_APPTERMINATENOTIFY"
  BY <1>2, <1>3 DEF Messages
<1>5. ASSUME \A i \in 1..Len(q) : q[i] # "WM_APPTERMINATENOTIFY"
      PROVE  ForHandler(q) = <<>>
  <2>1. J = {}
    BY <1>5 DEF Messages
  <2>2. n = 0
    BY <2>1, FS_EmptySet DEF n
  <2> QED BY <1>4, <2>2
<1> QED BY <1>4, <1>5

\* The first states satisfy the invariant.
LEMMA EditInit == Init => EditInv
<1> SUFFICES ASSUME Init PROVE EditInv
  OBVIOUS
<1>1. \A s \in Slots : savers[s].pc = "off" /\ ~savers[s].closes
  BY DEF Init, NoSaver
<1>2. queue = <<>> /\ Len(queue) = 0 /\ queue \in Seq(Messages)
  BY DEF Init
<1>3. Shapes
  BY <1>2 DEF Init, Shapes, NoSaver, NotLoading
<1>4. Together /\ Closers /\ Ordered /\ InUseWhileOpen
  BY <1>1, <1>2 DEF Init, Together, Closers, Ordered, InUseWhileOpen
<1>5. Filled
  BY <1>2 DEF Init, Filled, Loading, NotLoading
<1>6. OneWay
  BY <1>1, <1>2 DEF Init, OneWay, Saving, Waiting
<1> QED BY <1>3, <1>4, <1>5, <1>6 DEF EditInv

\* What the contracts make a user wait for.
LEMMA Waitings ==
  /\ Loads => Waits("close while loading")
  /\ Orderly => /\ Waits("edit while saving") /\ Waits("close while saving")
                /\ Waits("close again") /\ Waits("save while asked")
<1>1. Loads => Waits("close while loading")
  BY DEF Loads, Patient, Waits
<1>2. ASSUME Orderly,
             NEW h \in {"edit while saving", "close while saving", "close again", "save while asked"}
      PROVE  Waits(h)
  <2>1. h \in Impatience \ {"save while loading", "close while loading"}
    BY DEF Impatience
  <2> QED BY <1>2, <2>1 DEF Orderly, Patient, Waits
<1> QED BY <1>1, <1>2

LEMMA ContractStays == haste' = haste => (Loads' <=> Loads) /\ (Orderly' <=> Orderly)
BY DEF Loads, Orderly, Patient

-----------------------------------------------------------------------------
(* Steps.                                                                  *)

\* What the user does to the contents, and what the script does, changes nothing that
\* the end of the editor depends on, except that the script has filled the folder.
LEMMA ContentsKeep ==
  ASSUME EditInv,
         UNCHANGED <<haste, folder, window, closing, boxes, savers, queue, handler, inUse>>,
         DOMAIN loader' = {"pc", "left"}, Loading' => Loading
  PROVE  EditInv'
<1>1. (Loads' <=> Loads) /\ (Orderly' <=> Orderly)
  BY ContractStays
<1>2. Saving' <=> Saving
  BY DEF Saving
<1>3. \A m : Waiting(m)' <=> Waiting(m)
  BY DEF Waiting
<1>4. Shapes' /\ Together' /\ Closers' /\ InUseWhileOpen'
  BY DEF EditInv, Shapes, Together, Closers, InUseWhileOpen
<1>5. Ordered'
  BY <1>3 DEF EditInv, Ordered
<1>6. Filled'
  BY <1>1 DEF EditInv, Filled
<1>7. OneWay'
  BY <1>1, <1>2, <1>3 DEF EditInv, OneWay
<1> QED BY <1>4, <1>5, <1>6, <1>7 DEF EditInv

LEMMA OpenKeeps == ASSUME EditInv, Open PROVE EditInv'
<1>1. /\ folder = "none" /\ ~Saving /\ boxes = 0
      /\ folder' = "alive" /\ window' = TRUE /\ closing' = FALSE /\ handler' = "waits"
      /\ inUse' = TRUE /\ queue' = <<>> /\ UNCHANGED <<haste, boxes, savers>>
      /\ loader' = [pc |-> "read", left |-> <<>>]
  BY DEF Open, outside
<1>2. \A s \in Slots : savers[s].pc = "off"
  BY <1>1 DEF Saving
<1>3. queue' \in Seq(Messages) /\ Len(queue') = 0
  BY <1>1
<1>4. ~Saving' /\ \A m : ~Waiting(m)'
  BY <1>1, <1>2, <1>3 DEF Saving, Waiting
<1>5. Shapes' /\ Together' /\ InUseWhileOpen'
  BY <1>1, <1>3 DEF EditInv, Shapes, Together, InUseWhileOpen
<1>6. Closers' /\ Ordered'
  BY <1>1, <1>2, <1>3 DEF EditInv, Closers, Ordered
<1>7. Filled'
  BY <1>1 DEF Filled
<1>8. OneWay'
  BY <1>1, <1>2, <1>3, <1>4 DEF OneWay
<1> QED BY <1>5, <1>6, <1>7, <1>8 DEF EditInv

-----------------------------------------------------------------------------
(* The threads that write the list.                                        *)

\* A thread that is started: nobody else writes, or nothing is asked of the user.
LEMMA StartKeeps ==
  ASSUME EditInv, NEW c \in BOOLEAN, StartSaver(c),
         UNCHANGED <<haste, folder, window, loader, queue, handler, inUse>>,
         boxes' \in Nat, boxes' <= boxes, c => closing', ~c => closing' = closing,
         Loads /\ c => ~Loading,
         Orderly => /\ ~Saving /\ handler = "waits" /\ boxes' = 0 /\ ~Waiting("WM_CLOSE")
                     /\ ~closing
  PROVE  EditInv'
<1>1. PICK s \in Slots :
        /\ savers[s].pc = "off"
        /\ savers' = [savers EXCEPT ![s] = [pc |-> "begin", closes |-> c, cnr |-> window,
                                            at |-> NoTrack, out |-> <<>>]]
  BY DEF StartSaver
<1>2. /\ DOMAIN savers' = Slots /\ savers'[s].pc = "begin" /\ savers'[s].closes = c
      /\ DOMAIN savers'[s] = {"pc", "closes", "cnr", "at", "out"}
      /\ \A r \in Slots \ {s} : savers'[r] = savers[r]
  BY <1>1 DEF EditInv, Shapes
<1>3. \A m : Waiting(m)' <=> Waiting(m)
  BY DEF Waiting
<1>4. (Loads' <=> Loads) /\ (Orderly' <=> Orderly)
  BY ContractStays
<1>5. Shapes' /\ Together' /\ InUseWhileOpen'
  BY <1>2 DEF EditInv, Shapes, Together, InUseWhileOpen
<1>6. Closers'
  BY <1>2 DEF EditInv, Closers
<1>7. Ordered'
  BY <1>2, <1>3 DEF EditInv, Ordered
<1>8. Filled'
  BY <1>4 DEF EditInv, Shapes, Filled, Loading
<1>9. OneWay'
  <2>1. SUFFICES ASSUME Orderly PROVE OneWay'
    BY <1>4 DEF OneWay
  <2>2. /\ ~Saving /\ handler' = "waits" /\ boxes' = 0
        /\ ~Waiting("WM_CLOSE")' /\ ~Waiting("WM_APPTERMINATENOTIFY")'
    BY <1>3, <2>1 DEF EditInv, OneWay
  <2>3. \A r \in Slots : savers'[r].pc # "off" => r = s
    BY <1>2, <2>2 DEF Saving
  <2>4. \A i \in 1..Len(queue') : queue'[i] # "WM_CLOSE"
    BY <2>2 DEF Waiting
  <2> QED BY <2>2, <2>3, <2>4 DEF OneWay
<1> QED BY <1>5, <1>6, <1>7, <1>8, <1>9 DEF EditInv

\* "Save" in the menu, and the answer Yes.
LEMMA SaveKeeps == ASSUME EditInv, Save \/ AnswerYes PROVE EditInv'
<1>1. CASE Save
  <2>1. /\ window /\ queue = <<>> /\ StartSaver(FALSE)
        /\ UNCHANGED <<haste, folder, window, closing, boxes, loader, queue, handler, inUse>>
    BY <1>1 DEF Save, Ready, outside, folderVars, msgVars
  <2>2. /\ Waits("edit while saving") => ~Saving /\ ~closing
        /\ Waits("save while asked") => boxes = 0
    BY <1>1 DEF Save
  <2>3. handler \in {"waits", "timer"}
    BY <2>1 DEF EditInv, Together
  <2>4. boxes' \in Nat /\ boxes' <= boxes
    BY <2>1 DEF EditInv, Shapes
  <2>5. ~Waiting("WM_CLOSE")
    BY <2>1 DEF Waiting
  <2>6. Orderly => ~Saving /\ handler = "waits" /\ boxes' = 0 /\ ~closing
    BY <2>1, <2>3, <2>5, <2>2, Waitings DEF EditInv, OneWay
  <2> QED BY <2>1, <2>5, <2>6, <2>4, StartKeeps
<1>2. CASE AnswerYes
  <2>1. /\ boxes > 0 /\ boxes' = boxes - 1 /\ StartSaver(TRUE) /\ closing' = TRUE
        /\ UNCHANGED <<haste, folder, window, loader, queue, handler, inUse>>
    BY <1>2 DEF AnswerYes, outside, msgVars
  <2>2. Loads => ~Loading
    BY <2>1 DEF EditInv, Filled
  <2>3. Orderly => /\ ~Saving /\ handler = "waits" /\ boxes' = 0 /\ ~Waiting("WM_CLOSE") /\ ~closing
    BY <2>1 DEF EditInv, OneWay
  <2>4. boxes' \in Nat /\ boxes' <= boxes
    BY <2>1 DEF EditInv, Shapes
  <2> QED BY <2>1, <2>2, <2>3, <2>4, StartKeeps
<1> QED BY <1>1, <1>2

\* A thread that asks, writes, ends, and does not post anything.
LEMMA WriteKeeps ==
  ASSUME EditInv, NEW s \in Slots, savers[s].pc # "off",
         DOMAIN savers' = Slots, \A r \in Slots \ {s} : savers'[r] = savers[r],
         DOMAIN savers'[s] = {"pc", "closes", "cnr", "at", "out"},
         savers'[s].pc # "off" => savers'[s].closes = savers[s].closes,
         savers'[s].pc = "post" => savers[s].closes, savers'[s].pc # "report",
         UNCHANGED <<haste, folder, window, closing, boxes, loader, queue, handler, inUse>>
  PROVE  EditInv'
<1>1. \A m : Waiting(m)' <=> Waiting(m)
  BY DEF Waiting
<1>2. (Loads' <=> Loads) /\ (Orderly' <=> Orderly)
  BY ContractStays
<1>3. Shapes' /\ Together' /\ InUseWhileOpen'
  BY DEF EditInv, Shapes, Together, InUseWhileOpen
<1>4. Closers'
  BY DEF EditInv, Closers
<1>5. Ordered'
  BY <1>1 DEF EditInv, Ordered
<1>6. Filled'
  BY <1>2 DEF EditInv, Filled, Loading
<1>7. Saving
  BY DEF Saving
<1>8. OneWay'
  <2>1. SUFFICES ASSUME Orderly PROVE OneWay'
    BY <1>2 DEF OneWay
  <2>2. \A r, t \in Slots : savers'[r].pc # "off" /\ savers'[t].pc # "off" => r = t
    BY <2>1 DEF EditInv, OneWay
  <2> QED BY <1>1, <1>7, <2>1, <2>2 DEF EditInv, OneWay
<1> QED BY <1>3, <1>4, <1>5, <1>6, <1>8 DEF EditInv

\* The thread tells the frame to close.
LEMMA AsksCloseKeeps == ASSUME EditInv, NEW s \in Slots, SaveAsksClose(s) PROVE EditInv'
<1>1. /\ savers[s].pc = "post" /\ savers' = [savers EXCEPT ![s].pc = "report"]
      /\ UNCHANGED <<haste, folder, window, closing, boxes, loader, handler, inUse>>
      /\ queue' = IF window THEN Append(queue, "WM_CLOSE") ELSE queue
  BY DEF SaveAsksClose, At, Goes, PostClose, outside, folderVars
<1>2. /\ DOMAIN savers' = Slots /\ savers'[s].pc = "report"
      /\ savers'[s].closes = savers[s].closes
      /\ DOMAIN savers'[s] = {"pc", "closes", "cnr", "at", "out"}
      /\ \A r \in Slots \ {s} : savers'[r] = savers[r]
  BY <1>1 DEF EditInv, Shapes
<1>3. queue \in Seq(Messages) /\ "WM_CLOSE" \in Messages
  BY DEF EditInv, Shapes, Messages
<1>4. closing /\ savers[s].closes /\ Saving
  BY <1>1 DEF EditInv, Closers, Saving
<1>5. (Loads' <=> Loads) /\ (Orderly' <=> Orderly)
  BY <1>1, ContractStays
<1>6. handler = "none" => ~window
  BY DEF EditInv, Together
<1>7. /\ queue' \in Seq(Messages) /\ (handler = "none" => queue' = queue)
      /\ window => queue' = Append(queue, "WM_CLOSE")
  BY <1>1, <1>3, <1>6, Posts
<1>8. Shapes' /\ Together' /\ InUseWhileOpen'
  BY <1>1, <1>2, <1>7 DEF EditInv, Shapes, Together, InUseWhileOpen
<1>9. Closers'
  BY <1>1, <1>2, <1>4 DEF EditInv, Closers
<1>10. Ordered'
  <2>1. SUFFICES ASSUME window
                 PROVE  /\ Waiting("WM_CLOSE")'
                        /\ \A i \in 1..Len(queue') : queue'[i] = "WM_APPTERMINATENOTIFY" =>
                             closing /\ \E j \in 1..i-1 : queue'[j] = "WM_CLOSE"
    BY <1>1 DEF Ordered
  <2>2. /\ Len(queue') = Len(queue)+1 /\ Len(queue) \in Nat /\ queue'[Len(queue)+1] = "WM_CLOSE"
        /\ \A i \in 1..Len(queue) : queue'[i] = queue[i]
    BY <1>3, <1>7, <2>1, Posts
  <2>3. Waiting("WM_CLOSE")'
    BY <2>2 DEF Waiting
  <2>4. ASSUME NEW i \in 1..Len(queue'), queue'[i] = "WM_APPTERMINATENOTIFY"
        PROVE  \E j \in 1..i-1 : queue'[j] = "WM_CLOSE"
    <3>1. i \in 1..Len(queue) /\ queue[i] = "WM_APPTERMINATENOTIFY"
      BY <2>2, <2>4
    <3>2. PICK j \in 1..i-1 : queue[j] = "WM_CLOSE"
      BY <2>1, <3>1 DEF EditInv, Ordered
    <3> QED BY <2>2, <3>1, <3>2
  <2> QED BY <1>4, <2>3, <2>4
<1>11. Filled'
  BY <1>1, <1>4, <1>5 DEF EditInv, Filled, Loading
<1>12. OneWay'
  <2>1. SUFFICES ASSUME Orderly PROVE OneWay'
    BY <1>5 DEF OneWay
  <2>2. /\ ~Waiting("WM_APPTERMINATENOTIFY") /\ ~(boxes > 0) /\ handler = "waits"
    BY <1>4, <2>1 DEF EditInv, OneWay
  <2>3. ~Waiting("WM_APPTERMINATENOTIFY")'
    <3>1. CASE window
      <4>1. /\ Len(queue') = Len(queue)+1 /\ Len(queue) \in Nat /\ queue'[Len(queue)+1] = "WM_CLOSE"
            /\ \A i \in 1..Len(queue) : queue'[i] = queue[i]
        BY <1>3, <1>7, <3>1, Posts
      <4> QED BY <2>2, <4>1 DEF Waiting
    <3>2. CASE ~window
      BY <1>1, <2>2, <3>2 DEF Waiting
    <3> QED BY <3>1, <3>2
  <2>4. \A r, t \in Slots : savers'[r].pc # "off" /\ savers'[t].pc # "off" => r = t
    BY <1>1, <1>2, <2>1 DEF EditInv, OneWay
  <2> QED BY <1>1, <1>4, <2>2, <2>3, <2>4 DEF OneWay
<1> QED BY <1>8, <1>9, <1>10, <1>11, <1>12 DEF EditInv

\* The thread reports the end.
LEMMA ReportsKeeps == ASSUME EditInv, NEW s \in Slots, SaveReports(s) PROVE EditInv'
<1>1. /\ savers[s].pc = "report" /\ savers' = [savers EXCEPT ![s] = NoSaver]
      /\ UNCHANGED <<haste, folder, window, closing, boxes, loader, handler, inUse>>
      /\ queue' = IF handler # "none" THEN Append(queue, "WM_APPTERMINATENOTIFY") ELSE queue
  BY DEF SaveReports, At, PostEnd, outside, folderVars
<1>2. /\ DOMAIN savers' = Slots /\ savers'[s].pc = "off" /\ savers'[s].closes = FALSE
      /\ DOMAIN savers'[s] = {"pc", "closes", "cnr", "at", "out"}
      /\ \A r \in Slots \ {s} : savers'[r] = savers[r]
  BY <1>1 DEF EditInv, Shapes, NoSaver
<1>3. queue \in Seq(Messages) /\ "WM_APPTERMINATENOTIFY" \in Messages
  BY DEF EditInv, Shapes, Messages
<1>4. closing /\ Saving
  BY <1>1 DEF EditInv, Closers, Saving
<1>5. (Loads' <=> Loads) /\ (Orderly' <=> Orderly)
  BY <1>1, ContractStays
<1>6. queue' \in Seq(Messages)
  BY <1>1, <1>3, Posts
<1>7. Shapes' /\ Together' /\ InUseWhileOpen'
  BY <1>1, <1>2, <1>6 DEF EditInv, Shapes, Together, InUseWhileOpen
<1>8. Closers'
  BY <1>1, <1>2 DEF EditInv, Closers
<1>9. Ordered'
  <2>1. SUFFICES ASSUME window
                 PROVE  /\ Waiting("WM_CLOSE")'
                        /\ \A i \in 1..Len(queue') : queue'[i] = "WM_APPTERMINATENOTIFY" =>
                             closing /\ \E j \in 1..i-1 : queue'[j] = "WM_CLOSE"
    BY <1>1 DEF Ordered
  <2>2. Waiting("WM_CLOSE") /\ handler # "none"
    BY <1>1, <2>1 DEF EditInv, Ordered, Together
  <2>3. /\ Len(queue') = Len(queue)+1 /\ Len(queue) \in Nat
        /\ \A i \in 1..Len(queue) : queue'[i] = queue[i]
    BY <1>1, <1>3, <2>2, Posts
  <2>4. PICK k \in 1..Len(queue) : queue[k] = "WM_CLOSE"
    BY <2>2 DEF Waiting
  <2>5. Waiting("WM_CLOSE")'
    BY <2>3, <2>4 DEF Waiting
  <2>6. ASSUME NEW i \in 1..Len(queue'), queue'[i] = "WM_APPTERMINATENOTIFY"
        PROVE  \E j \in 1..i-1 : queue'[j] = "WM_CLOSE"
    <3>1. CASE i = Len(queue)+1
      BY <2>3, <2>4, <3>1
    <3>2. CASE i # Len(queue)+1
      <4>1. i \in 1..Len(queue) /\ queue[i] = "WM_APPTERMINATENOTIFY"
        BY <2>3, <2>6, <3>2
      <4>2. PICK j \in 1..i-1 : queue[j] = "WM_CLOSE"
        BY <2>1, <4>1 DEF EditInv, Ordered
      <4> QED BY <2>3, <4>1, <4>2
    <3> QED BY <3>1, <3>2
  <2> QED BY <1>4, <2>5, <2>6
<1>10. Filled'
  BY <1>1, <1>4, <1>5 DEF EditInv, Filled, Loading
<1>11. OneWay'
  <2>1. SUFFICES ASSUME Orderly PROVE OneWay'
    BY <1>5 DEF OneWay
  <2>2. ~(boxes > 0)
    BY <1>4, <2>1 DEF EditInv, OneWay
  <2>3. \A r \in Slots : savers'[r].pc = "off"
    BY <1>1, <1>2, <2>1 DEF EditInv, OneWay
  <2> QED BY <1>1, <1>4, <2>2, <2>3 DEF OneWay, Saving
<1> QED BY <1>7, <1>8, <1>9, <1>10, <1>11 DEF EditInv

LEMMA SaverKeeps == ASSUME EditInv, NEW s \in Slots, SaverStep(s) PROVE EditInv'
<1>1. DOMAIN savers = Slots /\ DOMAIN savers[s] = {"pc", "closes", "cnr", "at", "out"}
  BY DEF EditInv, Shapes
<1>2. CASE SaveGivesUp(s)
  BY <1>1, <1>2, WriteKeeps DEF SaveGivesUp, At, NoSaver, outside, folderVars, msgVars
<1>3. CASE SaveOpen(s) \/ SaveNothing(s) \/ SaveClose(s)
  <2>1. PICK pc \in {"ask", "mark"} : savers' = [savers EXCEPT ![s].pc = pc]
    BY <1>3 DEF SaveOpen, SaveNothing, SaveClose, Goes
  <2>2. /\ savers[s].pc # "off"
        /\ UNCHANGED <<haste, folder, window, closing, boxes, loader, queue, handler, inUse>>
    BY <1>3 DEF SaveOpen, SaveNothing, SaveClose, At, outside, folderVars, msgVars
  <2> QED BY <1>1, <2>1, <2>2, WriteKeeps
<1>4. CASE SaveAsk(s) \/ SaveWrite(s)
  <2>1. /\ savers[s].pc # "off"
        /\ UNCHANGED <<haste, folder, window, closing, boxes, loader, queue, handler, inUse>>
    BY <1>4 DEF SaveAsk, SaveWrite, At, outside, folderVars, msgVars
  <2>2. /\ DOMAIN savers' = Slots /\ \A r \in Slots \ {s} : savers'[r] = savers[r]
        /\ DOMAIN savers'[s] = {"pc", "closes", "cnr", "at", "out"}
        /\ savers'[s].closes = savers[s].closes /\ savers'[s].pc \in {"ask", "write", "close"}
    BY <1>1, <1>4 DEF SaveAsk, SaveWrite
  <2> QED BY <2>1, <2>2, WriteKeeps
<1>5. CASE SaveMark(s)
  <2>1. /\ savers[s].pc = "mark"
        /\ savers' = [savers EXCEPT ![s] = IF savers[s].closes THEN [savers[s] EXCEPT !.pc = "post"]
                                           ELSE NoSaver]
        /\ UNCHANGED <<haste, folder, window, closing, boxes, loader, queue, handler, inUse>>
    BY <1>5 DEF SaveMark, At, outside, msgVars
  <2>2. /\ DOMAIN savers' = Slots /\ \A r \in Slots \ {s} : savers'[r] = savers[r]
        /\ DOMAIN savers'[s] = {"pc", "closes", "cnr", "at", "out"}
        /\ \/ savers[s].closes /\ savers'[s].closes = savers[s].closes /\ savers'[s].pc = "post"
           \/ savers'[s].pc = "off"
    BY <1>1, <2>1 DEF NoSaver
  <2> QED BY <2>1, <2>2, WriteKeeps
<1> QED BY <1>2, <1>3, <1>4, <1>5, AsksCloseKeeps, ReportsKeeps DEF SaverStep

-----------------------------------------------------------------------------
(* Closing.                                                                *)

\* A queue to which WM_CLOSE is added, and one whose first message is taken.
LEMMA CloseAdded ==
  ASSUME queue \in Seq(Messages), queue' = Append(queue, "WM_CLOSE")
  PROVE  /\ queue' \in Seq(Messages) /\ queue' # <<>> /\ Len(queue') = Len(queue)+1
         /\ Len(queue) \in Nat /\ queue'[Len(queue)+1] = "WM_CLOSE"
         /\ \A i \in 1..Len(queue) : queue'[i] = queue[i]
         /\ Waiting("WM_CLOSE")'
         /\ Waiting("WM_APPTERMINATENOTIFY")' => Waiting("WM_APPTERMINATENOTIFY")
<1>1. /\ queue' \in Seq(Messages) /\ queue' # <<>> /\ Len(queue') = Len(queue)+1
      /\ Len(queue) \in Nat /\ queue'[Len(queue)+1] = "WM_CLOSE"
      /\ \A i \in 1..Len(queue) : queue'[i] = queue[i]
  BY Posts DEF Messages
<1> QED BY <1>1 DEF Waiting

LEMMA FirstTaken ==
  ASSUME queue \in Seq(Messages), queue # <<>>, queue' = Tail(queue)
  PROVE  /\ queue' \in Seq(Messages) /\ Len(queue') = Len(queue)-1 /\ Len(queue) \in Nat \ {0}
         /\ Head(queue) = queue[1] /\ \A i \in 1..Len(queue') : queue'[i] = queue[i+1]
         /\ \A m : Waiting(m)' => Waiting(m)
         /\ Waiting(Head(queue))
<1>1. /\ queue' \in Seq(Messages) /\ Len(queue') = Len(queue)-1 /\ Len(queue) \in Nat \ {0}
      /\ Head(queue) = queue[1] /\ \A i \in 1..Len(queue') : queue'[i] = queue[i+1]
  BY Takings
<1>2. ASSUME NEW i \in 1..Len(queue') PROVE i+1 \in 1..Len(queue) /\ queue'[i] = queue[i+1]
  BY <1>1
<1>3. 1 \in 1..Len(queue)
  BY <1>1
<1> QED BY <1>1, <1>2, <1>3 DEF Waiting

\* The user closes the frame.
LEMMA UserClosesKeeps == ASSUME EditInv, UserCloses PROVE EditInv'
<1>1. /\ window /\ queue' = Append(queue, "WM_CLOSE")
      /\ UNCHANGED <<haste, folder, window, closing, boxes, loader, savers, handler, inUse>>
  BY DEF UserCloses, outside, folderVars
<1>2. \A i \in 1..Len(queue) : queue[i] # "WM_CLOSE"
  BY DEF UserCloses, Contains
<1>3. /\ Loads => ~Loading
      /\ Orderly => ~Saving \/ closing
      /\ Orderly => ~(boxes > 0)
      /\ Orderly => ~Saving
  <2>1. /\ Waits("close while loading") => ~Loading
        /\ Waits("close while saving") => ~Saving
        /\ Waits("close again") => boxes = 0
    BY DEF UserCloses
  <2>2. boxes = 0 => ~(boxes > 0)
    OBVIOUS
  <2> QED BY <2>1, <2>2, Waitings
<1>4. /\ queue \in Seq(Messages)
      /\ queue' \in Seq(Messages) /\ queue' # <<>> /\ Len(queue') = Len(queue)+1
      /\ Len(queue) \in Nat /\ queue'[Len(queue)+1] = "WM_CLOSE"
      /\ \A i \in 1..Len(queue) : queue'[i] = queue[i]
      /\ Waiting("WM_CLOSE")'
      /\ Waiting("WM_APPTERMINATENOTIFY")' => Waiting("WM_APPTERMINATENOTIFY")
  BY <1>1, CloseAdded DEF EditInv, Shapes
<1>5. (Loads' <=> Loads) /\ (Orderly' <=> Orderly) /\ (Saving' <=> Saving) /\ (Loading' <=> Loading)
  BY <1>1, ContractStays DEF Saving, Loading
<1>6. Shapes' /\ Together' /\ Closers' /\ InUseWhileOpen'
  BY <1>1, <1>4 DEF EditInv, Shapes, Together, Closers, InUseWhileOpen
<1>7. Ordered'
  <2>1. ASSUME NEW i \in 1..Len(queue'), queue'[i] = "WM_APPTERMINATENOTIFY"
        PROVE  closing /\ \E j \in 1..i-1 : queue'[j] = "WM_CLOSE"
    <3>1. i \in 1..Len(queue) /\ queue[i] = "WM_APPTERMINATENOTIFY"
      BY <1>4, <2>1
    <3>2. closing /\ \E j \in 1..i-1 : queue[j] = "WM_CLOSE"
      BY <1>1, <3>1 DEF EditInv, Ordered
    <3>3. PICK j \in 1..i-1 : queue[j] = "WM_CLOSE"
      BY <3>2
    <3> QED BY <1>4, <3>1, <3>2, <3>3
  <2> QED BY <1>1, <1>4, <2>1 DEF Ordered
<1>8. Filled'
  BY <1>3, <1>5 DEF Filled
<1>9. OneWay'
  <2>1. SUFFICES ASSUME Orderly PROVE OneWay'
    BY <1>5 DEF OneWay
  <2>2. \A i, j \in 1..Len(queue') : queue'[i] = "WM_CLOSE" /\ queue'[j] = "WM_CLOSE" => i = j
    BY <1>2, <1>4
  <2> QED BY <1>1, <1>3, <1>4, <1>5, <2>1, <2>2 DEF EditInv, OneWay
<1> QED BY <1>6, <1>7, <1>8, <1>9 DEF EditInv

\* The frame goes; q are the messages that wait then.
LEMMA DestroyKeeps ==
  ASSUME EditInv, NEW q \in Seq(Messages), DestroysWindow(q), closing' = TRUE,
         UNCHANGED <<haste, folder, handler, inUse, savers, loader>>,
         queue = <<>> => q = <<>>, queue # <<>> \/ boxes > 0,
         \A i \in 1..Len(q) : q[i] = "WM_APPTERMINATENOTIFY" => Waiting("WM_APPTERMINATENOTIFY"),
         boxes' \in Nat,
         Orderly => boxes' = 0 /\ (Saving => closing)
  PROVE  EditInv'
<1>1. /\ window' = FALSE
      /\ queue' = IF closing \/ handler = "none" THEN ForHandler(q)
                  ELSE Append(ForHandler(q), "WM_APPTERMINATENOTIFY")
  BY DEF DestroysWindow
<1>2. /\ ForHandler(q) \in Seq(Messages)
      /\ \A i \in 1..Len(ForHandler(q)) : ForHandler(q)[i] = "WM_APPTERMINATENOTIFY"
      /\ (\A i \in 1..Len(q) : q[i] # "WM_APPTERMINATENOTIFY") => ForHandler(q) = <<>>
      /\ q = <<>> => ForHandler(q) = <<>>
  BY Leaves
<1>3. queue' \in Seq(Messages)
  BY <1>1, <1>2, Posts DEF Messages
<1>4. (Loads' <=> Loads) /\ (Orderly' <=> Orderly) /\ (Saving' <=> Saving) /\ (Loading' <=> Loading)
  BY ContractStays DEF Saving, Loading
<1>5. Shapes' /\ Closers' /\ Ordered' /\ InUseWhileOpen'
  BY <1>1, <1>3 DEF EditInv, Shapes, Closers, Ordered, InUseWhileOpen
<1>6. Together'
  BY <1>1, <1>2 DEF EditInv, Together
<1>7. Filled'
  BY <1>4 DEF EditInv, Filled
<1>8. OneWay'
  <2>1. SUFFICES ASSUME Orderly PROVE OneWay'
    BY <1>4 DEF OneWay
  <2>2. ~(boxes' > 0)
    BY <2>1
  <2>3. ASSUME Waiting("WM_APPTERMINATENOTIFY")' PROVE ~Saving
    <3>1. CASE ~closing
      BY <2>1, <3>1
    <3>2. CASE closing
      <4>1. queue' = ForHandler(q)
        BY <1>1, <3>2
      <4>2. ForHandler(q) # <<>>
        BY <2>3, <4>1 DEF Waiting
      <4>3. Waiting("WM_APPTERMINATENOTIFY")
        BY <1>2, <4>2
      <4> QED BY <2>1, <4>3 DEF EditInv, OneWay
    <3> QED BY <3>1, <3>2
  <2>4. handler' = "timer" => ~Saving
    BY <2>1 DEF EditInv, OneWay
  <2>5. Saving => handler = "waits"
    BY <2>1 DEF EditInv, OneWay
  <2>6. \A r, s \in Slots : savers'[r].pc # "off" /\ savers'[s].pc # "off" => r = s
    BY <2>1 DEF EditInv, OneWay
  <2> QED BY <1>4, <2>2, <2>3, <2>4, <2>5, <2>6 DEF OneWay
<1> QED BY <1>5, <1>6, <1>7, <1>8 DEF EditInv

LEMMA ClosesKeeps ==
  ASSUME EditInv, CloseAfterSave \/ CloseUnchanged \/ AnswerNo
  PROVE  EditInv'
<1>1. queue \in Seq(Messages) /\ boxes \in Nat
  BY DEF EditInv, Shapes
<1>2. \A i \in 1..Len(queue) : queue[i] = "WM_APPTERMINATENOTIFY" => Waiting("WM_APPTERMINATENOTIFY")
  BY DEF Waiting
<1>3. CASE CloseAfterSave \/ CloseUnchanged
  <2>1. /\ queue # <<>> /\ Head(queue) = "WM_CLOSE" /\ DestroysWindow(Tail(queue))
        /\ closing' = TRUE
        /\ UNCHANGED <<haste, folder, handler, inUse, savers, loader, boxes>>
    BY <1>3 DEF CloseAfterSave, CloseUnchanged, Takes, outside
  <2>2. /\ Tail(queue) \in Seq(Messages) /\ Len(Tail(queue)) = Len(queue)-1 /\ Len(queue) \in Nat \ {0}
        /\ Head(queue) = queue[1] /\ \A i \in 1..Len(queue)-1 : Tail(queue)[i] = queue[i+1]
    BY <1>1, <2>1, Takings
  <2>3. Waiting("WM_CLOSE")
    BY <2>1, <2>2 DEF Waiting
  <2>4. ASSUME NEW i \in 1..Len(Tail(queue)), Tail(queue)[i] = "WM_APPTERMINATENOTIFY"
        PROVE  Waiting("WM_APPTERMINATENOTIFY")
    <3>1. i+1 \in 1..Len(queue) /\ queue[i+1] = "WM_APPTERMINATENOTIFY"
      BY <2>2, <2>4
    <3> QED BY <1>2, <3>1
  <2>5. ~(boxes > 0) => boxes = 0
    BY <1>1
  <2>6. Orderly => boxes' = 0 /\ (Saving => closing)
    BY <2>1, <2>3, <2>5 DEF EditInv, OneWay
  <2> QED BY <1>1, <2>1, <2>2, <2>4, <2>6, DestroyKeeps
<1>4. CASE AnswerNo
  <2>1. /\ boxes > 0 /\ boxes' = boxes - 1 /\ DestroysWindow(queue) /\ closing' = TRUE
        /\ UNCHANGED <<haste, folder, handler, inUse, savers, loader>>
    BY <1>4 DEF AnswerNo, outside
  <2>2. boxes' \in Nat /\ (boxes = 1 => boxes' = 0)
    BY <1>1, <2>1
  <2>3. Orderly => boxes' = 0 /\ (Saving => closing)
    BY <2>1, <2>2 DEF EditInv, OneWay
  <2> QED BY <1>1, <1>2, <2>1, <2>2, <2>3, DestroyKeeps
<1> QED BY <1>3, <1>4

\* The question, and the answer Cancel.
LEMMA AsksKeeps == ASSUME EditInv, CloseAsks \/ AnswerCancel PROVE EditInv'
<1>1. queue \in Seq(Messages) /\ boxes \in Nat
  BY DEF EditInv, Shapes
<1>2. /\ UNCHANGED <<haste, folder, window, closing, savers, loader, handler, inUse>>
      /\ \/ /\ queue # <<>> /\ Head(queue) = "WM_CLOSE" /\ queue' = Tail(queue) /\ ~closing
            /\ boxes' = boxes + 1
         \/ boxes > 0 /\ boxes' = boxes - 1 /\ queue' = queue
  BY DEF CloseAsks, AnswerCancel, Takes, outside, folderVars, msgVars
<1>3. (Loads' <=> Loads) /\ (Orderly' <=> Orderly) /\ (Saving' <=> Saving) /\ (Loading' <=> Loading)
  BY <1>2, ContractStays DEF Saving, Loading
<1>4. CASE boxes > 0 /\ boxes' = boxes - 1 /\ queue' = queue
  <2>1. boxes' \in Nat /\ (boxes = 1 => ~(boxes' > 0)) /\ \A m : Waiting(m)' <=> Waiting(m)
    BY <1>1, <1>4 DEF Waiting
  <2>2. Shapes' /\ Together' /\ Closers' /\ InUseWhileOpen'
    BY <1>2, <1>4, <2>1 DEF EditInv, Shapes, Together, Closers, InUseWhileOpen
  <2>3. Ordered'
    BY <1>2, <1>4, <2>1 DEF EditInv, Ordered
  <2>4. Filled'
    BY <1>2, <1>3, <1>4 DEF EditInv, Filled
  <2>5. OneWay'
    BY <1>2, <1>3, <1>4, <2>1 DEF EditInv, OneWay
  <2> QED BY <2>2, <2>3, <2>4, <2>5 DEF EditInv
<1>5. CASE queue # <<>> /\ Head(queue) = "WM_CLOSE" /\ queue' = Tail(queue) /\ ~closing
           /\ boxes' = boxes + 1
  <2>1. /\ queue' \in Seq(Messages) /\ Len(queue') = Len(queue)-1 /\ Len(queue) \in Nat \ {0}
        /\ queue[1] = "WM_CLOSE" /\ \A i \in 1..Len(queue') : queue'[i] = queue[i+1]
        /\ \A m : Waiting(m)' => Waiting(m)
        /\ Waiting("WM_CLOSE")
    BY <1>1, <1>5, FirstTaken
  <2>2. boxes' \in Nat /\ (~(boxes > 0) => boxes' = 1)
    BY <1>1, <1>5
  <2>3. Shapes' /\ Together' /\ Closers' /\ InUseWhileOpen'
    BY <1>2, <1>5, <2>1, <2>2 DEF EditInv, Shapes, Together, Closers, InUseWhileOpen
  <2>4. Ordered'
    <3>1. SUFFICES ASSUME window
                   PROVE  /\ \A s \in Slots : savers[s].pc # "report"
                          /\ \A i \in 1..Len(queue') : queue'[i] # "WM_APPTERMINATENOTIFY"
      BY <1>2 DEF Ordered
    <3>2. \A s \in Slots : savers[s].pc # "report"
      BY <1>5 DEF EditInv, Closers
    <3>3. ~Waiting("WM_APPTERMINATENOTIFY")
      BY <1>5, <3>1 DEF EditInv, Ordered, Waiting
    <3>4. ~Waiting("WM_APPTERMINATENOTIFY")'
      BY <2>1, <3>3
    <3> QED BY <3>2, <3>4 DEF Waiting
  <2>5. Filled'
    BY <1>2, <1>3, <1>5 DEF EditInv, Filled
  <2>6. OneWay'
    <3>1. SUFFICES ASSUME Orderly PROVE OneWay'
      BY <1>3 DEF OneWay
    <3>2. boxes' = 1 /\ ~Saving
      BY <1>5, <2>1, <2>2, <3>1 DEF EditInv, OneWay
    <3>3. handler = "waits"
      BY <1>5, <3>1 DEF EditInv, OneWay, Together
    <3>4. \A i, j \in 1..Len(queue) : queue[i] = "WM_CLOSE" /\ queue[j] = "WM_CLOSE" => i = j
      BY <1>5, <3>1 DEF EditInv, OneWay
    <3>5. \A i \in 1..Len(queue') : queue'[i] # "WM_CLOSE"
      <4>1. SUFFICES ASSUME NEW i \in 1..Len(queue'), queue'[i] = "WM_CLOSE" PROVE FALSE
        OBVIOUS
      <4>2. i+1 \in 1..Len(queue) /\ queue[i+1] = "WM_CLOSE" /\ 1 \in 1..Len(queue) /\ i+1 # 1
        BY <2>1, <4>1
      <4> QED BY <2>1, <3>4, <4>2
    <3>6. ~Waiting("WM_CLOSE")' /\ ~Waiting("WM_APPTERMINATENOTIFY")'
      BY <1>5, <2>1, <3>1, <3>5 DEF EditInv, OneWay, Waiting
    <3>7. \A r, s \in Slots : savers'[r].pc # "off" /\ savers'[s].pc # "off" => r = s
      BY <1>2, <3>1 DEF EditInv, OneWay
    <3> QED BY <1>2, <1>3, <1>5, <3>2, <3>3, <3>5, <3>6, <3>7 DEF OneWay
  <2> QED BY <2>3, <2>4, <2>5, <2>6 DEF EditInv
<1> QED BY <1>2, <1>4, <1>5

\* The handler window: the end, and the folder that is freed.
LEMMA HandlerKeeps == ASSUME EditInv, EndNotified \/ FolderFreed PROVE EditInv'
<1>1. CASE EndNotified
  <2>1. /\ queue # <<>> /\ Head(queue) = "WM_APPTERMINATENOTIFY" /\ queue' = Tail(queue)
        /\ handler' = "timer"
        /\ UNCHANGED <<haste, folder, window, closing, boxes, savers, loader>>
    BY <1>1 DEF EndNotified, Takes, outside, folderVars
  <2>2. queue \in Seq(Messages)
    BY DEF EditInv, Shapes
  <2>3. /\ queue' \in Seq(Messages) /\ Len(queue) \in Nat \ {0}
        /\ queue[1] = "WM_APPTERMINATENOTIFY"
        /\ \A m : Waiting(m)' => Waiting(m)
        /\ Waiting("WM_APPTERMINATENOTIFY")
    BY <2>1, <2>2, FirstTaken
  <2>4. ~window
    <3>1. 1 \in 1..Len(queue) /\ 1..1-1 = {}
      BY <2>3
    <3> QED BY <2>3, <3>1 DEF EditInv, Ordered
  <2>5. (Loads' <=> Loads) /\ (Orderly' <=> Orderly) /\ (Saving' <=> Saving) /\ (Loading' <=> Loading)
    BY <2>1, ContractStays DEF Saving, Loading
  <2>6. Shapes' /\ Together' /\ Closers' /\ InUseWhileOpen' /\ Ordered'
    BY <2>1, <2>3, <2>4 DEF EditInv, Shapes, Together, Closers, InUseWhileOpen, Ordered
  <2>7. Filled'
    BY <2>1, <2>5 DEF EditInv, Filled
  <2>8. OneWay'
    BY <2>1, <2>3, <2>5 DEF EditInv, OneWay
  <2> QED BY <2>6, <2>7, <2>8 DEF EditInv
<1>2. CASE FolderFreed
  <2>1. /\ handler = "timer" /\ queue = <<>> /\ handler' = "none" /\ folder' = "none"
        /\ window' = FALSE
        /\ UNCHANGED <<haste, closing, boxes, savers, loader, queue, inUse>>
    BY <1>2 DEF FolderFreed, outside
  <2>2. (Loads' <=> Loads) /\ (Orderly' <=> Orderly) /\ (Saving' <=> Saving) /\ (Loading' <=> Loading)
        /\ \A m : Waiting(m)' <=> Waiting(m)
    BY <2>1, ContractStays DEF Saving, Loading, Waiting
  <2>3. Shapes' /\ Together' /\ Closers' /\ InUseWhileOpen' /\ Ordered'
    BY <2>1 DEF EditInv, Shapes, Together, Closers, InUseWhileOpen, Ordered
  <2>4. Filled'
    BY <2>1, <2>2 DEF EditInv, Filled
  <2>5. OneWay'
    BY <2>1, <2>2 DEF EditInv, OneWay
  <2> QED BY <2>3, <2>4, <2>5 DEF EditInv
<1> QED BY <1>1, <1>2

\* Every step keeps the invariant.
LEMMA EditNext == EditInv /\ [Next]_vars => EditInv'
<1> SUFFICES ASSUME EditInv, [Next]_vars PROVE EditInv'
  OBVIOUS
<1>1. DOMAIN loader = {"pc", "left"}
  BY DEF EditInv, Shapes
<1>2. CASE UNCHANGED vars
  BY <1>1, <1>2, ContentsKeep DEF vars, outside, folderVars, msgVars, Loading
<1>3. CASE LoadRead \/ LoadInsert \/ LoadEnd
  <2>1. UNCHANGED <<haste, folder, window, closing, boxes, savers, queue, handler, inUse>>
    BY <1>3 DEF LoadRead, LoadInsert, LoadEnd, outside, folderVars, msgVars
  <2>2. DOMAIN loader' = {"pc", "left"} /\ (Loading' => Loading)
    BY <1>1, <1>3 DEF LoadRead, LoadInsert, LoadEnd, Loading, NotLoading
  <2> QED BY <2>1, <2>2, ContentsKeep
<1>4. CASE DropEnds \/ DeleteEnds \/ \E t \in Tracks : DropBegins(t) \/ DeleteBegins(t)
  <2>1. UNCHANGED <<haste, folder, window, closing, boxes, savers, queue, handler, inUse, loader>>
    BY <1>4 DEF DropEnds, DeleteEnds, DropBegins, DeleteBegins, outside, folderVars, msgVars
  <2> QED BY <1>1, <2>1, ContentsKeep DEF Loading
<1>5. CASE Open \/ Save \/ UserCloses \/ AnswerCancel \/ AnswerYes \/ AnswerNo
           \/ CloseAfterSave \/ CloseUnchanged \/ CloseAsks \/ EndNotified \/ FolderFreed
  BY <1>5, OpenKeeps, SaveKeeps, UserClosesKeeps, ClosesKeeps, AsksKeeps, HandlerKeeps
<1>6. CASE \E s \in Slots : SaverStep(s)
  BY <1>6, SaverKeeps
<1> QED BY <1>2, <1>3, <1>4, <1>5, <1>6 DEF Next, UIStep

LEMMA EditAlways == Spec => []EditInv
BY EditInit, EditNext, PTL DEF Spec

-----------------------------------------------------------------------------
(* Theorems.                                                               *)

\* The M3U object is in use as long as its editor is on the screen: the frame is told to
\* close before the end is reported (saveThreadFunc), and takes the messages in that order.
THEOREM InUseAlways == Spec => []InUseWhileOpen
BY EditAlways, PTL DEF EditInv

\* The folder is freed after the threads that write its contents have ended, if one thing
\* is done at a time, and after it has been filled, if it is not closed before.
THEOREM FolderAlwaysOutlivesSaver == Spec => []FolderOutlivesSaver
<1>1. EditInv => FolderOutlivesSaver
  <2> SUFFICES ASSUME EditInv PROVE FolderOutlivesSaver
    OBVIOUS
  <2>1. Orderly /\ Saving => folder = "alive"
    BY DEF EditInv, OneWay, Together
  <2>2. Loads /\ Loading => folder = "alive"
    BY DEF EditInv, Filled, Together
  <2> QED BY <2>1, <2>2 DEF FolderOutlivesSaver, Orderly, Loads
<1> QED BY <1>1, EditAlways, PTL

-----------------------------------------------------------------------------
(* Lists.                                                                  *)

IsList(q) == q \in Seq(Tracks) /\ \A i, j \in 1..Len(q) : q[i] = q[j] => i = j

\* The bound on the length of a list follows from its tracks being different.
LEMMA ListsAre == \A q : q \in Lists <=> IsList(q)
<1> SUFFICES ASSUME NEW q PROVE q \in Lists <=> IsList(q)
  OBVIOUS
<1>1. IsFiniteSet(Tracks) /\ Cardinality(Tracks) \in Nat
  BY EditorAssumption, FS_CardinalityType
<1>2. ASSUME q \in Lists PROVE IsList(q)
  <2>1. PICK m \in 0..Cardinality(Tracks) : q \in [1..m -> Tracks]
    BY <1>2 DEF Lists, SeqOf
  <2>2. m \in Nat
    BY <1>1
  <2>3. q \in Seq(Tracks) /\ Len(q) = m
    BY <2>1, <2>2
  <2> QED BY <1>2, <2>3 DEF Lists, IsInjective, IsList
<1>3. ASSUME IsList(q) PROVE q \in Lists
  <2>1. q \in [1..Len(q) -> Tracks] /\ Len(q) \in Nat /\ IsInjective(q)
    BY <1>3 DEF IsList, IsInjective
  <2>2. q \in Injection(1..Len(q), Tracks)
    BY <1>3, <2>1 DEF IsList, Injection
  <2>3. Cardinality(1..Len(q)) <= Cardinality(Tracks) /\ Cardinality(1..Len(q)) = Len(q)
    <3>1. Cardinality(1..Len(q)) <= Cardinality(Tracks)
      BY <1>1, <2>2, FS_Injection
    <3>2. Cardinality(1..Len(q)) = Len(q)
      <4>1. 1 \in Int /\ Len(q) \in Int /\ Len(q)-1+1 = Len(q) /\ (1 > Len(q) => Len(q) = 0)
        BY <2>1
      <4>2. Cardinality(1..Len(q)) = IF 1 > Len(q) THEN 0 ELSE Len(q)-1+1
        BY <4>1, FS_Interval
      <4> QED BY <4>1, <4>2
    <3> QED BY <3>1, <3>2
  <2> QED BY <1>1, <2>1, <2>3 DEF Lists, SeqOf
<1> QED BY <1>2, <1>3

LEMMA SubSeqFacts ==
  ASSUME NEW q \in Seq(Tracks), NEW m \in 1..Len(q)+1, NEW n \in m-1..Len(q)
  PROVE  /\ SubSeq(q, m, n) \in Seq(Tracks) /\ Len(SubSeq(q, m, n)) = n-m+1
         /\ \A i \in 1..n-m+1 : SubSeq(q, m, n)[i] = q[m+i-1]
<1>1. m \in Int /\ n \in Int /\ \A i \in m..n : q[i] \in Tracks
  OBVIOUS
<1>2. n-m+1 = IF m <= n THEN n-m+1 ELSE 0
  OBVIOUS
<1> QED BY <1>1, <1>2, SubSeqProperties

LEMMA ConcatFacts ==
  ASSUME NEW a \in Seq(Tracks), NEW b \in Seq(Tracks)
  PROVE  /\ a \o b \in Seq(Tracks) /\ Len(a \o b) = Len(a) + Len(b)
         /\ Len(a) \in Nat /\ Len(b) \in Nat
         /\ \A i \in 1..Len(a)+Len(b) : (a \o b)[i] = IF i <= Len(a) THEN a[i] ELSE b[i-Len(a)]
BY ConcatProperties

\* What the steps do to a list: take the last track off, put one at the end or in
\* front, put one in anywhere, take one out.
LEMMA ListSteps ==
  ASSUME NEW q \in Seq(Tracks)
  PROVE  /\ Len(q) \in Nat
         /\ q # <<>> => /\ Front(q) \in Seq(Tracks) /\ Len(Front(q)) = Len(q)-1 /\ Len(q) > 0
                        /\ Last(q) = q[Len(q)] /\ Last(q) \in Tracks
                        /\ \A i \in 1..Len(q)-1 : Front(q)[i] = q[i]
                        /\ q = Append(Front(q), Last(q))
         /\ \A t \in Tracks :
              /\ Append(q, t) \in Seq(Tracks) /\ Len(Append(q, t)) = Len(q)+1
              /\ \A i \in 1..Len(q)+1 : Append(q, t)[i] = IF i = Len(q)+1 THEN t ELSE q[i]
              /\ <<t>> \o q \in Seq(Tracks) /\ Len(<<t>> \o q) = Len(q)+1
              /\ \A i \in 1..Len(q)+1 : (<<t>> \o q)[i] = IF i = 1 THEN t ELSE q[i-1]
<1>1. Len(q) \in Nat
  OBVIOUS
<1>2. q # <<>> => /\ Front(q) \in Seq(Tracks) /\ Len(Front(q)) = Len(q)-1 /\ Len(q) > 0
                  /\ Last(q) = q[Len(q)] /\ Last(q) \in Tracks
                  /\ \A i \in 1..Len(q)-1 : Front(q)[i] = q[i]
  <2> SUFFICES ASSUME q # <<>>
               PROVE  /\ Front(q) \in Seq(Tracks) /\ Len(Front(q)) = Len(q)-1 /\ Len(q) > 0
                      /\ Last(q) = q[Len(q)] /\ Last(q) \in Tracks
                      /\ \A i \in 1..Len(q)-1 : Front(q)[i] = q[i]
    OBVIOUS
  <2>1. Len(q) > 0
    BY EmptySeq
  <2>2. q[Len(q)] \in Tracks
    BY <1>1, <2>1
  <2>3. 1 \in 1..Len(q)+1 /\ Len(q)-1 \in 1-1..Len(q)
    BY <1>1, <2>1
  <2>4. /\ Front(q) \in Seq(Tracks) /\ Len(Front(q)) = Len(q)-1-1+1
        /\ \A i \in 1..Len(q)-1-1+1 : Front(q)[i] = q[1+i-1]
    BY <2>3, SubSeqFacts, Zenon DEF Front
  <2> QED BY <1>1, <2>1, <2>2, <2>4 DEF Last
<1>3. ASSUME q # <<>> PROVE q = Append(Front(q), Last(q))
  <2> DEFINE a == Append(Front(q), Last(q))
  <2>1. /\ a \in Seq(Tracks) /\ Len(a) = Len(q)
        /\ \A i \in 1..Len(q) : a[i] = q[i]
    BY <1>1, <1>2, <1>3
  <2> HIDE DEF a
  <2>2. q = a
    BY <2>1, SeqEqual
  <2> QED BY <2>2 DEF a
<1>4. ASSUME NEW t \in Tracks
      PROVE  /\ Append(q, t) \in Seq(Tracks) /\ Len(Append(q, t)) = Len(q)+1
             /\ \A i \in 1..Len(q)+1 : Append(q, t)[i] = IF i = Len(q)+1 THEN t ELSE q[i]
             /\ <<t>> \o q \in Seq(Tracks) /\ Len(<<t>> \o q) = Len(q)+1
             /\ \A i \in 1..Len(q)+1 : (<<t>> \o q)[i] = IF i = 1 THEN t ELSE q[i-1]
  OBVIOUS
<1> QED BY <1>1, <1>2, <1>3, <1>4

\* List a is q with t put in at k; q without what is at k.
PutIn(a, q, k, t) ==
  /\ Len(a) = Len(q)+1
  /\ \A i \in 1..Len(q)+1 : a[i] = IF i < k THEN q[i] ELSE IF i = k THEN t ELSE q[i-1]

TakenOut(a, q, k) ==
  /\ Len(a) = Len(q)-1
  /\ \A i \in 1..Len(q)-1 : a[i] = IF i < k THEN q[i] ELSE q[i+1]

LEMMA InsertFacts ==
  ASSUME NEW q \in Seq(Tracks), NEW k \in 1..Len(q)+1, NEW t \in Tracks
  PROVE  InsertAt(q, k, t) \in Seq(Tracks) /\ PutIn(InsertAt(q, k, t), q, k, t)
<1>0. Len(q) \in Nat
  OBVIOUS
<1> DEFINE a == SubSeq(q, 1, k-1)
           b == SubSeq(q, k, Len(q))
<1>1. /\ a \in Seq(Tracks) /\ Len(a) = k-1 /\ \A i \in 1..k-1 : a[i] = q[i]
      /\ b \in Seq(Tracks) /\ Len(b) = Len(q)-k+1 /\ \A i \in 1..Len(q)-k+1 : b[i] = q[k+i-1]
  <2>1. 1 \in 1..Len(q)+1 /\ k-1 \in 1-1..Len(q) /\ Len(q) \in k-1..Len(q)
    BY <1>0
  <2>2. /\ a \in Seq(Tracks) /\ Len(a) = k-1-1+1 /\ \A i \in 1..k-1-1+1 : a[i] = q[1+i-1]
    BY <2>1, SubSeqFacts, Zenon
  <2>3. /\ b \in Seq(Tracks) /\ Len(b) = Len(q)-k+1
        /\ \A i \in 1..Len(q)-k+1 : b[i] = q[k+i-1]
    BY <2>1, SubSeqFacts, Zenon
  <2> QED BY <1>0, <2>2, <2>3
<1>2. InsertAt(q, k, t) = a \o <<t>> \o b
  BY DEF InsertAt
<1> HIDE DEF a, b
<1> DEFINE c == a \o <<t>>
<1>3. c \in Seq(Tracks) /\ Len(c) = k /\ \A i \in 1..k : c[i] = IF i < k THEN q[i] ELSE t
  BY <1>0, <1>1
<1> HIDE DEF c
<1>4. c \o b \in Seq(Tracks) /\ Len(c \o b) = Len(q)+1
      /\ \A i \in 1..Len(q)+1 : (c \o b)[i] = IF i <= k THEN c[i] ELSE b[i-k]
  <2>1. Len(c) + Len(b) = Len(q)+1 /\ Len(c) = k
    BY <1>0, <1>1, <1>3
  <2>2. /\ c \o b \in Seq(Tracks) /\ Len(c \o b) = Len(c) + Len(b)
        /\ \A i \in 1..Len(c)+Len(b) : (c \o b)[i] = IF i <= Len(c) THEN c[i] ELSE b[i-Len(c)]
    BY <1>1, <1>3, ConcatFacts, Zenon
  <2> QED BY <2>1, <2>2, Zenon
<1>5. ASSUME NEW i \in 1..Len(q)+1
      PROVE  (c \o b)[i] = IF i < k THEN q[i] ELSE IF i = k THEN t ELSE q[i-1]
  <2>1. CASE i <= k
    BY <1>0, <1>3, <1>4, <2>1
  <2>2. CASE i > k
    <3>1. i-k \in 1..Len(q)-k+1 /\ k+(i-k)-1 = i-1
      BY <1>0, <2>2
    <3> QED BY <1>0, <1>1, <1>4, <2>2, <3>1
  <2>3. i <= k \/ i > k
    BY <1>0
  <2> QED BY <2>1, <2>2, <2>3
<1> QED BY <1>2, <1>4, <1>5 DEF c, PutIn

LEMMA RemoveFacts ==
  ASSUME NEW q \in Seq(Tracks), NEW k \in 1..Len(q)
  PROVE  RemoveAt(q, k) \in Seq(Tracks) /\ TakenOut(RemoveAt(q, k), q, k)
<1>0. Len(q) \in Nat
  OBVIOUS
<1> DEFINE a == SubSeq(q, 1, k-1)
           m == k+1
           b == SubSeq(q, m, Len(q))
<1>1. /\ a \in Seq(Tracks) /\ Len(a) = k-1 /\ \A i \in 1..k-1 : a[i] = q[i]
      /\ b \in Seq(Tracks) /\ Len(b) = Len(q)-k /\ \A i \in 1..Len(q)-k : b[i] = q[k+i]
  <2>1. 1 \in 1..Len(q)+1 /\ k-1 \in 1-1..Len(q) /\ m = k+1
        /\ m \in 1..Len(q)+1 /\ Len(q) \in m-1..Len(q)
    BY <1>0
  <2> HIDE DEF m
  <2>2. /\ a \in Seq(Tracks) /\ Len(a) = k-1-1+1 /\ \A i \in 1..k-1-1+1 : a[i] = q[1+i-1]
    BY <2>1, SubSeqFacts, Zenon
  <2>3. /\ b \in Seq(Tracks) /\ Len(b) = Len(q)-m+1
        /\ \A i \in 1..Len(q)-m+1 : b[i] = q[m+i-1]
    BY <2>1, SubSeqFacts, Zenon
  <2>4. Len(a) = k-1 /\ \A i \in 1..k-1 : a[i] = q[i]
    BY <1>0, <2>2
  <2>5. Len(b) = Len(q)-k /\ \A i \in 1..Len(q)-k : b[i] = q[k+i]
    BY <1>0, <2>1, <2>3
  <2> QED BY <2>2, <2>3, <2>4, <2>5
<1>2. RemoveAt(q, k) = a \o b
  BY DEF RemoveAt
<1> HIDE DEF a, b
<1>3. /\ a \o b \in Seq(Tracks) /\ Len(a \o b) = k-1 + (Len(q)-k)
      /\ \A i \in 1..k-1 + (Len(q)-k) : (a \o b)[i] = IF i <= k-1 THEN a[i] ELSE b[i-(k-1)]
  <2>1. Len(a) + Len(b) = k-1 + (Len(q)-k) /\ Len(a) = k-1
    BY <1>1
  <2>2. /\ a \o b \in Seq(Tracks) /\ Len(a \o b) = Len(a) + Len(b)
        /\ \A i \in 1..Len(a)+Len(b) : (a \o b)[i] = IF i <= Len(a) THEN a[i] ELSE b[i-Len(a)]
    BY <1>1, ConcatFacts, Zenon
  <2> QED BY <2>1, <2>2, Zenon
<1>4. ASSUME NEW i \in 1..Len(q)-1
      PROVE  (a \o b)[i] = IF i < k THEN q[i] ELSE q[i+1]
  <2>1. CASE i <= k-1
    BY <1>0, <1>1, <1>3, <2>1
  <2>2. CASE i > k-1
    <3>1. i-(k-1) \in 1..Len(q)-k /\ k+(i-(k-1)) = i+1
      BY <1>0, <2>2
    <3>2. b[i-(k-1)] = q[i+1]
      BY <1>1, <3>1
    <3>3. (a \o b)[i] = b[i-(k-1)]
      BY <1>0, <1>3, <2>2
    <3>4. ~(i < k)
      BY <1>0, <2>2
    <3> QED BY <3>2, <3>3, <3>4
  <2>3. i <= k-1 \/ i > k-1
    BY <1>0
  <2> QED BY <2>1, <2>2, <2>3
<1>5. k-1 + (Len(q)-k) = Len(q)-1
  BY <1>0
<1>6. /\ a \o b \in Seq(Tracks) /\ Len(a \o b) = Len(q)-1
      /\ \A i \in 1..Len(q)-1 : (a \o b)[i] = IF i < k THEN q[i] ELSE q[i+1]
  BY <1>3, <1>4, <1>5, Zenon
<1> QED BY <1>2, <1>6 DEF TakenOut

\* What RemoveFirst takes out of a list.
LEMMA RemovesFirst ==
  ASSUME NEW q, IsList(q), NEW k \in 1..Len(q), NEW t, q[k] = t
  PROVE  RemoveFirst(q, t) = RemoveAt(q, k)
<1>1. {i \in 1..Len(q) : q[i] = t} = {k} /\ k \in Nat
  BY DEF IsList
<1>2. Min({k}) = k
  BY <1>1 DEF Min
<1>3. SelectInSeq(q, LAMBDA u : u = t) = k
  BY <1>1, <1>2 DEF SelectInSeq
<1>4. RemoveFirst(q, t) = RemoveAt(q, SelectInSeq(q, LAMBDA u : u = t))
  BY DEF RemoveFirst
<1> QED BY <1>3, <1>4

\* A set of natural numbers has a least element: what induction over lists rests on.
LEMMA LeastNatural ==
  ASSUME NEW T, T \subseteq Nat, T # {} PROVE \E m \in T : \A k \in T : m <= k
<1>1. \E m \in T : \A k \in T : <<k, m>> \notin OpToRel(<, Nat)
  BY NatLessThanWellFounded, WFMin
<1>2. \A k, m \in T : <<k, m>> \notin OpToRel(<, Nat) => m <= k
  BY DEF OpToRel
<1> QED BY <1>1, <1>2

\* kept is the function that Found defines for the first n tracks of a list.
Keeps(kept, q, n) ==
  kept = [i \in 0..n |-> IF i = 0 THEN <<>>
                         ELSE IF q[i] \in Missing THEN kept[i - 1]
                         ELSE Append(kept[i - 1], q[i])]

LEMMA KeptExists ==
  ASSUME NEW q, NEW n \in Nat PROVE \E kept : Keeps(kept, q, n)
<1> DEFINE Bad == {k \in Nat : ~ \E kept : Keeps(kept, q, k)}
<1>1. SUFFICES ASSUME Bad # {} PROVE FALSE
  OBVIOUS
<1>2. PICK m \in Bad : \A k \in Bad : m <= k
  BY <1>1, LeastNatural
<1>3. m # 0
  <2>1. Keeps([i \in 0..0 |-> <<>>], q, 0)
    BY DEF Keeps
  <2> QED BY <2>1
<1>4. PICK kept : Keeps(kept, q, m-1)
  BY <1>2, <1>3
<1> DEFINE more == [i \in 0..m |-> IF i = m THEN IF q[m] \in Missing THEN kept[m-1]
                                                 ELSE Append(kept[m-1], q[m])
                                   ELSE kept[i]]
<1>5. \A i \in 0..m : more[i] = IF i = 0 THEN <<>> ELSE IF q[i] \in Missing THEN more[i - 1]
                                ELSE Append(more[i - 1], q[i])
  <2>1. more[m] = IF m = 0 THEN <<>> ELSE IF q[m] \in Missing THEN more[m - 1]
                  ELSE Append(more[m - 1], q[m])
    BY <1>3
  <2>2. ASSUME NEW i \in 0..m-1
        PROVE  kept[i] = IF i = 0 THEN <<>> ELSE IF q[i] \in Missing THEN kept[i - 1]
                         ELSE Append(kept[i - 1], q[i])
    BY <1>4 DEF Keeps
  <2>3. ASSUME NEW i \in 0..m, i # m
        PROVE  more[i] = IF i = 0 THEN <<>> ELSE IF q[i] \in Missing THEN more[i - 1]
                         ELSE Append(more[i - 1], q[i])
    <3>1. i \in 0..m-1 /\ more[i] = kept[i] /\ (i # 0 => more[i-1] = kept[i-1])
      BY <2>3
    <3> HIDE DEF more
    <3> QED BY <2>2, <3>1
  <2> HIDE DEF more
  <2> QED BY <2>1, <2>3
<1>6. Keeps(more, q, m)
  BY <1>5 DEF Keeps
<1> QED BY <1>2, <1>6

\* The function that Found chooses is one of them, ...
LEMMA FoundIs ==
  ASSUME NEW q \in Seq(Tracks)
  PROVE  \E kept : Keeps(kept, q, Len(q)) /\ Found(q) = kept[Len(q)]
<1>1. Found(q) = (CHOOSE kept : Keeps(kept, q, Len(q)))[Len(q)]
  BY DEF Found, Keeps
<1>2. \E kept : Keeps(kept, q, Len(q))
  BY KeptExists
<1> QED BY <1>1, <1>2

\* ... and all of them agree where the lists do.
LEMMA KeptUnique ==
  ASSUME NEW q, NEW r, NEW n \in Nat, NEW k \in Nat, NEW f, NEW g,
         Keeps(f, q, n), Keeps(g, r, k), n <= k, \A i \in 1..n : q[i] = r[i]
  PROVE  f[n] = g[n]
<1> DEFINE Bad == {i \in 0..n : f[i] # g[i]}
<1>1. SUFFICES ASSUME Bad # {} PROVE FALSE
  OBVIOUS
<1>2. PICK m \in Bad : \A i \in Bad : m <= i
  <2>1. Bad \subseteq Nat
    OBVIOUS
  <2> HIDE DEF Bad
  <2> QED BY <1>1, <2>1, LeastNatural
<1>3. /\ f[m] = IF m = 0 THEN <<>> ELSE IF q[m] \in Missing THEN f[m - 1] ELSE Append(f[m - 1], q[m])
      /\ g[m] = IF m = 0 THEN <<>> ELSE IF r[m] \in Missing THEN g[m - 1] ELSE Append(g[m - 1], r[m])
  <2>1. m \in 0..n /\ m \in 0..k
    OBVIOUS
  <2> QED BY <2>1 DEF Keeps
<1>4. m = 0 \/ (f[m-1] = g[m-1] /\ q[m] = r[m])
  BY <1>2
<1> QED BY <1>3, <1>4

LEMMA FoundEmpty == Found(<<>>) = <<>>
<1>1. <<>> \in Seq(Tracks) /\ Len(<<>>) = 0
  BY EmptySeq
<1>2. PICK kept : Keeps(kept, <<>>, 0) /\ Found(<<>>) = kept[0]
  BY <1>1, FoundIs
<1> QED BY <1>2 DEF Keeps

LEMMA FoundAppend ==
  ASSUME NEW q \in Seq(Tracks), NEW t \in Tracks
  PROVE  Found(Append(q, t)) = IF t \in Missing THEN Found(q) ELSE Append(Found(q), t)
<1> DEFINE r == Append(q, t)
           n == Len(q)
<1>1. r \in Seq(Tracks) /\ Len(r) = n+1 /\ n \in Nat /\ r[n+1] = t /\ \A i \in 1..n : q[i] = r[i]
  BY ListSteps
<1> HIDE DEF r, n
<1>2. PICK f : Keeps(f, q, n) /\ Found(q) = f[n]
  BY FoundIs DEF n
<1>3. PICK g : Keeps(g, r, n+1) /\ Found(r) = g[n+1]
  BY <1>1, FoundIs
<1>4. f[n] = g[n]
  BY <1>1, <1>2, <1>3, KeptUnique
<1>5. g[n+1] = IF r[n+1] \in Missing THEN g[n] ELSE Append(g[n], r[n+1])
  <2>1. n+1 \in 0..n+1 /\ n+1 # 0 /\ n+1-1 = n
    BY <1>1
  <2>2. \A i \in 0..n+1 : g[i] = IF i = 0 THEN <<>> ELSE IF r[i] \in Missing THEN g[i - 1]
                                 ELSE Append(g[i - 1], r[i])
    BY <1>3 DEF Keeps
  <2> QED BY <1>1, <2>1, <2>2
<1>6. Found(r) = IF t \in Missing THEN Found(q) ELSE Append(Found(q), t)
  BY <1>1, <1>2, <1>3, <1>4, <1>5
<1> QED BY <1>6 DEF r

\* A list is found as a list; one without missing tracks is found as it is.
LEMMA FoundAll ==
  ASSUME NEW q \in Seq(Tracks)
  PROVE  /\ Found(q) \in Seq(Tracks)
         /\ (\A i \in 1..Len(q) : q[i] \notin Missing) => Found(q) = q
<1> DEFINE Good(r) == /\ Found(r) \in Seq(Tracks)
                      /\ (\A i \in 1..Len(r) : r[i] \notin Missing) => Found(r) = r
           Bad == {k \in Nat : \E r \in Seq(Tracks) : Len(r) = k /\ ~Good(r)}
<1>1. SUFFICES ASSUME Bad # {} PROVE FALSE
  <2>1. Len(q) \in Nat
    OBVIOUS
  <2> QED BY <2>1
<1>2. PICK m \in Bad : \A k \in Bad : m <= k
  <2>1. Bad \subseteq Nat
    OBVIOUS
  <2> HIDE DEF Bad
  <2> QED BY <1>1, <2>1, LeastNatural
<1>3. PICK r \in Seq(Tracks) : Len(r) = m /\ ~Good(r)
  OBVIOUS
<1>4. r # <<>>
  <2>1. <<>> \in Seq(Tracks)
    OBVIOUS
  <2> QED BY <1>3, <2>1, FoundEmpty
<1> DEFINE f == Front(r)
           t == Last(r)
<1>5. /\ f \in Seq(Tracks) /\ Len(f) = m-1 /\ m-1 \in Nat /\ t \in Tracks /\ t = r[m]
      /\ r = Append(f, t) /\ \A i \in 1..m-1 : f[i] = r[i]
  <2>1. m \in Nat /\ Len(r) = m
    BY <1>3
  <2>2. /\ Front(r) \in Seq(Tracks) /\ Len(Front(r)) = Len(r)-1 /\ Len(r) > 0
        /\ Last(r) = r[Len(r)] /\ Last(r) \in Tracks
        /\ \A i \in 1..Len(r)-1 : Front(r)[i] = r[i]
        /\ r = Append(Front(r), Last(r))
    BY <1>4, ListSteps, Zenon
  <2> HIDE DEF Bad, Good
  <2> QED BY <2>1, <2>2
<1>6. Good(f)
  <2>1. m-1 \notin Bad
    BY <1>2, <1>5
  <2> QED BY <1>5, <2>1
<1> HIDE DEF f, t
<1>7. Found(r) = IF t \in Missing THEN Found(f) ELSE Append(Found(f), t)
  BY <1>5, FoundAppend
<1>8. Found(r) \in Seq(Tracks)
  BY <1>5, <1>6, <1>7
<1>9. ASSUME \A i \in 1..Len(r) : r[i] \notin Missing PROVE Found(r) = r
  <2>1. t \notin Missing /\ \A i \in 1..Len(f) : f[i] \notin Missing
    BY <1>3, <1>5, <1>9
  <2> QED BY <1>5, <1>6, <1>7, <2>1
<1> QED BY <1>3, <1>8, <1>9

-----------------------------------------------------------------------------
(* The tracks in the lists.                                                *)

SaverStates == {"off", "begin", "ask", "write", "close", "mark", "post", "report"}

SaverRecords == [pc : SaverStates, closes : BOOLEAN, cnr : BOOLEAN,
                 at : Tracks \cup {NoTrack}, out : Seq(Tracks)]

FlagTypes ==
  /\ haste \subseteq Impatience /\ target \in {"writable", "readonly", "gone"}
  /\ folder \in {"none", "alive"} /\ handler \in {"none", "waits", "timer"}
  /\ {window, changed, closing, inUse} \subseteq BOOLEAN
  /\ ui \in {Free} \cup ({"drop", "delete"} \X Tracks)
  /\ boxes \in 0..MaxBoxes

ListTypes ==
  /\ IsList(file) /\ IsList(shown)
  /\ loader \in [pc : {"off", "read", "insert"}, left : Seq(Tracks)]
  /\ IsList(loader.left)
  /\ savers \in [Slots -> SaverRecords]
  /\ \A s \in Slots : IsList(savers[s].out)

\* What the script has still to show.
Coming == IF loader.pc = "read" THEN file ELSE loader.left

\* A track that is in nobody's hands.
Unseen(t) ==
  /\ ~Contains(Coming, t)
  /\ \A s \in Slots : savers[s].at # t /\ ~Contains(savers[s].out, t)

\* Without a window nothing is shown; the user works on a window.
OnScreen == (window \/ shown = <<>>) /\ (ui # Free => window)

\* A thread that does not run has nothing; one that begins has written nothing; and none
\* runs before the script has read the file.
Fresh ==
  /\ \A s \in Slots :
       /\ savers[s].pc = "off" => savers[s] = NoSaver
       /\ savers[s].pc = "begin" => savers[s].at = NoTrack /\ savers[s].out = <<>>
  /\ Saving => loader.pc # "read"

\* What is shown, what is still to come, and what is being dropped are different tracks,
\* and what is shown exists.
Apart ==
  /\ \A i \in 1..Len(shown) : shown[i] \notin Missing /\ ~Contains(Coming, shown[i])
  /\ \A i \in 1..Len(Coming) : \A s \in Slots :
       savers[s].at # Coming[i] /\ ~Contains(savers[s].out, Coming[i])
  /\ \A t \in Tracks : ui = <<"drop", t>> =>
       t \notin Missing /\ ~Contains(shown, t) /\ Unseen(t)

\* A thread has written nothing that is shown behind the record it asked for last.
Behind(v) ==
  \A i, j \in 1..Len(shown) :
    shown[j] = v.at /\ Contains(v.out, shown[i]) => i <= j

Tidy(v) ==
  /\ v.pc = "ask" => Behind(v) /\ (v.at = NoTrack => v.out = <<>>)
  /\ v.pc = "write" => Behind(v) /\ v.at # NoTrack /\ ~Contains(v.out, v.at)

InOrder == \A s \in Slots : Tidy(savers[s])

TrackInv == ListTypes /\ OnScreen /\ Fresh /\ Apart /\ InOrder

LEMMA FlagTypesInit == Init => FlagTypes
<1> SUFFICES ASSUME Init PROVE FlagTypes
  OBVIOUS
<1>1. haste \subseteq Impatience /\ target \in {"writable", "readonly", "gone"}
  BY DEF Init
<1>2. folder \in {"none", "alive"} /\ handler \in {"none", "waits", "timer"}
      /\ {window, changed, closing, inUse} \subseteq BOOLEAN /\ ui = Free
  BY DEF Init
<1>3. boxes \in 0..MaxBoxes
  BY EditorAssumption DEF Init
<1> QED BY <1>1, <1>2, <1>3 DEF FlagTypes

LEMMA FlagTypesNext == FlagTypes /\ [Next]_vars => FlagTypes'
<1> SUFFICES ASSUME FlagTypes, [Next]_vars PROVE FlagTypes'
  OBVIOUS
<1> USE DEF FlagTypes, outside, folderVars, msgVars
<1>1. CASE UNCHANGED vars
  BY <1>1 DEF vars
<1>2. CASE Open
  BY <1>2 DEF Open
<1>3. CASE LoadRead \/ LoadInsert \/ LoadEnd
  BY <1>3 DEF LoadRead, LoadInsert, LoadEnd
<1>4. CASE \E t \in Tracks : DropBegins(t) \/ DeleteBegins(t)
  <2>1. PICK t \in Tracks : DropBegins(t) \/ DeleteBegins(t)
    BY <1>4
  <2>2. ui' \in {"drop", "delete"} \X Tracks
    BY <2>1 DEF DropBegins, DeleteBegins
  <2>3. changed' \in BOOLEAN 
        /\ UNCHANGED <<haste, target, folder, handler, window, closing, inUse, boxes>>
    BY <2>1 DEF DropBegins, DeleteBegins
  <2> QED BY <2>2, <2>3
<1>5. CASE DropEnds \/ DeleteEnds
  BY <1>5 DEF DropEnds, DeleteEnds
<1>6. CASE Save \/ AnswerCancel \/ AnswerYes \/ AnswerNo
  <2>1. boxes' \in 0..MaxBoxes
    <3>1. boxes' = boxes \/ (boxes > 0 /\ boxes' = boxes - 1)
      BY <1>6 DEF Save, AnswerCancel, AnswerYes, AnswerNo
    <3> QED BY <3>1, EditorAssumption
  <2>2. /\ closing' \in BOOLEAN /\ window' \in BOOLEAN
        /\ UNCHANGED <<haste, target, folder, handler, changed, inUse, ui>>
    BY <1>6 DEF Save, AnswerCancel, AnswerYes, AnswerNo, DestroysWindow
  <2> QED BY <2>1, <2>2
<1>7. CASE \E s \in Slots : SaverStep(s)
  BY <1>7 DEF SaverStep, SaveGivesUp, SaveOpen, SaveNothing, SaveAsk, SaveWrite, SaveClose,
              SaveMark, SaveAsksClose, SaveReports
<1>8. CASE UserCloses \/ CloseAfterSave \/ CloseUnchanged \/ CloseAsks
  <2>1. boxes' \in 0..MaxBoxes
    <3>1. boxes' = boxes \/ (boxes < MaxBoxes /\ boxes' = boxes + 1)
      BY <1>8 DEF UserCloses, CloseAfterSave, CloseUnchanged, CloseAsks
    <3> QED BY <3>1, EditorAssumption
  <2>2. /\ closing' \in BOOLEAN /\ window' \in BOOLEAN
        /\ UNCHANGED <<haste, target, folder, handler, changed, inUse, ui>>
    BY <1>8 DEF UserCloses, CloseAfterSave, CloseUnchanged, CloseAsks, DestroysWindow
  <2> QED BY <2>1, <2>2
<1>9. CASE EndNotified \/ FolderFreed
  BY <1>9 DEF EndNotified, FolderFreed
<1> QED BY <1>1, <1>2, <1>3, <1>4, <1>5, <1>6, <1>7, <1>8, <1>9 DEF Next, UIStep

LEMMA TrackInit == Init => TrackInv
<1> SUFFICES ASSUME Init PROVE TrackInv
  OBVIOUS
<1>1. IsList(file) /\ IsList(<<>>) /\ shown = <<>> /\ loader = NotLoading
  BY ListsAre DEF Init, IsList
<1>2. savers = [s \in Slots |-> NoSaver]
  BY DEF Init
<1>3. ListTypes
  BY <1>1, <1>2 DEF ListTypes, NotLoading, NoSaver, SaverRecords, SaverStates
<1>4. OnScreen /\ InOrder
  BY <1>1, <1>2 DEF Init, OnScreen, InOrder, Tidy, NoSaver
<1>5. Fresh
  BY <1>1, <1>2 DEF Fresh, NoSaver, NotLoading
<1>6. Apart
  BY <1>1, <1>2 DEF Init, Apart, Coming, NotLoading, Free
<1> QED BY <1>3, <1>4, <1>5, <1>6 DEF TrackInv

\* Steps that touch neither lists nor threads.
LEMMA TracksStay ==
  ASSUME TrackInv, UNCHANGED <<file, shown, window, ui, loader, savers>> PROVE TrackInv'
<1>1. ListTypes' /\ OnScreen'
  BY DEF TrackInv, ListTypes, OnScreen
<1>2. Fresh'
  BY DEF TrackInv, Fresh, Saving
<1>3. Apart'
  BY DEF TrackInv, Apart, Coming, Unseen
<1>4. InOrder'
  BY DEF TrackInv, InOrder, Tidy, Behind
<1> QED BY <1>1, <1>2, <1>3, <1>4 DEF TrackInv

\* Steps that take the window away.
LEMMA WindowGoes ==
  ASSUME TrackInv, ui = Free, window' = FALSE, shown' = <<>>, UNCHANGED <<file, ui, loader, savers>>
  PROVE  TrackInv'
<1>1. Len(shown') = 0 /\ IsList(shown')
  BY DEF IsList
<1>2. ListTypes' /\ OnScreen'
  BY <1>1 DEF TrackInv, ListTypes, OnScreen
<1>3. Fresh'
  BY DEF TrackInv, Fresh, Saving
<1>4. Apart'
  BY <1>1 DEF TrackInv, Apart, Coming, Free
<1>5. InOrder'
  BY <1>1 DEF TrackInv, InOrder, Tidy, Behind
<1> QED BY <1>2, <1>3, <1>4, <1>5 DEF TrackInv

LEMMA OpenTracks == ASSUME EditInv, TrackInv, Open PROVE TrackInv'
<1>1. /\ window' = TRUE /\ shown' = <<>> /\ loader' = [pc |-> "read", left |-> <<>>]
      /\ UNCHANGED <<file, ui, savers>> /\ ~Saving
  BY DEF Open, outside
<1>2. ui = Free
  BY DEF Open, EditInv, Together, TrackInv, OnScreen
<1>3. \A s \in Slots : savers[s] = NoSaver
  BY <1>1 DEF TrackInv, Fresh, Saving
<1>4. IsList(<<>>) /\ Len(<<>>) = 0
  BY DEF IsList
<1>5. ListTypes' /\ OnScreen'
  BY <1>1, <1>4 DEF TrackInv, ListTypes, OnScreen
<1>6. Fresh' /\ InOrder'
  BY <1>1, <1>3 DEF Fresh, InOrder, Tidy, Saving, NoSaver
<1>7. Apart'
  <2>1. \A i \in 1..Len(file) : file[i] # NoTrack
    BY EditorAssumption DEF TrackInv, ListTypes, IsList
  <2>2. Coming' = file
    BY <1>1 DEF Coming
  <2> QED BY <1>1, <1>2, <1>3, <1>4, <2>1, <2>2 DEF Apart, NoSaver, Free, Contains
<1> QED BY <1>5, <1>6, <1>7 DEF TrackInv

LEMMA LoadReadTracks == ASSUME TrackInv, LoadRead \/ LoadEnd PROVE TrackInv'
<1>1. UNCHANGED <<file, shown, window, ui, savers>> /\ IsList(<<>>)
  BY DEF LoadRead, LoadEnd, outside, folderVars, IsList
<1>2. Coming' = Coming /\ loader'.pc # "read" /\ IsList(loader'.left)
      /\ loader' \in [pc : {"off", "read", "insert"}, left : Seq(Tracks)]
  BY <1>1 DEF LoadRead, LoadEnd, NotLoading, Coming, TrackInv, ListTypes, IsList
<1>3. ListTypes' /\ OnScreen'
  BY <1>1, <1>2 DEF TrackInv, ListTypes, OnScreen
<1>4. Fresh'
  BY <1>1, <1>2 DEF TrackInv, Fresh, Saving
<1>5. Apart'
  BY <1>1, <1>2 DEF TrackInv, Apart, Unseen
<1>6. InOrder'
  BY <1>1 DEF TrackInv, InOrder, Tidy, Behind
<1> QED BY <1>3, <1>4, <1>5, <1>6 DEF TrackInv

\* A track that was nowhere is shown.
LEMMA ShownGrows ==
  ASSUME TrackInv, NEW x \in Tracks, NEW k \in 1..Len(shown)+1, shown' = InsertAt(shown, k, x),
         x \notin Missing, ~Contains(shown, x),
         \A s \in Slots : savers[s].at # x /\ ~Contains(savers[s].out, x),
         window, ui' = Free, UNCHANGED <<window, file, savers>>,
         loader' \in [pc : {"off", "read", "insert"}, left : Seq(Tracks)], IsList(loader'.left),
         Saving => loader'.pc # "read",
         \A i \in 1..Len(Coming') : Coming'[i] # x /\ Contains(Coming, Coming'[i])
  PROVE  TrackInv'
<1>1. shown \in Seq(Tracks) /\ Len(shown) \in Nat
  BY DEF TrackInv, ListTypes, IsList
<1>2. /\ shown' \in Seq(Tracks) /\ Len(shown') = Len(shown)+1
      /\ \A i \in 1..Len(shown)+1 :
           shown'[i] = IF i < k THEN shown[i] ELSE IF i = k THEN x ELSE shown[i-1]
  <2>1. shown' \in Seq(Tracks) /\ PutIn(shown', shown, k, x)
    BY <1>1, InsertFacts
  <2> QED BY <2>1 DEF PutIn
<1> DEFINE old(i) == IF i < k THEN i ELSE i-1
<1>3. \A i \in 1..Len(shown') :
        \/ i = k /\ shown'[i] = x
        \/ i # k /\ old(i) \in 1..Len(shown) /\ shown'[i] = shown[old(i)] /\ shown'[i] # x
  <2>1. \A i \in 1..Len(shown) : shown[i] # x
    BY DEF Contains
  <2> SUFFICES ASSUME NEW i \in 1..Len(shown)+1
               PROVE  \/ i = k /\ shown'[i] = x
                      \/ i # k /\ old(i) \in 1..Len(shown) /\ shown'[i] = shown[old(i)] /\ shown'[i] # x
    BY <1>2
  <2>2. i # k => old(i) \in 1..Len(shown)
    BY <1>1
  <2>3. shown'[i] = IF i < k THEN shown[i] ELSE IF i = k THEN x ELSE shown[i-1]
    BY <1>2
  <2>4. shown'[i] = IF i = k THEN x ELSE shown[old(i)]
    <3>1. CASE i < k
      BY <2>3, <3>1
    <3>2. CASE i = k
      BY <2>3, <3>2
    <3>3. CASE i > k
      BY <2>3, <3>3
    <3> QED BY <1>1, <3>1, <3>2, <3>3
  <2> HIDE DEF old
  <2> QED BY <2>1, <2>2, <2>4
<1>4. \A i, j \in 1..Len(shown') : i # k /\ j # k =>
        (old(i) <= old(j) <=> i <= j) /\ (old(i) = old(j) <=> i = j)
  BY <1>1, <1>2
<1> HIDE DEF old
<1>5. IsList(shown')
  <2>1. ASSUME NEW i \in 1..Len(shown'), NEW j \in 1..Len(shown'), shown'[i] = shown'[j]
        PROVE  i = j
    <3>1. CASE i = k \/ j = k
      BY <1>3, <2>1, <3>1
    <3>2. CASE i # k /\ j # k
      BY <1>3, <1>4, <2>1, <3>2 DEF TrackInv, ListTypes, IsList
    <3> QED BY <3>1, <3>2
  <2> QED BY <1>2, <2>1 DEF IsList
<1>6. ListTypes' /\ OnScreen'
  BY <1>5 DEF TrackInv, ListTypes, OnScreen
<1>7. Fresh'
  BY DEF TrackInv, Fresh, Saving
<1>8. Apart'
  <2>1. \A i \in 1..Len(shown') : shown'[i] \notin Missing /\ ~Contains(Coming', shown'[i])
    <3> SUFFICES ASSUME NEW i \in 1..Len(shown')
                 PROVE  shown'[i] \notin Missing /\ ~Contains(Coming', shown'[i])
      OBVIOUS
    <3>1. CASE i = k
      BY <1>3, <3>1 DEF Contains
    <3>2. CASE i # k
      <4>1. shown[old(i)] \notin Missing /\ ~Contains(Coming, shown[old(i)])
        BY <1>3, <3>2 DEF TrackInv, Apart
      <4> QED BY <1>3, <3>2, <4>1 DEF Contains
    <3> QED BY <3>1, <3>2
  <2>2. \A i \in 1..Len(Coming') : \A s \in Slots :
          savers[s].at # Coming'[i] /\ ~Contains(savers[s].out, Coming'[i])
    <3> SUFFICES ASSUME NEW i \in 1..Len(Coming'), NEW s \in Slots
                 PROVE  savers[s].at # Coming'[i] /\ ~Contains(savers[s].out, Coming'[i])
      OBVIOUS
    <3>1. PICK j \in 1..Len(Coming) : Coming[j] = Coming'[i]
      BY DEF Contains
    <3> QED BY <3>1 DEF TrackInv, Apart
  <2> QED BY <2>1, <2>2 DEF Apart, Free
<1>9. InOrder'
  <2> SUFFICES ASSUME NEW s \in Slots, savers[s].pc \in {"ask", "write"}
               PROVE  Behind(savers[s])'
    BY DEF TrackInv, InOrder, Tidy
  <2>1. Behind(savers[s])
    BY DEF TrackInv, InOrder, Tidy
  <2> SUFFICES ASSUME NEW i \in 1..Len(shown'), NEW j \in 1..Len(shown'),
                      shown'[j] = savers[s].at, Contains(savers[s].out, shown'[i])
               PROVE  i <= j
    BY DEF Behind
  <2>2. i # k /\ j # k
    BY <1>3
  <2>3. old(i) <= old(j)
    BY <1>3, <2>1, <2>2 DEF Behind
  <2> QED BY <1>4, <2>2, <2>3
<1> QED BY <1>6, <1>7, <1>8, <1>9 DEF TrackInv

\* A track is no longer shown.
LEMMA ShownShrinks ==
  ASSUME TrackInv, NEW k \in 1..Len(shown), shown' = RemoveAt(shown, k),
         window, ui' = Free, UNCHANGED <<window, file, savers, loader>>
  PROVE  TrackInv'
<1>1. shown \in Seq(Tracks) /\ Len(shown) \in Nat
  BY DEF TrackInv, ListTypes, IsList
<1>2. /\ shown' \in Seq(Tracks) /\ Len(shown') = Len(shown)-1
      /\ \A i \in 1..Len(shown)-1 : shown'[i] = IF i < k THEN shown[i] ELSE shown[i+1]
  BY <1>1, RemoveFacts DEF TakenOut
<1> DEFINE old(i) == IF i < k THEN i ELSE i+1
<1>3. \A i \in 1..Len(shown') : old(i) \in 1..Len(shown) /\ shown'[i] = shown[old(i)]
  BY <1>1, <1>2
<1>4. \A i, j \in 1..Len(shown') :
        (old(i) <= old(j) <=> i <= j) /\ (old(i) = old(j) <=> i = j)
  BY <1>1, <1>2
<1> HIDE DEF old
<1>5. IsList(shown')
  BY <1>2, <1>3, <1>4 DEF TrackInv, ListTypes, IsList
<1>6. ListTypes' /\ OnScreen'
  BY <1>5 DEF TrackInv, ListTypes, OnScreen
<1>7. Fresh'
  BY DEF TrackInv, Fresh, Saving
<1>8. Apart'
  <2>1. Coming' = Coming
    BY DEF Coming
  <2> QED BY <1>3, <2>1 DEF TrackInv, Apart, Free
<1>9. InOrder'
  <2> SUFFICES ASSUME NEW s \in Slots, savers[s].pc \in {"ask", "write"}
               PROVE  Behind(savers[s])'
    BY DEF TrackInv, InOrder, Tidy
  <2>1. Behind(savers[s])
    BY DEF TrackInv, InOrder, Tidy
  <2> QED BY <1>3, <1>4, <2>1 DEF Behind
<1> QED BY <1>6, <1>7, <1>8, <1>9 DEF TrackInv

LEMMA LoadInsertTracks == ASSUME TrackInv, LoadInsert PROVE TrackInv'
<1> DEFINE left == loader.left
           x == Last(left)
<1>1. /\ loader.pc = "insert" /\ left # <<>> /\ ui = Free
      /\ loader' = [loader EXCEPT !.left = Front(left)]
      /\ shown' = IF window THEN Found(<<x>>) \o shown ELSE shown
      /\ UNCHANGED <<file, window, ui, savers>>
  BY DEF LoadInsert, outside
<1>2. /\ left \in Seq(Tracks) /\ IsList(left) /\ shown \in Seq(Tracks) /\ Len(shown) \in Nat
      /\ loader \in [pc : {"off", "read", "insert"}, left : Seq(Tracks)]
      /\ Coming = left
  BY <1>1 DEF TrackInv, ListTypes, IsList, Coming
<1> HIDE DEF left
<1>3. /\ Front(left) \in Seq(Tracks) /\ Len(Front(left)) = Len(left)-1 /\ Len(left) > 0
      /\ x = left[Len(left)] /\ x \in Tracks /\ Len(left) \in Nat
      /\ \A i \in 1..Len(left)-1 : Front(left)[i] = left[i]
  BY <1>1, <1>2, ListSteps, Zenon
<1> HIDE DEF x
<1>4. IsList(Front(left)) /\ \A i \in 1..Len(Front(left)) : Front(left)[i] # x
  BY <1>2, <1>3 DEF IsList
<1>5. /\ loader'.pc = "insert" /\ loader'.left = Front(left) /\ Coming' = Front(left)
      /\ loader' \in [pc : {"off", "read", "insert"}, left : Seq(Tracks)]
  BY <1>1, <1>2, <1>3 DEF Coming
<1>6. \A i \in 1..Len(Coming') : Coming'[i] # x /\ Contains(left, Coming'[i])
  BY <1>3, <1>4, <1>5 DEF Contains
<1>7. Contains(left, x)
  BY <1>3 DEF Contains
<1>8. Found(<<x>>) = IF x \in Missing THEN <<>> ELSE <<x>>
  <2>1. <<>> \in Seq(Tracks) /\ Append(<<>>, x) = <<x>>
    OBVIOUS
  <2> QED BY <1>3, <2>1, FoundAppend, FoundEmpty
<1>9. CASE window /\ x \notin Missing
  <2>1. InsertAt(shown, 1, x) = <<x>> \o shown
    BY <1>2, <1>3 DEF InsertAt
  <2>2. shown' = InsertAt(shown, 1, x) /\ 1 \in 1..Len(shown)+1
    <3>1. Found(<<x>>) = <<x>> /\ 1 \in 1..Len(shown)+1
      BY <1>2, <1>8, <1>9
    <3> QED BY <1>1, <1>9, <2>1, <3>1
  <2>3. ~Contains(shown, x)
    BY <1>2, <1>7 DEF TrackInv, Apart, Contains
  <2>4. \A s \in Slots : savers[s].at # x /\ ~Contains(savers[s].out, x)
    BY <1>2, <1>3 DEF TrackInv, Apart
  <2>5. ui' = Free /\ IsList(loader'.left) /\ (Saving => loader'.pc # "read")
        /\ UNCHANGED <<window, file, savers>> /\ window
        /\ \A i \in 1..Len(Coming') : Coming'[i] # x /\ Contains(Coming, Coming'[i])
    BY <1>1, <1>2, <1>4, <1>5, <1>6, <1>9
  <2> HIDE DEF Coming
  <2> QED BY <1>3, <1>5, <1>9, <2>2, <2>3, <2>4, <2>5, ShownGrows
<1>10. CASE ~(window /\ x \notin Missing)
  <2>1. shown' = shown
    BY <1>1, <1>2, <1>8, <1>10
  <2>2. ListTypes' /\ OnScreen'
    BY <1>1, <1>4, <1>5, <2>1 DEF TrackInv, ListTypes, OnScreen
  <2>3. Fresh'
    BY <1>1, <1>5 DEF TrackInv, Fresh, Saving
  <2>4. Apart'
    <3>1. ASSUME NEW t \in Tracks, Contains(Coming', t) PROVE Contains(Coming, t)
      <4>1. PICK i \in 1..Len(Coming') : Coming'[i] = t
        BY <3>1 DEF Contains
      <4> QED BY <1>2, <1>6, <4>1
    <3>2. \A i \in 1..Len(shown') : shown'[i] \notin Missing /\ ~Contains(Coming', shown'[i])
      BY <1>2, <2>1, <3>1 DEF TrackInv, Apart
    <3>3. \A i \in 1..Len(Coming') : \A s \in Slots :
            savers'[s].at # Coming'[i] /\ ~Contains(savers'[s].out, Coming'[i])
      BY <1>1, <1>2, <1>3, <1>5 DEF TrackInv, Apart
    <3> QED BY <1>1, <3>2, <3>3 DEF Apart, Free
  <2>5. InOrder'
    BY <1>1, <2>1 DEF TrackInv, InOrder, Tidy, Behind
  <2> QED BY <2>2, <2>3, <2>4, <2>5 DEF TrackInv
<1> QED BY <1>9, <1>10

\* The user begins to drop a track or to delete one.
LEMMA EditBegins ==
  ASSUME TrackInv, NEW t \in Tracks, DropBegins(t) \/ DeleteBegins(t) PROVE TrackInv'
<1>1. UNCHANGED <<file, shown, window, loader, savers>> /\ window
      /\ ui' \in {<<"drop", t>>, <<"delete", t>>}
  BY DEF DropBegins, DeleteBegins, MayDrop, MayEdit, Ready, outside
<1>2. ui' = <<"drop", t>> => t \notin Missing /\ ~Contains(shown, t) /\ Unseen(t)
  BY DEF DropBegins, DeleteBegins, MayDrop, Unseen, Coming
<1>3. ListTypes' /\ OnScreen'
  BY <1>1 DEF TrackInv, ListTypes, OnScreen
<1>4. Fresh'
  BY <1>1 DEF TrackInv, Fresh, Saving
<1>5. InOrder'
  BY <1>1 DEF TrackInv, InOrder, Tidy, Behind
<1>6. Apart'
  <2>1. Coming' = Coming
    BY <1>1 DEF Coming
  <2>2. \A u \in Tracks : ui' = <<"drop", u>> => ui' = <<"drop", t>> /\ u = t
    BY <1>1
  <2> QED BY <1>1, <1>2, <2>1, <2>2 DEF TrackInv, Apart, Unseen
<1> QED BY <1>3, <1>4, <1>5, <1>6 DEF TrackInv

LEMMA EditEnds == ASSUME FlagTypes, TrackInv, DropEnds \/ DeleteEnds PROVE TrackInv'
<1>1. UNCHANGED <<file, window, loader, savers>> /\ ui' = Free
  BY DEF DropEnds, DeleteEnds, outside
<1>2. ui # Free /\ window
  BY DEF DropEnds, DeleteEnds, TrackInv, OnScreen, Free
<1>3. PICK t \in Tracks : ui \in {<<"drop", t>>, <<"delete", t>>}
  <2>1. ui \in {"drop", "delete"} \X Tracks
    BY <1>2 DEF FlagTypes
  <2> QED BY <2>1
<1>4. IsList(shown) /\ shown \in Seq(Tracks) /\ Len(shown) \in Nat
  BY DEF TrackInv, ListTypes, IsList
<1>5. CASE DropEnds
  <2>1. ui = <<"drop", t>>
    BY <1>3, <1>5 DEF DropEnds
  <2>2. PICK k \in 1..Len(shown)+1 : shown' = InsertAt(shown, k, t)
    BY <1>5, <2>1 DEF DropEnds
  <2>3. t \notin Missing /\ ~Contains(shown, t) /\ Unseen(t)
    BY <2>1 DEF TrackInv, Apart
  <2>4. Coming' = Coming
    BY <1>1 DEF Coming
  <2>5. \A i \in 1..Len(Coming') : Coming'[i] # t /\ Contains(Coming, Coming'[i])
    BY <2>3, <2>4 DEF Unseen, Contains
  <2>6. /\ loader' \in [pc : {"off", "read", "insert"}, left : Seq(Tracks)]
        /\ IsList(loader'.left) /\ (Saving => loader'.pc # "read")
    BY <1>1 DEF TrackInv, ListTypes, Fresh
  <2>7. \A s \in Slots : savers[s].at # t /\ ~Contains(savers[s].out, t)
    BY <2>3 DEF Unseen
  <2> QED BY <1>1, <1>2, <2>2, <2>3, <2>5, <2>6, <2>7, ShownGrows
<1>6. CASE DeleteEnds
  <2>1. shown' = RemoveFirst(shown, t)
    BY <1>3, <1>6 DEF DeleteEnds
  <2>2. CASE Contains(shown, t)
    <3>1. PICK k \in 1..Len(shown) : shown[k] = t
      BY <2>2 DEF Contains
    <3>2. shown' = RemoveAt(shown, k)
      BY <1>4, <2>1, <3>1, RemovesFirst
    <3> QED BY <1>1, <1>2, <3>2, ShownShrinks
  <2>3. CASE ~Contains(shown, t)
    <3>1. shown' = shown
      BY <2>1, <2>3 DEF RemoveFirst, Contains
    <3>2. ListTypes' /\ OnScreen' /\ Fresh' /\ InOrder'
      BY <1>1, <3>1 DEF TrackInv, ListTypes, OnScreen, Fresh, Saving, InOrder, Tidy, Behind
    <3>3. Apart'
      BY <1>1, <3>1 DEF TrackInv, Apart, Coming, Free
    <3> QED BY <3>2, <3>3 DEF TrackInv
  <2> QED BY <2>2, <2>3
<1> QED BY <1>5, <1>6

\* What a thread holds: the record it asked for last and what it has written.
Holds(v, t) == v.at = t \/ Contains(v.out, t)

\* A thread moves; what it gets hold of is a track that is shown while the user does
\* nothing.
LEMMA SaverMoves ==
  ASSUME TrackInv, NEW s \in Slots, NEW v \in SaverRecords,
         savers' = [savers EXCEPT ![s] = v], UNCHANGED <<shown, window, ui, loader>>,
         loader.pc # "read", IsList(file'), IsList(v.out), Tidy(v),
         v.pc = "off" => v = NoSaver, v.pc = "begin" => v.at = NoTrack /\ v.out = <<>>,
         \A t \in Tracks : Holds(v, t) => Holds(savers[s], t) \/ (ui = Free /\ Contains(shown, t))
  PROVE  TrackInv'
<1>1. savers' \in [Slots -> SaverRecords] /\ savers'[s] = v
      /\ \A r \in Slots \ {s} : savers'[r] = savers[r]
  BY DEF TrackInv, ListTypes
<1>2. ListTypes' /\ OnScreen'
  BY <1>1 DEF TrackInv, ListTypes, OnScreen
<1>3. Fresh'
  BY <1>1 DEF TrackInv, Fresh
<1>4. InOrder'
  <2>1. \A r \in Slots \ {s} : Tidy(savers[r])'
    BY <1>1 DEF TrackInv, InOrder, Tidy, Behind
  <2>2. Tidy(savers[s])'
    BY <1>1 DEF Tidy, Behind
  <2> QED BY <2>1, <2>2 DEF InOrder
<1>5. Apart'
  <2>1. Coming' = Coming
    BY DEF Coming
  <2>2. \A i \in 1..Len(Coming) : Coming[i] \in Tracks
    BY DEF TrackInv, ListTypes, IsList, Coming
  <2>3. \A i \in 1..Len(Coming), r \in Slots : ~Holds(savers'[r], Coming[i])
    <3> SUFFICES ASSUME NEW i \in 1..Len(Coming), NEW r \in Slots, Holds(savers'[r], Coming[i])
                 PROVE  FALSE
      OBVIOUS
    <3>1. \A q \in Slots : ~Holds(savers[q], Coming[i])
      BY DEF TrackInv, Apart, Holds
    <3>2. r = s /\ Contains(shown, Coming[i])
      BY <1>1, <2>2, <3>1
    <3>3. PICK j \in 1..Len(shown) : shown[j] = Coming[i]
      BY <3>2 DEF Contains
    <3>4. ~Contains(Coming, shown[j])
      BY DEF TrackInv, Apart
    <3> QED BY <3>3, <3>4 DEF Contains
  <2>4. ASSUME NEW t \in Tracks, ui = <<"drop", t>>
        PROVE  t \notin Missing /\ ~Contains(shown, t) /\ ~Contains(Coming, t)
               /\ \A r \in Slots : ~Holds(savers'[r], t)
    <3>1. t \notin Missing /\ ~Contains(shown, t) /\ ~Contains(Coming, t)
          /\ \A r \in Slots : ~Holds(savers[r], t)
      BY <2>4 DEF TrackInv, Apart, Unseen, Holds
    <3>2. ui # Free
      BY <2>4 DEF Free
    <3> QED BY <1>1, <3>1, <3>2
  <2>5. \A i \in 1..Len(shown) : shown[i] \notin Missing /\ ~Contains(Coming, shown[i])
    BY DEF TrackInv, Apart
  <2> QED BY <2>1, <2>3, <2>4, <2>5 DEF Apart, Unseen, Holds
<1> QED BY <1>2, <1>3, <1>4, <1>5 DEF TrackInv

\* What is known of a thread that runs.
LEMMA SaverKnown ==
  ASSUME TrackInv, NEW s \in Slots
  PROVE  /\ savers[s] \in SaverRecords /\ savers \in [Slots -> SaverRecords]
         /\ IsList(savers[s].out) /\ IsList(file) /\ IsList(<<>>) /\ Tidy(savers[s])
         /\ savers[s].pc # "off" => loader.pc # "read"
         /\ savers[s].pc = "begin" => savers[s].at = NoTrack /\ savers[s].out = <<>>
<1>1. savers[s] \in SaverRecords /\ savers \in [Slots -> SaverRecords] /\ IsList(savers[s].out)
      /\ IsList(file) /\ IsList(<<>>)
  BY DEF TrackInv, ListTypes, IsList
<1>2. Tidy(savers[s])
  BY DEF TrackInv, InOrder
<1>3. /\ savers[s].pc # "off" => loader.pc # "read"
      /\ savers[s].pc = "begin" => savers[s].at = NoTrack /\ savers[s].out = <<>>
  BY DEF TrackInv, Fresh, Saving
<1> QED BY <1>1, <1>2, <1>3

LEMMA NoneHolds == ASSUME NEW v, v.at = NoTrack, v.out = <<>> PROVE \A t \in Tracks : ~Holds(v, t)
BY EditorAssumption DEF Holds, Contains

\* A thread that is started.
LEMMA SaverStarts ==
  ASSUME TrackInv, NEW c \in BOOLEAN, StartSaver(c), UNCHANGED <<file, shown, window, ui, loader>>,
         FlagTypes
  PROVE  TrackInv'
<1> DEFINE v == [pc |-> "begin", closes |-> c, cnr |-> window, at |-> NoTrack, out |-> <<>>]
<1>1. PICK s \in Slots : savers[s].pc = "off" /\ savers' = [savers EXCEPT ![s] = v]
  BY DEF StartSaver
<1>2. loader.pc # "read"
  BY DEF StartSaver
<1>3. v \in SaverRecords /\ v.pc = "begin" /\ v.at = NoTrack /\ v.out = <<>> /\ IsList(v.out)
  BY DEF SaverRecords, SaverStates, FlagTypes, IsList
<1> HIDE DEF v
<1>4. Tidy(v) /\ IsList(file') /\ \A t \in Tracks : ~Holds(v, t)
  BY <1>3, NoneHolds DEF Tidy, TrackInv, ListTypes
<1> QED BY <1>1, <1>2, <1>3, <1>4, SaverMoves

\* A thread that ends.
LEMMA SaverEnds ==
  ASSUME TrackInv, NEW s \in Slots, savers[s].pc # "off", savers' = [savers EXCEPT ![s] = NoSaver],
         UNCHANGED <<file, shown, window, ui, loader>>
  PROVE  TrackInv'
<1>1. /\ NoSaver \in SaverRecords /\ NoSaver.pc = "off" /\ NoSaver.at = NoTrack
      /\ NoSaver.out = <<>> /\ IsList(NoSaver.out)
  BY DEF SaverRecords, SaverStates, NoSaver, IsList
<1>2. Tidy(NoSaver) /\ IsList(file') /\ \A t \in Tracks : ~Holds(NoSaver, t)
  BY <1>1, NoneHolds DEF Tidy, TrackInv, ListTypes
<1>3. loader.pc # "read"
  BY SaverKnown
<1> QED BY <1>1, <1>2, <1>3, SaverMoves

\* A thread that goes on with what it has.
LEMMA SaverGoes ==
  ASSUME TrackInv, NEW s \in Slots, NEW p \in {"ask", "mark", "post", "report"},
         savers[s].pc # "off", Goes(s, p), p = "ask" => savers[s].pc = "begin",
         UNCHANGED <<shown, window, ui, loader>>, IsList(file')
  PROVE  TrackInv'
<1> DEFINE v == [savers[s] EXCEPT !.pc = p]
<1>1. savers' = [savers EXCEPT ![s] = v]
  BY DEF Goes
<1>2. v \in SaverRecords /\ v.pc = p /\ v.at = savers[s].at /\ v.out = savers[s].out
  BY SaverKnown DEF SaverRecords, SaverStates
<1> HIDE DEF v
<1>3. IsList(v.out) /\ loader.pc # "read" /\ \A t \in Tracks : Holds(v, t) => Holds(savers[s], t)
  BY <1>2, SaverKnown DEF Holds
<1>4. Tidy(v)
  <2>1. p = "ask" => v.at = NoTrack /\ v.out = <<>>
    BY <1>2, SaverKnown
  <2> QED BY <1>2, <2>1 DEF Tidy, Behind, Contains
<1> QED BY <1>1, <1>2, <1>3, <1>4, SaverMoves

\* The answer of the container.
LEMMA AfterIs ==
  ASSUME TrackInv, FlagTypes, NEW t \in Tracks \cup {NoTrack}
  PROVE  /\ After(t) \in Tracks \cup {NoTrack}
         /\ ~window => After(t) = NoTrack
         /\ t # NoTrack /\ ~Contains(shown, t) => After(t) = NoTrack
         /\ window =>
              /\ t = NoTrack => After(t) = IF Len(shown) = 0 THEN NoTrack ELSE shown[1]
              /\ \A k \in 1..Len(shown) : shown[k] = t =>
                   After(t) = IF k = Len(shown) THEN NoTrack ELSE shown[k+1]
<1>1. IsList(shown) /\ shown \in Seq(Tracks) /\ Len(shown) \in Nat
  BY DEF TrackInv, ListTypes, IsList
<1> DEFINE more == shown \o <<NoTrack>>
<1>2. /\ more \in Seq(Tracks \cup {NoTrack}) /\ Len(more) = Len(shown)+1
      /\ \A i \in 1..Len(shown) : more[i] = shown[i]
      /\ more[Len(shown)+1] = NoTrack
  BY <1>1
<1> HIDE DEF more
<1>3. \A i \in 1..Len(shown) : shown[i] \in Tracks /\ shown[i] # NoTrack
  BY <1>1, EditorAssumption
<1>4. CASE t = NoTrack
  <2>1. After(t) = IF window THEN Head(more) ELSE NoTrack
    BY <1>4 DEF After, more
  <2>2. Head(more) = more[1] /\ Head(more) \in Tracks \cup {NoTrack}
    BY <1>1, <1>2
  <2> QED BY <1>1, <1>2, <1>3, <1>4, <2>1, <2>2
<1>5. CASE t # NoTrack /\ ~Contains(shown, t)
  BY <1>5 DEF After, Contains
<1>6. CASE t # NoTrack /\ Contains(shown, t)
  <2>1. PICK k \in 1..Len(shown) : shown[k] = t
    BY <1>6 DEF Contains
  <2>2. SelectInSeq(shown, LAMBDA u : u = t) = k
    <3>1. {i \in 1..Len(shown) : shown[i] = t} = {k}
      BY <1>1, <2>1 DEF IsList
    <3>2. Min({k}) = k
      BY <2>1 DEF Min
    <3> QED BY <3>1, <3>2 DEF SelectInSeq
  <2>3. After(t) = IF window THEN (Tail(shown) \o <<NoTrack>>)[k] ELSE NoTrack
    BY <1>6, <2>2 DEF After
  <2> DEFINE rest == Tail(shown)
  <2>4. rest \in Seq(Tracks) /\ Len(rest) = Len(shown)-1
        /\ \A i \in 1..Len(shown)-1 : rest[i] = shown[i+1]
    BY <1>1, <2>1
  <2> HIDE DEF rest
  <2>5. (rest \o <<NoTrack>>)[k] = IF k < Len(shown) THEN shown[k+1] ELSE NoTrack
    BY <1>1, <2>1, <2>4
  <2>6. After(t) = IF window /\ k < Len(shown) THEN shown[k+1] ELSE NoTrack
    BY <2>3, <2>5 DEF rest
  <2>7. \A i \in 1..Len(shown) : shown[i] = t => i = k
    BY <1>1, <2>1 DEF IsList
  <2>8. After(t) \in Tracks \cup {NoTrack}
    BY <1>1, <1>3, <2>1, <2>6
  <2> QED BY <1>1, <1>6, <2>1, <2>6, <2>7, <2>8
<1> QED BY <1>4, <1>5, <1>6

LEMMA SaveAskTracks == ASSUME FlagTypes, TrackInv, NEW s \in Slots, SaveAsk(s) PROVE TrackInv'
<1> DEFINE t == After(savers[s].at)
           v == [savers[s] EXCEPT !.at = t, !.pc = IF t = NoTrack THEN "close" ELSE "write"]
<1>1. /\ savers' = [savers EXCEPT ![s] = v] /\ ui = Free /\ savers[s].pc = "ask"
      /\ UNCHANGED <<file, shown, window, ui, loader>>
  <2>1. /\ savers' = [savers EXCEPT ![s].at = t, ![s].pc = IF t = NoTrack THEN "close" ELSE "write"]
        /\ ui = Free /\ savers[s].pc = "ask" /\ UNCHANGED <<file, shown, window, ui, loader>>
    BY DEF SaveAsk, At, folderVars
  <2> QED BY <2>1
<1>2. savers[s].at \in Tracks \cup {NoTrack} /\ savers[s] \in SaverRecords
  BY SaverKnown DEF SaverRecords
<1>3. /\ t \in Tracks \cup {NoTrack}
      /\ t # NoTrack =>
              /\ savers[s].at = NoTrack => Len(shown) > 0 /\ t = shown[1]
              /\ savers[s].at # NoTrack => \E k \in 1..Len(shown) :
                       shown[k] = savers[s].at /\ k+1 <= Len(shown) /\ t = shown[k+1]
  <2>1. Len(shown) \in Nat
    BY DEF TrackInv, ListTypes, IsList
  <2>2. t # NoTrack /\ savers[s].at # NoTrack => Contains(shown, savers[s].at) /\ window
    BY <1>2, AfterIs
  <2> QED BY <1>2, <2>1, <2>2, AfterIs DEF Contains
<1> HIDE DEF t
<1>4. /\ v \in SaverRecords /\ v.at = t /\ v.out = savers[s].out
      /\ v.pc = IF t = NoTrack THEN "close" ELSE "write"
  BY <1>2, <1>3 DEF SaverRecords, SaverStates
<1> HIDE DEF v
<1>5. t # NoTrack => Contains(shown, t)
  <2>1. Len(shown) \in Nat
    BY DEF TrackInv, ListTypes, IsList
  <2> QED BY <1>3, <2>1 DEF Contains
<1>6. \A u \in Tracks : Holds(v, u) => Holds(savers[s], u) \/ (ui = Free /\ Contains(shown, u))
  BY <1>1, <1>4, <1>5, EditorAssumption DEF Holds
<1>7. Tidy(v)
  <2> SUFFICES ASSUME t # NoTrack PROVE Behind(v) /\ ~Contains(v.out, t)
    BY <1>4 DEF Tidy
  <2>1. Behind(savers[s]) /\ (savers[s].at = NoTrack => savers[s].out = <<>>)
    BY <1>1, SaverKnown DEF Tidy
  <2>2. CASE savers[s].at = NoTrack
    BY <1>4, <2>1, <2>2 DEF Behind, Contains
  <2>3. CASE savers[s].at # NoTrack
    <3>1. PICK k \in 1..Len(shown) : shown[k] = savers[s].at /\ k+1 <= Len(shown) /\ t = shown[k+1]
      BY <1>3, <2>3
    <3>2. IsList(shown) /\ Len(shown) \in Nat /\ k+1 \in 1..Len(shown)
      BY <3>1 DEF TrackInv, ListTypes, IsList
    <3>3. \A i \in 1..Len(shown) : Contains(savers[s].out, shown[i]) => i <= k
      BY <2>1, <3>1 DEF Behind
    <3>4. ~Contains(v.out, t)
      BY <1>4, <3>1, <3>2, <3>3
    <3>5. \A j \in 1..Len(shown) : shown[j] = v.at => j = k+1
      BY <1>4, <3>1, <3>2 DEF IsList
    <3> QED BY <1>4, <3>2, <3>3, <3>4, <3>5 DEF Behind
  <2> QED BY <2>2, <2>3
<1>8. IsList(file') /\ loader.pc # "read" /\ IsList(v.out)
  BY <1>1, <1>4, SaverKnown
<1>9. v.pc \notin {"off", "begin"}
  BY <1>4
<1> QED BY <1>1, <1>4, <1>6, <1>7, <1>8, <1>9, SaverMoves

LEMMA SaveWriteTracks == ASSUME TrackInv, NEW s \in Slots, SaveWrite(s) PROVE TrackInv'
<1> DEFINE t == savers[s].at
           w == Append(savers[s].out, t)
           v == [savers[s] EXCEPT !.out = w, !.pc = "ask"]
<1>1. /\ savers' = [savers EXCEPT ![s] = v] /\ savers[s].pc = "write"
      /\ UNCHANGED <<file, shown, window, ui, loader>>
  <2>1. /\ savers' = [savers EXCEPT ![s].out = w, ![s].pc = "ask"]
        /\ savers[s].pc = "write" /\ UNCHANGED <<file, shown, window, ui, loader>>
    BY DEF SaveWrite, At, folderVars
  <2> QED BY <2>1
<1>2. savers[s] \in SaverRecords /\ IsList(savers[s].out)
  BY SaverKnown
<1>3. Behind(savers[s]) /\ t # NoTrack /\ ~Contains(savers[s].out, t)
  BY <1>1, SaverKnown DEF Tidy
<1>4. t \in Tracks /\ savers[s].out \in Seq(Tracks)
  BY <1>2, <1>3 DEF SaverRecords
<1>5. /\ w \in Seq(Tracks) /\ Len(w) = Len(savers[s].out)+1 /\ Len(savers[s].out) \in Nat
      /\ \A i \in 1..Len(w) : w[i] = IF i = Len(w) THEN t ELSE savers[s].out[i]
  BY <1>4
<1> HIDE DEF w
<1>6. IsList(w) /\ \A u : Contains(w, u) => u = t \/ Contains(savers[s].out, u)
  <2>1. \A i \in 1..Len(savers[s].out) : savers[s].out[i] # t
    BY <1>3 DEF Contains
  <2>2. ASSUME NEW i \in 1..Len(w), NEW j \in 1..Len(w), w[i] = w[j] PROVE i = j
    <3>1. CASE i = Len(w) \/ j = Len(w)
      BY <1>5, <2>1, <2>2, <3>1
    <3>2. CASE i # Len(w) /\ j # Len(w)
      <4>1. i \in 1..Len(savers[s].out) /\ j \in 1..Len(savers[s].out)
        BY <1>5, <3>2
      <4>2. savers[s].out[i] = savers[s].out[j]
        BY <1>5, <2>2, <3>2
      <4> QED BY <1>2, <4>1, <4>2 DEF IsList
    <3> QED BY <3>1, <3>2
  <2>3. ASSUME NEW u, Contains(w, u) PROVE u = t \/ Contains(savers[s].out, u)
    <3>1. PICK i \in 1..Len(w) : w[i] = u
      BY <2>3 DEF Contains
    <3>2. i = Len(w) \/ i \in 1..Len(savers[s].out)
      BY <1>5
    <3> QED BY <1>5, <3>1, <3>2 DEF Contains
  <2> QED BY <1>5, <2>2, <2>3 DEF IsList
<1>7. v \in SaverRecords /\ v.pc = "ask" /\ v.at = t /\ v.out = w
  BY <1>2, <1>5 DEF SaverRecords, SaverStates
<1> HIDE DEF v
<1>8. \A u \in Tracks : Holds(v, u) => Holds(savers[s], u)
  BY <1>6, <1>7 DEF Holds
<1>9. Tidy(v)
  <2> SUFFICES ASSUME NEW i \in 1..Len(shown), NEW j \in 1..Len(shown),
                      shown[j] = t, Contains(w, shown[i])
               PROVE  i <= j
    BY <1>3, <1>7 DEF Tidy, Behind
  <2>1. CASE shown[i] = t
    BY <2>1 DEF TrackInv, ListTypes, IsList
  <2>2. CASE Contains(savers[s].out, shown[i])
    BY <1>3, <2>2 DEF Behind
  <2> QED BY <1>6, <2>1, <2>2
<1>10. IsList(file') /\ loader.pc # "read"
  BY <1>1, SaverKnown
<1> QED BY <1>1, <1>6, <1>7, <1>8, <1>9, <1>10, SaverMoves

LEMMA SaverTracks == ASSUME FlagTypes, TrackInv, NEW s \in Slots, SaverStep(s) PROVE TrackInv'
<1> USE DEF At, folderVars, outside
<1>1. CASE SaveGivesUp(s)
  BY <1>1, SaverEnds DEF SaveGivesUp
<1>2. CASE SaveOpen(s)
  BY <1>2, SaverGoes, SaverKnown DEF SaveOpen
<1>3. CASE SaveNothing(s)
  BY <1>3, SaverGoes, SaverKnown DEF SaveNothing
<1>4. CASE SaveAsk(s)
  BY <1>4, SaveAskTracks
<1>5. CASE SaveWrite(s)
  BY <1>5, SaveWriteTracks
<1>6. CASE SaveClose(s)
  BY <1>6, SaverGoes, SaverKnown DEF SaveClose
<1>7. CASE SaveMark(s)
  <2>1. UNCHANGED <<file, shown, window, ui, loader>> /\ savers[s].pc = "mark"
    BY <1>7 DEF SaveMark
  <2>2. CASE savers[s].closes
    <3>1. Goes(s, "post")
      BY <1>7, <2>2, SaverKnown DEF SaveMark, Goes
    <3> QED BY <2>1, <3>1, SaverGoes, SaverKnown
  <2>3. CASE ~savers[s].closes
    <3>1. savers' = [savers EXCEPT ![s] = NoSaver]
      BY <1>7, <2>3, SaverKnown DEF SaveMark
    <3> QED BY <2>1, <3>1, SaverEnds
  <2> QED BY <2>2, <2>3
<1>8. CASE SaveAsksClose(s)
  BY <1>8, SaverGoes, SaverKnown DEF SaveAsksClose
<1>9. CASE SaveReports(s)
  BY <1>9, SaverEnds DEF SaveReports
<1> QED BY <1>1, <1>2, <1>3, <1>4, <1>5, <1>6, <1>7, <1>8, <1>9 DEF SaverStep

LEMMA TrackNext == EditInv /\ FlagTypes /\ TrackInv /\ [Next]_vars => TrackInv'
<1> SUFFICES ASSUME EditInv, FlagTypes, TrackInv, [Next]_vars PROVE TrackInv'
  OBVIOUS
<1> USE DEF folderVars, msgVars, outside
<1>1. CASE UNCHANGED vars
  BY <1>1, TracksStay DEF vars
<1>2. CASE Open
  BY <1>2, OpenTracks
<1>3. CASE LoadRead \/ LoadInsert \/ LoadEnd
  BY <1>3, LoadReadTracks, LoadInsertTracks
<1>4. CASE \E t \in Tracks : DropBegins(t) \/ DeleteBegins(t)
  BY <1>4, EditBegins
<1>5. CASE DropEnds \/ DeleteEnds
  BY <1>5, EditEnds
<1>6. CASE Save
  BY <1>6, SaverStarts DEF Save
<1>7. CASE AnswerYes
  BY <1>7, SaverStarts DEF AnswerYes
<1>8. CASE \E s \in Slots : SaverStep(s)
  BY <1>8, SaverTracks
<1>9. CASE UserCloses \/ CloseAsks \/ AnswerCancel \/ EndNotified
  BY <1>9, TracksStay DEF UserCloses, CloseAsks, AnswerCancel, EndNotified
<1>10. CASE CloseAfterSave \/ CloseUnchanged \/ AnswerNo \/ FolderFreed
  <2>1. ui = Free /\ window' = FALSE /\ shown' = <<>> /\ UNCHANGED <<file, ui, loader, savers>>
    BY <1>10 DEF CloseAfterSave, CloseUnchanged, AnswerNo, FolderFreed, Takes, DestroysWindow
  <2> QED BY <2>1, WindowGoes
<1> QED BY <1>1, <1>2, <1>3, <1>4, <1>5, <1>6, <1>7, <1>8, <1>9, <1>10 DEF Next, UIStep

LEMMA TracksAlways == Spec => [](FlagTypes /\ TrackInv)
<1>1. Init => FlagTypes /\ TrackInv
  BY FlagTypesInit, TrackInit
<1>2. EditInv /\ (FlagTypes /\ TrackInv) /\ [Next]_vars => (FlagTypes /\ TrackInv)'
  BY FlagTypesNext, TrackNext
<1> QED BY <1>1, <1>2, EditAlways, PTL DEF Spec

LEMMA TypesFollow == EditInv /\ FlagTypes /\ TrackInv => TypeOK
<1> SUFFICES ASSUME EditInv, FlagTypes, TrackInv PROVE TypeOK
  OBVIOUS
<1>1. file \in Lists /\ shown \in Lists
  BY ListsAre DEF TrackInv, ListTypes
<1>2. loader \in [pc : {"off", "read", "insert"}, left : Lists]
  <2>1. loader.left \in Lists
    BY ListsAre DEF TrackInv, ListTypes
  <2> QED BY <2>1 DEF TrackInv, ListTypes
<1>3. savers \in [Slots -> Savers]
  <2>1. \A s \in Slots : savers[s] \in SaverRecords /\ savers[s].out \in Lists
    BY ListsAre DEF TrackInv, ListTypes
  <2>2. \A s \in Slots : savers[s] \in Savers
    BY <2>1 DEF SaverRecords, SaverStates, Savers
  <2> QED BY <2>2 DEF TrackInv, ListTypes
<1>4. \A i \in 1..Len(queue) : queue[i] \in {"WM_CLOSE", "WM_APPTERMINATENOTIFY"}
  BY DEF EditInv, Shapes, Messages
<1> QED BY <1>1, <1>2, <1>3, <1>4 DEF FlagTypes, TypeOK

\* The variables have their types: in particular no thread ever writes a track twice
\* (saveThreadFunc), however the container changes while it asks for record after record.
THEOREM TypeCorrect == Spec => []TypeOK
BY EditAlways, TracksAlways, TypesFollow, PTL

-----------------------------------------------------------------------------
(* What is on disk when the folder says that it is unchanged.              *)

\* The contract of SavedIsShown.
Careful == Patient({"save while loading", "close while loading", "edit while saving"})

Holding == {"ask", "write", "close"}

\* Nothing is changed while a thread writes, and none writes while the script fills the
\* folder; what the user is in the middle of has been marked.
Calm == Careful =>
  /\ Saving => ui = Free /\ ~Loading
  /\ ui # Free => changed

\* One thread has the file.
OneFile ==
  \A r, s \in Slots : savers[r].pc \in Holding /\ savers[s].pc \in Holding => r = s

\* Without a change the script completes what is shown to what is in the file.
Filling ==
  Careful /\ window /\ ~changed =>
    /\ loader.pc = "read" => shown = <<>>
    /\ loader.pc = "insert" => Found(loader.left) \o shown = Found(file)

\* A thread works on the window that is there, and has written what is shown up to the
\* record it has asked for last.
Upto(v, k) == v.at = shown[k] /\ v.out = SubSeq(shown, 1, k)

Writes(v) ==
  /\ v.pc # "off" => v.cnr
  /\ v.pc = "ask" => (v.at = NoTrack /\ v.out = <<>>) \/ \E k \in 1..Len(shown) : Upto(v, k)
  /\ v.pc = "write" => \E k \in 1..Len(shown) : v.at = shown[k] /\ v.out = SubSeq(shown, 1, k-1)
  /\ v.pc = "close" => v.out = shown

Writing == Careful /\ window => \A s \in Slots : Writes(savers[s])

\* When no thread has the file, it holds what is shown, if that is said to be so or about
\* to be said.
Done(v) == v.pc \in {"mark", "post", "report"}

Written ==
  Careful /\ window /\ target = "writable" /\ ~Loading
    /\ (\A s \in Slots : savers[s].pc \notin Holding)
    /\ (~changed \/ \E s \in Slots : Done(savers[s]))
  => Found(file) = shown

SaveInv == Calm /\ OneFile /\ Filling /\ Writing /\ Written

LEMMA CarefulStays == haste' = haste => (Careful' <=> Careful)
BY DEF Careful, Patient

LEMMA HasteStays == [Next]_vars => UNCHANGED <<haste, target>>
<1> USE DEF outside
<1>1. ASSUME \E s \in Slots : SaverStep(s) PROVE UNCHANGED <<haste, target>>
  BY <1>1 DEF SaverStep, SaveGivesUp, SaveOpen, SaveNothing, SaveAsk, SaveWrite, SaveClose,
              SaveMark, SaveAsksClose, SaveReports
<1>2. ASSUME Next, ~ \E s \in Slots : SaverStep(s) PROVE UNCHANGED <<haste, target>>
  BY <1>2 DEF Next, UIStep, Open, LoadRead, LoadInsert, LoadEnd, DropBegins, DeleteBegins, Save,
              UserCloses, AnswerCancel, AnswerYes, AnswerNo, DropEnds, DeleteEnds,
              CloseAfterSave, CloseUnchanged, CloseAsks, EndNotified, FolderFreed
<1> QED BY <1>1, <1>2 DEF vars

LEMMA CarefulWaits ==
  Careful => Loads /\ Waits("save while loading") /\ Waits("edit while saving")
BY DEF Careful, Loads, Patient, Waits

LEMMA SaveInit == Init => SaveInv
<1> SUFFICES ASSUME Init PROVE SaveInv
  OBVIOUS
<1>1. \A s \in Slots : savers[s].pc = "off"
  BY DEF Init, NoSaver
<1>2. ui = Free /\ ~window
  BY DEF Init
<1> QED BY <1>1, <1>2 DEF SaveInv, Calm, Saving, OneFile, Holding, Filling, Writing, Written

LEMMA SaveStays ==
  ASSUME SaveInv, UNCHANGED <<haste, target, file, window, shown, changed, ui, loader, savers>>
  PROVE  SaveInv'
<1>1. Calm' /\ OneFile' /\ Filling'
  BY CarefulStays DEF SaveInv, Calm, Saving, Loading, OneFile, Filling
<1>2. Writing'
  BY CarefulStays DEF SaveInv, Writing, Writes, Upto
<1>3. Written'
  BY CarefulStays DEF SaveInv, Written, Loading
<1> QED BY <1>1, <1>2, <1>3 DEF SaveInv

\* Without a window there is nothing to say of the list.
LEMMA NoWindow ==
  ASSUME SaveInv, ~window', UNCHANGED <<haste, changed, ui, loader, savers>> PROVE SaveInv'
<1>1. Calm' /\ OneFile'
  BY CarefulStays DEF SaveInv, Calm, Saving, Loading, OneFile
<1> QED BY <1>1 DEF SaveInv, Filling, Writing, Written

\* While no thread runs.
LEMMA NobodySaves ==
  ASSUME SaveInv, UNCHANGED <<haste, savers>>,
         Careful => /\ ~Saving /\ (ui' # Free => changed') /\ Filling'
                    /\ ~Loading' /\ window' => changed' \/ Found(file') = shown'
  PROVE  SaveInv'
<1>1. OneFile'
  BY DEF SaveInv, OneFile
<1>2. CASE ~Careful
  BY <1>1, <1>2, CarefulStays DEF SaveInv, Calm, Filling, Writing, Written
<1>3. CASE Careful
  <2>1. \A s \in Slots : savers[s].pc = "off"
    BY <1>3 DEF Saving
  <2>2. Calm' /\ Filling'
    BY <1>3, <2>1 DEF Calm, Saving
  <2>3. Writing'
    BY <2>1 DEF Writing, Writes
  <2>4. Written'
    BY <1>3, <2>1 DEF Written, Done
  <2> QED BY <1>1, <2>2, <2>3, <2>4 DEF SaveInv
<1> QED BY <1>2, <1>3

LEMMA OpenSaves == ASSUME EditInv, SaveInv, TrackInv, Open PROVE SaveInv'
<1>1. /\ window' = TRUE /\ shown' = <<>> /\ loader'.pc = "read" /\ changed' = FALSE
      /\ UNCHANGED <<file, ui, savers, haste>> /\ ~Saving /\ ~Loading
  BY DEF Open, outside
<1>2. ui' = Free
  BY <1>1 DEF Open, EditInv, Together, TrackInv, OnScreen
<1>3. Filling' /\ Loading'
  BY <1>1 DEF Filling, Loading
<1> QED BY <1>1, <1>2, <1>3, NobodySaves

LEMMA LoadReadSaves == ASSUME SaveInv, TrackInv, LoadRead PROVE SaveInv'
<1>1. /\ loader.pc = "read" /\ loader'.pc = "insert" /\ loader'.left = file /\ Loading /\ Loading'
      /\ UNCHANGED <<file, shown, window, changed, ui, savers, haste>>
  BY DEF LoadRead, outside, folderVars, Loading
<1>2. Filling'
  <2> SUFFICES ASSUME Careful, window, ~changed PROVE Found(file) \o shown = Found(file)
    BY <1>1, CarefulStays DEF Filling
  <2>1. shown = <<>>
    BY <1>1 DEF SaveInv, Filling
  <2>2. Found(file) \in Seq(Tracks)
    BY FoundAll DEF TrackInv, ListTypes, IsList
  <2> QED BY <2>1, <2>2
<1>3. Careful => ~Saving /\ (ui' # Free => changed')
  BY <1>1 DEF SaveInv, Calm
<1> QED BY <1>1, <1>2, <1>3, NobodySaves

LEMMA LoadEndSaves == ASSUME SaveInv, TrackInv, LoadEnd PROVE SaveInv'
<1>1. /\ loader.pc = "insert" /\ loader.left = <<>> /\ Loading /\ ~Loading' /\ loader'.pc = "off"
      /\ UNCHANGED <<file, shown, window, changed, ui, savers, haste>>
  BY DEF LoadEnd, outside, folderVars, Loading, NotLoading
<1>2. Careful => ~Saving /\ (ui' # Free => changed')
  BY <1>1 DEF SaveInv, Calm
<1>3. ASSUME Careful, window, ~changed PROVE Found(file) = shown
  <2>1. Found(<<>>) \o shown = Found(file)
    BY <1>1, <1>3 DEF SaveInv, Filling
  <2>2. shown \in Seq(Tracks)
    BY DEF TrackInv, ListTypes, IsList
  <2> QED BY <2>1, <2>2, FoundEmpty
<1>4. Filling'
  BY <1>1 DEF Filling
<1> QED BY <1>1, <1>2, <1>3, <1>4, NobodySaves

\* What is found of a list is found of its front and its last track.
LEMMA FoundLast ==
  ASSUME NEW q \in Seq(Tracks), q # <<>>, NEW r \in Seq(Tracks)
  PROVE  Found(Front(q)) \o (Found(<<Last(q)>>) \o r) = Found(q) \o r
<1> DEFINE f == Front(q)
           x == Last(q)
<1>1. f \in Seq(Tracks) /\ x \in Tracks /\ q = Append(f, x)
  BY ListSteps
<1> HIDE DEF f, x
<1>2. Found(q) = IF x \in Missing THEN Found(f) ELSE Append(Found(f), x)
  BY <1>1, FoundAppend
<1>3. Found(<<x>>) = IF x \in Missing THEN <<>> ELSE <<x>>
  <2>1. <<>> \in Seq(Tracks) /\ Append(<<>>, x) = <<x>>
    OBVIOUS
  <2> QED BY <1>1, <2>1, FoundAppend, FoundEmpty
<1>4. Found(f) \in Seq(Tracks)
  BY <1>1, FoundAll
<1> DEFINE g == Found(f)
<1> HIDE DEF g
<1>5. g \in Seq(Tracks)
  BY <1>4 DEF g
<1>6. g \o (<<>> \o r) = g \o r
  BY <1>5
<1>7. g \o (<<x>> \o r) = Append(g, x) \o r
  <2>1. <<x>> \in Seq(Tracks) /\ Append(g, x) = g \o <<x>>
    BY <1>1, <1>5
  <2> QED BY <1>5, <2>1, ConcatAssociative
<1>8. g \o (Found(<<x>>) \o r) = Found(q) \o r
  BY <1>2, <1>3, <1>6, <1>7 DEF g
<1> QED BY <1>8 DEF f, x, g

LEMMA LoadInsertSaves == ASSUME SaveInv, TrackInv, LoadInsert PROVE SaveInv'
<1>1. /\ loader.pc = "insert" /\ loader.left # <<>> /\ Loading /\ Loading' /\ loader'.pc = "insert"
      /\ loader'.left = Front(loader.left) /\ loader.left \in Seq(Tracks) /\ shown \in Seq(Tracks)
      /\ shown' = IF window THEN Found(<<Last(loader.left)>>) \o shown ELSE shown
      /\ UNCHANGED <<file, window, changed, ui, savers, haste>>
  BY DEF LoadInsert, outside, folderVars, Loading, TrackInv, ListTypes, IsList
<1>2. Careful => ~Saving /\ (ui' # Free => changed')
  BY <1>1 DEF SaveInv, Calm
<1>3. Filling'
  <2> SUFFICES ASSUME Careful, window, ~changed
               PROVE  Found(Front(loader.left)) \o (Found(<<Last(loader.left)>>) \o shown) = Found(file)
    BY <1>1, CarefulStays DEF Filling
  <2>1. Found(loader.left) \o shown = Found(file)
    BY <1>1 DEF SaveInv, Filling
  <2> QED BY <1>1, <2>1, FoundLast
<1> QED BY <1>1, <1>2, <1>3, NobodySaves

LEMMA EditSaves ==
  ASSUME SaveInv, NEW t \in Tracks, DropBegins(t) \/ DeleteBegins(t) PROVE SaveInv'
<1>1. changed' = TRUE /\ UNCHANGED <<haste, savers>> /\ MayEdit
  BY DEF DropBegins, DeleteBegins, MayDrop, outside
<1>2. Careful => ~Saving
  BY <1>1, CarefulWaits DEF MayEdit
<1>3. Filling'
  BY <1>1 DEF Filling
<1> QED BY <1>1, <1>2, <1>3, NobodySaves

LEMMA EditEndSaves == ASSUME SaveInv, DropEnds \/ DeleteEnds PROVE SaveInv'
<1>1. ui # Free /\ UNCHANGED <<haste, savers, changed, loader>>
  BY DEF DropEnds, DeleteEnds, outside, Free
<1>2. Careful => ~Saving /\ changed
  BY <1>1 DEF SaveInv, Calm
<1>3. Careful => Filling'
  BY <1>1, <1>2 DEF Filling
<1> QED BY <1>1, <1>2, <1>3, NobodySaves

\* A thread moves on.
LEMMA SaverOn ==
  ASSUME SaveInv, TrackInv, NEW s \in Slots, NEW v \in SaverRecords,
         savers' = [savers EXCEPT ![s] = v], savers[s].pc # "off",
         UNCHANGED <<haste, target, shown, window, ui, loader>>,
         v.pc \in Holding => \/ savers[s].pc \in Holding
                             \/ \A r \in Slots : savers[r].pc \notin Holding,
         Careful /\ window => Writes(v),
         Written'
  PROVE  SaveInv'
<1>1. savers'[s] = v /\ \A r \in Slots \ {s} : savers'[r] = savers[r]
  BY DEF TrackInv, ListTypes
<1>2. Careful => ui = Free /\ ~Loading
  BY DEF SaveInv, Calm, Saving
<1>3. Calm' /\ Filling'
  BY <1>2, CarefulStays DEF Calm, Filling, Loading
<1>4. OneFile'
  BY <1>1 DEF SaveInv, OneFile
<1>5. Writing'
  <2> SUFFICES ASSUME Careful, window, NEW r \in Slots PROVE Writes(savers[r])'
    BY CarefulStays DEF Writing
  <2>1. CASE r = s
    BY <1>1, <2>1 DEF Writes, Upto
  <2>2. CASE r # s
    BY <1>1, <2>2 DEF SaveInv, Writing, Writes, Upto
  <2> QED BY <2>1, <2>2
<1> QED BY <1>3, <1>4, <1>5 DEF SaveInv

\* A thread that has written, or has nothing to write, goes on without the file.
LEMMA SaverPast ==
  ASSUME SaveInv, TrackInv, NEW s \in Slots, NEW v \in SaverRecords,
         savers' = [savers EXCEPT ![s] = v], Done(savers[s]), v.pc \in {"off", "post", "report"},
         v.pc # "off" => v.cnr = savers[s].cnr,
         UNCHANGED <<haste, target, file, shown, window, ui, loader>>
  PROVE  SaveInv'
<1>1. savers'[s] = v /\ \A r \in Slots \ {s} : savers'[r] = savers[r]
  BY DEF TrackInv, ListTypes
<1>2. Careful /\ window => Writes(v)
  BY DEF SaveInv, Writing, Writes, Done
<1>3. Written'
  <2> SUFFICES ASSUME Careful, window, target = "writable", ~Loading,
                      \A r \in Slots : savers'[r].pc \notin Holding
               PROVE  Found(file) = shown
    BY CarefulStays DEF Written, Loading
  <2>1. \A r \in Slots : savers[r].pc \notin Holding
    BY <1>1 DEF Done, Holding
  <2> QED BY <2>1 DEF SaveInv, Written
<1> QED BY <1>2, <1>3, SaverOn DEF Holding, Done

\* While a thread has the file, nothing is said of it.
LEMMA SaverHolds ==
  ASSUME SaveInv, TrackInv, NEW s \in Slots, NEW v \in SaverRecords,
         savers' = [savers EXCEPT ![s] = v], savers[s].pc # "off", v.pc \in Holding,
         UNCHANGED <<haste, target, shown, window, ui, loader>>,
         savers[s].pc \in Holding \/ \A r \in Slots : savers[r].pc \notin Holding,
         Careful /\ window => Writes(v)
  PROVE  SaveInv'
<1>1. savers'[s] = v
  BY DEF TrackInv, ListTypes
<1>2. Written'
  BY <1>1 DEF Written
<1> QED BY <1>2, SaverOn

LEMMA AskSaves == ASSUME SaveInv, FlagTypes, TrackInv, NEW s \in Slots, SaveAsk(s) PROVE SaveInv'
<1> DEFINE a == savers[s].at
           t == After(a)
           v == [savers[s] EXCEPT !.at = t, !.pc = IF t = NoTrack THEN "close" ELSE "write"]
<1>1. /\ savers' = [savers EXCEPT ![s] = v] /\ savers[s].pc = "ask"
      /\ UNCHANGED <<haste, target, shown, window, ui, loader>>
  <2>1. /\ savers' = [savers EXCEPT ![s].at = t, ![s].pc = IF t = NoTrack THEN "close" ELSE "write"]
        /\ savers[s].pc = "ask" /\ UNCHANGED <<haste, target, shown, window, ui, loader>>
    BY DEF SaveAsk, At, folderVars, outside
  <2> QED BY <2>1
<1>2. a \in Tracks \cup {NoTrack} /\ savers[s] \in SaverRecords
  BY SaverKnown DEF SaverRecords
<1>3. t \in Tracks \cup {NoTrack}
  BY <1>2, AfterIs
<1>4. IsList(shown) /\ shown \in Seq(Tracks) /\ Len(shown) \in Nat
  BY DEF TrackInv, ListTypes, IsList
<1>5. window => /\ a = NoTrack => t = IF Len(shown) = 0 THEN NoTrack ELSE shown[1]
                /\ \A k \in 1..Len(shown) : shown[k] = a =>
                     t = IF k = Len(shown) THEN NoTrack ELSE shown[k+1]
  BY <1>2, <1>4, AfterIs
<1> HIDE DEF t
<1>6. /\ v \in SaverRecords /\ v.at = t /\ v.out = savers[s].out /\ v.cnr = savers[s].cnr
      /\ v.pc = IF t = NoTrack THEN "close" ELSE "write"
  BY <1>2, <1>3 DEF SaverRecords, SaverStates
<1> HIDE DEF v
<1>7. ASSUME Careful, window PROVE Writes(v)
  <2>1. /\ savers[s].cnr
        /\ (a = NoTrack /\ v.out = <<>>) \/ \E k \in 1..Len(shown) : Upto(savers[s], k)
    BY <1>1, <1>6, <1>7 DEF SaveInv, Writing, Writes
  <2>2. \A k \in 1..Len(shown) : shown[k] # NoTrack
    BY <1>4, EditorAssumption
  <2>3. CASE a = NoTrack /\ v.out = <<>>
    <3>1. CASE Len(shown) = 0
      <4>1. shown = <<>>
        BY <1>4, <3>1
      <4> QED BY <1>5, <1>6, <1>7, <2>1, <2>3, <3>1, <4>1 DEF Writes
    <3>2. CASE Len(shown) # 0
      <4>1. t = shown[1] /\ 1 \in 1..Len(shown)
        BY <1>4, <1>5, <1>7, <2>3, <3>2
      <4>2. SubSeq(shown, 1, 1-1) = <<>>
        BY <1>4
      <4> QED BY <1>6, <2>1, <2>2, <2>3, <4>1, <4>2 DEF Writes
    <3> QED BY <3>1, <3>2
  <2>4. CASE \E k \in 1..Len(shown) : Upto(savers[s], k)
    <3>1. PICK k \in 1..Len(shown) : a = shown[k] /\ v.out = SubSeq(shown, 1, k)
      BY <1>6, <2>4 DEF Upto
    <3>2. CASE k = Len(shown)
      <4>1. t = NoTrack
        BY <1>5, <1>7, <3>1, <3>2
      <4>2. SubSeq(shown, 1, Len(shown)) = shown
        BY <1>4
      <4> QED BY <1>6, <2>1, <3>1, <3>2, <4>1, <4>2 DEF Writes
    <3>3. CASE k # Len(shown)
      <4>1. t = shown[k+1] /\ k+1 \in 1..Len(shown) /\ k+1-1 = k
        BY <1>4, <1>5, <1>7, <3>1, <3>3
      <4>2. v.out = SubSeq(shown, 1, k+1-1)
        BY <3>1, <4>1
      <4>3. \E m \in 1..Len(shown) : v.at = shown[m] /\ v.out = SubSeq(shown, 1, m-1)
        BY <1>6, <4>1, <4>2
      <4>4. v.pc = "write"
        BY <1>6, <2>2, <4>1
      <4> QED BY <1>6, <2>1, <4>3, <4>4 DEF Writes
    <3> QED BY <3>2, <3>3
  <2> QED BY <2>1, <2>3, <2>4
<1> QED BY <1>1, <1>6, <1>7, SaverHolds DEF Holding

LEMMA PrefixGrows ==
  ASSUME NEW q \in Seq(Tracks), NEW k \in 1..Len(q)
  PROVE  Append(SubSeq(q, 1, k-1), q[k]) = SubSeq(q, 1, k)
<1>1. 1 \in 1..Len(q) /\ k \in 1..Len(q) /\ q[k] \in Tracks
  OBVIOUS
<1>2. SubSeq(q, 1, k) = SubSeq(q, 1, k-1) \o <<q[k]>>
  BY <1>1, SubSeqRecursiveSecond
<1>3. 1 \in 1..Len(q)+1 /\ k-1 \in 1-1..Len(q)
  BY <1>1
<1>4. SubSeq(q, 1, k-1) \in Seq(Tracks)
  BY <1>3, SubSeqFacts, Zenon
<1> QED BY <1>1, <1>2, <1>4, AppendIsConcat

LEMMA WriteSaves == ASSUME SaveInv, TrackInv, NEW s \in Slots, SaveWrite(s) PROVE SaveInv'
<1> DEFINE t == savers[s].at
           w == Append(savers[s].out, t)
           v == [savers[s] EXCEPT !.out = w, !.pc = "ask"]
<1>1. /\ savers' = [savers EXCEPT ![s] = v] /\ savers[s].pc = "write"
      /\ UNCHANGED <<haste, target, shown, window, ui, loader>>
  <2>1. /\ savers' = [savers EXCEPT ![s].out = w, ![s].pc = "ask"]
        /\ savers[s].pc = "write" /\ UNCHANGED <<haste, target, shown, window, ui, loader>>
    BY DEF SaveWrite, At, folderVars, outside
  <2> QED BY <2>1
<1>2. savers[s] \in SaverRecords
  BY SaverKnown
<1>3. t \in Tracks /\ savers[s].out \in Seq(Tracks) /\ shown \in Seq(Tracks) /\ Len(shown) \in Nat
  <2>1. t # NoTrack
    BY <1>1, SaverKnown DEF Tidy
  <2> QED BY <1>2, <2>1 DEF SaverRecords, TrackInv, ListTypes, IsList
<1>4. w \in Seq(Tracks)
  BY <1>3
<1>5. /\ v \in SaverRecords /\ v.pc = "ask" /\ v.at = t /\ v.out = w /\ v.cnr = savers[s].cnr
  <2> HIDE DEF w
  <2> QED BY <1>2, <1>4 DEF SaverRecords, SaverStates
<1> HIDE DEF v
<1>6. ASSUME Careful, window PROVE Writes(v)
  <2>1. savers[s].cnr
    BY <1>1, <1>6 DEF SaveInv, Writing, Writes
  <2>2. PICK k \in 1..Len(shown) : t = shown[k] /\ savers[s].out = SubSeq(shown, 1, k-1)
    BY <1>1, <1>6 DEF SaveInv, Writing, Writes
  <2>3. w = SubSeq(shown, 1, k)
    BY <1>3, <2>2, PrefixGrows
  <2> QED BY <1>5, <2>1, <2>2, <2>3 DEF Writes, Upto
<1> QED BY <1>1, <1>5, <1>6, SaverHolds DEF Holding

LEMMA SaverStepSaves == ASSUME SaveInv, FlagTypes, TrackInv, NEW s \in Slots, SaverStep(s) PROVE SaveInv'
<1> USE DEF At, folderVars, outside
<1>1. savers[s] \in SaverRecords
  BY SaverKnown
<1>2. \A p \in SaverStates : [savers[s] EXCEPT !.pc = p] \in SaverRecords
  BY <1>1 DEF SaverRecords
<1>3. CASE SaveGivesUp(s)
  <2>1. NoSaver \in SaverRecords /\ NoSaver.pc = "off"
    BY DEF NoSaver, SaverRecords, SaverStates
  <2>2. Written' /\ (Careful /\ window => Writes(NoSaver))
    BY <1>3, <2>1 DEF SaveGivesUp, Written, Writes
  <2> QED BY <1>3, <2>1, <2>2, SaverOn DEF SaveGivesUp, Holding
<1>4. CASE SaveOpen(s)
  <2> DEFINE v == [savers[s] EXCEPT !.pc = "ask"]
  <2>1. v \in SaverRecords /\ v.pc = "ask" /\ v.cnr /\ v.at = NoTrack /\ v.out = <<>>
    BY <1>1, <1>2, <1>4, SaverKnown DEF SaveOpen, Opens, SaverStates, SaverRecords
  <2>2. savers' = [savers EXCEPT ![s] = v]
    BY <1>4 DEF SaveOpen, Goes
  <2> HIDE DEF v
  <2>3. Writes(v)
    BY <2>1 DEF Writes
  <2> QED BY <1>4, <2>1, <2>2, <2>3, SaverHolds DEF SaveOpen, Opens, Holding
<1>5. CASE SaveNothing(s)
  <2> DEFINE v == [savers[s] EXCEPT !.pc = "mark"]
  <2>1. v \in SaverRecords /\ v.pc = "mark" /\ v.cnr = savers[s].cnr
    BY <1>1, <1>2 DEF SaverStates, SaverRecords
  <2>2. savers' = [savers EXCEPT ![s] = v]
    BY <1>5 DEF SaveNothing, Goes
  <2> HIDE DEF v
  <2>3. Careful /\ window => savers[s].cnr /\ Writes(v)
    BY <1>5, <2>1 DEF SaveInv, Writing, Writes, SaveNothing
  <2>4. Written'
    <3> SUFFICES ASSUME Careful, window, target = "writable",
                        \A r \in Slots : savers'[r].pc \notin Holding
                 PROVE  FALSE
      BY <1>5, CarefulStays DEF Written, SaveNothing
    <3>1. PICK r \in Slots : savers[r].pc \in Holding
      BY <1>5, <2>3 DEF SaveNothing, Opens, Holding
    <3>2. savers'[r] = savers[r]
      BY <1>5, <2>2, <3>1 DEF SaveNothing, Holding, TrackInv, ListTypes
    <3> QED BY <3>1, <3>2
  <2> QED BY <1>5, <2>1, <2>2, <2>3, <2>4, SaverOn DEF SaveNothing, Holding
<1>6. CASE SaveAsk(s)
  BY <1>6, AskSaves
<1>7. CASE SaveWrite(s)
  BY <1>7, WriteSaves
<1>8. CASE SaveClose(s)
  <2> DEFINE v == [savers[s] EXCEPT !.pc = "mark"]
  <2>1. v \in SaverRecords /\ v.pc = "mark" /\ v.cnr = savers[s].cnr
    BY <1>1, <1>2 DEF SaverStates, SaverRecords
  <2>2. savers' = [savers EXCEPT ![s] = v]
    BY <1>8 DEF SaveClose, Goes
  <2> HIDE DEF v
  <2>3. Careful /\ window => Writes(v) /\ file' = shown
    BY <1>8, <2>1 DEF SaveInv, Writing, Writes, SaveClose
  <2>4. Found(shown) = shown
    BY FoundAll DEF TrackInv, ListTypes, IsList, Apart
  <2>5. Written'
    BY <1>8, <2>3, <2>4, CarefulStays DEF Written, SaveClose
  <2> QED BY <1>8, <2>1, <2>2, <2>3, <2>5, SaverOn DEF SaveClose, Holding
<1>9. CASE SaveMark(s)
  <2> DEFINE v == IF savers[s].closes THEN [savers[s] EXCEPT !.pc = "post"] ELSE NoSaver
  <2>1. v \in SaverRecords /\ v.pc \in {"off", "post"} /\ (v.pc # "off" => v.cnr = savers[s].cnr)
    <3>1. CASE savers[s].closes
      BY <1>1, <1>2, <3>1 DEF SaverStates, SaverRecords
    <3>2. CASE ~savers[s].closes
      BY <3>2 DEF SaverStates, SaverRecords, NoSaver
    <3> QED BY <3>1, <3>2
  <2>2. savers' = [savers EXCEPT ![s] = v]
    BY <1>9 DEF SaveMark
  <2> HIDE DEF v
  <2> QED BY <1>9, <2>1, <2>2, SaverPast DEF SaveMark, Done
<1>10. CASE SaveAsksClose(s)
  <2> DEFINE v == [savers[s] EXCEPT !.pc = "report"]
  <2>1. v \in SaverRecords /\ v.pc = "report" /\ v.cnr = savers[s].cnr
    BY <1>1, <1>2 DEF SaverStates, SaverRecords
  <2>2. savers' = [savers EXCEPT ![s] = v]
    BY <1>10 DEF SaveAsksClose, Goes
  <2> HIDE DEF v
  <2> QED BY <1>10, <2>1, <2>2, SaverPast DEF SaveAsksClose, Done
<1>11. CASE SaveReports(s)
  <2>1. NoSaver \in SaverRecords /\ NoSaver.pc = "off"
    BY DEF NoSaver, SaverRecords, SaverStates
  <2> QED BY <1>11, <2>1, SaverPast DEF SaveReports, Done
<1> QED BY <1>3, <1>4, <1>5, <1>6, <1>7, <1>8, <1>9, <1>10, <1>11 DEF SaverStep

\* A thread is started.
LEMMA StartSaves ==
  ASSUME SaveInv, FlagTypes, TrackInv, NEW c \in BOOLEAN, StartSaver(c), ui = Free, Careful => ~Loading,
         UNCHANGED <<haste, target, file, shown, window, changed, ui, loader>>
  PROVE  SaveInv'
<1> DEFINE v == [pc |-> "begin", closes |-> c, cnr |-> window, at |-> NoTrack, out |-> <<>>]
<1>1. PICK s \in Slots : savers[s].pc = "off" /\ savers' = [savers EXCEPT ![s] = v]
  BY DEF StartSaver
<1>2. v.pc = "begin" /\ v.cnr = window
  OBVIOUS
<1> HIDE DEF v
<1>3. savers'[s] = v /\ \A r \in Slots \ {s} : savers'[r] = savers[r]
  BY <1>1 DEF TrackInv, ListTypes
<1>4. Calm' /\ Filling'
  BY CarefulStays DEF SaveInv, Calm, Filling, Loading
<1>5. OneFile'
  BY <1>2, <1>3 DEF SaveInv, OneFile, Holding
<1>6. Writing'
  <2> SUFFICES ASSUME Careful, window, NEW r \in Slots PROVE Writes(savers[r])'
    BY CarefulStays DEF Writing
  <2>1. CASE r = s
    BY <1>2, <1>3, <2>1 DEF Writes, Upto
  <2>2. CASE r # s
    BY <1>3, <2>2 DEF SaveInv, Writing, Writes, Upto
  <2> QED BY <2>1, <2>2
<1>7. Written'
  <2> SUFFICES ASSUME Careful, window, target = "writable", ~Loading,
                      \A r \in Slots : savers'[r].pc \notin Holding,
                      ~changed \/ \E r \in Slots : Done(savers'[r])
               PROVE  Found(file) = shown
    BY CarefulStays DEF Written, Loading
  <2>1. \A r \in Slots : savers[r].pc \notin Holding
    BY <1>1, <1>3 DEF Holding
  <2>2. ~changed \/ \E r \in Slots : Done(savers[r])
    BY <1>2, <1>3 DEF Done
  <2> QED BY <2>1, <2>2 DEF SaveInv, Written
<1> QED BY <1>4, <1>5, <1>6, <1>7 DEF SaveInv

LEMMA SaveNext == EditInv /\ FlagTypes /\ TrackInv /\ SaveInv /\ [Next]_vars => SaveInv'
<1> SUFFICES ASSUME EditInv, FlagTypes, TrackInv, SaveInv, [Next]_vars PROVE SaveInv'
  OBVIOUS
<1> USE DEF folderVars, msgVars, outside
<1>1. CASE UNCHANGED vars
  BY <1>1, SaveStays DEF vars
<1>2. CASE Open
  BY <1>2, OpenSaves
<1>3. CASE LoadRead \/ LoadInsert \/ LoadEnd
  BY <1>3, LoadReadSaves, LoadInsertSaves, LoadEndSaves
<1>4. CASE \E t \in Tracks : DropBegins(t) \/ DeleteBegins(t)
  BY <1>4, EditSaves
<1>5. CASE DropEnds \/ DeleteEnds
  BY <1>5, EditEndSaves
<1>6. CASE Save
  <2>1. Careful => ~Loading
    BY <1>6, CarefulWaits DEF Save
  <2> QED BY <1>6, <2>1, StartSaves DEF Save, Ready
<1>7. CASE AnswerYes
  <2>1. Careful => ~Loading
    BY <1>7, CarefulWaits DEF AnswerYes, EditInv, Filled
  <2> QED BY <1>7, <2>1, StartSaves DEF AnswerYes
<1>8. CASE \E s \in Slots : SaverStep(s)
  BY <1>8, SaverStepSaves
<1>9. CASE UserCloses \/ CloseAsks \/ AnswerCancel \/ EndNotified
  BY <1>9, SaveStays DEF UserCloses, CloseAsks, AnswerCancel, EndNotified
<1>10. CASE CloseAfterSave \/ CloseUnchanged \/ AnswerNo \/ FolderFreed
  <2>1. ~window' /\ UNCHANGED <<haste, changed, ui, loader, savers>>
    BY <1>10 DEF CloseAfterSave, CloseUnchanged, AnswerNo, FolderFreed, DestroysWindow
  <2> QED BY <2>1, NoWindow
<1> QED BY <1>1, <1>2, <1>3, <1>4, <1>5, <1>6, <1>7, <1>8, <1>9, <1>10 DEF Next, UIStep

LEMMA SaveAlways == Spec => []SaveInv
<1>1. EditInv /\ (FlagTypes /\ TrackInv) /\ SaveInv /\ [Next]_vars => SaveInv'
  BY SaveNext
<1> QED BY <1>1, SaveInit, EditAlways, TracksAlways, PTL DEF Spec

\* For a user who saves and closes when the folder has been filled and edits when nothing
\* is being saved: fContentsChanged is FALSE only when the file holds what is shown.
THEOREM SavedAlwaysShown == Spec => []SavedIsShown
<1>1. SaveInv => SavedIsShown
  <2> SUFFICES ASSUME SaveInv, Careful, window, ~changed, ~Loading, ~Saving, target = "writable"
               PROVE  Found(file) = shown
    BY DEF SavedIsShown, Careful
  <2> QED BY DEF SaveInv, Written, Saving, Holding
<1> QED BY <1>1, SaveAlways, PTL

-----------------------------------------------------------------------------
(* The end of the editor.                                                  *)

\* A user who waits for everything.
Calmest == Patient(Impatience)

\* A folder that is being closed has been told so by the thread that has saved it.
Ending ==
  Calmest /\ target = "writable" /\ window /\ closing =>
    /\ \A s \in Slots : savers[s].pc # "off" => savers[s].closes
    /\ \A s \in Slots : savers[s].pc \in {"post", "report"} => ~changed
    /\ Waiting("WM_CLOSE") => ~changed /\ \A s \in Slots : savers[s].pc \in {"off", "report"}

\* The timer ticks for an object that is no longer in use.
Ticking == handler = "timer" => ~inUse

EndInv == Ending /\ Ticking

LEMMA CalmestWaits ==
  /\ Calmest => Careful /\ Orderly /\ \A h \in Impatience : Waits(h)
  /\ haste' = haste => (Calmest' <=> Calmest)
BY DEF Calmest, Careful, Orderly, Patient, Waits, Impatience

LEMMA EndStays ==
  ASSUME EndInv, window' => window, closing' => closing, changed' => changed,
         UNCHANGED <<haste, target, savers, queue, handler, inUse>>
  PROVE  EndInv'
BY CalmestWaits DEF EndInv, Ending, Ticking, Waiting

LEMMA NotEnding ==
  ASSUME EndInv, UNCHANGED <<haste, handler, inUse>>,
         Calmest' /\ target' = "writable" /\ window' => ~closing'
  PROVE  EndInv'
BY DEF EndInv, Ending, Ticking

LEMMA SaverRuns ==
  ASSUME EditInv, FlagTypes, TrackInv, EndInv, NEW s \in Slots, SaverStep(s)
  PROVE  EndInv'
<1> USE DEF At, folderVars, outside, msgVars
<1>1. /\ savers[s].pc # "off" /\ UNCHANGED <<haste, target, window, closing, handler, inUse>>
      /\ changed' = changed \/ changed' = FALSE
  BY DEF SaverStep, SaveGivesUp, SaveOpen, SaveNothing, SaveAsk, SaveWrite, SaveClose, SaveMark,
         SaveAsksClose, SaveReports
<1>2. SUFFICES ASSUME Calmest, target = "writable", window, closing PROVE Ending'
  BY <1>1, CalmestWaits DEF EndInv, Ending, Ticking
<1>3. /\ \A r \in Slots : savers[r].pc # "off" => savers[r].closes /\ r = s
      /\ savers[s].pc \in {"post", "report"} => ~changed
      /\ Waiting("WM_CLOSE") => ~changed /\ savers[s].pc = "report"
  BY <1>1, <1>2, CalmestWaits DEF EndInv, Ending, EditInv, OneWay
<1>4. queue \in Seq(Messages) /\ {"WM_CLOSE", "WM_APPTERMINATENOTIFY"} \subseteq Messages
  BY DEF EditInv, Shapes, Messages
<1>5. savers \in [Slots -> SaverRecords]
  BY DEF TrackInv, ListTypes
<1>6. ASSUME NEW v \in SaverRecords, savers' = [savers EXCEPT ![s] = v],
             v.pc # "off" => v.closes = savers[s].closes,
             v.pc \in {"post", "report"} => ~changed',
             Waiting("WM_CLOSE")' => ~changed' /\ v.pc \in {"off", "report"}
      PROVE  Ending'
  <2>1. savers'[s] = v /\ \A r \in Slots \ {s} : savers'[r].pc = "off"
    BY <1>3, <1>5, <1>6
  <2> QED BY <1>1, <1>2, <1>3, <1>6, <2>1, CalmestWaits DEF Ending
<1>7. savers[s] \in SaverRecords /\ NoSaver \in SaverRecords /\ NoSaver.pc = "off"
  BY <1>5 DEF NoSaver, SaverRecords, SaverStates
<1>8. \A p \in SaverStates : [savers[s] EXCEPT !.pc = p] \in SaverRecords
  BY <1>7 DEF SaverRecords
<1>9. CASE queue' = queue /\ savers' = [savers EXCEPT ![s] = NoSaver]
  <2>1. Waiting("WM_CLOSE")' => ~changed'
    BY <1>1, <1>3, <1>9 DEF Waiting
  <2> QED BY <1>6, <1>7, <1>9, <2>1
<1>10. CASE queue' = queue /\ savers[s].pc # "report"
            /\ \E p \in {"ask", "mark"} : Goes(s, p)
  <2>1. PICK p \in {"ask", "mark"} : Goes(s, p)
    BY <1>10
  <2> DEFINE v == [savers[s] EXCEPT !.pc = p]
  <2>2. v \in SaverRecords /\ v.pc = p /\ v.closes = savers[s].closes
        /\ savers' = [savers EXCEPT ![s] = v]
    <3>1. v \in SaverRecords
      BY <1>8 DEF SaverStates
    <3>2. v.pc = p /\ v.closes = savers[s].closes
      BY <1>7 DEF SaverRecords
    <3> QED BY <2>1, <3>1, <3>2 DEF Goes
  <2> HIDE DEF v
  <2> QED BY <1>3, <1>6, <1>10, <2>2 DEF Waiting
<1>11. CASE SaveAsk(s)
  <2> DEFINE t == After(savers[s].at)
             p == IF t = NoTrack THEN "close" ELSE "write"
             v == [savers[s] EXCEPT !.at = t, !.pc = p]
  <2>1. savers' = [savers EXCEPT ![s].at = t, ![s].pc = p]
        /\ savers[s].pc = "ask" /\ queue' = queue
    BY <1>11 DEF SaveAsk
  <2>2. t \in Tracks \cup {NoTrack}
    BY <1>7, AfterIs DEF SaverRecords
  <2> HIDE DEF t
  <2>3. v \in SaverRecords /\ v.pc \in {"close", "write"} /\ v.closes = savers[s].closes
    BY <1>7, <2>2 DEF SaverRecords, SaverStates
  <2>4. savers' = [savers EXCEPT ![s] = v]
    BY <2>1
  <2> HIDE DEF v
  <2> QED BY <1>3, <1>6, <2>1, <2>3, <2>4 DEF Waiting
<1>12. CASE SaveWrite(s)
  <2> DEFINE w == Append(savers[s].out, savers[s].at)
             v == [savers[s] EXCEPT !.out = w, !.pc = "ask"]
  <2>1. savers' = [savers EXCEPT ![s].out = w, ![s].pc = "ask"]
        /\ savers[s].pc = "write" /\ queue' = queue
    BY <1>12 DEF SaveWrite
  <2>2. w \in Seq(Tracks)
    <3>1. savers[s].at \in Tracks /\ savers[s].out \in Seq(Tracks)
      BY <1>7, <2>1, SaverKnown DEF Tidy, SaverRecords
    <3> QED BY <3>1
  <2> HIDE DEF w
  <2>3. v \in SaverRecords /\ v.pc = "ask" /\ v.closes = savers[s].closes
    BY <1>7, <2>2 DEF SaverRecords, SaverStates
  <2>4. savers' = [savers EXCEPT ![s] = v]
    BY <2>1
  <2> HIDE DEF v
  <2> QED BY <1>3, <1>6, <2>1, <2>3, <2>4 DEF Waiting
<1>13. CASE SaveMark(s)
  <2>1. changed' = FALSE /\ queue' = queue /\ savers[s].pc = "mark" /\ savers[s].closes
        /\ savers' = [savers EXCEPT ![s] = IF @.closes THEN [@ EXCEPT !.pc = "post"] ELSE NoSaver]
    BY <1>3, <1>13 DEF SaveMark
  <2> DEFINE v == [savers[s] EXCEPT !.pc = "post"]
  <2>2. v \in SaverRecords /\ v.pc = "post" /\ v.closes = savers[s].closes
        /\ savers' = [savers EXCEPT ![s] = v]
    <3>1. v \in SaverRecords
      BY <1>8 DEF SaverStates
    <3>2. v.pc = "post" /\ v.closes = savers[s].closes
      BY <1>7 DEF SaverRecords
    <3> QED BY <2>1, <3>1, <3>2
  <2> HIDE DEF v
  <2> QED BY <1>3, <1>6, <2>1, <2>2 DEF Waiting
<1>14. CASE SaveAsksClose(s)
  <2>1. changed' = changed /\ savers[s].pc = "post" /\ Goes(s, "report")
    BY <1>14 DEF SaveAsksClose
  <2> DEFINE v == [savers[s] EXCEPT !.pc = "report"]
  <2>2. v \in SaverRecords /\ v.pc = "report" /\ v.closes = savers[s].closes
        /\ savers' = [savers EXCEPT ![s] = v]
    BY <1>7, <1>8, <2>1 DEF Goes, SaverStates, SaverRecords
  <2> HIDE DEF v
  <2> QED BY <1>3, <1>6, <2>1, <2>2
<1>15. CASE SaveReports(s)
  <2>1. /\ changed' = changed /\ savers[s].pc = "report" /\ savers' = [savers EXCEPT ![s] = NoSaver]
        /\ queue' = IF handler # "none" THEN Append(queue, "WM_APPTERMINATENOTIFY") ELSE queue
    BY <1>15 DEF SaveReports, PostEnd
  <2> QED BY <1>3, <1>6, <1>7, <2>1
<1> QED BY <1>9, <1>10, <1>11, <1>12, <1>13, <1>14, <1>15
        DEF SaverStep, SaveGivesUp, SaveOpen, SaveNothing, SaveClose

LEMMA EndNext == EditInv /\ FlagTypes /\ TrackInv /\ EndInv /\ [Next]_vars => EndInv'
<1> SUFFICES ASSUME EditInv, FlagTypes, TrackInv, EndInv, [Next]_vars PROVE EndInv'
  OBVIOUS
<1> USE DEF folderVars, msgVars, outside
<1>1. CASE UNCHANGED vars
  BY <1>1, EndStays DEF vars
<1>2. CASE Open
  BY <1>2 DEF Open, EndInv, Ending, Ticking
<1>3. CASE LoadRead \/ LoadInsert \/ LoadEnd \/ DropEnds \/ DeleteEnds \/ AnswerCancel
  BY <1>3, EndStays DEF LoadRead, LoadInsert, LoadEnd, DropEnds, DeleteEnds, AnswerCancel
<1>4. CASE \E t \in Tracks : DropBegins(t) \/ DeleteBegins(t)
  <2>1. MayEdit /\ UNCHANGED <<haste, handler, inUse, closing>>
    BY <1>4 DEF DropBegins, DeleteBegins, MayDrop
  <2>2. Calmest' => ~closing'
    BY <2>1, CalmestWaits DEF MayEdit, Impatience
  <2> QED BY <2>1, <2>2, NotEnding
<1>5. CASE Save
  <2>1. UNCHANGED <<haste, handler, inUse, closing>>
    BY <1>5 DEF Save
  <2>2. Calmest' => ~closing'
    <3>1. Waits("edit while saving") => ~closing
      BY <1>5 DEF Save
    <3> QED BY <2>1, <3>1, CalmestWaits DEF Impatience
  <2> QED BY <2>1, <2>2, NotEnding
<1>6. CASE AnswerYes
  <2>1. boxes > 0 /\ StartSaver(TRUE)
        /\ UNCHANGED <<haste, target, window, changed, queue, handler, inUse>>
    BY <1>6 DEF AnswerYes
  <2>2. SUFFICES ASSUME Calmest PROVE Ending'
    BY <2>1, CalmestWaits DEF EndInv, Ending, Ticking
  <2>3. ~Saving /\ ~Waiting("WM_CLOSE")
    BY <2>1, <2>2, CalmestWaits DEF EditInv, OneWay
  <2>4. \A s \in Slots : savers'[s].pc # "off" => savers'[s].closes /\ savers'[s].pc = "begin"
    BY <2>1, <2>3 DEF StartSaver, Saving, TrackInv, ListTypes
  <2> QED BY <2>1, <2>3, <2>4 DEF Ending, Waiting
<1>7. CASE \E s \in Slots : SaverStep(s)
  BY <1>7, SaverRuns
<1>8. CASE UserCloses
  <2>1. UNCHANGED <<haste, target, handler, inUse, closing>>
    BY <1>8 DEF UserCloses
  <2>2. Calmest' /\ target' = "writable" => ~closing'
    <3>1. Waits("close while saving") => (closing => target = "gone")
      BY <1>8 DEF UserCloses
    <3> QED BY <2>1, <3>1, CalmestWaits DEF Impatience
  <2> QED BY <2>1, <2>2, NotEnding
<1>9. CASE CloseAsks
  BY <1>9, NotEnding DEF CloseAsks
<1>10. CASE CloseAfterSave \/ CloseUnchanged \/ AnswerNo
  <2>1. ~window' /\ UNCHANGED <<haste, handler, inUse>>
    BY <1>10 DEF CloseAfterSave, CloseUnchanged, AnswerNo, DestroysWindow
  <2> QED BY <2>1, NotEnding
<1>11. CASE EndNotified
  <2>1. /\ queue # <<>> /\ queue' = Tail(queue) /\ inUse' = FALSE
        /\ UNCHANGED <<haste, target, window, closing, changed, savers>>
    BY <1>11 DEF EndNotified, Takes
  <2>2. queue \in Seq(Messages)
    BY DEF EditInv, Shapes
  <2>3. Waiting("WM_CLOSE")' => Waiting("WM_CLOSE")
    BY <2>1, <2>2, Takings DEF Waiting
  <2> QED BY <2>1, <2>3, CalmestWaits DEF EndInv, Ending, Ticking
<1>12. CASE FolderFreed
  BY <1>12 DEF FolderFreed, EndInv, Ending, Ticking
<1> QED BY <1>1, <1>2, <1>3, <1>4, <1>5, <1>6, <1>7, <1>8, <1>9, <1>10, <1>11, <1>12 DEF Next, UIStep

LEMMA EndAlways == Spec => []EndInv
<1>1. Init => EndInv
  BY DEF Init, EndInv, Ending, Ticking
<1>2. EditInv /\ (FlagTypes /\ TrackInv) /\ EndInv /\ [Next]_vars => EndInv'
  BY EndNext
<1> QED BY <1>1, <1>2, EditAlways, TracksAlways, PTL DEF Spec

\* For a user who waits: the window goes when the file holds what it shows, or when the
\* user has been asked and does not want the changes.
THEOREM AlwaysClosesSaved == Spec => ClosesSaved
<1> DEFINE Step == (/\ window /\ ~window' /\ Patient(Impatience)
                    /\ target = "writable" /\ (closing \/ ~changed)) => Found(file) = shown
<1>1. EditInv /\ SaveInv /\ EndInv /\ [Next]_vars => Step
  <2> SUFFICES ASSUME EditInv, SaveInv, EndInv, [Next]_vars, window, ~window', Calmest,
                      target = "writable", closing \/ ~changed
               PROVE  Found(file) = shown
    BY DEF Calmest
  <2> USE DEF folderVars, msgVars, outside
  <2>1. CloseAfterSave \/ CloseUnchanged \/ AnswerNo \/ FolderFreed
    <3>1. ASSUME \E s \in Slots : SaverStep(s) PROVE window' = window
      BY <3>1 DEF SaverStep, SaveGivesUp, SaveOpen, SaveNothing, SaveAsk, SaveWrite, SaveClose,
                  SaveMark, SaveAsksClose, SaveReports
    <3> QED BY <3>1 DEF Next, UIStep, vars, Open, LoadRead, LoadInsert, LoadEnd, DropBegins,
                        DeleteBegins, Save, UserCloses, AnswerCancel, AnswerYes, DropEnds,
                        DeleteEnds, CloseAsks, EndNotified
  <2>2. ASSUME queue # <<>>, Head(queue) = "WM_CLOSE" PROVE Waiting("WM_CLOSE")
    <3>1. queue \in Seq(Messages)
      BY DEF EditInv, Shapes
    <3> QED BY <2>2, <3>1, Takings DEF Waiting
  <2>3. Careful /\ Orderly /\ Loads
    BY CalmestWaits, CarefulWaits
  <2>4. CASE CloseAfterSave
    <3>1. closing /\ Waiting("WM_CLOSE") /\ queue # <<>>
      BY <2>2, <2>4 DEF CloseAfterSave, Takes
    <3>2. ~changed /\ ~Loading /\ \A s \in Slots : savers[s].pc \notin Holding
      BY <2>3, <3>1 DEF EndInv, Ending, EditInv, Filled, Holding
    <3> QED BY <2>3, <3>2 DEF SaveInv, Written
  <2>5. CASE CloseUnchanged
    <3>1. ~closing /\ ~changed /\ Waiting("WM_CLOSE") /\ queue # <<>>
      BY <2>2, <2>5 DEF CloseUnchanged, Takes
    <3>2. ~Loading /\ ~Saving
      BY <2>3, <3>1 DEF EditInv, Filled, OneWay
    <3> QED BY <2>3, <3>1, <3>2 DEF SaveInv, Written, Saving, Holding
  <2>6. CASE AnswerNo
    <3>1. boxes > 0 /\ ~closing /\ ~Saving /\ ~Loading /\ ~changed
      BY <2>3, <2>6 DEF AnswerNo, EditInv, Filled, OneWay
    <3> QED BY <2>3, <3>1 DEF SaveInv, Written, Saving, Holding
  <2>7. CASE FolderFreed
    BY <2>7 DEF FolderFreed, EndInv, Ticking, EditInv, InUseWhileOpen
  <2> QED BY <2>1, <2>4, <2>5, <2>6, <2>7
<1> QED BY <1>1, EditAlways, SaveAlways, EndAlways, PTL DEF Spec, ClosesSaved
=============================================================================
