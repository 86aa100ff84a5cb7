-------------------------- MODULE PlayControls_proofs --------------------------
(***************************************************************************)
(* The arithmetic of the play time, for every word size and every length,  *)
(* and the properties of PlayControls that follow from it.                 *)
(***************************************************************************)
EXTENDS PlayControls, TLAPS

-----------------------------------------------------------------------------
(* Arithmetic.                                                             *)

\* Multiplication keeps the order.
LEMMA TimesLess ==
  ASSUME NEW a \in Nat, NEW b \in Nat, NEW c \in Nat, a <= b
  PROVE  a * c <= b * c /\ a * c \in Nat
OBVIOUS

\* Division undoes a multiplication.
LEMMA DivTimes ==
  ASSUME NEW a \in Nat, NEW d \in Nat \ {0}
  PROVE  (a * d) \div d = a
OBVIOUS

\* A number divided is a number.
LEMMA DivNat ==
  ASSUME NEW a \in Nat, NEW d \in Nat \ {0}
  PROVE  /\ a \div d \in Nat
         /\ a \div d <= a
         /\ (a \div d) * d <= a
         /\ a < (a \div d) * d + d
OBVIOUS

\* The quotient is the largest number of its kind.
LEMMA DivMonotone ==
  ASSUME NEW a \in Nat, NEW d \in Nat \ {0}, NEW q \in Nat, q * d <= a
  PROVE  q <= a \div d
OBVIOUS

\* A number below the modulus is its own remainder; ...
LEMMA SmallMod ==
  ASSUME NEW a \in Nat, NEW w \in Nat, a < w
  PROVE  a % w = a
OBVIOUS

\* ... every remainder is below the modulus.
LEMMA ModRange ==
  ASSUME NEW a \in Int, NEW w \in Nat \ {0}
  PROVE  a % w \in 0..w-1
OBVIOUS

\* A word has room for a second and for the slider.
LEMMA WordPositive == Word \in Nat \ {0} /\ Hundred < Word /\ Second < Word
BY ControlsAssumption

\* The product of the slider and the length stays far below the word as long as the
\* track is not too long, ...
LEMMA ProductFits ==
  ASSUME NEW p \in 0..Hundred, NEW len \in Nat, ~TooLong(len)
  PROVE  /\ p * Second * (len \div Hundred) \in Nat
         /\ 2 * (p * Second * (len \div Hundred)) < Word
<1> DEFINE q == len \div Hundred
<1>1. q \in Nat
  BY ControlsAssumption, DivNat
<1>2. /\ Second * q \in Nat
      /\ p * (Second * q) <= Hundred * (Second * q) /\ p * (Second * q) \in Nat
  <2>1. Second * q \in Nat
    BY <1>1, ControlsAssumption
  <2> HIDE DEF q
  <2> QED BY <2>1, ControlsAssumption, TimesLess
<1>3. p * Second * q = p * (Second * q) /\ 2 * Hundred * Second * q = 2 * (Hundred * (Second * q))
  <2> HIDE DEF q
  <2> QED BY <1>1, ControlsAssumption
<1>4. 2 * Hundred * Second * q < Word
  <2>1. 2 * Hundred * Second * q \in Nat
    <3> HIDE DEF q
    <3> QED BY <1>1, ControlsAssumption
  <2> QED BY <2>1, ControlsAssumption DEF TooLong
<1> HIDE DEF q
<1>5. p * Second * q \in Nat /\ 2 * (p * Second * q) < Word
  BY <1>1, <1>2, <1>3, <1>4, ControlsAssumption
<1> QED BY <1>5 DEF q

\* ... so the position is a plain product: the multiplication by Second and the division
\* by it cancel out, ...
LEMMA SeekIsProduct ==
  ASSUME NEW p \in 0..Hundred, NEW len \in Nat, ~TooLong(len)
  PROVE  SeekPosition(p, len) = p * (len \div Hundred)
<1> DEFINE q == len \div Hundred
           x == p * Second * q
<1>1. q \in Nat
  BY ControlsAssumption, DivNat
<1>2. x \in Nat /\ 2 * x < Word
  BY ProductFits
<1>3. Signed(x) = x
  <2> HIDE DEF x
  <2>1. x % Word = x
    BY <1>2, WordPositive, SmallMod
  <2> QED BY <2>1, <1>2 DEF Signed
<1>4. x = (p * q) * Second /\ p * q \in Nat
  <2> HIDE DEF q
  <2> QED BY <1>1, ControlsAssumption
<1>5. Quotient(x, Second) = p * q
  <2> HIDE DEF x, q
  <2>1. Quotient(x, Second) = x \div Second
    BY <1>2 DEF Quotient
  <2>2. ((p * q) * Second) \div Second = p * q
    BY <1>4, ControlsAssumption, DivTimes
  <2> QED BY <2>1, <2>2, <1>4
<1> QED BY <1>3, <1>5 DEF SeekPosition

\* ... and lies in the track.
THEOREM SeekIsInTrack ==
  ASSUME NEW p \in 0..Hundred, NEW len \in Nat, ~TooLong(len)
  PROVE  SeekPosition(p, len) \in 0..len
<1> DEFINE q == len \div Hundred
<1>1. q \in Nat /\ q * Hundred <= len
  BY ControlsAssumption, DivNat
<1> HIDE DEF q
<1>2. p * q <= Hundred * q /\ p * q \in Nat /\ Hundred * q = q * Hundred
  BY <1>1, ControlsAssumption, TimesLess
<1>3. p * q \in 0..len
  BY <1>1, <1>2, ControlsAssumption
<1> QED BY <1>3, SeekIsProduct DEF q

-----------------------------------------------------------------------------
(* The count.                                                              *)

\* A track that is not too long leaves room in the word for a second more.
LEMMA RoomForSecond ==
  ASSUME NEW len \in Nat, ~TooLong(len)
  PROVE  len + Second < Word
<1> DEFINE q == len \div Hundred
<1>1. q \in Nat /\ q * Hundred <= len /\ len < q * Hundred + Hundred
  BY ControlsAssumption, DivNat
<1>2. 2 * (Hundred * Second * q) < Word
  <2>1. Hundred * Second * q \in Nat
    <3> HIDE DEF q
    <3> QED BY <1>1, ControlsAssumption
  <2>2. 2 * Hundred * Second * q = 2 * (Hundred * Second * q)
    <3> HIDE DEF q
    <3> QED BY <1>1, ControlsAssumption
  <2> QED BY <2>1, <2>2, ControlsAssumption DEF TooLong
<1> HIDE DEF q
<1>3. q * Hundred \in Nat /\ q * Hundred <= Hundred * Second * q
  <2>1. Hundred * Second * q = Second * (q * Hundred) /\ q * Hundred \in Nat
    BY <1>1, ControlsAssumption
  <2>2. 1 * (q * Hundred) <= Second * (q * Hundred)
    BY <2>1, ControlsAssumption, TimesLess
  <2> QED BY <2>1, <2>2
<1> QED BY <1>1, <1>2, <1>3, ControlsAssumption

\* A count that lies in the track stays in it.
LEMMA CountStays ==
  ASSUME NEW len \in Nat, ~TooLong(len), NEW pos \in 0..(len \div Second)
  PROVE  Counted(pos, len) \in 0..(len \div Second)
<1> DEFINE d == len \div Second
<1>1. d \in Nat /\ d * Second <= len
  BY ControlsAssumption, DivNat
<1>2. len + Second < Word
  BY RoomForSecond
<1> HIDE DEF d
<1>3. pos \in Nat /\ pos <= d
  BY <1>1 DEF d
<1>4. (pos + 1) * Second \in Nat /\ (pos + 1) * Second <= d * Second + Second
  <2>1. pos * Second <= d * Second
    BY <1>1, <1>3, ControlsAssumption, TimesLess
  <2>2. (pos + 1) * Second = pos * Second + Second
    BY <1>3, ControlsAssumption
  <2> QED BY <2>1, <2>2, <1>1, <1>3, ControlsAssumption
<1>5. Unsigned((pos + 1) * Second) = (pos + 1) * Second
  BY <1>1, <1>2, <1>4, WordPositive, SmallMod, ControlsAssumption DEF Unsigned
<1>6. CASE (pos + 1) * Second > len
  BY <1>1, <1>5, <1>6 DEF Counted, d
<1>7. CASE ~((pos + 1) * Second > len)
  <2>1. pos + 1 <= d
    BY <1>3, <1>4, <1>7, ControlsAssumption, DivMonotone DEF d
  <2>2. pos + 1 < Word
    <3>1. pos + 1 <= (pos + 1) * Second
      BY <1>3, ControlsAssumption
    <3> QED BY <3>1, <1>2, <1>3, <1>4, <1>7, ControlsAssumption
  <2>3. Unsigned(pos + 1) = pos + 1
    BY <2>2, <1>3, WordPositive, SmallMod DEF Unsigned
  <2> QED BY <1>1, <1>3, <1>5, <1>7, <2>1, <2>3 DEF Counted, d
<1> QED BY <1>6, <1>7

-----------------------------------------------------------------------------
(* Types.                                                                  *)

\* What the arithmetic is given and what it returns.
LEMMA UnsignedRange ==
  ASSUME NEW n \in Int
  PROVE  Unsigned(n) \in 0..Word-1
BY WordPositive, ModRange DEF Unsigned

\* The division of C keeps to whole numbers.
LEMMA QuotientType ==
  ASSUME NEW n \in Int
  PROVE  Quotient(n, Second) \in Int
<1>1. CASE n >= 0
  BY <1>1, ControlsAssumption, DivNat DEF Quotient
<1>2. CASE ~(n >= 0)
  <2>1. -n \in Nat
    BY <1>2
  <2>2. (-n) \div Second \in Nat
    BY <2>1, ControlsAssumption, DivNat
  <2> QED BY <1>2, <2>2 DEF Quotient
<1> QED BY <1>1, <1>2

\* A seek position is a number, whatever overflows.
LEMMA SeekType ==
  ASSUME NEW p \in 0..Hundred, NEW len \in Nat
  PROVE  SeekPosition(p, len) \in Int
<1> DEFINE q == len \div Hundred
           x == p * Second * q
<1>1. q \in Nat
  BY ControlsAssumption, DivNat
<1>2. x \in Int
  <2> HIDE DEF q
  <2> QED BY <1>1, ControlsAssumption
<1>3. x % Word \in Int
  <2> HIDE DEF x
  <2> QED BY <1>2, WordPositive, ModRange
<1>4. Signed(x) \in Int
  <2> HIDE DEF x
  <2> QED BY <1>3, ControlsAssumption DEF Signed
<1> QED BY <1>4, QuotientType DEF SeekPosition

\* The lengths that ulTotalLength can hold.
LEMMA LengthRange ==
  ASSUME NEW len \in Lengths \cup {0}
  PROVE  len \in Nat /\ len \in 0..Word-1 /\ len \div Second \in 0..Word-1
<1>1. len \in Nat /\ len \in 0..Word-1
  BY ControlsAssumption, WordPositive
<1>2. len \div Second \in Nat /\ len \div Second <= len
  BY <1>1, ControlsAssumption, DivNat
<1> QED BY <1>1, <1>2, WordPositive

\* Count, arm and display stay in a word.
LEMMA DisplayTypes ==
  ASSUME NEW len \in Lengths \cup {0}, NEW pos \in 0..Word-1, NEW d \in 0..2
  PROVE  /\ Counted(pos, len) \in 0..Word-1
         /\ ArmPosition(pos, len) \in 0..Word-1
         /\ TimeText(d, len, pos) \in 0..Word-1
<1>1. len \div Second \in 0..Word-1 /\ len \div Second \in Nat
  BY LengthRange
<1>2. pos \in Nat /\ pos + 1 \in Int /\ pos * Hundred \in Int
  BY ControlsAssumption
<1>3. Counted(pos, len) \in 0..Word-1
  BY <1>1, <1>2, UnsignedRange DEF Counted
<1>4. ArmPosition(pos, len) \in 0..Word-1
  <2> DEFINE u == Unsigned(pos * Hundred)
             s == len \div Second
  <2>1. u \in 0..Word-1
    BY <1>2, UnsignedRange
  <2>2. s \in Nat
    BY <1>1
  <2> HIDE DEF u, s
  <2>3. CASE s = 0
    BY <2>3, WordPositive, ControlsAssumption DEF ArmPosition, s
  <2>4. CASE s # 0
    <3>1. u \div s \in Nat /\ u \div s <= u
      BY <2>1, <2>2, <2>4, DivNat
    <3>2. u \div s \in 0..Word-1
      BY <2>1, <3>1, WordPositive
    <3> QED BY <2>4, <3>2 DEF ArmPosition, u, s
  <2> QED BY <2>3, <2>4
<1>5. TimeText(d, len, pos) \in 0..Word-1
  <2>1. len \div Second - pos \in Int
    BY <1>1, <1>2
  <2> QED BY <2>1, UnsignedRange DEF TimeText
<1> QED BY <1>3, <1>4, <1>5

\* The first states have the types.
LEMMA TypeInit == Init => TypeOK
<1> SUFFICES ASSUME Init PROVE TypeOK
  OBVIOUS
<1>1. 0 \in 0..Word-1 /\ 0 \in Volumes
  BY WordPositive, ControlsAssumption
<1>2. happens \subseteq Unusual
  BY DEF Init
<1>3. /\ iWave = 0 /\ starting = "no" /\ newWave = 1
      /\ length = [d \in Devices |-> 0] /\ at = [d \in Devices |-> 0]
      /\ ulVolume \in Volumes /\ volume = [d \in Devices |-> 0]
      /\ ulTotalLength = 0 /\ ulPos = 0 /\ bPaused = FALSE /\ timer = FALSE /\ tick = FALSE
      /\ slider = 0 /\ bPosDragging = FALSE /\ usWhichDisplay = 0 /\ shown = 0
  BY DEF Init
<1>4. /\ length \in [Devices -> Lengths \cup {0}] /\ volume \in [Devices -> Volumes]
      /\ at \in [Devices -> Int]
  BY <1>1, <1>3
<1>5. {bPaused, timer, tick, bPosDragging} \subseteq BOOLEAN
  BY <1>3
<1>6. {ulPos, slider, shown} \subseteq 0..Word-1
  BY <1>1, <1>3
<1>7. iWave \in {0} \cup Devices /\ newWave \in Devices /\ usWhichDisplay \in 0..2
  BY <1>3 DEF Devices
<1> QED BY <1>2, <1>3, <1>4, <1>5, <1>6, <1>7 DEF TypeOK

\* A step keeps the types.
LEMMA TypeNext == TypeOK /\ [Next]_vars => TypeOK'
<1> SUFFICES ASSUME TypeOK, [Next]_vars PROVE TypeOK'
  OBVIOUS
<1> USE DEF TypeOK, Devices
<1>1. 0 \in 0..Word-1 /\ 0 \in Volumes /\ 0 \in Lengths \cup {0} /\ 0 \in Int /\ 0 \in 0..2
  BY WordPositive, ControlsAssumption
<1>2. CASE StartBegins
  <2>1. PICK l \in Lengths :
          \/ /\ iWave # 0 /\ Stopped
             /\ length' = [d \in Devices |-> IF d = newWave' THEN l ELSE 0]
             /\ volume' = Forget(volume, iWave) /\ at' = Forget(at, iWave)
          \/ /\ length' = [length EXCEPT ![newWave'] = l]
             /\ UNCHANGED <<iWave, ulPos, timer, slider, shown, volume, at>>
    BY <1>2 DEF StartBegins
  <2>2. /\ newWave' \in Devices /\ starting' = "length"
        /\ UNCHANGED <<happens, ulTotalLength, bPaused, ulVolume, tick, bPosDragging,
                       usWhichDisplay>>
    BY <1>2 DEF StartBegins
  <2>3. CASE /\ iWave # 0 /\ Stopped
             /\ length' = [d \in Devices |-> IF d = newWave' THEN l ELSE 0]
             /\ volume' = Forget(volume, iWave) /\ at' = Forget(at, iWave)
    BY <1>1, <2>2, <2>3 DEF Stopped, Forget
  <2>4. CASE /\ length' = [length EXCEPT ![newWave'] = l]
             /\ UNCHANGED <<iWave, ulPos, timer, slider, shown, volume, at>>
    BY <2>2, <2>4
  <2> QED BY <2>1, <2>3, <2>4
<1>3. CASE StartFails
  BY <1>1, <1>3 DEF StartFails, Forgotten, Forget, timeVars, showVars
<1>4. CASE StartLength
  <2>1. ulTotalLength' \in Lengths \cup {0}
    BY <1>4 DEF StartLength
  <2> QED BY <1>4, <2>1 DEF StartLength, deviceVars, showVars
<1>5. CASE StartVolume
  BY <1>5 DEF StartVolume, timeVars, showVars
<1>6. CASE StartPlays
  BY <1>6 DEF StartPlays, deviceVars, showVars
<1>7. CASE StartPublishes
  <2>1. TimeText(usWhichDisplay, ulTotalLength, 0) \in 0..Word-1
    BY <1>1, DisplayTypes
  <2>2. shown' \in 0..Word-1
    BY <1>7, <2>1 DEF StartPublishes
  <2>3. length' \in [Devices -> Lengths \cup {0}] /\ volume' \in [Devices -> Volumes]
        /\ at' \in [Devices -> Int]
    BY <1>1, <1>7 DEF StartPublishes, Forgotten, Forget, deviceVars
  <2> QED BY <1>1, <1>7, <2>2, <2>3 DEF StartPublishes
<1>8. CASE Stops
  BY <1>1, <1>8 DEF Stops, Stopped, Forgotten, Forget, startVars
<1>9. CASE Pauses
  BY <1>9 DEF Pauses, startVars, deviceVars, showVars
<1>10. CASE TickCounts
  <2>1. Counted(ulPos, ulTotalLength) \in 0..Word-1
    BY <1>1, DisplayTypes
  <2> QED BY <1>10, <2>1 DEF TickCounts, startVars, deviceVars, showVars
<1>11. CASE TickShows
  <2>1. /\ ArmPosition(ulPos, ulTotalLength) \in 0..Word-1
        /\ TimeText(usWhichDisplay, ulTotalLength, ulPos) \in 0..Word-1
    BY DisplayTypes
  <2>2. slider' \in 0..Word-1 /\ shown' \in 0..Word-1
    BY <1>11, <2>1 DEF TickShows
  <2> QED BY <1>11, <2>2 DEF TickShows, startVars, deviceVars, timeVars
<1>12. CASE \E p \in 0..Hundred : DragTo(p)
  <2>1. PICK p \in 0..Hundred : DragTo(p)
    BY <1>12
  <2>2. p \in 0..Word-1
    BY WordPositive, ControlsAssumption
  <2> QED BY <2>1, <2>2 DEF DragTo, startVars, deviceVars, timeVars
<1>13. CASE \E p \in 0..Hundred : DropAt(p)
  <2>1. PICK p \in 0..Hundred : DropAt(p)
    BY <1>13
  <2>2. p \in 0..Word-1
    BY WordPositive, ControlsAssumption
  <2>3. SeekPosition(p, ulTotalLength) \in Int
    BY SeekType, LengthRange
  <2>4. Unsigned(Quotient(SeekPosition(p, ulTotalLength), Second)) \in 0..Word-1
    BY <2>3, QuotientType, UnsignedRange
  <2>5. at' \in [Devices -> Int] /\ ulPos' \in 0..Word-1
    BY <2>1, <2>3, <2>4 DEF DropAt
  <2> QED BY <2>1, <2>2, <2>5 DEF DropAt, startVars
<1>14. CASE \E v \in Volumes : MoveVolume(v)
  BY <1>14 DEF MoveVolume, startVars, timeVars, showVars
<1>15. CASE Setup
  BY <1>15 DEF Setup, startVars, deviceVars, timeVars, showVars
<1>16. CASE SwitchDisplay
  <2>1. PICK d \in 0..2 :
          /\ usWhichDisplay' = d
          /\ shown' \in {TimeText(d, ulTotalLength, ulPos)} \cup (IF d = 2 THEN {shown} ELSE {})
    BY <1>16 DEF SwitchDisplay
  <2>2. TimeText(d, ulTotalLength, ulPos) \in 0..Word-1
    BY DisplayTypes
  <2>3. shown' \in 0..Word-1
    BY <2>1, <2>2
  <2> QED BY <1>16, <2>1, <2>3 DEF SwitchDisplay, startVars, deviceVars, timeVars
<1>17. CASE UNCHANGED vars
  BY <1>17 DEF vars, startVars, deviceVars, timeVars, showVars
<1> QED BY <1>2, <1>3, <1>4, <1>5, <1>6, <1>7, <1>8, <1>9, <1>10, <1>11, <1>12, <1>13, <1>14,
           <1>15, <1>16, <1>17 DEF Next

\* The variables keep their types.
THEOREM TypeCorrect == Spec => []TypeOK
<1> QED BY TypeInit, TypeNext, PTL DEF Spec

-----------------------------------------------------------------------------
(* The inductive invariant: its parts, each with the contract under which  *)
(* it holds.                                                               *)

\* The device being started is not the one that plays; a start finds silence.
Apart ==
  /\ starting # "no" => newWave # iWave
  /\ (starting # "no" /\ Usual({"play over"})) => iWave = 0

LengthPart ==
  Usual({"play over", "no length"})
    => /\ iWave # 0 => ulTotalLength = length[iWave]
       /\ starting \in {"volume", "play", "publish"} => ulTotalLength = length[newWave]

VolumePart ==
  Usual({"volume during a start", "setup string"})
    => /\ iWave # 0 => volume[iWave] = ulVolume
       /\ starting \in {"play", "publish"} => volume[newWave] = ulVolume

FitPart ==
  /\ Usual({"long track"}) => \A d \in Devices : ~TooLong(length[d])
  /\ Usual({"no length", "long track"}) => ~TooLong(ulTotalLength)

SeekPart ==
  Usual({"play over", "no length", "long track"})
    => \A d \in Devices : at[d] \in 0..length[d] /\ (d # iWave => at[d] = 0)

ShownPart ==
  Usual({"play over", "no length", "long track"})
    => (iWave # 0 => /\ ulPos <= ulTotalLength \div Second
                     /\ usWhichDisplay = 1 => shown <= ulTotalLength \div Second)

SliderPart ==
  Usual({"play over", "no length", "long track", "seek while silent"})
    => /\ ulPos <= ulTotalLength \div Second
       /\ (iWave = 0 /\ starting # "publish") => ulPos = 0
       /\ slider <= Hundred

TimerPart ==
  (Usual({"seek while silent"}) /\ iWave = 0 /\ starting # "publish") => ~timer

ControlInv ==
  /\ TypeOK /\ Apart /\ LengthPart /\ VolumePart /\ FitPart /\ SeekPart
  /\ ShownPart /\ SliderPart /\ TimerPart

\* What may happen does not change.
LEMMA LegendStays == [Next]_vars => \A hs : Usual(hs)' = Usual(hs)
<1> SUFFICES ASSUME [Next]_vars PROVE happens' = happens
  BY DEF Usual
<1> QED BY DEF Next, vars, StartBegins, StartFails, StartLength, StartVolume, StartPlays,
           StartPublishes, Stops, Pauses, TickCounts, TickShows, DragTo, DropAt, MoveVolume,
           Setup, SwitchDisplay

\* The actions of the timer, the sliders and the menus start and stop nothing.
Tends ==
  \/ Pauses \/ TickCounts \/ TickShows \/ Setup \/ SwitchDisplay
  \/ \E p \in 0..Hundred : DragTo(p) \/ DropAt(p)
  \/ \E v \in Volumes : MoveVolume(v)
  \/ UNCHANGED vars

LEMMA TendsFrame ==
  ASSUME Tends
  PROVE  UNCHANGED <<iWave, starting, newWave, length, ulTotalLength>>
BY DEF Tends, Pauses, TickCounts, TickShows, Setup, SwitchDisplay, DragTo, DropAt, MoveVolume,
       vars, startVars, deviceVars, timeVars

LEMMA StepIs ==
  [Next]_vars => \/ StartBegins \/ StartFails \/ StartLength \/ StartVolume \/ StartPlays
                 \/ StartPublishes \/ Stops \/ Tends
BY DEF Next, Tends

LEMMA KeepsApart ==
  ASSUME TypeOK, Apart, [Next]_vars
  PROVE  Apart'
<1>1. Usual({"play over"})' = Usual({"play over"})
  BY LegendStays
<1>2. CASE StartBegins
  <2>1. newWave' = IF iWave = 1 THEN 2 ELSE 1
    BY <1>2 DEF StartBegins
  <2>2. newWave' # iWave /\ newWave' # 0
    BY <2>1
  <2>3. iWave' = 0 \/ (iWave' = iWave /\ (iWave = 0 \/ ~Usual({"play over"})))
    BY <1>2 DEF StartBegins, Stopped, Usual
  <2>4. happens' = happens
    BY <1>2 DEF StartBegins
  <2> QED BY <2>2, <2>3, <2>4 DEF Apart, Usual
<1>3. CASE StartFails
  BY <1>3 DEF StartFails, Apart
<1>4. CASE StartLength
  BY <1>1, <1>4 DEF StartLength, Apart
<1>5. CASE StartVolume
  BY <1>1, <1>5 DEF StartVolume, Apart
<1>6. CASE StartPlays
  BY <1>1, <1>6 DEF StartPlays, Apart
<1>7. CASE StartPublishes
  BY <1>7 DEF StartPublishes, Apart
<1>8. CASE Stops
  BY <1>8 DEF Stops, startVars, Apart
<1>9. CASE Tends
  BY <1>1, <1>9, TendsFrame DEF Apart
<1> QED BY <1>2, <1>3, <1>4, <1>5, <1>6, <1>7, <1>8, <1>9, StepIs

LEMMA KeepsLength ==
  ASSUME TypeOK, Apart, LengthPart, [Next]_vars
  PROVE  LengthPart'
<1> SUFFICES ASSUME Usual({"play over", "no length"})
             PROVE  /\ iWave' # 0 => ulTotalLength' = length'[iWave']
                    /\ starting' \in {"volume", "play", "publish"}
                         => ulTotalLength' = length'[newWave']
  BY LegendStays DEF LengthPart
<1>1. Usual({"play over"})
  BY DEF Usual
<1> USE DEF TypeOK, Devices
<1>2. CASE StartBegins
  <2>1. starting' = "length" /\ iWave' = 0
    BY <1>1, <1>2 DEF StartBegins, Stopped, Usual
  <2> QED BY <2>1
<1>3. CASE StartFails
  <2>1. iWave' = 0 /\ starting' = "no"
    BY <1>1, <1>3 DEF StartFails, Apart
  <2> QED BY <2>1
<1>4. CASE StartLength
  <2>1. iWave' = 0
    BY <1>1, <1>4 DEF StartLength, Apart
  <2>2. ulTotalLength' = length[newWave] /\ UNCHANGED <<length, newWave>>
    BY <1>4 DEF StartLength, Usual, deviceVars
  <2> QED BY <2>1, <2>2
<1>5. CASE StartVolume
  <2>1. iWave' = 0
    BY <1>1, <1>5 DEF StartVolume, Apart
  <2> QED BY <1>5, <2>1 DEF StartVolume, LengthPart, timeVars
<1>6. CASE StartPlays
  BY <1>6 DEF StartPlays, LengthPart, deviceVars
<1>7. CASE StartPublishes
  <2>1. iWave = 0
    BY <1>1, <1>7 DEF StartPublishes, Apart
  <2> QED BY <1>7, <2>1 DEF StartPublishes, LengthPart, deviceVars
<1>8. CASE Stops
  BY <1>8 DEF Stops, Stopped, startVars
<1>9. CASE Tends
  BY <1>9, TendsFrame DEF LengthPart
<1> QED BY <1>2, <1>3, <1>4, <1>5, <1>6, <1>7, <1>8, <1>9, StepIs

LEMMA KeepsVolume ==
  ASSUME TypeOK, Apart, VolumePart, [Next]_vars
  PROVE  VolumePart'
<1> SUFFICES ASSUME Usual({"volume during a start", "setup string"})
             PROVE  /\ iWave' # 0 => volume'[iWave'] = ulVolume'
                    /\ starting' \in {"play", "publish"} => volume'[newWave'] = ulVolume'
  BY LegendStays DEF VolumePart
<1>1. /\ iWave # 0 => volume[iWave] = ulVolume
      /\ starting \in {"play", "publish"} => volume[newWave] = ulVolume
      /\ starting # "no" => newWave # iWave
  BY DEF VolumePart, Apart
<1> USE DEF TypeOK, Devices
<1>2. CASE StartBegins
  <2>1. starting' = "length" /\ (iWave' = 0 \/ UNCHANGED <<iWave, volume, ulVolume>>)
    BY <1>2 DEF StartBegins, Stopped
  <2> QED BY <1>1, <2>1
<1>3. CASE StartFails
  BY <1>1, <1>3 DEF StartFails, Forgotten, Forget
<1>4. CASE StartLength
  BY <1>1, <1>4 DEF StartLength, deviceVars
<1>5. CASE StartVolume
  BY <1>1, <1>5 DEF StartVolume
<1>6. CASE StartPlays
  BY <1>1, <1>6 DEF StartPlays, deviceVars
<1>7. CASE StartPublishes
  <2>1. iWave' = newWave /\ starting' = "no" /\ UNCHANGED ulVolume
    BY <1>7 DEF StartPublishes
  <2>2. volume'[newWave] = volume[newWave]
    BY <1>1, <1>7 DEF StartPublishes, Forgotten, Forget, deviceVars
  <2>3. volume[newWave] = ulVolume
    BY <1>1, <1>7 DEF StartPublishes
  <2> QED BY <2>1, <2>2, <2>3
<1>8. CASE Stops
  BY <1>8 DEF Stops, Stopped, startVars
<1>9. CASE Tends
  <2>1. CASE \E v \in Volumes : MoveVolume(v)
    <3>1. starting = "no"
      BY <2>1 DEF MoveVolume, Usual
    <3> QED BY <1>1, <2>1, <3>1 DEF MoveVolume, startVars
  <2>2. CASE Setup
    BY <2>2 DEF Setup, Usual
  <2>3. CASE ~(\E v \in Volumes : MoveVolume(v)) /\ ~Setup
    <3>1. UNCHANGED <<volume, ulVolume>>
      BY <1>9, <2>3 DEF Tends, Pauses, TickCounts, TickShows, SwitchDisplay, DragTo, DropAt,
                        deviceVars, vars
    <3> QED BY <1>1, <1>9, <3>1, TendsFrame
  <2> QED BY <2>1, <2>2, <2>3
<1> QED BY <1>2, <1>3, <1>4, <1>5, <1>6, <1>7, <1>8, <1>9, StepIs

\* The length 0 of a device without a track is not too long.
LEMMA ZeroFits == ~TooLong(0)
<1>1. 0 \div Hundred = 0
  BY ControlsAssumption, DivNat
<1>2. 2 * Hundred * Second * 0 = 0
  BY ControlsAssumption
<1> QED BY <1>1, <1>2, WordPositive DEF TooLong

LEMMA KeepsFit ==
  ASSUME TypeOK, FitPart, [Next]_vars
  PROVE  FitPart'
<1> USE DEF TypeOK, Devices
<1>1. CASE Usual({"long track"})
  <2>1. \A d \in Devices : ~TooLong(length'[d])
    <3>1. \A d \in Devices : ~TooLong(length[d])
      BY <1>1 DEF FitPart
    <3>2. CASE StartBegins
      <4>1. PICK l \in Lengths :
              /\ ~TooLong(l)
              /\ \/ length' = [d \in Devices |-> IF d = newWave' THEN l ELSE 0]
                 \/ length' = [length EXCEPT ![newWave'] = l]
        BY <1>1, <3>2 DEF StartBegins, Usual
      <4> QED BY <3>1, <4>1, ZeroFits
    <3>3. CASE ~StartBegins
      <4>1. \/ UNCHANGED length
            \/ \E d \in Devices : length' = Forget(length, d)
        <5>1. CASE StartFails
          BY <5>1 DEF StartFails, Forgotten
        <5>2. CASE StartPublishes
          BY <5>2 DEF StartPublishes, Forgotten, deviceVars
        <5>3. CASE Stops
          BY <5>3 DEF Stops, Forgotten
        <5>4. CASE StartLength \/ StartVolume \/ StartPlays
          BY <5>4 DEF StartLength, StartVolume, StartPlays, deviceVars
        <5> QED BY <3>3, <5>1, <5>2, <5>3, <5>4, StepIs, TendsFrame
      <4> QED BY <3>1, <4>1, ZeroFits DEF Forget
    <3> QED BY <3>2, <3>3
  <2>2. CASE Usual({"no length", "long track"})
    <3>1. ~TooLong(ulTotalLength)
      BY <2>2 DEF FitPart
    <3>2. \/ UNCHANGED ulTotalLength
          \/ ulTotalLength' = length[newWave]
      <4>1. CASE StartLength
        BY <2>2, <4>1 DEF StartLength, Usual
      <4>2. CASE StartBegins \/ StartFails \/ StartVolume \/ StartPlays \/ StartPublishes \/ Stops
        BY <4>2 DEF StartBegins, StartFails, StartVolume, StartPlays, StartPublishes, Stops,
                    timeVars
      <4> QED BY <4>1, <4>2, StepIs, TendsFrame
    <3>3. ~TooLong(ulTotalLength')
      BY <1>1, <3>1, <3>2 DEF FitPart
    <3> QED BY <2>1, <3>3 DEF FitPart
  <2>3. CASE ~Usual({"no length", "long track"})
    <3>1. ~Usual({"no length", "long track"})'
      BY <2>3, LegendStays
    <3> QED BY <2>1, <3>1 DEF FitPart
  <2> QED BY <2>2, <2>3
<1>2. CASE ~Usual({"long track"})
  <2>1. ~Usual({"long track"})' /\ ~Usual({"no length", "long track"})'
    <3>1. ~Usual({"no length", "long track"})
      BY <1>2 DEF Usual
    <3> QED BY <1>2, <3>1, LegendStays
  <2> QED BY <2>1 DEF FitPart
<1> QED BY <1>1, <1>2

\* 0 lies in every range.
LEMMA InItsRange == \A n \in Nat : 0 \in 0..n
OBVIOUS

\* 0 is no device.
LEMMA DevicesNotZero == \A d \in Devices : d # 0
BY DEF Devices

LEMMA KeepsSeek ==
  ASSUME TypeOK, Apart, LengthPart, FitPart, SeekPart, [Next]_vars
  PROVE  SeekPart'
<1> SUFFICES ASSUME Usual({"play over", "no length", "long track"})
             PROVE  \A d \in Devices : /\ at'[d] \in 0..length'[d]
                                       /\ d # iWave' => at'[d] = 0
  BY LegendStays DEF SeekPart
<1>1. /\ \A d \in Devices : at[d] \in 0..length[d] /\ (d # iWave => at[d] = 0)
      /\ starting # "no" => iWave = 0
      /\ iWave # 0 => ulTotalLength = length[iWave]
      /\ ~TooLong(ulTotalLength)
  <2>1. Usual({"play over"}) /\ Usual({"play over", "no length"})
        /\ Usual({"no length", "long track"})
    BY DEF Usual
  <2> QED BY <2>1 DEF SeekPart, Apart, LengthPart, FitPart
<1>2. /\ at \in [Devices -> Int] /\ length \in [Devices -> Nat]
      /\ iWave \in {0} \cup Devices /\ newWave \in Devices
  BY LengthRange DEF TypeOK
<1>3. \A d \in Devices : d # 0 /\ (d # iWave => at[d] = 0)
  <2>1. \A d \in Devices : d # iWave => at[d] = 0
    BY <1>1
  <2>2. \A d \in Devices : d # 0
    BY DevicesNotZero
  <2> QED BY <2>1, <2>2
<1>4. CASE StartBegins
  <2>1. PICK l \in Lengths :
          \/ /\ iWave # 0 /\ iWave' = 0
             /\ length' = [d \in Devices |-> IF d = newWave' THEN l ELSE 0]
             /\ at' = Forget(at, iWave)
          \/ /\ iWave = 0 /\ iWave' = 0
             /\ length' = [length EXCEPT ![newWave'] = l]
             /\ at' = at
    BY <1>4 DEF StartBegins, Stopped, Usual
  <2>2. l \in Nat
    BY LengthRange
  <2>3. \A d \in Devices : at'[d] = 0
    BY <1>3, <1>2, <2>1 DEF Forget
  <2>4. \A d \in Devices : length'[d] \in Nat
    <3>1. CASE length' = [d \in Devices |-> IF d = newWave' THEN l ELSE 0]
      BY <2>2, <3>1
    <3>2. CASE length' = [length EXCEPT ![newWave'] = l]
      BY <1>2, <2>2, <3>2
    <3> QED BY <2>1, <3>1, <3>2
  <2> QED BY <2>3, <2>4, InItsRange
<1>5. CASE StartFails
  <2>1. iWave = 0 /\ iWave' = 0 /\ at' = Forget(at, newWave) /\ length' = Forget(length, newWave)
    BY <1>1, <1>5 DEF StartFails, Forgotten
  <2>2. \A d \in Devices : at'[d] = 0
    BY <1>3, <1>2, <2>1 DEF Forget
  <2>3. \A d \in Devices : length'[d] \in Nat
    BY <1>2, <2>1 DEF Forget
  <2> QED BY <2>2, <2>3, InItsRange
<1>6. CASE StartLength \/ StartVolume \/ StartPlays
  <2>1. UNCHANGED <<iWave, length, at>>
    BY <1>6 DEF StartLength, StartVolume, StartPlays, deviceVars
  <2> QED BY <1>1, <2>1
<1>7. CASE StartPublishes
  <2>1. iWave = 0 /\ UNCHANGED <<length, at>>
    BY <1>1, <1>7 DEF StartPublishes, deviceVars
  <2>2. \A d \in Devices : at[d] = 0
    BY <1>3, <2>1
  <2> QED BY <1>1, <2>1, <2>2
<1>8. CASE Stops
  <2>1. iWave' = 0 /\ at' = Forget(at, iWave) /\ length' = Forget(length, iWave)
    BY <1>8 DEF Stops, Stopped, Forgotten
  <2>2. \A d \in Devices : at'[d] = 0
    BY <1>3, <1>2, <2>1 DEF Forget
  <2>3. \A d \in Devices : length'[d] \in Nat
    BY <1>2, <2>1 DEF Forget
  <2> QED BY <2>2, <2>3, InItsRange
<1>9. CASE \E p \in 0..Hundred : DropAt(p)
  <2>1. PICK p \in 0..Hundred : DropAt(p)
    BY <1>9
  <2>2. UNCHANGED <<iWave, length>>
    BY <2>1 DEF DropAt, startVars
  <2>3. CASE iWave = 0
    BY <1>1, <2>1, <2>2, <2>3 DEF DropAt
  <2>4. CASE iWave # 0
    <3>1. SeekPosition(p, ulTotalLength) \in 0..ulTotalLength
      BY <1>1, LengthRange, SeekIsInTrack DEF TypeOK
    <3>2. at' = [at EXCEPT ![iWave] = SeekPosition(p, ulTotalLength)]
      BY <2>1, <2>4 DEF DropAt
    <3> QED BY <1>1, <2>2, <2>4, <3>1, <3>2 DEF TypeOK, Devices
  <2> QED BY <2>3, <2>4
<1>10. CASE Tends /\ ~(\E p \in 0..Hundred : DropAt(p))
  <2>1. UNCHANGED at
    BY <1>10 DEF Tends, Pauses, TickCounts, TickShows, SwitchDisplay, DragTo, MoveVolume, Setup,
                deviceVars, vars
  <2> QED BY <1>1, <1>10, <2>1, TendsFrame
<1> QED BY <1>4, <1>5, <1>6, <1>7, <1>8, <1>9, <1>10, StepIs

\* A remainder is not above its number.
LEMMA ModBelow ==
  ASSUME NEW a \in Nat, NEW w \in Nat \ {0}
  PROVE  a % w \in Nat /\ a % w <= a
OBVIOUS

\* A quotient of a bounded product is bounded.
LEMMA DivBelow ==
  ASSUME NEW a \in Nat, NEW d \in Nat \ {0}, NEW q \in Nat, a <= q * d
  PROVE  a \div d <= q
OBVIOUS

\* While the count lies in the track, the arm lies on the slider, and the time left in the
\* track.
LEMMA ShownInRange ==
  ASSUME NEW len \in Lengths \cup {0}, NEW pos \in Nat, pos <= len \div Second
  PROVE  /\ ArmPosition(pos, len) <= Hundred
         /\ TimeText(1, len, pos) <= len \div Second
<1> DEFINE d == len \div Second
           x == pos * Hundred
<1>1. d \in Nat /\ d < Word /\ pos <= d
  BY LengthRange, WordPositive
<1>2. x \in Nat /\ x <= Hundred * d
  <2>1. pos * Hundred <= d * Hundred /\ pos * Hundred \in Nat
    <3> HIDE DEF d
    <3> QED BY <1>1, ControlsAssumption, TimesLess
  <2>2. d * Hundred = Hundred * d
    <3> HIDE DEF d
    <3> QED BY <1>1, ControlsAssumption
  <2> QED BY <2>1, <2>2
<1> HIDE DEF d, x
<1>3. Unsigned(x) \in Nat /\ Unsigned(x) <= Hundred * d
  <2>1. Unsigned(x) \in Nat /\ Unsigned(x) <= x
    BY <1>2, WordPositive, ModBelow DEF Unsigned
  <2>2. Hundred * d \in Nat
    BY <1>1, ControlsAssumption
  <2> QED BY <1>2, <2>1, <2>2
<1>4. ArmPosition(pos, len) <= Hundred
  <2>1. CASE d = 0
    BY <2>1, ControlsAssumption DEF ArmPosition, d
  <2>2. CASE d # 0
    <3>1. Unsigned(x) \div d <= Hundred
      BY <1>1, <1>3, <2>2, ControlsAssumption, DivBelow
    <3> QED BY <2>2, <3>1 DEF ArmPosition, d, x
  <2> QED BY <2>1, <2>2
<1>5. TimeText(1, len, pos) <= d
  <2>1. d - pos \in Nat /\ d - pos < Word /\ d - pos <= d
    BY <1>1, WordPositive
  <2>2. Unsigned(d - pos) = d - pos
    BY <2>1, WordPositive, SmallMod DEF Unsigned
  <2> QED BY <2>1, <2>2 DEF TimeText, d
<1> QED BY <1>4, <1>5 DEF d

\* The count that a seek sets lies in the track.
LEMMA SeekCountInTrack ==
  ASSUME NEW p \in 0..Hundred, NEW len \in Lengths \cup {0}, ~TooLong(len)
  PROVE  Unsigned(Quotient(SeekPosition(p, len), Second)) <= len \div Second
<1> DEFINE pos == SeekPosition(p, len)
<1>1. pos \in Nat /\ pos <= len /\ len \in Nat
  BY LengthRange, SeekIsInTrack
<1> HIDE DEF pos
<1>2. Quotient(pos, Second) = pos \div Second
  BY <1>1 DEF Quotient
<1>3. pos \div Second \in Nat /\ (pos \div Second) * Second <= pos
  BY <1>1, ControlsAssumption, DivNat
<1>4. pos \div Second <= len \div Second
  <2>1. (pos \div Second) * Second \in Nat
    BY <1>3, ControlsAssumption
  <2>2. (pos \div Second) * Second <= len
    BY <1>1, <1>3, <2>1
  <2> QED BY <1>1, <1>3, <2>2, ControlsAssumption, DivMonotone
<1>5. Unsigned(pos \div Second) <= pos \div Second /\ Unsigned(pos \div Second) \in Nat
  BY <1>3, WordPositive, ModBelow DEF Unsigned
<1>6. len \div Second \in Nat
  BY LengthRange
<1> QED BY <1>2, <1>3, <1>4, <1>5, <1>6 DEF pos

\* The arithmetic of a state: how the count goes on and what is shown of it.
LEMMA DisplayFacts ==
  ASSUME TypeOK
  PROVE  /\ ulPos <= ulTotalLength \div Second
              => /\ ArmPosition(ulPos, ulTotalLength) <= Hundred
                 /\ TimeText(1, ulTotalLength, ulPos) <= ulTotalLength \div Second
         /\ (ulPos <= ulTotalLength \div Second /\ ~TooLong(ulTotalLength))
              => Counted(ulPos, ulTotalLength) <= ulTotalLength \div Second
         /\ 0 <= ulTotalLength \div Second
         /\ TimeText(1, ulTotalLength, 0) <= ulTotalLength \div Second
         /\ ~TooLong(ulTotalLength)
              => \A p \in 0..Hundred :
                    Unsigned(Quotient(SeekPosition(p, ulTotalLength), Second))
                      <= ulTotalLength \div Second
<1>1. ulTotalLength \in Lengths \cup {0}
  BY DEF TypeOK
<1>2. ulPos \in Nat
  <2>1. ulPos \in 0..Word-1
    BY DEF TypeOK
  <2> QED BY <2>1, WordPositive
<1>3. ulTotalLength \div Second \in Nat /\ ulTotalLength \in Nat
  BY <1>1, LengthRange
<1>4. ulPos <= ulTotalLength \div Second
        => /\ ArmPosition(ulPos, ulTotalLength) <= Hundred
           /\ TimeText(1, ulTotalLength, ulPos) <= ulTotalLength \div Second
  BY <1>1, <1>2, ShownInRange
<1>5. ASSUME ulPos <= ulTotalLength \div Second, ~TooLong(ulTotalLength)
      PROVE  Counted(ulPos, ulTotalLength) <= ulTotalLength \div Second
  <2>1. ulPos \in 0..(ulTotalLength \div Second)
    BY <1>2, <1>3, <1>5
  <2>2. Counted(ulPos, ulTotalLength) \in 0..(ulTotalLength \div Second)
    BY <1>3, <1>5, <2>1, CountStays
  <2> QED BY <1>3, <2>2
<1>6. 0 <= ulTotalLength \div Second /\ TimeText(1, ulTotalLength, 0) <= ulTotalLength \div Second
  BY <1>1, <1>3, ShownInRange
<1>7. ~TooLong(ulTotalLength)
        => \A p \in 0..Hundred :
              Unsigned(Quotient(SeekPosition(p, ulTotalLength), Second))
                <= ulTotalLength \div Second
  BY <1>1, SeekCountInTrack
<1> QED BY <1>4, <1>5, <1>6, <1>7

\* The second display is not the third.
LEMMA OneIsNotTwo == 1 # 2
OBVIOUS

LEMMA KeepsShown ==
  ASSUME TypeOK, Apart, FitPart, ShownPart, [Next]_vars
  PROVE  ShownPart'
<1> SUFFICES ASSUME Usual({"play over", "no length", "long track"}), iWave' # 0
             PROVE  /\ ulPos' <= ulTotalLength' \div Second
                    /\ usWhichDisplay' = 1 => shown' <= ulTotalLength' \div Second
  BY LegendStays DEF ShownPart
<1>1. /\ iWave # 0 => /\ ulPos <= ulTotalLength \div Second
                      /\ usWhichDisplay = 1 => shown <= ulTotalLength \div Second
      /\ starting # "no" => iWave = 0
      /\ ~TooLong(ulTotalLength)
  <2>1. Usual({"play over"}) /\ Usual({"no length", "long track"})
    BY DEF Usual
  <2> QED BY <2>1 DEF ShownPart, Apart, FitPart
<1>2. CASE StartBegins \/ StartFails \/ StartLength \/ StartVolume \/ StartPlays \/ Stops
  <2>1. iWave' = 0
    <3>1. CASE StartBegins
      BY <3>1 DEF StartBegins, Stopped, Usual
    <3>2. CASE Stops
      BY <3>2 DEF Stops, Stopped
    <3>3. CASE StartFails \/ StartLength \/ StartVolume \/ StartPlays
      BY <1>1, <3>3 DEF StartFails, StartLength, StartVolume, StartPlays
    <3> QED BY <1>2, <3>1, <3>2, <3>3
  <2> QED BY <2>1
<1>3. CASE StartPublishes
  <2>1. /\ ulPos' = 0 /\ UNCHANGED <<ulTotalLength, usWhichDisplay>>
        /\ usWhichDisplay # 2 => shown' = TimeText(usWhichDisplay, ulTotalLength, 0)
    BY <1>3 DEF StartPublishes
  <2> QED BY <2>1, DisplayFacts, OneIsNotTwo
<1>4. CASE Tends
  <2>1. iWave # 0 /\ ulTotalLength' = ulTotalLength
    BY <1>4, TendsFrame
  <2>2. CASE TickCounts
    <3>1. Counted(ulPos, ulTotalLength) <= ulTotalLength \div Second
      BY <1>1, <2>1, DisplayFacts
    <3> QED BY <1>1, <2>1, <2>2, <3>1 DEF TickCounts, showVars
  <2>3. CASE TickShows
    <3>1. TimeText(1, ulTotalLength, ulPos) <= ulTotalLength \div Second
      BY <1>1, <2>1, DisplayFacts
    <3>2. UNCHANGED <<ulPos, usWhichDisplay>>
      BY <2>3 DEF TickShows, timeVars
    <3>3. usWhichDisplay = 1 => shown' \in {shown, TimeText(1, ulTotalLength, ulPos)}
      BY <2>3 DEF TickShows
    <3> QED BY <1>1, <2>1, <3>1, <3>2, <3>3
  <2>4. CASE SwitchDisplay
    <3>1. TimeText(1, ulTotalLength, ulPos) <= ulTotalLength \div Second
      BY <1>1, <2>1, DisplayFacts
    <3>2. usWhichDisplay' = 1 => shown' = TimeText(1, ulTotalLength, ulPos)
      <4>1. PICK d \in 0..2 :
              /\ usWhichDisplay' = d
              /\ shown' \in {TimeText(d, ulTotalLength, ulPos)}
                             \cup (IF d = 2 THEN {shown} ELSE {})
        BY <2>4 DEF SwitchDisplay
      <4> QED BY <4>1, OneIsNotTwo
    <3>3. UNCHANGED ulPos
      BY <2>4 DEF SwitchDisplay, timeVars
    <3> QED BY <1>1, <2>1, <3>1, <3>2, <3>3
  <2>5. CASE \E p \in 0..Hundred : DropAt(p)
    <3>1. PICK p \in 0..Hundred : DropAt(p)
      BY <2>5
    <3>2. /\ ulPos' = Unsigned(Quotient(SeekPosition(p, ulTotalLength), Second))
          /\ UNCHANGED <<usWhichDisplay, shown>>
      BY <3>1 DEF DropAt
    <3>3. ulPos' <= ulTotalLength \div Second
      BY <1>1, <3>2, DisplayFacts
    <3> QED BY <1>1, <2>1, <3>2, <3>3
  <2>6. CASE \/ Pauses \/ Setup \/ UNCHANGED vars
             \/ \E p \in 0..Hundred : DragTo(p)
             \/ \E v \in Volumes : MoveVolume(v)
    <3>1. UNCHANGED <<ulPos, usWhichDisplay, shown>>
      BY <2>6 DEF Pauses, Setup, DragTo, MoveVolume, timeVars, showVars, vars
    <3> QED BY <1>1, <2>1, <3>1
  <2> QED BY <1>4, <2>2, <2>3, <2>4, <2>5, <2>6 DEF Tends
<1> QED BY <1>2, <1>3, <1>4, StepIs

LEMMA KeepsSlider ==
  ASSUME TypeOK, Apart, FitPart, SliderPart, TimerPart, [Next]_vars
  PROVE  SliderPart'
<1>a. 0 <= Hundred /\ \A p \in 0..Hundred : p <= Hundred
  BY ControlsAssumption
<1>b. \A len \in Lengths \cup {0} : 0 <= len \div Second
  <2> TAKE len \in Lengths \cup {0}
  <2>1. len \div Second \in Nat
    BY LengthRange
  <2> QED BY <2>1
<1>c. ulTotalLength' \in Lengths \cup {0}
  <2>2. TypeOK'
    BY TypeNext
  <2> QED BY <2>2 DEF TypeOK
<1> SUFFICES ASSUME Usual({"play over", "no length", "long track", "seek while silent"})
             PROVE  /\ ulPos' <= ulTotalLength' \div Second
                    /\ (iWave' = 0 /\ starting' # "publish") => ulPos' = 0
                    /\ slider' <= Hundred
  BY LegendStays DEF SliderPart
<1>1. /\ ulPos <= ulTotalLength \div Second
      /\ (iWave = 0 /\ starting # "publish") => (ulPos = 0 /\ ~timer)
      /\ slider <= Hundred
      /\ starting # "no" => iWave = 0
      /\ ~TooLong(ulTotalLength)
  <2>1. Usual({"play over"}) /\ Usual({"no length", "long track"}) /\ Usual({"seek while silent"})
    BY DEF Usual
  <2> QED BY <2>1 DEF SliderPart, Apart, FitPart, TimerPart
<1>2. CASE StartBegins
  <2>1. ulPos' = 0 /\ (slider' = 0 \/ slider' = slider)
    BY <1>1, <1>2 DEF StartBegins, Stopped, Usual
  <2> QED BY <1>a, <1>b, <1>c, <1>1, <2>1
<1>3. CASE StartFails
  <2>1. UNCHANGED <<ulPos, ulTotalLength, slider, iWave>> /\ starting # "publish"
    BY <1>3 DEF StartFails, timeVars, showVars
  <2> QED BY <1>1, <2>1
<1>4. CASE StartLength
  <2>1. starting = "length" /\ iWave = 0
    BY <1>1, <1>4 DEF StartLength
  <2>2. ulPos' = 0 /\ slider' = slider
    BY <1>1, <1>4, <2>1 DEF StartLength, showVars
  <2> QED BY <1>b, <1>c, <1>1, <2>2
<1>5. CASE StartVolume \/ StartPlays
  <2>1. UNCHANGED <<ulPos, ulTotalLength, slider, iWave>> /\ starting # "publish"
    BY <1>5 DEF StartVolume, StartPlays, timeVars, showVars
  <2> QED BY <1>1, <2>1
<1>6. CASE StartPublishes
  <2>1. ulPos' = 0 /\ slider' = slider
    BY <1>6 DEF StartPublishes
  <2> QED BY <1>b, <1>c, <1>1, <2>1
<1>7. CASE Stops
  <2>1. ulPos' = 0 /\ slider' = 0
    BY <1>7 DEF Stops, Stopped
  <2> QED BY <1>a, <1>b, <1>c, <2>1
<1>8. CASE Tends
  <2>1. UNCHANGED <<iWave, starting, ulTotalLength>>
    BY <1>8, TendsFrame
  <2>2. CASE TickCounts
    <3>1. Counted(ulPos, ulTotalLength) <= ulTotalLength \div Second
      BY <1>1, DisplayFacts
    <3>2. ~(iWave = 0 /\ starting # "publish")
      BY <1>1, <2>2 DEF TickCounts
    <3> QED BY <1>1, <2>1, <2>2, <3>1, <3>2 DEF TickCounts, showVars
  <2>3. CASE TickShows
    <3>1. ArmPosition(ulPos, ulTotalLength) <= Hundred
      BY <1>1, DisplayFacts
    <3>2. UNCHANGED ulPos /\ slider' \in {slider, ArmPosition(ulPos, ulTotalLength)}
      BY <2>3 DEF TickShows, timeVars
    <3> QED BY <1>1, <2>1, <3>1, <3>2
  <2>4. CASE \E p \in 0..Hundred : DropAt(p)
    <3>1. PICK p \in 0..Hundred : DropAt(p)
      BY <2>4
    <3>2. ulPos' = Unsigned(Quotient(SeekPosition(p, ulTotalLength), Second)) /\ slider' = p
      BY <3>1 DEF DropAt
    <3>3. iWave # 0
      BY <3>1 DEF DropAt, Usual
    <3>4. ulPos' <= ulTotalLength \div Second
      BY <1>1, <3>2, DisplayFacts
    <3> QED BY <1>a, <2>1, <3>2, <3>3, <3>4
  <2>5. CASE \E p \in 0..Hundred : DragTo(p)
    <3>1. PICK p \in 0..Hundred : slider' = p /\ UNCHANGED ulPos
      BY <2>5 DEF DragTo, timeVars
    <3> QED BY <1>a, <1>1, <2>1, <3>1
  <2>6. CASE \/ Pauses \/ Setup \/ SwitchDisplay \/ UNCHANGED vars
             \/ \E v \in Volumes : MoveVolume(v)
    <3>1. UNCHANGED <<ulPos, slider>>
      BY <2>6 DEF Pauses, Setup, SwitchDisplay, MoveVolume, timeVars, showVars, vars
    <3> QED BY <1>1, <2>1, <3>1
  <2> QED BY <1>8, <2>2, <2>3, <2>4, <2>5, <2>6 DEF Tends
<1> QED BY <1>2, <1>3, <1>4, <1>5, <1>6, <1>7, <1>8, StepIs

LEMMA KeepsTimer ==
  ASSUME TypeOK, Apart, TimerPart, [Next]_vars
  PROVE  TimerPart'
<1>n. newWave # 0
  BY DevicesNotZero DEF TypeOK
<1> SUFFICES ASSUME Usual({"seek while silent"}), iWave' = 0, starting' # "publish"
             PROVE  ~timer'
  BY LegendStays DEF TimerPart
<1>1. (iWave = 0 /\ starting # "publish") => ~timer
  BY DEF TimerPart
<1>2. CASE StartBegins
  <2>1. timer' = FALSE \/ (UNCHANGED <<iWave, timer>> /\ starting = "no")
    BY <1>2 DEF StartBegins, Stopped
  <2> QED BY <1>1, <2>1
<1>3. CASE StartFails \/ StartLength \/ StartVolume
  <2>1. UNCHANGED <<iWave, timer>> /\ starting # "publish"
    BY <1>3 DEF StartFails, StartLength, StartVolume, timeVars
  <2> QED BY <1>1, <2>1
<1>4. CASE StartPlays
  BY <1>4 DEF StartPlays
<1>5. CASE StartPublishes
  BY <1>n, <1>5 DEF StartPublishes
<1>6. CASE Stops
  BY <1>6 DEF Stops, Stopped
<1>7. CASE Tends
  <2>1. UNCHANGED <<iWave, starting>>
    BY <1>7, TendsFrame
  <2>2. UNCHANGED timer
    <3>1. CASE \E p \in 0..Hundred : DropAt(p)
      <4>1. PICK p \in 0..Hundred : DropAt(p)
        BY <3>1
      <4>2. iWave # 0
        BY <4>1 DEF DropAt, Usual
      <4> QED BY <2>1, <4>2
    <3>2. CASE ~(\E p \in 0..Hundred : DropAt(p))
      BY <1>7, <3>2 DEF Tends, Pauses, TickCounts, TickShows, Setup, SwitchDisplay, DragTo,
                        MoveVolume, timeVars, vars
    <3> QED BY <3>1, <3>2
  <2> QED BY <1>1, <2>1, <2>2
<1> QED BY <1>2, <1>3, <1>4, <1>5, <1>6, <1>7, StepIs

\* The first states satisfy the invariant.
LEMMA ControlInit == Init => ControlInv
<1> SUFFICES ASSUME Init PROVE ControlInv
  OBVIOUS
<1>1. TypeOK
  BY TypeInit
<1>2. /\ iWave = 0 /\ starting = "no" /\ ulTotalLength = 0 /\ ulPos = 0 /\ slider = 0
      /\ timer = FALSE
      /\ \A d \in Devices : length[d] = 0 /\ at[d] = 0
  BY DEF Init
<1>3. 0 <= ulTotalLength \div Second /\ 0 <= Hundred
  BY <1>1, DisplayFacts, ControlsAssumption
<1>4. Apart /\ LengthPart /\ VolumePart /\ TimerPart /\ ShownPart
  BY <1>2 DEF Apart, LengthPart, VolumePart, TimerPart, ShownPart
<1>5. FitPart
  BY <1>2, ZeroFits DEF FitPart
<1>6. SeekPart
  BY <1>2, InItsRange DEF SeekPart
<1>7. SliderPart
  BY <1>2, <1>3 DEF SliderPart
<1> QED BY <1>1, <1>4, <1>5, <1>6, <1>7 DEF ControlInv

\* The invariant in every state.
LEMMA ControlAlways == Spec => []ControlInv
<1>1. ControlInv /\ [Next]_vars => ControlInv'
  BY TypeNext, KeepsApart, KeepsLength, KeepsVolume, KeepsFit, KeepsSeek, KeepsShown,
     KeepsSlider, KeepsTimer DEF ControlInv
<1> QED BY <1>1, ControlInit, PTL DEF Spec

\* What the invariant gives in a state.
LEMMA ControlGives ==
  ControlInv => LengthIsTrue /\ VolumeIsTrue /\ SeekInTrack /\ DisplayInRange /\ TimerMeansTrack
<1> SUFFICES ASSUME ControlInv
             PROVE  LengthIsTrue /\ VolumeIsTrue /\ SeekInTrack /\ DisplayInRange /\ TimerMeansTrack
  OBVIOUS
<1> USE DEF ControlInv
<1>1. LengthIsTrue
  BY DEF LengthPart, LengthIsTrue
<1>2. VolumeIsTrue
  BY DEF VolumePart, VolumeIsTrue
<1>3. SeekInTrack
  <2>1. iWave # 0 => iWave \in Devices
    BY DEF TypeOK
  <2> QED BY <2>1 DEF SeekPart, SeekInTrack
<1>4. DisplayInRange
  BY DEF SliderPart, ShownPart, DisplayInRange
<1>5. TimerMeansTrack
  BY DEF TimerPart, TimerMeansTrack, Silent
<1> QED BY <1>1, <1>2, <1>3, <1>4, <1>5

\* While a track plays, ulTotalLength is its length, unless something is played over it or
\* MMPM/2 does not tell the length.
THEOREM LengthAlwaysTrue == Spec => []LengthIsTrue
<1> QED BY ControlAlways, ControlGives, PTL

\* The track that plays has the volume of the folder, unless that is changed by a setup
\* string or during a start.
THEOREM VolumeAlwaysTrue == Spec => []VolumeIsTrue
<1> QED BY ControlAlways, ControlGives, PTL

\* However long the track, a seek ends inside it: as long as the product of the code fits.
THEOREM SeekAlwaysInTrack == Spec => []SeekInTrack
<1> QED BY ControlAlways, ControlGives, PTL

\* Arm and remaining time stay in their range for every interleaving of timer and start.
THEOREM DisplayAlwaysInRange == Spec => []DisplayInRange
<1> QED BY ControlAlways, ControlGives, PTL

\* The timer runs for a track only.
THEOREM TimerAlwaysMeansTrack == Spec => []TimerMeansTrack
<1> QED BY ControlAlways, ControlGives, PTL
=============================================================================
