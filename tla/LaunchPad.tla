------------------------------- MODULE LaunchPad -------------------------------
(*****************************************************************************)
(* The launch pads at the bottom of the media folders (class launchPad).     *)
(* All pads show the buttons kept in one file, objects.ini; a pad keeps a    *)
(* list of them, in reverse order, and a count.  Every change is made on the *)
(* list of one pad, saved, and all pads are built again from the file.       *)
(*                                                                           *)
(* All of this runs on the user interface thread, but the deletion of an     *)
(* object opens a dialog, and while it is open other windows go on.  Nothing *)
(* ever deletes a launchPad: the pad of a closed folder stays in the list of *)
(* all pads.                                                                 *)
(*                                                                           *)
(* A refresh that traps leaves a pad whose list runs through deleted entries.*)
(* Their memory may be given to new entries of any pad.  What is read along  *)
(* such a list is not known; and once it is written to, or its entries are   *)
(* deleted again, nothing is known of any list until the Shell is restarted. *)
(*****************************************************************************)
EXTENDS Integers, FiniteSets, SequencesExt

CONSTANTS
  Handles,  \* the persistent handles of the shadows in the toolbar folder
  Junk,     \* what memory holds that was never written, or given back
  MaxPads,  \* bound on the folders opened
  NoDialog

ASSUME LaunchPadAssumption ==
  /\ Junk \notin Handles /\ NoDialog \notin Handles
  /\ MaxPads \in Nat /\ IsFiniteSet(Handles)

Pads == 1..MaxPads

HandleSymmetry == Permutations(Handles)  \* for TLC

VARIABLES
  stored,    \* "objects", "handles" of objects.ini
  alive,     \* the shadows that exist
  used,      \* handles are not given twice
  opened,    \* the pads made so far, 1..opened; the newest is first in lplAllLPads
  shown,     \* those whose window exists
  list,      \* lpoObjectList, the rightmost button first; empty if it is not known
  num,       \* ulNumObjects
  dangling,  \* the list may run through deleted entries: it is not known
  damaged,   \* deleted entries were written to or deleted again
  dialog     \* the button whose object is asked to be deleted, and whether its
             \* LPObject still exists, in the list of its pad

pads == <<list, num, dangling, damaged>>
vars == <<stored, alive, used, opened, shown, pads, dialog>>

TypeOK ==
  /\ stored \in Seq(Handles \cup {Junk})
  /\ alive \subseteq used /\ used \subseteq Handles
  /\ opened \in 0..MaxPads /\ shown \subseteq 1..opened
  /\ list \in [Pads -> Seq(Handles)]
  /\ num \in [Pads -> Nat]
  /\ dangling \in [Pads -> BOOLEAN] /\ damaged \in BOOLEAN
  /\ dialog \in [pad : Pads, handle : Handles, valid : BOOLEAN] \cup {NoDialog}

-----------------------------------------------------------------------------
\* lpSaveObjectList: an array of n handles, filled from its end with those of
\* the list; what the list is too short for is never written.  The file may not
\* open; and malloc(0) returns NULL, so that nothing is never saved.
Saved(l, n) ==
  IF n = 0 THEN {stored}
  ELSE {stored, [k \in 1..n |-> IF n + 1 - k <= Len(l) THEN l[n + 1 - k] ELSE Junk]}

\* The same walk along deleted entries, or those made in their memory: handles in
\* any order, some repeated, others missing; those of objects that are gone for good
\* count as Junk.
SavedUnknown(n, lives) == {stored} \cup (IF n = 0 THEN {} ELSE [1..n -> lives \cup {Junk}])

\* lpBuildObjectList: the loop over the file tests lpoTemp, which is not set
\* before its first round, so that it may not run at all; no entry or a file that
\* does not open leave ulNumObjects as it was.
Builds == {"read", "skip", "fail"}

\* What a pad becomes when st is stored and the objects of lives exist.
Living(st, lives) ==
  LET kept[i \in 0..Len(st)] ==
        IF i = 0 THEN <<>>
        ELSE IF st[i] \in lives THEN Append(kept[i - 1], st[i])
        ELSE kept[i - 1]
  IN  kept[Len(st)]

BuiltList(how, st, lives) == IF how = "read" THEN Reverse(Living(st, lives)) ELSE <<>>

BuiltNum(how, st, lives, n) ==
  IF how = "fail" \/ st = <<>> THEN n
  ELSE IF how = "skip" THEN Len(st)
  ELSE Len(Living(st, lives))

\* lpFreeObjectList unlocks the object of each entry, whether it exists or not; part:
\* entries in front of the one that traps have been deleted.
FreeTraps(q, part, lives) == \E k \in 1..Len(q) : q[k] \notin lives /\ part = (k > 1)

\* Deleted entries were written to, or deleted again: no list is known any more.
Damage ==
  /\ damaged' = TRUE /\ dangling' = [p \in Pads |-> p <= opened]
  /\ list' = [p \in Pads |-> <<>>] /\ num' = [p \in Pads |-> 0]
  /\ dialog' = NoDialog

\* lpRefreshLaunchPad, with l the lists and n the counts: all pads, the newest first,
\* until one traps; the exception handler ends the refresh there.  Freeing a list that
\* is not known does damage, unless its first entry traps.  The entry that an open
\* dialog d is about may be gone afterwards.
Refresh(l, n, d, st, lives) ==
  \/ Damage /\ \E p \in 1..opened : dangling[p]
  \/ \E last \in 0..opened, part \in BOOLEAN :
       LET rebuilt == last + 1 .. opened
       IN  \E how \in [rebuilt -> Builds] :
           /\ \A p \in rebuilt : ~dangling[p]
           /\ IF last = 0 THEN ~part
              ELSE (dangling[last] /\ ~part) \/ FreeTraps(l[last], part, lives)
           /\ damaged' = FALSE
           /\ dangling' = [p \in Pads |-> (p = last /\ part) \/ (p <= last /\ dangling[p])]
           /\ list' = [p \in Pads |->
                IF p \in rebuilt THEN BuiltList(how[p], st, lives)
                ELSE IF p = last /\ part THEN <<>> ELSE l[p]]
           /\ num' = [p \in Pads |->
                IF p \in rebuilt THEN BuiltNum(how[p], st, lives, n[p]) ELSE n[p]]
           /\ dialog' = IF d = NoDialog THEN NoDialog
                        ELSE [d EXCEPT !.valid = @ /\ (d.pad < last \/ (d.pad = last /\ ~part))]

\* A pad whose entries are those of l is saved, and all pads are built again.
SaveAndRefresh(p, l, n, d, lives) ==
  /\ ~dangling[p]
  /\ \E st \in Saved(l[p], n[p]) :
       stored' = st /\ alive' = lives /\ Refresh(l, n, d, st, lives)

\* The same for a pad whose entries are not known: the walks along them may trap
\* before anything is saved, and the change just made may have done damage.
SaveUnknown(p, n, d, lives) ==
  /\ dangling[p] /\ alive' = lives
  /\ \/ \E st \in SavedUnknown(n[p], lives) : stored' = st /\ Refresh(list, n, d, st, lives)
     \/ stored' = stored /\ num' = n /\ dialog' = d /\ UNCHANGED <<list, dangling, damaged>>
     \/ stored' = stored /\ Damage

-----------------------------------------------------------------------------
\* WM_INITDLG of bottomCtrlDialogProc: a folder is opened.
OpenFolder ==
  /\ opened < MaxPads
  /\ opened' = opened + 1
  /\ shown' = shown \cup {opened'}
  /\ UNCHANGED <<stored, alive, used, dangling, damaged, dialog>>
  /\ \E how \in Builds :
       /\ list' = [list EXCEPT ![opened'] = BuiltList(how, stored, alive)]
       /\ num' = [num EXCEPT ![opened'] = BuiltNum(how, stored, alive, 0)]

\* The window goes, the launchPad object stays.
CloseFolder(p) ==
  /\ p \in shown /\ (dialog # NoDialog => dialog.pad # p)
  /\ shown' = shown \ {p}
  /\ UNCHANGED <<stored, alive, used, opened, pads, dialog>>

\* The walk from the right end to the insertion point, num - i entries down.
Overruns(p, i) == list[p] # <<>> /\ num[p] - i > Len(list[p])
InsertedRight(p, i, h) ==  \* mutant: one step short
  IF list[p] = <<>> \/ i = num[p] THEN <<h>> \o list[p]
  ELSE InsertAt(list[p], num[p] - i, h)
Inserted(p, i, h) ==
  IF list[p] = <<>> THEN <<h>> ELSE InsertAt(list[p], num[p] - i + 1, h)

\* The counts of the pads with one more button on pad p.
OneMore(p) == [num EXCEPT ![p] = @ + 1]

AddButtonUncounted(p, i, h) ==  \* mutant
  /\ p \in shown /\ i \in 0..num[p] /\ h \notin used
  /\ alive' = alive \cup {h} /\ used' = used \cup {h}
  /\ ~dangling[p] /\ ~Overruns(p, i)
  /\ stored' = stored /\ dialog' = dialog
  /\ list' = [list EXCEPT ![p] = Inserted(p, i, h)]
  /\ UNCHANGED <<opened, shown, num, dangling, damaged>>

\* lpAddButton: an object is dropped behind i buttons of the pad.
AddButton(p, i, h) ==
  /\ p \in shown /\ i \in 0..num[p] /\ h \notin used
  /\ used' = used \cup {h}
  /\ ~dangling[p]
  /\ \/ /\ ~Overruns(p, i)
        /\ SaveAndRefresh(p, [list EXCEPT ![p] = Inserted(p, i, h)], OneMore(p),
                          dialog, alive \cup {h})
     \/ /\ Overruns(p, i)
        /\ alive' = alive \cup {h}
        /\ UNCHANGED <<stored, pads, dialog>>
  /\ UNCHANGED <<opened, shown>>

\* lpAddButton on a pad whose entries are not known: the walk to the insertion point
\* may trap, the new entry be linked behind a deleted one, or be one itself.
AddToUnknown(p, h) ==
  /\ p \in shown /\ h \notin used
  /\ used' = used \cup {h}
  /\ \/ SaveUnknown(p, OneMore(p), dialog, alive \cup {h})
     \/ /\ dangling[p] /\ alive' = alive \cup {h}
        /\ UNCHANGED <<stored, pads, dialog>>
  /\ UNCHANGED <<opened, shown>>

\* lpAddButton when no shadow can be made of the object.
AddNothing(p) ==
  /\ p \in shown
  /\ \/ SaveAndRefresh(p, list, num, dialog, alive)
     \/ SaveUnknown(p, num, dialog, alive)
  /\ UNCHANGED <<used, opened, shown>>

-----------------------------------------------------------------------------
\* Delete in the menu of a button: wpDelete asks for confirmation.  The button may
\* still be there when its entry is not: any object may then be in its place.
AskToDelete(p, h) ==
  /\ p \in shown /\ dialog = NoDialog
  /\ h \in alive /\ (~dangling[p] => h \in ToSet(list[p]))
  /\ dialog' = [pad |-> p, handle |-> h, valid |-> ~dangling[p]]
  /\ UNCHANGED <<stored, alive, used, opened, shown, pads>>

DeleteRefused ==
  /\ dialog # NoDialog /\ dialog' = NoDialog
  /\ UNCHANGED <<stored, alive, used, opened, shown, pads>>

WithoutBefore(p, k) ==  \* mutant: the list starts behind the entry
  IF k = 0 THEN list ELSE [list EXCEPT ![p] = SubSeq(@, k + 1, Len(@))]
\* The lists with entry k of pad p taken out, or as they are for k = 0.
Without(p, k) == IF k = 0 THEN list ELSE [list EXCEPT ![p] = RemoveAt(@, k)]
LessOne(p, k) == IF k = 0 THEN num ELSE [num EXCEPT ![p] = @ - 1]

\* lpRemoveButton finds the entry by its address, on the pad the entry names.  When
\* the entry has been deleted while the dialog was open, that may be any pad, and the
\* address that of another of its entries, of none, or the access traps.
DeleteConfirmed ==
  /\ dialog # NoDialog /\ dialog.handle \in alive
  /\ LET lives == alive \ {dialog.handle}
     IN  \/ \E p \in 1..opened : \E k \in 0..Len(list[p]) :
              /\ dialog.valid => p = dialog.pad /\ k # 0 /\ list[p][k] = dialog.handle
              /\ list[p] # <<>>
              /\ SaveAndRefresh(p, Without(p, k), LessOne(p, k), NoDialog, lives)
         \/ \E p \in 1..opened, k \in {0, 1} :
              /\ ~dialog.valid /\ num[p] >= k
              /\ SaveUnknown(p, LessOne(p, k), NoDialog, lives)
         \/ /\ ~dialog.valid
            /\ alive' = lives /\ dialog' = NoDialog
            /\ UNCHANGED <<stored, pads>>
  /\ UNCHANGED <<used, opened, shown>>

\* The object went away while it asked: its method traps.
DeleteTraps ==
  /\ dialog # NoDialog /\ dialog.handle \notin alive /\ dialog' = NoDialog
  /\ UNCHANGED <<stored, alive, used, opened, shown, pads>>

\* A shadow is deleted by other means, or with the object it stands for.
Vanish(h) ==
  /\ alive' = alive \ {h} /\ h \in alive
  /\ UNCHANGED <<stored, used, opened, shown, pads, dialog>>

\* After damage anything may be saved, as long as the buttons ever made, and buttons
\* be added or deleted.
Astray ==
  /\ used' \in {used} \cup {used \cup {h} : h \in Handles}
  /\ alive' \in {alive \cup (used' \ used)} \cup {alive \ {h} : h \in alive}
  /\ stored' \in {stored} \cup
                 UNION {[1..n -> alive' \cup {Junk}] : n \in 1..Cardinality(used')}
  /\ UNCHANGED <<opened, shown, pads, dialog>>

\* The Workplace Shell ends, or is ended, and starts again.
Restart ==
  /\ opened' = 0 /\ shown' = {}
  /\ list' = [p \in Pads |-> <<>>] /\ num' = [p \in Pads |-> 0]
  /\ dangling' = [p \in Pads |-> FALSE] /\ damaged' = FALSE
  /\ dialog' = NoDialog
  /\ UNCHANGED <<stored, alive, used>>

Init ==
  /\ stored = <<>> /\ alive = {} /\ used = {}
  /\ opened = 0 /\ shown = {}
  /\ list = [p \in Pads |-> <<>>] /\ num = [p \in Pads |-> 0]
  /\ dangling = [p \in Pads |-> FALSE] /\ damaged = FALSE
  /\ dialog = NoDialog

Operate ==
  \/ OpenFolder
  \/ \E p \in Pads : CloseFolder(p) \/ AddNothing(p)
  \/ \E p \in Pads, h \in Handles :
       AskToDelete(p, h) \/ AddToUnknown(p, h) \/ \E i \in 0..num[p] : AddButton(p, i, h)
  \/ DeleteRefused \/ DeleteConfirmed \/ DeleteTraps

Next ==
  \/ ~damaged /\ Operate
  \/ damaged /\ Astray
  \/ \E h \in Handles : Vanish(h)
  \/ Restart

Spec == Init /\ [][Next]_vars

-----------------------------------------------------------------------------
(* Properties.                                                               *)

\* A pad never has more buttons than it counts, as far as its entries are known:
\* neither lpFillPad nor lpSaveObjectList leaves one of them out, whatever pads,
\* deletions, failures and restarts have gone before.
CountCoversList == \A p \in Pads : ~dangling[p] => num[p] >= Len(list[p])

\* A button dropped on a pad is saved where it was dropped between the buttons the
\* pad shows, although the list is kept in reverse order.
InsertedWhereDropped ==
  [][\A p \in Pads, h \in Handles : \A i \in 0..num[p] :
       AddButton(p, i, h) /\ ~dangling[p] /\ num[p] = Len(list[p]) /\ stored' # stored
         => stored' = InsertAt(Reverse(list[p]), i + 1, h)]_vars

\* A pad that shows all that is stored and lives is up to date.
UpToDate(p) ==
  ~dangling[p] /\ num[p] = Len(list[p]) /\ ToSet(stored) \cap alive \subseteq ToSet(list[p])

\* Whatever is changed on a pad that is up to date, no other button is lost, also
\* when objects have gone away since, their deletion is asked about elsewhere, or the
\* refresh of another pad has trapped.
NothingElseLost ==
  [][\A p \in Pads :
       UpToDate(p) /\ \/ AddNothing(p)
                      \/ \E h \in Handles, i \in 0..num[p] : AddButton(p, i, h)
                      \/ DeleteConfirmed /\ dialog.valid /\ dialog.pad = p
         => ToSet(stored) \cap alive' \subseteq ToSet(stored')]_vars
=============================================================================
