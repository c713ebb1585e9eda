------------------------------ MODULE Playlist ------------------------------
(***************************************************************************)
(* The play list of the media player (cPlaylist, tools/playlist.c), the    *)
(* thread that reads the files' metadata (cID3Scanner), the menu that      *)
(* shows and edits the list (cPlaylistMenu, media_player.c), and what the  *)
(* player takes from it (cXinelibPlayer::NextFile()).                      *)
(*                                                                         *)
(* VDR's main thread runs the menu and the player.  The scanner only reads *)
(* and sorts, and holds the list's lock for a whole step, so a handler of  *)
(* the main thread is one action: it may delete, the scanner may not.      *)
(* Items are numbers, in the order of their file names.                    *)
(***************************************************************************)
EXTENDS Integers, Sequences, FiniteSets, SequencesExt

CONSTANTS Items,        \* the files that exist (numbers)
          PlsNone       \* no item (NULL)

VARIABLES
  pls,       \* the list: its items, the current one, the file that is played
  scan,      \* the scanner: its state, the item it looked at last, and
             \*   whether the list changed since (Version < m_Version)
  plsMenu    \* the menu: cursor, marked line (from 0; -1 is none), redraw

plsVars == <<pls, scan, plsMenu>>

NoScan == [run |-> "off", item |-> PlsNone, stale |-> FALSE]
NoMenu == [open |-> FALSE, at |-> 0, marked |-> -1, m_NeedsUpdate |-> FALSE]
NoList == [open |-> FALSE, items |-> <<>>, m_Current |-> PlsNone, m_File |-> PlsNone]

-----------------------------------------------------------------------------
(* cPlaylist.  An index counts from 0, as cListObject::Index() does.       *)

Sorted(list) == CHOOSE s \in SetToSeqs(Range(list)) : \A i, j \in 1 .. Len(s) : i < j => s[i] < s[j]

ListIndex(l, item) == (CHOOSE i \in 1 .. Len(l.items) : l.items[i] = item) - 1

Current(l) == IF l.m_Current # PlsNone THEN l.m_Current ELSE Head(l.items)
CurrentFile(l) == ListIndex(l, Current(l))

(* Next() and Prev() wrap around, Seek() stops at the ends.                *)
Wrapped(l, step) ==
  [l EXCEPT !.m_Current = IF step = 0 THEN @
                          ELSE l.items[((CurrentFile(l) + step) % Len(l.items)) + 1]]
PlsSeek(l, rel) ==
  LET at == CurrentFile(l) + rel
      last == Len(l.items) - 1
  IN [l EXCEPT !.m_Current = IF rel = 0 THEN @
                             ELSE l.items[(IF at < 0 THEN 0
                                           ELSE IF at > last THEN last ELSE at) + 1]]

(* Del() keeps the last item, and moves the current one off what it        *)
(* removes, to the next or else to the previous.                           *)
Del(l, item) ==
  LET at == ListIndex(l, item)
      last == Len(l.items) - 1
  IN [l EXCEPT !.m_Current = IF @ # item THEN @
                             ELSE l.items[(IF at < last THEN at + 1 ELSE at - 1) + 1],
               !.items = RemoveAt(@, at + 1)]

PlsMove(l, from, to) ==
  [l EXCEPT !.items = InsertAt(RemoveAt(@, from + 1), to + 1, @[from + 1])]

(* Whatever changes the list makes the scanner start over.                 *)
Changed == scan' = [scan EXCEPT !.stale = TRUE]

(* Wrong variant, for the sensitivity checks: Del() does not count the     *)
(* version up.                                                             *)
NothingChanged == scan' = scan

(* Del() as the menu calls it: with the version.                           *)
DelChanges == Changed

-----------------------------------------------------------------------------
(* The player.  Opening it reads a folder (sorted), a playlist (as it is), *)
(* one file, or a disc whose tracks replace it; the first item is played   *)
(* without being made the current one.                                     *)

ScannerStarts == {NoScan, [run |-> "scan", item |-> PlsNone, stale |-> TRUE]}

PlsOpen ==
  /\ ~pls.open
  /\ \E found \in (SUBSET Items) \ {{}} : \E read \in SetToSeqs(found), disc \in BOOLEAN :
       pls' = [open |-> TRUE, items |-> read, m_Current |-> PlsNone,
               m_File |-> IF disc THEN PlsNone ELSE Head(read)]
  /\ scan' \in ScannerStarts      \* an up-to-date cache needs none
  /\ UNCHANGED plsMenu

(* ~cXinelibPlayerControl: the menu, then the player, its list and the     *)
(* scanner go.                                                             *)
PlsClose ==
  /\ pls.open
  /\ pls' = NoList /\ scan' = NoScan /\ plsMenu' = NoMenu

(* Queue(): a file is appended; a folder's files are sorted in.            *)
Queue ==
  /\ pls.open
  /\ \E item \in Items \ Range(pls.items), folder \in BOOLEAN :
       pls' = [pls EXCEPT !.items = IF folder THEN Sorted(Append(@, item))
                                    ELSE Append(@, item)]
  /\ IF scan.run # "off" THEN Changed ELSE scan' \in ScannerStarts
  /\ UNCHANGED plsMenu

(* NextFile(): so many files on (or back); the new one is played.          *)
NextFile(l, step) ==
  LET t == Wrapped(l, step) IN [t EXCEPT !.m_File = Current(t)]

(* The end of a file, the keys that change it, and a random one.  The menu *)
(* redraws its list; a file that fails ends the player (PlsClose).         *)
PlsNextFile ==
  /\ pls.open
  /\ \E step \in {0, 1, -1} \cup {j - CurrentFile(pls) : j \in 0 .. Len(pls.items) - 1} :
       pls' = NextFile(pls, step)
  /\ plsMenu' = IF plsMenu.open
                THEN [plsMenu EXCEPT !.at = CurrentFile(pls'), !.m_NeedsUpdate = FALSE]
                ELSE plsMenu
  /\ UNCHANGED scan

-----------------------------------------------------------------------------
(* cPlaylistMenu::ProcessKey().  A redraw keeps the cursor.                *)

MenuOpen ==
  /\ pls.open /\ ~plsMenu.open
  /\ plsMenu' = [NoMenu EXCEPT !.open = TRUE, !.at = CurrentFile(pls)]
  /\ UNCHANGED <<pls, scan>>

MenuKey == pls.open /\ plsMenu.open
Redrawn(at) == plsMenu' = [plsMenu EXCEPT !.at = at, !.m_NeedsUpdate = FALSE, !.marked = -1]

MenuCursor ==
  /\ MenuKey
  /\ \E at \in 0 .. Len(pls.items) - 1 :
       plsMenu' = [plsMenu EXCEPT !.at = at, !.m_NeedsUpdate = FALSE]
  /\ UNCHANGED <<pls, scan>>

MenuMark ==
  /\ MenuKey /\ plsMenu.marked = -1
  /\ plsMenu' = [plsMenu EXCEPT !.marked = plsMenu.at, !.m_NeedsUpdate = FALSE]
  /\ UNCHANGED <<pls, scan>>

(* Ok with a marked line moves it; two items are not moved (Count() < 3).  *)
MenuMove ==
  /\ MenuKey /\ plsMenu.marked >= 0
  /\ IF Len(pls.items) < 3 THEN UNCHANGED <<pls, scan>>
     ELSE pls' = PlsMove(pls, plsMenu.marked, plsMenu.at) /\ Changed
  /\ Redrawn(plsMenu.at)

MenuSort ==
  /\ MenuKey /\ plsMenu.marked = -1
  /\ pls' = [pls EXCEPT !.items = Sorted(@)]
  /\ Changed
  /\ Redrawn(plsMenu.at)

(* Yellow removes the line of the cursor.  When it is the one that plays,  *)
(* the menu returns the line to jump to, and the control jumps.            *)
MenuRemove ==
  /\ MenuKey /\ plsMenu.marked = -1 /\ Len(pls.items) > 1
  /\ LET current == CurrentFile(pls)
         last == Len(pls.items) - 1
         l == Del(pls, pls.items[plsMenu.at + 1])
         jump == IF current < last THEN current ELSE current - 1
     IN IF current = plsMenu.at
        THEN /\ pls' = NextFile(l, jump - CurrentFile(l))
             /\ Redrawn(CurrentFile(pls'))
        ELSE /\ pls' = l
             /\ Redrawn(IF plsMenu.at = last THEN plsMenu.at - 1 ELSE plsMenu.at)
  /\ DelChanges

MenuClose == MenuKey /\ plsMenu' = NoMenu /\ UNCHANGED <<pls, scan>>

-----------------------------------------------------------------------------
(* cID3Scanner::Action().  A step starts over when the list has changed,   *)
(* else goes on from the item of the step before; at the end it sorts.     *)
ScanStep ==
  /\ scan.run = "scan"
  /\ LET at == IF scan.stale \/ scan.item = PlsNone THEN 0
               ELSE ListIndex(pls, scan.item) + 1
     IN scan' = IF at < Len(pls.items)
                THEN [run |-> "scan", item |-> pls.items[at + 1], stale |-> FALSE]
                ELSE [run |-> "sort", item |-> PlsNone, stale |-> FALSE]
  /\ UNCHANGED <<pls, plsMenu>>

PlaylistChanged ==
  /\ scan.run = "sort"
  /\ pls' = [pls EXCEPT !.items = Sorted(@)]
  /\ plsMenu' = [plsMenu EXCEPT !.m_NeedsUpdate = plsMenu.open]
  /\ scan' = NoScan

PlsInit == pls = NoList /\ scan = NoScan /\ plsMenu = NoMenu

PlsNext == \/ PlsOpen \/ PlsClose \/ Queue \/ PlsNextFile
           \/ MenuOpen \/ MenuCursor \/ MenuMark \/ MenuMove \/ MenuSort
           \/ MenuRemove \/ MenuClose
           \/ ScanStep \/ PlaylistChanged

-----------------------------------------------------------------------------
(* Type invariant; an open list is never empty, and the cursor is on it.   *)
PlsTypeOK ==
  /\ IsInjective(pls.items) /\ Range(pls.items) \subseteq Items
  /\ pls.open => pls.items # <<>>
  /\ pls.m_File \in Items \cup {PlsNone}
  /\ scan.run \in {"off", "scan", "sort"}
  /\ plsMenu.open => plsMenu.at \in 0 .. Len(pls.items) - 1
  /\ plsMenu.marked \in -1 .. Len(pls.items) - 1

(* Nobody keeps an item that was deleted: neither the list's current item  *)
(* (Del()), nor the scanner, which keeps its item from one locked step to  *)
(* the next while the menu removes lines (m_Version); and once there is a  *)
(* current item, it is the one whose file plays ("m_Current; // now        *)
(* playing", playlist.h), also after the line that plays was removed.      *)
ItemsAlive ==
  /\ pls.m_Current \in Range(pls.items) \cup {PlsNone}
  /\ scan.run = "scan" /\ ~scan.stale => scan.item \in Range(pls.items)
  /\ pls.open /\ pls.m_Current # PlsNone => pls.m_File = pls.m_Current
=============================================================================
