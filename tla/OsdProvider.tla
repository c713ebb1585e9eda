---------------------------- MODULE OsdProvider ----------------------------
(***************************************************************************)
(* The stack of OSDs in the server (osd.c).  Every OSD owns window handles *)
(* that are unique among all OSDs; a frontend keeps a window open from the *)
(* first picture sent for its handle until OSD_Close.  Without the mixer   *)
(* only the first OSD of the stack is visible.                             *)
(*                                                                         *)
(* VDR's main thread changes OSDs, and the server thread sends all of them *)
(* again to a client that has just been configured.  Both take the OSD     *)
(* lock (cXinelibOsd::m_Lock) and, inside of it, for every command the     *)
(* server's lock (cXinelibServer::OsdCmd()); the server thread comes from  *)
(* a handler that holds the server's lock.                                 *)
(***************************************************************************)
EXTENDS Integers, Sequences, FiniteSets, FiniteSetsExt, SequencesExt

CONSTANTS Osds,        \* OSDs that may exist
          Handles,     \* window handles, 0 .. MAX_OSD_OBJECT - 1
          MaxAreas     \* model bound: areas of an OSD

VARIABLES
  osd,       \* the stack, the OSDs, and the windows open in a frontend
  osdMixer,  \* xc.osd_mixer # OSD_MIXER_NONE
  osdLock,   \* who holds cXinelibOsd::m_Lock
  srvLock,   \* who holds cXinelibServer's lock
  osdPc      \* where the two threads are

osdVars == <<osd, osdMixer, osdLock, srvLock, osdPc>>

Layers == {0, 20}     \* the menu's, and OSD_LEVEL_TTXTSUBS
Nobody == "nobody"

-----------------------------------------------------------------------------
(* cXinelibOsd.                                                            *)

WindowsOf(s, osds) == UNION {s.m_WindowHandles[o] : o \in osds}

(* What a frontend was told of: a command needs the device.                *)
Shown(s, osds) == WindowsOf(s, osds \cap s.m_IsVisible \cap s.attached)

CloseWindows(s, osds) == [s EXCEPT !.windows = @ \ Shown(s, osds)]

(* Flush(): a window with something dirty is sent, all of them in Refresh(). *)
OsdFlush(s, osds, dirty) == [s EXCEPT !.windows = @ \cup (Shown(s, osds) \cap dirty)]

Refresh(s, osds) == OsdFlush(CloseWindows(s, osds), osds, Handles)

Show(s, osds) == Refresh([s EXCEPT !.m_IsVisible = @ \cup osds], osds)
Hide(s, osds) == [CloseWindows(s, osds) EXCEPT !.m_IsVisible = @ \ osds]

FreeWindowHandles(s, o) ==
  [s EXCEPT !.m_HandlesBitmap = @ \ s.m_WindowHandles[o], !.m_WindowHandles[o] = {}]

(* The lowest free handles, or none when there are too few.                *)
AllocWindowHandles(s, o, n) ==
  LET free == Handles \ s.m_HandlesBitmap
      got  == {h \in free : Cardinality({g \in free : g < h}) < n}
  IN IF Cardinality(free) < n THEN s
     ELSE [s EXCEPT !.m_HandlesBitmap = @ \cup got, !.m_WindowHandles[o] = got]

(* Wrong variant, for the sensitivity checks: the windows are not closed   *)
(* before their handles are given back.                                    *)
SetAreasLeavesWindows(s, o, n) == AllocWindowHandles(FreeWindowHandles(s, o), o, n)

(* No areas: cOsd::SetAreas() has refused them.                            *)
SetAreas(s, o, n) ==
  AllocWindowHandles(FreeWindowHandles(CloseWindows(s, {o}), o), o, n)

(* The first of some places of the stack, or the one behind it.            *)
Place(places, stack) == Min(places \cup {Len(stack) + 1})

TakenOff(stack, o) ==
  LET i == Place({k \in DOMAIN stack : stack[k] = o}, stack)
  IN IF i \in DOMAIN stack THEN RemoveAt(stack, i) ELSE stack

(* The destructor shows what is the first OSD now.                         *)
DeleteOsd(s, o) ==
  LET t == [FreeWindowHandles(CloseWindows(s, {o}), o) EXCEPT
              !.m_OsdStack = TakenOff(@, o),
              !.m_IsVisible = @ \ {o}, !.alive = @ \ {o}, !.attached = @ \ {o}]
  IN IF t.m_OsdStack = <<>> THEN t ELSE Show(t, {Head(t.m_OsdStack)})

-----------------------------------------------------------------------------
(* cXinelibOsdProvider.  What is done from the last OSD of the stack to    *)
(* the first is done for all of them: no two OSDs share a window.          *)

(* In front of the first OSD of the same or a higher layer.                *)
SortedInsert(s, o, layer) ==
  LET stack == s.m_OsdStack
      later == {i \in DOMAIN stack : s.m_Layer[stack[i]] >= layer}
  IN [s EXCEPT !.m_Layer[o] = layer, !.alive = @ \cup {o},
               !.attached = @ \cup {o}, !.m_IsVisible = @ \cup {o},
               !.m_OsdStack = InsertAt(stack, Place(later, stack), o)]

(* The first OSD of the stack is shown in any case.                        *)
CreateOsd(s, o, layer, mixer) ==
  LET t == SortedInsert(s, o, layer)
      first == {Head(t.m_OsdStack)}
      rest == ToSet(t.m_OsdStack) \ first
  IN Show(IF mixer THEN Show(t, rest) ELSE Hide(t, rest), first)

RefreshOsd(s) == Refresh(s, ToSet(s.m_OsdStack))

(* The provider goes while OSDs are open: they stay, without a device.     *)
ShutDown(s) ==
  LET osds == ToSet(s.m_OsdStack)
  IN [Hide(s, osds) EXCEPT !.m_OsdStack = <<>>, !.attached = @ \ osds]

-----------------------------------------------------------------------------
(* The threads.                                                            *)

Goto(t, pc) == osdPc' = [osdPc EXCEPT ![t] = pc]

TakeOsdLock(t) == osdLock = Nobody /\ osdLock' = t

(* The main thread enters a function of an OSD or of the provider.         *)
MainEnters ==
  /\ osdPc["main"] = "idle" /\ TakeOsdLock("main") /\ Goto("main", "locked")
  /\ UNCHANGED <<osd, osdMixer, srvLock>>

(* Its commands need the server's lock, each of them.                      *)
MainDone(s) ==
  /\ osdPc["main"] = "locked" /\ srvLock = Nobody
  /\ osd' = s /\ osdLock' = Nobody /\ Goto("main", "idle")
  /\ UNCHANGED <<osdMixer, srvLock>>

MainCreates == \E o \in Osds \ osd.alive, layer \in Layers :
                 MainDone(CreateOsd(osd, o, layer, osdMixer))
MainDeletes == \E o \in osd.alive : MainDone(DeleteOsd(osd, o))
MainSetsAreas == \E o \in osd.attached, n \in 0 .. MaxAreas :
                   MainDone(SetAreas(osd, o, n))
MainFlushes == \E o \in osd.alive, dirty \in SUBSET Handles :
                 MainDone(OsdFlush(osd, {o}, dirty))
MainShutsDown == osd.m_OsdStack # <<>> /\ MainDone(ShutDown(osd))

SetMixer == osdMixer' = ~osdMixer /\ UNCHANGED <<osd, osdLock, srvLock, osdPc>>

(* The server thread reads a line ...                                      *)
ServerReads ==
  /\ osdPc["server"] = "idle" /\ srvLock = Nobody
  /\ srvLock' = "server" /\ Goto("server", "handling")
  /\ UNCHANGED <<osd, osdMixer, osdLock>>

(* Wrong variant: the server's lock is kept.                               *)
UnlockForRefreshNot == srvLock' = srvLock

(* ... and the last thing done for CONFIG or OSD is to refresh the OSD,    *)
(* without the server's lock.                                              *)
UnlockForRefresh == srvLock' = Nobody

ServerConfigured ==
  /\ osdPc["server"] = "handling" /\ srvLock = "server"
  /\ UnlockForRefresh /\ Goto("server", "refresh")
  /\ UNCHANGED <<osd, osdMixer, osdLock>>

ServerEntersRefresh ==
  /\ osdPc["server"] = "refresh" /\ TakeOsdLock("server")
  /\ Goto("server", "refreshing")
  /\ UNCHANGED <<osd, osdMixer, srvLock>>

(* The server's lock is recursive.                                         *)
ServerRefreshes ==
  /\ osdPc["server"] = "refreshing" /\ srvLock \in {Nobody, "server"}
  /\ osd' = RefreshOsd(osd) /\ osdLock' = Nobody /\ Goto("server", "refreshed")
  /\ UNCHANGED <<osdMixer, srvLock>>

ServerLocksAgain ==
  /\ osdPc["server"] = "refreshed" /\ srvLock \in {Nobody, "server"}
  /\ srvLock' = "server" /\ Goto("server", "handling")
  /\ UNCHANGED <<osd, osdMixer, osdLock>>

ServerHandled ==
  /\ osdPc["server"] = "handling"
  /\ srvLock' = Nobody /\ Goto("server", "idle")
  /\ UNCHANGED <<osd, osdMixer, osdLock>>

OsdInit ==
  /\ osd = [m_OsdStack |-> <<>>, m_Layer |-> [o \in Osds |-> 0],
            m_IsVisible |-> {}, m_WindowHandles |-> [o \in Osds |-> {}],
            m_HandlesBitmap |-> {}, alive |-> {}, attached |-> {}, windows |-> {}]
  /\ osdMixer \in BOOLEAN
  /\ osdLock = Nobody /\ srvLock = Nobody
  /\ osdPc = [main |-> "idle", server |-> "idle"]

OsdNext == \/ MainEnters \/ MainCreates \/ MainDeletes \/ MainSetsAreas
           \/ MainFlushes \/ MainShutsDown \/ SetMixer \/ ServerReads
           \/ ServerConfigured \/ ServerEntersRefresh \/ ServerRefreshes
           \/ ServerLocksAgain \/ ServerHandled

-----------------------------------------------------------------------------
(* Type invariant.                                                         *)
OsdTypeOK ==
  /\ osd.m_IsVisible \subseteq osd.alive /\ osd.attached \subseteq osd.alive
  /\ osd.m_WindowHandles \in [Osds -> SUBSET Handles]
  /\ osd.m_HandlesBitmap \subseteq Handles /\ osd.windows \subseteq Handles
  /\ osdLock \in {Nobody, "main", "server"} /\ srvLock \in {Nobody, "server"}

(* What a frontend shows belongs to a visible OSD: when handles are given  *)
(* back and taken by another OSD, when OSDs are hidden, re-sorted, deleted *)
(* or lose their device, no window is left open that nobody will close,    *)
(* and the first OSD of the stack is always visible (CloseWindows(),       *)
(* FreeWindowHandles(), cXinelibOsdProvider::CreateOsd()).                 *)
NoGhostWindow ==
  /\ osd.windows \subseteq UNION {osd.m_WindowHandles[o] : o \in osd.m_IsVisible}
  /\ \A o, p \in Osds : o # p =>
       osd.m_WindowHandles[o] \cap osd.m_WindowHandles[p] = {}
  /\ osd.m_HandlesBitmap = UNION {osd.m_WindowHandles[o] : o \in Osds}
  /\ osd.m_OsdStack # <<>> => Head(osd.m_OsdStack) \in osd.m_IsVisible

(* The two locks are never waited for crosswise: a thread inside the OSD   *)
(* lock that needs the server's lock for OsdCmd() never waits for a server *)
(* thread that needs the OSD lock ("avoid deadlock if OSD update is        *)
(* already waiting in OsdCmd()", Handle_Control_CONFIG()).                 *)
LocksNeverCross ==
  ~(/\ osdPc["main"] = "locked" /\ osdLock = "main"
    /\ osdPc["server"] = "refresh" /\ srvLock = "server")
=============================================================================
