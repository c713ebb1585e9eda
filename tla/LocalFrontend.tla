--------------------------- MODULE LocalFrontend ---------------------------
(***************************************************************************)
(* The local frontend (cXinelibLocal, frontend_local.c): the thread that   *)
(* loads a frontend library, opens the xine stream, runs its event loop    *)
(* and starts over when the engine has to be configured anew; and one      *)
(* caller of VDR that feeds data, draws, asks for the STC or changes the   *)
(* configuration meanwhile.                                                *)
(*                                                                         *)
(* LOCK_FE and LOCK_FE_WR build an unnamed cRwLockBlock: it is destroyed   *)
(* at the end of that statement, and m_feLock is free again before the     *)
(* next.  As nobody keeps the lock, taking it never waits either, and the  *)
(* model has no lock: a caller's check of fe and its use are two steps.    *)
(***************************************************************************)
EXTENDS Naturals

VARIABLES
  lf,        \* the fields of the object
  lfPc,      \* where the frontend's thread is
  lfCall     \* what the caller is about to do, or "idle"

lfVars == <<lf, lfPc, lfCall>>

(* Calls that need a frontend, and those that need a ready one as well.    *)
FeCalls == {"Play", "Xine_Control", "ConfigureWindow"}
ReadyCalls == {"OsdCmd", "GrabImage", "GetSTC"}

-----------------------------------------------------------------------------
(* The thread, Action().  fe is published before the engine is set up, and *)
(* reset after it is closed.                                               *)

LoadFrontend ==
  /\ lfPc = "start"
  /\ \/ /\ lfPc' = "loop"                       \* the display opens, ...
        /\ UNCHANGED lf
     \/ /\ lfPc' = "loop"                       \* ... or does not
        /\ lf' = [lf EXCEPT !.running = FALSE]
     \/ /\ lfPc' = "finished"                   \* no frontend was found
        /\ lf' = [lf EXCEPT !.running = FALSE]
  /\ UNCHANGED lfCall

OpenEngine ==
  /\ lfPc = "loop"
  /\ IF ~lf.running THEN lfPc' = "exit" /\ UNCHANGED lf
     ELSE lfPc' = "init" /\ lf' = [lf EXCEPT !.fe = TRUE]
  /\ UNCHANGED lfCall

(* xine_init(), when it is asked for, xine_open() and xine_play(); a       *)
(* failure ends the thread.                                                *)
OpenStream ==
  /\ lfPc = "init"
  /\ \/ /\ lf' = [lf EXCEPT !.opened = TRUE, !.m_bReconfigRequest = FALSE]
        /\ lfPc' = "configure"
     \/ lfPc' = "exit" /\ UNCHANGED lf
  /\ UNCHANGED lfCall

GetReady ==
  /\ lfPc = "configure"
  /\ lf' = [lf EXCEPT !.m_bReady = TRUE, !.m_bNoVideo = FALSE, !.m_bLiveMode = TRUE]
  /\ lfPc' = "run"
  /\ UNCHANGED lfCall

(* Wrong variant, for the sensitivity checks: calls are let through while  *)
(* the stream is closed.                                                   *)
LeaveLoopStaysReady ==
  /\ lfPc = "run"
  /\ lf' = [lf EXCEPT !.m_bEndOfStreamReached = TRUE]
  /\ lfPc' = "close"
  /\ UNCHANGED lfCall

(* The event loop ends with the object, for a new configuration, at the    *)
(* end of the stream, or when the window is closed.                        *)
LeaveLoop ==
  /\ lfPc = "run"
  /\ lf' = [lf EXCEPT !.m_bReady = FALSE, !.m_bEndOfStreamReached = TRUE]
  /\ lfPc' = "close"
  /\ UNCHANGED lfCall

CloseStream ==
  /\ lfPc = "close"
  /\ lf' = [lf EXCEPT !.opened = FALSE]          \* xine_close()
  /\ lfPc' = "unset"
  /\ UNCHANGED lfCall

ResetFe ==
  /\ lfPc = "unset"
  /\ lf' = [lf EXCEPT !.fe = FALSE]
  /\ \/ lfPc' = "loop"
     \/ ~lf.m_bReconfigRequest /\ lfPc' = "exit"   \* exit_on_close
  /\ UNCHANGED lfCall

(* xine_exit(), fe_display_close(), fe_free(); Running() is over.          *)
FreeFrontend ==
  /\ lfPc = "exit"
  /\ lf' = [lf EXCEPT !.fe = FALSE, !.opened = FALSE, !.running = FALSE]
  /\ lfPc' = "finished"
  /\ UNCHANGED lfCall

-----------------------------------------------------------------------------
(* The caller.  Each call checks the pointer, and then uses it.            *)

CallChecks ==
  /\ lfCall = "idle"
  /\ \E call \in FeCalls \cup ReadyCalls :
       /\ lf.fe
       /\ call \in {"Play", "Xine_Control"} => lf.running
       /\ call \in ReadyCalls => lf.m_bReady
       /\ lfCall' = call
  /\ UNCHANGED <<lf, lfPc>>

CallDone ==
  /\ lfCall \in FeCalls \cup ReadyCalls
  /\ lfCall' = "idle"
  /\ UNCHANGED <<lf, lfPc>>

(* ConfigureDecoder() waits for the engine to be ready again, while there  *)
(* is a thread that may make it so.                                        *)
StillWaiting == ~lf.m_bReady /\ lf.running

ConfigureDecoder ==
  /\ lfCall = "idle" /\ lf.fe
  /\ lf' = [lf EXCEPT !.m_bReady = FALSE, !.m_bReconfigRequest = TRUE]
  /\ lfCall' = "configuring"
  /\ UNCHANGED lfPc

ConfigureDone ==
  /\ lfCall = "configuring" /\ ~StillWaiting
  /\ lfCall' = "idle"
  /\ UNCHANGED <<lf, lfPc>>

(* The destructor, from the caller's thread: Cancel(-1) and an interrupt;  *)
(* then it waits for the thread.                                           *)
LfDelete ==
  /\ lfCall = "idle" /\ lf.running
  /\ lf' = [lf EXCEPT !.m_bReady = FALSE, !.running = FALSE]
  /\ lfCall' = "deleting"
  /\ UNCHANGED lfPc

(* A new object is made when the frontend is chosen anew.                  *)
LfFresh == [fe |-> FALSE, opened |-> FALSE, running |-> TRUE,
            m_bReady |-> FALSE, m_bReconfigRequest |-> TRUE,
            m_bNoVideo |-> TRUE, m_bLiveMode |-> TRUE,
            m_bEndOfStreamReached |-> FALSE]

LfCreate ==
  /\ lfPc = "finished" /\ lfCall \in {"idle", "deleting"}
  /\ lf' = LfFresh /\ lfPc' = "start" /\ lfCall' = "idle"

LfInit == lf = LfFresh /\ lfPc = "start" /\ lfCall = "idle"

LfThread == \/ LoadFrontend \/ OpenEngine \/ OpenStream \/ GetReady
            \/ LeaveLoop \/ CloseStream \/ ResetFe \/ FreeFrontend

LfNext == \/ LfThread
          \/ CallChecks \/ CallDone \/ ConfigureDecoder \/ ConfigureDone
          \/ LfDelete \/ LfCreate

-----------------------------------------------------------------------------
(* Type invariant; a frontend that is ready has its stream open.           *)
LfTypeOK ==
  /\ lfPc \in {"start", "loop", "init", "configure", "run", "close", "unset",
               "exit", "finished"}
  /\ lfCall \in FeCalls \cup ReadyCalls \cup {"idle", "configuring", "deleting"}
  /\ \A f \in DOMAIN lf : lf[f] \in BOOLEAN
  /\ lf.m_bReady => lf.fe /\ lf.opened

(* Between a caller's check of fe and the call it makes through it nobody  *)
(* takes fe away, and no stream is closed under a call that found the      *)
(* frontend ready: what LOCK_FE in Play(), OsdCmd(), GrabImage(), GetSTC() *)
(* and LOCK_FE_WR around xine_close() are there for.  It does not hold:    *)
(* the locks are temporaries, released before the call is made.            *)
FeLocked ==
  /\ lfCall \in FeCalls \cup ReadyCalls => lf.fe
  /\ lfCall \in ReadyCalls => lf.opened
=============================================================================
