--------------------------- MODULE ServerClients ---------------------------
(***************************************************************************)
(* The connection table of cXinelibServer (frontend_svr.c).  A client is a *)
(* slot: a control connection, and optionally a data and an OSD connection *)
(* of its own.  Every connection is accepted as a control connection; what *)
(* it sends first decides whether it stays one, is handed over to another  *)
(* slot, is handed to a file streamer, or is dropped.                      *)
(*                                                                         *)
(* The server thread polls without the lock, so its events speak of        *)
(* descriptor numbers as they were: VDR's threads may have closed some of  *)
(* them meanwhile, and accept() may have given the number to a new client. *)
(* Some handlers release the lock half way.                                *)
(*                                                                         *)
(* A handler is an operator from tables to tables, as it runs under the    *)
(* lock; the actions below apply them.                                     *)
(***************************************************************************)
EXTENDS Integers, Sequences, FiniteSets, FiniteSetsExt, SequencesExt

CONSTANTS Clients,          \* slots, 0 .. MAXCLIENTS - 1
          Fds,              \* model bound: descriptor numbers
          MaxConnects,      \* model bound: connections accepted
          Lines,            \* what clients may send
          UseRtp,           \* xc.remote_usertp
          RtpAlwaysOn       \* xc.remote_rtp_always_on

VARIABLES
  srv,      \* the tables of cXinelibServer and the descriptors they name
  thread,   \* the server thread: pc, events not yet handled, slot it serves
  connects, \* connections accepted so far
  refused   \* history: numbers closed behind the table's back, while it names them

srvVars == <<srv, thread, connects, refused>>

NoFd == -1
-----------------------------------------------------------------------------
(* Descriptors.                                                            *)

NewFd(s) == Min(Fds \ s.open)   \* the kernel's choice: the lowest one

CloseFd(s, fd) == [s EXCEPT !.open = @ \ {fd}]

Opened(s, fd) == [s EXCEPT !.open = @ \cup {fd}]

(* m_Scheduler->AddRtp() and RemoveRtp(); their sockets are no table's.    *)
AddRtp(s) == [s EXCEPT !.rtp = TRUE]
RemoveRtp(s) == [s EXCEPT !.rtp = FALSE]

ServerUp == [fd_control |-> [c \in Clients |-> NoFd],
             fd_data    |-> [c \in Clients |-> NoFd],
             fd_osd     |-> [c \in Clients |-> NoFd],
             m_Writer   |-> [c \in Clients |-> NoFd],  \* what it writes to
             m_ConnType |-> [c \in Clients |-> "detecting"],
             m_bUdp |-> {}, m_iMulticastMask |-> {},   \* and m_bMulticast
             m_bConfigOk |-> {}, m_bOsdConn |-> {},
             m_MasterCli |-> NoFd,
             m_Handles |-> {}, rtp |-> FALSE,          \* of m_Scheduler
             m_Streamers |-> {},
             primary |-> 0,                 \* m_ForcePrimaryDeviceCnt
             fd_listen |-> NoFd,
             open |-> {}]

-----------------------------------------------------------------------------
(* Closing, of one slot or of all that a loop over the slots finds; what   *)
(* is closed for one slot is not looked at for another.                    *)

InUse(s) == {c \in Clients : s.fd_control[c] # NoFd}

Without(fds, clis) == [c \in Clients |-> IF c \in clis THEN NoFd ELSE fds[c]]

CloseDataConnections(s, clis) ==
  LET mask == s.m_iMulticastMask \ clis
      t == [s EXCEPT
              !.open = @ \ {s.fd_data[c] : c \in clis},
              !.m_Handles = @ \ {s.fd_data[c] : c \in clis \cap s.m_bUdp},
              !.fd_data = Without(@, clis), !.m_Writer = Without(@, clis),
              !.m_bUdp = @ \ clis, !.m_bConfigOk = @ \ clis,
              !.m_iMulticastMask = mask,
              !.m_MasterCli = IF @ \in clis THEN NoFd ELSE @]
  IN IF mask = {} /\ ~RtpAlwaysOn THEN RemoveRtp(t) ELSE t

CloseOsdConnections(s, clis) ==
  [s EXCEPT !.open = @ \ {s.fd_osd[c] : c \in clis}, !.fd_osd = Without(@, clis)]

CloseConnections(s, clis) ==
  [CloseOsdConnections(CloseDataConnections(s, clis), clis) EXCEPT
     !.m_bOsdConn = @ \ clis,
     !.open = @ \ {s.fd_control[c] : c \in clis},
     !.fd_control = Without(@, clis),
     !.primary = @ - Cardinality(clis \cap InUse(s))]

CloseDataConnection(s, cli) == CloseDataConnections(s, {cli})
CloseOsdConnection(s, cli) == CloseOsdConnections(s, {cli})
CloseConnection(s, cli) == CloseConnections(s, {cli})

-----------------------------------------------------------------------------
(* Clients come, and change their transport.                               *)

(* The new descriptor is open when the handler is called.  "acceptable"    *)
(* stands for getpeername(), the allowed hosts and fcntl(); without a free *)
(* slot the server is busy.  A connection refused because the device is    *)
(* not the primary one is closed by number only: the slot keeps it.        *)
Handle_ClientConnected(s, fd, acceptable, isPrimary) ==
  LET free == {c \in Clients : s.fd_control[c] = NoFd}
      cli  == Min(free)
      t == [CloseDataConnection(Opened(s, fd), cli) EXCEPT
              !.m_ConnType[cli] = "detecting",
              !.fd_control[cli] = fd, !.primary = @ + 1]
  IN IF ~acceptable \/ free = {} THEN s
     ELSE IF isPrimary THEN t ELSE CloseFd(t, fd)

(* The pipe is opened by the client in time, or not.                       *)
Handle_Control_PIPE(s, cli, opened) ==
  LET t  == CloseOsdConnection(CloseDataConnection(s, cli), cli)
      fd == NewFd(t)
  IN IF opened
     THEN [Opened(t, fd) EXCEPT !.m_Writer[cli] = fd, !.fd_data[cli] = fd]
     ELSE t

Handle_Control_UDP(s, cli) ==
  LET t  == CloseDataConnection(s, cli)
      fd == NewFd(t)
  IN [Opened(t, fd) EXCEPT !.m_bUdp = @ \cup {cli}, !.fd_data[cli] = fd,
                           !.m_Handles = @ \cup {fd}]

(* RTP, and RTSP's PLAY: what the scheduler sends needs no connection.     *)
JoinMulticast(s, cli) ==
  [IF s.m_iMulticastMask = {} /\ ~RtpAlwaysOn THEN AddRtp(s) ELSE s EXCEPT
     !.m_iMulticastMask = @ \cup {cli}]

Handle_Control_RTP(s, cli) ==
  LET t == CloseDataConnection(s, cli)
  IN IF UseRtp THEN JoinMulticast(t, cli) ELSE t

(* DATA and OSD hand the connection over to the slot "id" it names, if     *)
(* that one is in use; id may be cli's own slot.                           *)
Parse_Client_Id(s, id) == s.fd_control[id] # NoFd

(* Wrong variant: the old data connection of the client is not closed.     *)
Handle_Control_DATALeaks(s, cli, id) ==
  LET t == CloseDataConnection(CloseOsdConnection(s, cli), cli)
      fd == t.fd_control[cli]
  IN IF ~Parse_Client_Id(t, id) THEN CloseConnection(t, cli)
     ELSE [t EXCEPT !.fd_control[cli] = NoFd, !.fd_data[id] = fd,
                    !.m_Writer[id] = fd, !.primary = @ - 1]

Handle_Control_DATA(s, cli, id) ==
  LET t == CloseDataConnection(CloseOsdConnection(s, cli), cli)
      u == CloseDataConnection(t, id)
      fd == u.fd_control[cli]
  IN IF ~Parse_Client_Id(t, id) THEN CloseConnection(t, cli)
     ELSE [u EXCEPT !.fd_control[cli] = NoFd, !.fd_data[id] = fd,
                    !.m_Writer[id] = fd, !.primary = @ - 1]

(* Behind it the lock is released for RefreshOsd().                        *)
Handle_Control_OSD(s, cli, id) ==
  LET t == CloseDataConnection(CloseOsdConnection(s, cli), cli)
      u == CloseOsdConnection(t, id)
      fd == u.fd_control[cli]
  IN IF ~Parse_Client_Id(t, id) THEN CloseConnection(t, cli)
     ELSE [u EXCEPT !.fd_control[cli] = NoFd, !.fd_osd[id] = fd,
                    !.m_bOsdConn = @ \cup {id}, !.primary = @ - 1]

(* The lock is released behind it.                                         *)
Handle_Control_CONFIG(s, cli) == [s EXCEPT !.m_bConfigOk = @ \cup {cli}]

Handle_Control_CONTROL(s, cli) == [s EXCEPT !.m_ConnType[cli] = "control"]

-----------------------------------------------------------------------------
(* HTTP and RTSP.  A request is a line, headers and an empty line; they    *)
(* are collected in m_State, and nothing else changes before the last: a   *)
(* request is one message here.  "allowed" stands for the settings and the *)
(* checks of the request.                                                  *)

RtspRequests == {"OPTIONS", "PLAY", "TEARDOWN"}   \* SETUP, DESCRIBE: as OPTIONS
HttpRequests == {"GET /", "GET /PLAYFILE"}

(* The primary device is streamed over the control connection itself; a    *)
(* file by a thread that owns the descriptor from now on.  CloseConnection *)
(* then finds no control connection and counts no primary reference down.  *)
Handle_Control_HTTP(s, cli, request, allowed) ==
  LET t == [s EXCEPT !.m_Writer[cli] = NoFd, !.m_ConnType[cli] = "http"]
  IN CASE allowed /\ request = "GET /" ->
            [t EXCEPT !.m_Writer[cli] = s.fd_control[cli]]
       [] allowed /\ request = "GET /PLAYFILE" ->
            CloseConnection([t EXCEPT !.m_Streamers = @ \cup {s.fd_control[cli]},
                                      !.fd_control[cli] = NoFd], cli)
       [] OTHER -> CloseConnection(t, cli)

Handle_Control_RTSP(s, cli, request, allowed) ==
  LET t == [s EXCEPT !.m_ConnType[cli] = "rtsp"]
  IN CASE ~allowed \/ request = "TEARDOWN" -> CloseConnection(t, cli)
       [] allowed /\ request = "PLAY" -> JoinMulticast(t, cli)
       [] OTHER -> t

(* The order of the tests is significant.  Only OPTIONS, SETUP and         *)
(* DESCRIBE begin an RTSP conversation.                                    *)
Handle_Control(s, cli, line, id, ok) ==
  IF line = "OPTIONS" \/ s.m_ConnType[cli] = "rtsp"
  THEN Handle_Control_RTSP(s, cli, line, ok /\ line \in RtspRequests)
  ELSE IF line \in HttpRequests \/ s.m_ConnType[cli] = "http"
  THEN Handle_Control_HTTP(s, cli, line, ok)
  ELSE
  CASE line = "PIPE"    -> Handle_Control_PIPE(s, cli, ok)
    [] line = "RTP"     -> Handle_Control_RTP(s, cli)
    [] line = "UDP"     -> Handle_Control_UDP(s, cli)
    [] line = "DATA"    -> Handle_Control_DATA(s, cli, id)
    [] line = "OSD"     -> Handle_Control_OSD(s, cli, id)
    [] line = "CONFIG"  -> Handle_Control_CONFIG(s, cli)
    [] line = "CONTROL" -> Handle_Control_CONTROL(s, cli)
    [] line = "CLOSE"   -> CloseConnection(s, cli)
    [] OTHER -> s     \* keys, replies, information: no table changes

(* The line after which the server thread waits without the lock.          *)
Unlocks(s, cli, line) ==
  line \in {"CONFIG", "OSD", "GRAB"} /\ s.m_ConnType[cli] \notin {"rtsp", "http"}

-----------------------------------------------------------------------------
(* The server thread.                                                      *)

LockFree == thread.pc # "run"

(* The numbers that a slot, a streamer or the listening socket still names. *)
Names(s) == Range(s.fd_control) \cup Range(s.fd_data) \cup Range(s.fd_osd)
            \cup s.m_Streamers \cup {s.fd_listen}

StillNamed(numbers, s) == numbers \cap Names(s)

(* The order of the descriptors in pfd.                                    *)
Pfd(s) ==
  SelectSeq(<<s.fd_listen>> \o
            FlattenSeq([i \in 1 .. Cardinality(Clients) |->
                          <<s.fd_control[i - 1], s.fd_data[i - 1]>>]),
            LAMBDA fd : fd # NoFd)

(* pfd is filled, and poll() waits with the lock released.                 *)
Polling(s) == [pc |-> "poll", pfd |-> Pfd(s), cli |-> NoFd]

(* Nothing happened (any more): pfd is filled again.                       *)
PollAgain ==
  /\ thread.pc \in {"poll", "run"}
  /\ thread' = Polling(srv)
  /\ UNCHANGED <<srv, connects>>

(* poll() has returned, the lock is taken, and pfd is gone through: the    *)
(* next number with an event.  It was in the tables when pfd was filled.   *)
Handling == thread.pc \in {"poll", "run"}

After(i) == [pc |-> "run", cli |-> NoFd,
             pfd |-> SubSeq(thread.pfd, i + 1, Len(thread.pfd))]

(* Listen(): the listening socket is opened unless it is open on that      *)
(* port; socket() fails without a free descriptor, bind() and the like may *)
(* fail.  The discovery socket and RTP are set up anew.                    *)
Reopened(s, samePort, bound) ==
  LET t == CloseFd(s, s.fd_listen)
  IN IF samePort /\ s.fd_listen # NoFd THEN s
     ELSE IF bound /\ Fds \ t.open # {}
     THEN [Opened(t, NewFd(t)) EXCEPT !.fd_listen = NewFd(t)]
     ELSE [t EXCEPT !.fd_listen = NoFd]

Listen(s, samePort, bound) ==
  [Reopened(s, samePort, bound) EXCEPT
     !.rtp = UseRtp /\ (RtpAlwaysOn \/ s.m_iMulticastMask # {})]

(* An error on a listening socket opens it anew; on any other number it    *)
(* closes every slot that has the number now.                              *)
EventError ==
  /\ Handling
  /\ \E i \in DOMAIN thread.pfd :
       LET fd == thread.pfd[i] IN
       /\ thread' = After(i)
       /\ IF fd = srv.fd_listen
          THEN \E bound \in BOOLEAN :
                 srv' = Listen([CloseFd(srv, fd) EXCEPT !.fd_listen = NoFd],
                               TRUE, bound)
          ELSE srv' = CloseConnections(srv, {c \in Clients :
                                              fd \in {srv.fd_data[c], srv.fd_control[c]}})
  /\ UNCHANGED connects

(* The device may not have become the primary one in time.                 *)
EventConnect ==
  /\ Handling
  /\ connects < MaxConnects /\ Fds \ srv.open # {}
  /\ \E i \in DOMAIN thread.pfd :
       thread.pfd[i] = srv.fd_listen /\ thread' = After(i)
  /\ \E acceptable, isPrimary \in BOOLEAN :
       /\ srv' = Handle_ClientConnected(srv, NewFd(srv), acceptable, isPrimary)
       /\ refused' = StillNamed(IF isPrimary THEN refused ELSE refused \cup {NewFd(srv)}, srv')
  /\ connects' = connects + 1

Readers(fd) == {c \in InUse(srv) : srv.fd_control[c] = fd}

(* Which slot a line names, and whether what it asks for is allowed and    *)
(* succeeds, where that matters.                                           *)
Ids(line) == IF line \in {"DATA", "OSD"} THEN Clients ELSE {Min(Clients)}
Outcomes(line, cli) ==
  IF line \in {"PIPE"} \cup RtspRequests \cup HttpRequests \/ srv.m_ConnType[cli] \in {"rtsp", "http"}
  THEN BOOLEAN ELSE {TRUE}

(* Read_Control() of the first slot with that number; EOF and too long a   *)
(* line close the connection, an error of recv() changes nothing.          *)
EventRead ==
  /\ Handling
  /\ \E i \in DOMAIN thread.pfd :
       /\ Readers(thread.pfd[i]) # {} /\ thread.pfd[i] \in srv.open
       /\ LET cli == Min(Readers(thread.pfd[i])) IN
          \E line \in Lines : \E id \in Ids(line), ok \in Outcomes(line, cli) :
            /\ line \in {"UDP", "PIPE"} => Fds \ srv.open # {}
            /\ srv' = IF line = "EOF" THEN CloseConnection(srv, cli)
                      ELSE Handle_Control(srv, cli, line, id, ok)
            /\ thread' = IF Unlocks(srv, cli, line)
                         THEN [After(i) EXCEPT
                                 !.pc = IF line = "GRAB" THEN "grab" ELSE "unlocked",
                                 !.cli = cli]
                         ELSE After(i)
  /\ UNCHANGED connects

LockAgain ==
  /\ thread.pc = "unlocked"
  /\ thread' = [thread EXCEPT !.pc = "run", !.cli = NoFd]
  /\ UNCHANGED <<srv, connects>>

(* Handle_Control_GRAB() has read the image without the lock, or failed.   *)
GrabRead ==
  /\ thread.pc = "grab"
  /\ thread' = [thread EXCEPT !.pc = "run", !.cli = NoFd]
  /\ \E whole \in BOOLEAN :
       srv' = IF whole THEN srv ELSE CloseConnection(srv, thread.cli)
  /\ UNCHANGED connects

-----------------------------------------------------------------------------
(* VDR's threads, between any two steps that hold the lock.                *)

Served(s) == InUse(s) \cap s.m_bConfigOk

(* Play() drops the clients whose writer is closed.                        *)
ServerPlay ==
  /\ LockFree
  /\ \E failed \in SUBSET {c \in Clients :
          /\ srv.fd_control[c] # NoFd /\ c \notin srv.m_bUdp
          /\ srv.m_Writer[c] # NoFd
          /\ \/ c \in srv.m_bConfigOk /\ srv.fd_data[c] # NoFd
             \/ srv.m_ConnType[c] \in {"http", "rtsp"}} :
       failed # {} /\ srv' = CloseConnections(srv, failed)
  /\ UNCHANGED <<thread, connects>>

(* Xine_Control() drops the clients it cannot write to.                    *)
Controlled(s) == {c \in Served(s) : s.fd_data[c] # NoFd \/ c \in s.m_iMulticastMask}

Xine_Control ==
  /\ LockFree
  /\ \E failed \in SUBSET Controlled(srv) :
       failed # {} /\ srv' = CloseConnections(srv, failed)
  /\ UNCHANGED <<thread, connects>>

(* OsdCmd(): sending fails, or has timed out too often.                    *)
DropOsd(s, clis) ==
  CloseOsdConnections(CloseConnections(s, clis \ s.m_bOsdConn), clis \cap s.m_bOsdConn)

ServerOsdCmd ==
  /\ LockFree
  /\ \E failed \in SUBSET {c \in Served(srv) :
                           c \in srv.m_bOsdConn => srv.fd_osd[c] # NoFd} :
       /\ failed # {}
       /\ srv' = DropOsd(srv, failed)
  /\ UNCHANGED <<thread, connects>>

(* Poll() in replay: the first client with a writer of its own paces the   *)
(* others, unless one is served by the scheduler.  Telling the old master  *)
(* may fail, like any Xine_Control().                                      *)
Master(s) ==
  LET paced == {c \in Served(s) : s.m_Writer[c] # NoFd}
      udp   == {c \in Served(s) : s.m_Writer[c] = NoFd /\ c \in s.m_bUdp}
  IN IF udp \cup s.m_iMulticastMask = {} /\ paced # {} THEN Min(paced) ELSE NoFd

SelectMaster ==
  /\ LockFree /\ Master(srv) # srv.m_MasterCli
  /\ \E failed \in SUBSET (IF srv.m_MasterCli # NoFd THEN Controlled(srv) ELSE {}) :
       srv' = [CloseConnections(srv, failed) EXCEPT !.m_MasterCli = Master(srv)]
  /\ UNCHANGED <<thread, connects>>

(* Listen() from the settings, with the same or another port.              *)
ListenAgain ==
  /\ LockFree
  /\ \E samePort, bound \in BOOLEAN : srv' = Listen(srv, samePort, bound)
  /\ UNCHANGED <<thread, connects>>

(* A file streamer ends by itself, or PlayFileCtrl() closes them all       *)
(* (without the server's lock).                                            *)
StreamerEnds ==
  /\ \E ended \in SUBSET srv.m_Streamers :
       /\ ended # {}
       /\ srv' = [srv EXCEPT !.m_Streamers = @ \ ended, !.open = @ \ ended]
  /\ UNCHANGED <<thread, connects>>

-----------------------------------------------------------------------------
SrvInit == /\ srv = Listen(ServerUp, TRUE, TRUE)
           /\ thread = Polling(srv)
           /\ connects = 0 /\ refused = {}

SrvNext == \/ EventConnect
           \/ /\ \/ PollAgain \/ EventError \/ EventRead
                 \/ LockAgain \/ GrabRead \/ ServerPlay \/ Xine_Control
                 \/ ServerOsdCmd \/ SelectMaster \/ ListenAgain \/ StreamerEnds
              /\ refused' = StillNamed(refused, srv')

-----------------------------------------------------------------------------
SlotFds == Fds \cup {NoFd}

(* Type invariant.                                                         *)
SrvTypeOK ==
  /\ srv.fd_control \in [Clients -> SlotFds]
  /\ srv.fd_data \in [Clients -> SlotFds] /\ srv.fd_osd \in [Clients -> SlotFds]
  /\ srv.m_Writer \in [Clients -> SlotFds]
  /\ srv.m_ConnType \in [Clients -> {"detecting", "control", "http", "rtsp"}]
  /\ srv.open \subseteq Fds /\ srv.m_Handles \subseteq Fds
  /\ thread.pc \in {"poll", "run", "unlocked", "grab"}

(* Every place of the server that holds a descriptor.                      *)
Owners(fd) ==
  {<<"control", c>> : c \in {d \in Clients : srv.fd_control[d] = fd}}
  \cup {<<"data", c>> : c \in {d \in Clients : srv.fd_data[d] = fd}}
  \cup {<<"osd", c>> : c \in {d \in Clients : srv.fd_osd[d] = fd}}
  \cup (IF fd \in srv.m_Streamers THEN {<<"streamer", fd>>} ELSE {})
  \cup (IF fd = srv.fd_listen THEN {<<"listen", fd>>} ELSE {})

(* An open descriptor has an owner, and only one; a number that is not     *)
(* open has none: through hand-overs to a slot or a streamer, replaced     *)
(* transports and stale poll events no descriptor is leaked, and none is   *)
(* left in a table where it would be closed a second time, when the number *)
(* may be somebody else's (Handle_Control_DATA(), CloseConnection()).  A   *)
(* refused client's number is an exception while a table names it: Handle_ *)
(* ClientConnected() closes it and leaves it in the slot.                  *)
DescriptorsOwned ==
  \A fd \in Fds :
    /\ fd \in srv.open => Owners(fd) # {}
    /\ fd \notin refused => Cardinality(Owners(fd)) = IF fd \in srv.open THEN 1 ELSE 0

(* What sends agrees with the tables: the scheduler sends to nothing but   *)
(* the sockets of the UDP clients, and to each of them unless a refused    *)
(* client's slot has closed it; multicast is on when a client listens and  *)
(* off when none does, and a writer writes to a descriptor of its slot     *)
(* (CloseDataConnection(), Handle_Control_UDP(), Listen()).                *)
TransportsMatch ==
  /\ srv.m_Handles \subseteq {srv.fd_data[c] : c \in srv.m_bUdp}
  /\ \A c \in srv.m_bUdp : srv.fd_data[c] \in srv.m_Handles \cup refused
  /\ UseRtp => (srv.rtp <=> (RtpAlwaysOn \/ srv.m_iMulticastMask # {}))
  /\ \A c \in Clients : srv.m_Writer[c] # NoFd =>
       srv.m_Writer[c] \in {srv.fd_data[c], srv.fd_control[c]}

(* The device stays primary while a client is connected: the references    *)
(* that connections gave back when they were handed over or closed never   *)
(* outnumber the ones they took (ForcePrimaryDevice(false) in CloseConn-   *)
(* ection(), Handle_Control_DATA() and Handle_Control_OSD()).              *)
PrimaryHeld ==
  srv.primary >= Cardinality(InUse(srv))
=============================================================================
