---- MODULE NetConnect ----
(***************************************************************************)
(* A remote frontend and its connection to the server: the main loop of    *)
(* xine_frontend_main.c, vdr_plugin_open_net() with its fall-back from     *)
(* pipe or RTP to UDP and then TCP (xine_input_vdr.c), and the answers of  *)
(* the server's Handle_Control_*() (frontend_svr.c).                       *)
(*                                                                         *)
(* `wire` holds the lines under way on the control connection in both      *)
(* directions and the state of the data connection's request.  A wait for  *)
(* a line or a packet may time out at any moment, also when the answer is  *)
(* only late: the client then goes on while the old answer is still on its *)
(* way to it.  Requests are handled in the order they were sent, also      *)
(* across the two connections (the server polls both, and a request on the *)
(* data connection is sent half a second or more after the last one on the *)
(* control connection).                                                    *)
(***************************************************************************)
EXTENDS Naturals, Sequences

CONSTANTS Mrls,         \* transports the user may ask for
          Reconnects,   \* values of the -R / --reconnect option
          RtpTries,     \* requests before RTP is given up (10 in the code)
          UdpTries,     \* requests before UDP is given up, and packets of strangers (4)
          MaxSessions,  \* bound: connections counted
          MaxSignals    \* bound: signals sent to the frontend

Transports == {"pipe", "rtp", "udp", "tcp"}

VARIABLES fe,    \* the main loop and the flags it decides by
          cli,   \* the input plugin's connection
          wire,  \* what is under way
          srv    \* the server's slot of this client

netVars == <<fe, cli, wire, srv>>

Quiet == [up |-> <<>>, down |-> <<>>, data |-> "none"]
NoConnection == [at |-> "idle", tries |-> 0, data |-> "none", running |-> FALSE, slave |-> FALSE]

NetInit ==
  /\ fe \in [at : {"open"}, mrl : Mrls, reconnect : Reconnects, waitvdr : BOOLEAN, firsttry : {TRUE},
             finished : {"running"}, signal : {"none"}, signals : {0}, sessions : {0}]
  /\ cli = NoConnection
  /\ wire = Quiet
  /\ srv \in [open : {FALSE}, via : {"none"}, pipe : {FALSE}, can : SUBSET Transports]

---------------------------------------------------------------------------
(* the server                                                              *)

\* CloseDataConnection() and the handler of the request
Answered(r) ==
  IF r = "PIPE"
  THEN [slot |-> [srv EXCEPT !.via = "none", !.pipe = "pipe" \in srv.can],
        line |-> IF "pipe" \in srv.can THEN "PIPE /" ELSE "disabled"]
  ELSE IF r = "RTP"
  THEN [slot |-> [srv EXCEPT !.via = IF "rtp" \in srv.can THEN "rtp" ELSE "none"],
        line |-> IF "rtp" \in srv.can THEN "RTP" ELSE "disabled"]
  ELSE [slot |-> [srv EXCEPT !.via = IF "udp" \in srv.can THEN "udp" ELSE "none"],
        line |-> IF "udp" \in srv.can THEN "UDP OK" ELSE "disabled"]

\* one line of the control connection
ServerHandlesLine ==
  /\ srv.open /\ ~srv.pipe /\ wire.up # <<>>
  /\ IF Head(wire.up) = "PIPE OPEN"
     THEN wire' = [wire EXCEPT !.up = Tail(@)] /\ UNCHANGED srv
     ELSE LET a == Answered(Head(wire.up))
          IN  /\ srv' = a.slot
              /\ wire' = [wire EXCEPT !.up = Tail(@), !.down = Append(@, a.line)]
  /\ UNCHANGED <<fe, cli>>

\* Handle_Control_PIPE() opens the fifo for writing when a line arrives or
\* 500 ms have passed: possible only while the client has it open
ServerOpensPipe ==
  /\ srv.open /\ srv.pipe
  /\ IF cli.at = "pipe open"
     THEN /\ srv' = [srv EXCEPT !.pipe = FALSE, !.via = "pipe"]
          /\ wire' = [wire EXCEPT !.down = Append(@, "PIPE OK")]
     ELSE srv' = [srv EXCEPT !.pipe = FALSE] /\ UNCHANGED wire
  /\ UNCHANGED <<fe, cli>>

\* Wrong variant, for the sensitivity checks: the server reads the new
\* connection before the lines of the old one
ServerAttachesAnyTime ==
  /\ srv.open /\ ~srv.pipe /\ wire.data = "asked"
  /\ srv' = [srv EXCEPT !.via = "tcp"] /\ wire' = [wire EXCEPT !.data = "DATA"]
  /\ UNCHANGED <<fe, cli>>

\* Handle_Control_DATA(): the new connection becomes the client's data connection
ServerAttachesData ==
  /\ srv.open /\ ~srv.pipe /\ wire.data = "asked" /\ wire.up = <<>>
  /\ IF "tcp" \in srv.can
     THEN srv' = [srv EXCEPT !.via = "tcp"] /\ wire' = [wire EXCEPT !.data = "DATA"]
     ELSE UNCHANGED srv /\ wire' = [wire EXCEPT !.data = "disabled"]
  /\ UNCHANGED <<fe, cli>>

\* CloseConnection(): the server ends the client's connections
ServerCloses ==
  /\ srv.open
  /\ srv' = [srv EXCEPT !.open = FALSE, !.via = "none", !.pipe = FALSE]
  /\ wire' = [Quiet EXCEPT !.data = IF wire.data = "none" THEN "none" ELSE "closed"]
  /\ UNCHANGED <<fe, cli>>

---------------------------------------------------------------------------
(* vdr_plugin_open_net()                                                   *)

Ask(line) == [wire EXCEPT !.up = IF srv.open THEN Append(@, line) ELSE @]

\* connect_udp_data_stream(): flush the lines that have arrived, get a socket, ask
TryUdp(w) ==
  \E arrived \in 0 .. Len(w.down) :
    LET flushed == [w EXCEPT !.down = SubSeq(@, arrived + 1, Len(@))]
    IN  /\ cli' = [cli EXCEPT !.at = "udp", !.tries = 0, !.data = "none"]
        /\ wire' = [flushed EXCEPT !.up = IF srv.open THEN Append(@, "UDP") ELSE @]

\* connect_tcp_data_stream(): a connection of its own, and DATA on it
TryTcp == /\ cli' = [cli EXCEPT !.at = "tcp", !.data = "none"]
          /\ wire' = [wire EXCEPT !.data = IF srv.open THEN "asked" ELSE "closed"]

\* connect_control_stream() has got the greeting and the client id
ConnectControl ==
  /\ fe.at = "open"
  /\ fe.sessions < MaxSessions \/ fe.signal # "none"
  /\ fe' = [fe EXCEPT !.at = "opening", !.sessions = IF @ < MaxSessions THEN @ + 1 ELSE @]
  /\ srv' = [srv EXCEPT !.open = TRUE, !.via = "none", !.pipe = FALSE]
  /\ \/ fe.mrl = "tcp" /\ cli' = [NoConnection EXCEPT !.at = "tcp"] /\ wire' = [Quiet EXCEPT !.data = "asked"]
     \/ fe.mrl = "udp" /\ cli' = [NoConnection EXCEPT !.at = "udp"] /\ wire' = [Quiet EXCEPT !.up = <<"UDP">>]
     \/ fe.mrl = "rtp" /\ cli' = [NoConnection EXCEPT !.at = "rtp"] /\ wire' = [Quiet EXCEPT !.up = <<"RTP">>]
     \/ fe.mrl = "pipe" /\ cli' = [NoConnection EXCEPT !.at = "pipe"] /\ wire' = [Quiet EXCEPT !.up = <<"PIPE">>]

\* readline_control() in connect_pipe_data_stream(): the path of the fifo, which
\* this host may not have
PipePath ==
  /\ cli.at = "pipe" /\ wire.down # <<>>
  /\ LET rest == [wire EXCEPT !.down = Tail(@)]
     IN  \/ /\ Head(wire.down) = "PIPE /"
            /\ cli' = [cli EXCEPT !.at = "pipe open"]
            /\ wire' = [rest EXCEPT !.up = IF srv.open THEN Append(@, "PIPE OPEN") ELSE @]
         \/ TryUdp(rest)
  /\ UNCHANGED <<fe, srv>>

PipeOk ==
  /\ cli.at = "pipe open" /\ wire.down # <<>>
  /\ LET rest == [wire EXCEPT !.down = Tail(@)]
     IN  IF Head(wire.down) = "PIPE OK"
         THEN cli' = [cli EXCEPT !.at = "ready", !.data = "pipe"] /\ wire' = rest
         ELSE TryUdp(rest)
  /\ UNCHANGED <<fe, srv>>

RtpAddress ==
  /\ cli.at = "rtp" /\ wire.down # <<>>
  /\ LET rest == [wire EXCEPT !.down = Tail(@)]
     IN  \/ Head(wire.down) = "RTP" /\ cli' = [cli EXCEPT !.at = "rtp data", !.tries = 0] /\ wire' = rest
         \/ TryUdp(rest)      \* not supported, or the group could not be joined
  /\ UNCHANGED <<fe, srv>>

\* no packet in half a second: RTP is asked for again, the answer is not read
RtpAgain ==
  /\ cli.at = "rtp data"
  /\ IF cli.tries + 1 < RtpTries
     THEN cli' = [cli EXCEPT !.tries = @ + 1] /\ wire' = Ask("RTP")
     ELSE TryUdp(wire)
  /\ UNCHANGED <<fe, srv>>

UdpReply ==
  /\ cli.at = "udp" /\ wire.down # <<>>
  /\ IF Head(wire.down) = "UDP OK"
     THEN cli' = [cli EXCEPT !.at = "udp data"] /\ wire' = [wire EXCEPT !.down = Tail(@)]
     ELSE /\ cli' = [cli EXCEPT !.at = "tcp"]
          /\ wire' = [wire EXCEPT !.down = Tail(@), !.data = IF srv.open THEN "asked" ELSE "closed"]
  /\ UNCHANGED <<fe, srv>>

UdpAgain ==
  /\ cli.at = "udp data"
  /\ IF cli.tries + 1 < UdpTries
     THEN cli' = [cli EXCEPT !.at = "udp", !.tries = @ + 1] /\ wire' = Ask("UDP")
     ELSE TryTcp
  /\ UNCHANGED <<fe, srv>>

\* the first packet comes from somebody else
StrangersPacket ==
  /\ cli.at \in {"rtp data", "udp data"}
  /\ IF cli.tries + 1 < UdpTries THEN cli' = [cli EXCEPT !.tries = @ + 1] /\ UNCHANGED wire
     ELSE IF cli.at = "rtp data" THEN TryUdp(wire) ELSE TryTcp
  /\ UNCHANGED <<fe, srv>>

\* the server's first packet
FirstPacket ==
  /\ \/ cli.at = "rtp data" /\ srv.via = "rtp"
     \/ cli.at = "udp data" /\ srv.via = "udp"
  /\ cli' = [cli EXCEPT !.at = "ready", !.data = srv.via]
  /\ UNCHANGED <<fe, wire, srv>>

\* readline_control() gives up (the control connection is closed: at once)
ReadTimeout ==
  /\ \/ cli.at \in {"pipe", "pipe open", "rtp"} /\ TryUdp(wire)
     \/ cli.at = "udp" /\ TryTcp
  /\ UNCHANGED <<fe, srv>>

TcpAck ==
  /\ cli.at = "tcp" /\ wire.data = "DATA"
  /\ cli' = [cli EXCEPT !.at = "ready", !.data = "tcp"]
  /\ wire' = [wire EXCEPT !.data = "used"]
  /\ UNCHANGED <<fe, srv>>

---------------------------------------------------------------------------
(* the main loop                                                           *)

\* Wrong variant, for the sensitivity checks: the loop asks only for --reconnect
AgainIfAsked(f) ==
  IF f.finished # "exit" /\ (f.reconnect \/ f.waitvdr)
  THEN [f EXCEPT !.at = "open"] ELSE [f EXCEPT !.at = "exit"]

\* the condition of the do-while loop
Again(f) ==
  IF f.signal = "none" /\ f.finished # "exit" /\ (f.reconnect \/ f.waitvdr)
  THEN [f EXCEPT !.at = "open"] ELSE [f EXCEPT !.at = "exit"]

\* `Error opening`: try again, or end
OpenFails(f) == IF ~f.firsttry \/ f.waitvdr THEN Again(f) ELSE [f EXCEPT !.at = "exit"]

\* what the server sees of a client that closed its connections: its end of file
HungUp == srv' = [srv EXCEPT !.open = FALSE, !.via = "none", !.pipe = FALSE] /\ wire' = Quiet

\* connect_control_stream() fails: nobody listens, no greeting, access denied
NoControl ==
  /\ fe.at = "open"
  /\ fe' = OpenFails(fe)
  /\ cli' = NoConnection
  /\ UNCHANGED <<wire, srv>>

\* no transport works: both sockets are closed, vdr_plugin_open_net() fails
TcpFails ==
  /\ cli.at = "tcp"
  /\ cli' = NoConnection
  /\ HungUp
  /\ fe' = OpenFails(fe)

\* the end of vdr_plugin_open_net(), the start of the control thread, fe_xine_play()
StartPlay ==
  /\ fe.at = "opening" /\ cli.at = "ready"
  /\ \/ /\ fe' = [fe EXCEPT !.at = "run", !.finished = "running"]
        /\ cli' = [cli EXCEPT !.at = "run", !.running = TRUE]
     \/ /\ fe' = IF fe.firsttry THEN [fe EXCEPT !.at = "exit"] ELSE Again(fe)   \* `Error playing`
        /\ cli' = [cli EXCEPT !.at = "run", !.running = TRUE]
  /\ UNCHANGED <<wire, srv>>

\* vdr_control_thread() reads a late answer: an unknown control message
UnknownMessage ==
  /\ cli.at = "run" /\ cli.running /\ wire.down # <<>>
  /\ wire' = [wire EXCEPT !.down = Tail(@)]
  /\ UNCHANGED <<fe, cli, srv>>

\* vdr_control_thread(), write_control() and read_socket() notice that the
\* connection is gone
ConnectionLost ==
  /\ cli.at = "run" /\ cli.running /\ ~srv.open
  /\ cli' = [cli EXCEPT !.running = FALSE]
  /\ UNCHANGED <<fe, wire, srv>>

\* PLAYFILE: handle_control_playfile() opens or closes the slave stream
PlayFile ==
  /\ cli.at = "run" /\ cli.running /\ srv.open
  /\ cli' = [cli EXCEPT !.slave = ~@]
  /\ UNCHANGED <<fe, wire, srv>>

\* vdr_plugin_read_block(), handle_disconnect(): the stream has ended; while a
\* slave stream is open the function returns before it looks
PlaybackFinished ==
  /\ cli.at = "run" /\ ~cli.slave /\ ~cli.running /\ fe.finished = "running"
  /\ fe' = [fe EXCEPT !.finished = "error"]
  /\ UNCHANGED <<cli, wire, srv>>

\* QUIT: a key, or the window is closed
TerminateKey ==
  /\ fe.at = "run" /\ fe.finished # "exit"
  /\ fe' = [fe EXCEPT !.finished = "exit"]
  /\ UNCHANGED <<cli, wire, srv>>

\* SignalHandler(): a HUP replaces whatever came before, a second signal of the
\* other kinds ends the program at once
Signalled(sig) ==
  /\ fe.at # "exit" /\ fe.signals < MaxSignals
  /\ fe' = IF sig = "TERM" /\ fe.signal # "none"
           THEN [fe EXCEPT !.at = "exit"]
           ELSE [fe EXCEPT !.signal = sig, !.signals = @ + 1]
  /\ UNCHANGED <<cli, wire, srv>>

\* fe_run() ends: fe_xine_close() disposes the plugin, a HUP is forgotten
CloseAndDecide ==
  /\ fe.at = "run"
  /\ fe.signal # "none" \/ fe.finished # "running"
  /\ fe' = Again([fe EXCEPT !.firsttry = FALSE, !.waitvdr = FALSE,
                            !.signal = IF @ = "HUP" THEN "none" ELSE @])
  /\ cli' = NoConnection
  /\ HungUp

\* the frontend has ended
Ended == fe.at = "exit" /\ UNCHANGED netVars

NetSteps ==
  \/ ServerHandlesLine \/ ServerOpensPipe \/ ServerAttachesData
  \/ PipePath \/ PipeOk \/ RtpAddress \/ RtpAgain \/ UdpReply \/ UdpAgain \/ FirstPacket
  \/ ReadTimeout \/ TcpAck \/ TcpFails \/ ConnectControl \/ NoControl \/ StartPlay
  \/ UnknownMessage \/ ConnectionLost \/ PlaybackFinished \/ CloseAndDecide

NetNext ==
  \/ NetSteps
  \/ StrangersPacket \/ PlayFile \/ ServerCloses \/ TerminateKey \/ Ended
  \/ \E sig \in {"HUP", "TERM"} : Signalled(sig)

---------------------------------------------------------------------------
NetTypeOK ==
  /\ fe.at \in {"open", "opening", "run", "exit"} /\ fe.mrl \in Mrls
  /\ fe.finished \in {"running", "error", "exit"} /\ fe.signal \in {"none", "HUP", "TERM"}
  /\ cli.at \in {"idle", "pipe", "pipe open", "rtp", "rtp data", "udp", "udp data", "tcp", "ready", "run"}
  /\ cli.data \in Transports \cup {"none"}
  /\ cli.tries \in 0 .. RtpTries + UdpTries
  /\ wire.up \in Seq({"PIPE", "PIPE OPEN", "RTP", "UDP"})
  /\ wire.down \in Seq({"PIPE /", "PIPE OK", "RTP", "UDP OK", "disabled"})
  /\ wire.data \in {"none", "asked", "DATA", "disabled", "closed", "used"}
  /\ srv.via \in Transports \cup {"none"}

\* A client that plays and whose requests have all been handled is served by
\* the very transport it listens to, however many transports it tried before
\* and however late their answers came: connect_*_data_stream(), readline_control()
\* and the server's Handle_Control_*() agree on the outcome of the fall-back.
TransportAgrees ==
  (cli.at \in {"ready", "run"} /\ srv.open /\ wire.up = <<>> /\ wire.data # "asked") => srv.via = cli.data

\* A frontend told to terminate ends (SignalHandler(), the do-while loop of
\* xine_frontend_main.c), whatever the connection is doing, unless a HUP takes
\* the place of the signal before the loop has looked at it.
TermEnds == (fe.signal = "TERM") ~> (fe.at = "exit" \/ fe.signal = "HUP")

\* `-R, --reconnect  Automatically reconnect when connection has been lost`: a
\* frontend whose server is gone leaves the event loop (vdr_control_thread(),
\* handle_disconnect(), fe_is_finished()) and gets to the loop's condition.
LossNoticed == (fe.at = "run" /\ ~srv.open) ~> (fe.at # "run")
====
