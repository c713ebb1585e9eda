# A TLA+ verification project for xineliboutput

xineliboutput is a VDR output plugin.  VDR's threads hand it a stream of PES or
TS packets and control calls; it feeds them to a local xine player or, over TCP,
UDP or RTP, to remote players, whose xine input plugin (`xine_input_vdr.c`)
turns them back into a stream for xine's demuxer.  This directory models
both ends and the transport between them: what the plugin's threads do to the
connection table and to the queues in front of the network, what a lossy network
does to the packets, what VDR's device, OSD, menus and media player tell the
player, and what the player's demuxer, clock, OSD, posts and windows make of it.

## Inventory

| Component | State | Operations | Hard part |
|---|---|---|---|
| UDP/RTP transmitter `tools/udp_pes_scheduler.c`, `tools/udp_buffer.h`, `tools/time_pts.c` | ring of numbered frames, queue counters, socket table, two mutexes, master clock and the streams' last timestamps | Queue, Poll, Clear, Pause, TrickSpeed, AddHandle, RemoveHandle, AddRtp, RemoveRtp, QueuePadding, ReSend; thread `Action` | three threads; a frame used without the main lock; lock order; a wrapping clock set by other threads |
| UDP receiver in `xine_input_vdr.c` | re-ordering queue, `next_seq`, `current_seq`, `queued`, outstanding request | read_block_udp, process_queue, process_resend, parse_control | loss, overtaking, wrap of an 8-bit number, crossing reports |
| TCP/HTTP writers `tools/backgroundwriter.c` | byte ring, put/discard positions, thread-local frame boundaries | Put, Clear, Cork; thread `Action` | partial writes, dropping whole frames without markers |
| Stream clear and synchronisation `frontend.c`, `frontend_svr.c`, `xine_input_vdr.c` | stream positions on both sides, discard and guard positions | Clear, Flush, Play; DISCARD, FLUSH; read_block, preprocess_buf | the same message on two connections; lock released during the engine flush |
| Remote calls `frontend_svr.c`, `tools/future.h` | token, list of futures on callers' stacks, one common STC future | Xine_Control_Result, GrabImage, GetSTC; RESULT, GRAB, STC, CONFIG handlers | timeouts against late and multiple answers |
| Server connection table `frontend_svr.c` | per client: control, data and OSD descriptors, flags, writer | connect, DATA/UDP/RTP/PIPE/OSD/HTTP/RTSP hand-over, close | descriptor hand-over and re-use, stale poll events, handlers that let the lock go |
| File streamers `tools/http.c` | list of threads, range of the request | requests, ranges, kept connections | the announced and the sent part of a file |
| Device `device.c`, `frontend.c` | play mode, trick speed, radio guess, TS buffer, still-picture state | cDevice interface | order of mode switches; state set past the functions that tell the frontends |
| Local frontend `frontend_local.c` | the frontend, its stop and ready flags | start, stop, configuration; calls of the device | use of a frontend another thread deletes |
| Media player, playlist `media_player.c`, `tools/playlist.c` | list, current item, open menus, a player shared by controls | keys, end of a file; scanner thread | background scanner, controls replaced under way |
| OSD, server `osd.c`, `tools/rle.c` | stack of OSDs, window handles, visibility | open, areas, draw, delete, refresh | lock order with the server; handles used again |
| OSD, player `xine/osd_manager.c`, `xine/vo_osdscaler.c` | windows, copies kept for rescaling | OSD commands, size changes | caches that have to follow the video |
| Input plugin `xine_input_vdr.c`, `xine/adjustable_scr.c` | live, still, trick and pause state, pools, tuning, slave stream, clock | control commands; read_block | two threads move one speed; reserve of buffers |
| Connection of a remote frontend `xine_input_vdr.c`, `xine_frontend_main.c` | sockets, transport, main loop | fall-back pipe, RTP, UDP, TCP; reconnect; signals | late answers; loss while playing a file |
| Demuxer, metronom (`xine/*.c`) | timestamp bases, converters, metronom of the stream | per packet; seek; per frame | wrap with late audio and B frames; objects replaced under way |
| Posts, autocrop `xine/post.c`, `xine_frontend.c`, `xine_post_autocrop.c` | lists and wires, bars and timers | load, switch, unload; per frame | what runs is rewired; frames in flight |
| xine engine of a frontend `xine_frontend.c` | engine, ports, streams, event queue | init, open, play, close, exit | ownership on every path of failure |
| X11 window, HUD, OpenGL `xine_sxfe_frontend.c` | two windows, OSD surface, drawing thread | events, configuration, OSD commands, frames | display lock held for parts only |
| Keyboard, lirc, CEC `xine_frontend_{kbd,lirc,cec}.c` | held key, repeat times | keys, time-outs, reconnection | a release nobody sends |
| Setup and menus `setup_menu.c`, `menu.c` | configuration, a page's copy, what plays | keys, store, leave | what was tried out has to be taken back |
| Parsers (`tools/ts.c`, `pes.c`, `mpeg.c`, ...), discovery, pixel posts | none or one packet | pure functions, one-shot I/O | boundaries |

The components interact as follows.  VDR's device thread calls `Play`, `Clear`,
`Poll`, `Pause` and `Flush` of the server object, which passes data to every
client's writer and to the common scheduler, and control commands to every
client's control socket.  The server thread accepts clients, reads their
replies and requests (`UDP RESEND`, `RESULT`, `STC`, `GRAB`, `CONFIG`) and adds
and removes their sockets.  The scheduler thread and one thread per writer empty
the queues.  VDR's main thread also runs the OSDs, the menus and the player
controls, and the server thread refreshes the OSDs for a client that has just
been configured.  In the player a control thread executes commands while xine's
demuxer thread pulls data through `read_block`; they share `lock`, the discard
positions and xine's own demuxer lock.  xine's decoder and output threads come
through the metronom, the posts and the output hooks, and the main loop of the
frontend opens, runs and closes all of it.

What makes each part correct: the transmitter never sends a rewritten frame,
never forgets a queued one and holds none back for long; the receiver hands
frames on in stream order; the writer only ever drops whole, cleared frames; a
clear loses nothing that was played after it; a call ends, with its own answer
or none; a descriptor has one owner; what the player shows, and how it plays, is
what VDR asked for last.  `PROJECT.json` lists the hazards line by line.

## Modules

Transport, checked in runs of their own:

| Module | Models | State and actions |
|---|---|---|
| `UdpBackLog` | `cUdpBackLog` and the sequence number macros | operators on the ring: `MakeFrame`, `ClearLast`, `PaddingFrame`, `NextSeq`, `PrevSeq` |
| `UdpScheduler` | `cUdpScheduler` with its callers | variables carry the members' names; one action per operation that holds `m_Lock` throughout; the scheduler thread is `SchedWait`, `SchedWake`, `SchedTake`, `SchedSchedule`, `SchedDue`, `SchedSend`, `SchedDone`, cut where it releases `m_Lock`; `RemoveHandle` is cut where it waits for the second mutex |
| `FrameQueue` | abstract specification: a bounded FIFO of frames and at most one frame being sent | `UdpScheduler` implements it through the mapping `Abstract` |
| `UdpLink` | one client: `ReSend()`, the network, the re-ordering queue | one action per pass of the client's read loop, per round of `ReSend()`, per packet sent or lost |
| `TcpWriter` | `cTcpWriter` and `cRawWriter` (`kind`) | a byte is its position in the stream of all bytes put; the thread is cut at every use of the ring, the mutex or the socket |
| `StreamSync` | a remote client's DISCARD/FLUSH handling | server thread, two reliable unsynchronised connections, the client's control and demuxer threads, cut where the lock is released |
| `ServerRpc` | futures, tokens, GETSTC, GRAB, the call made while CONFIG is handled | callers, clients, server thread |
| `UdpSchedulerProofs`, `UdpLinkProofs`, `TcpWriterProofs`, `StreamSyncProofs`, `ServerRpcProofs` | theorems | |

VDR's process (run `server_components`):

| Module | Models | Property |
|---|---|---|
| `ServerClients` | the connection table; a handler is an operator from tables to tables, the server thread's round is cut between poll and each event and where a handler releases the lock | `DescriptorsOwned`, `TransportsMatch`, `PrimaryHeld` |
| `Device` | cXinelibDevice with the state of its frontends | `VideoShown`, `ReverseIsSilent` |
| `OsdProvider` | the OSD stack, the main and the server thread and their two locks | `NoGhostWindow`, `LocksNeverCross` |
| `Playlist` | the list, its scanner, its menu, the file that plays | `ItemsAlive` |
| `PlayerControl` | the three kinds of control with their menus and the shared players | `OneOsd` (`PlayerAlive`) |
| `HttpStreamer` | one streamer in detail, the list of all | `BodyAsAnnounced` |
| `UdpPacer` | the transmitter's clock, set in two halves, and the timestamps it is held against | `HeldWithinLimit` |
| `SetupMenus` | pages, their copies, what they try out; the main menu | `DeviceAsConfigured` |
| `LocalFrontend` | the local frontend's thread and one caller, between each two of their steps | types (`FeLocked`) |
| `ServerProofs` | theorems about `SetupMenus` and `ServerClients` | |
| `PlaybackProofs` | theorems about `UdpPacer`, `HttpStreamer`, `PlayerControl` and `Playlist`; `Device`, `OsdProvider` and `SxfeWindow` | |

The frontend (run `client_components`; `SxfeWindow` in a run of its own):

| Module | Models | Property |
|---|---|---|
| `OsdClient` | osd_manager's windows and vo_osdscaler's cache | `NoStaleScale` |
| `Rle` | a picture compressed, decoded, drawn and scaled | `ShownAsDrawn`, `ScaledInOrder` |
| `InputPlayback` | the plugin's modes, fed with the command sequences of the device's operations, against the reader's tuning of the clock | `ModesAgree` |
| `InputBuffers` | three pools and their limits | `ControlHasRoom` |
| `TsConverter` | ts2es converters under packet loss, flushes and track changes | `FramesWhole` |
| `DemuxClock` | timestamp bases over seeks and wraps | `OneBase` |
| `AdjustableScr` | pivot and factor of the clock | `ClockSteady` |
| `ClientProofs` | theorems about `InputBuffers`, `AdjustableScr`, `TsConverter`, `DemuxClock`, `InputPlayback`, `NetConnect`, `FrontendInput`, `Metronom`, `Autocrop`, `OsdClient`, `HudOsd` and `XineFrontend` | |
| `Metronom` | the metronom put before xine's, and the hook that finds it | `LastPtsCurrent` |
| `NetConnect` | main loop, fall-back of transports, server's answers, loss, signals | `TransportAgrees`, `TermEnds`, `LossNoticed` |
| `XineFrontend` | what a frontend owns of xine | `OwnedOnce` |
| `PostChain` | lists and wires of posts | `WiredAsEnabled` |
| `Autocrop` | bars, timers, crop of frames that are ahead of their drawing | `CropsWithin`, `SubtitlesKept` |
| `SxfeWindow` | the two windows of the X11 frontend; its main loop and a second thread, cut at each look at a field of `sxfe_t` and at each use of the display lock | `WindowAgrees` |
| `FrontendInput` | lirc, keyboard and CEC threads | `OneKeyHeld` |
| `HudOsd` | the OSD window above the video and its video window | `HiddenShowsNothing` |
| `OpenglOsd` | the OpenGL drawing thread | `FrameServed` (`VideoFindsBack`) |

The runs of the transport instantiate their modules directly; `MC*` are the
model-checking instances that compose or restrict.  Operators marked "Wrong variant" are
plausible mistakes.  No specification uses them; replacing the definition below
each of them by it makes TLC report the property that is meant to notice
(`mutants` in `PROJECT.json` has one for each property of a run; the conjuncts of
the composed properties each have at least one in their module).

`MCServerComponents` and `MCClientComponents` explore modules that share no
variable.  A product of them would repeat every state of one for every state of
all others and show nothing more, so `focus` names the module of a behaviour and
the others stay in their initial state: the run is the union of the modules' own
runs.  What a property says of the module in focus is the whole of it; each
conjunct names the code it is about in its module.  `Stopped` lets those modules
come to an end that are bounded or do end (a table with no connections left, a
list played to its end); the others may not deadlock.  Where one module's
environment is another one's code, it is restricted to what that code does:
`InputPlayback` gets the sequences of `device.c`, `HudOsd` those of `osd.c`,
`NetConnect` the answers of `frontend_svr.c`.

Abstractions.  A frame is its stream, position and length; its bytes are never
looked at.  Clocks are abstracted to "due or not" (`SchedDue`), "paused or not"
and "timed out or not" except in `UdpPacer` and `AdjustableScr`, where they are
what the module is about: every timeout may fire at any moment.  Stream
positions are integers and the position -1 of control messages is kept apart by
hand from unsigned comparisons; timestamps are small integers with their wrap,
sizes and places have one coordinate where both are treated alike, a setting
stands for those that travel together.  `_x_demux_seek()` and the post wiring of
xine-lib, X11, the ring buffer of VDR and the network are modelled from how the
code uses them and are marked external where a definition stands for them.

## Runs

| Run | Instance | Shows |
|---|---|---|
| `udp_scheduler` | ring of 4, limits 2 and 3, two sockets | the counters agree, the frame in flight is intact, the socket table has no holes, the ring implements `FrameQueue`, every queued frame leaves |
| `udp_removal` | ring of 4, one socket | **violation**: removing the last client on a paused clock deadlocks |
| `udp_link` | ring of 16 starting at 14, 7 frames, 2 losses, packets overtake one another by one | window and order of the receiver over a wrap |
| `udp_missing` | as `udp_link`, in order | **violation**: an unmasked number in a MISSING report |
| `tcp_writer` | both writers, ring of 8 bytes, 3 frames of 2 bytes, 2 clears | whole frames, only cleared data dropped, progress |
| `stream_sync` | positions 1 to 4, up to 4 messages per connection | clear on two connections |
| `server_rpc` | 2 callers, 2 clients, 4 tokens, 3 calls | calls and answers, token wrap |
| `server_stc` | 2 callers, 1 kind of call | **violation**: GetSTC() may never return |
| `server_components` | the nine modules of VDR's process, about 940 000 states | `ConnectionsAccounted`, `DeviceKept`, `PlaybackKept`, `SettingsPlayed` |
| `sxfe_window` | `SxfeWindow`: one size asked for and the screen's, one place beside the corner, about 7.6 million states | `WindowAgrees` over all interleavings of the two threads |
| `client_components` | the fifteen modules of the frontend, about 630 000 states | `OutputKept`, `PicturesKept`, `InputKept`, `StreamWhole`, `SteadyOutput`, `Progress` |
| `lost_while_playing` | `NetConnect` with --reconnect | **violation**: the loss of the server is not noticed while a file plays |

Why the bounds suffice.  The ring of 4 wraps and is filled to its limit while a
frame is in flight, with a slot to spare, as in the code (256 slots, limits
well below that); the theorems below cover all sizes.  The link starts two
frames before the wrap, so that lost runs, requests and reports lie on both
sides of it, and its window (a quarter of the ring) can be exceeded.  The
writer's ring holds a frame and a part of the next, so that partial reads,
partial writes and refusals happen at every offset.  `stream_sync` has room for
two clears with data before, between and after.  `server_rpc` allows an answer
to a call that has been given up to arrive during the next one.

In `server_components` the connection table has two slots, four numbers for
their descriptors and two connections, so that a number is closed, given out
again and polled under its old meaning, and a client may take over the other
slot; of the request lines, `GET /` and `CONTROL` are left out, which are
handled as `GET /PLAYFILE` and as the connection was before.  The device sees
six of VDR's speeds (forward, backward, still, paused), radio counts to 2 and a
TS buffer holds 3; two OSDs compete for three window handles; three files can be
deleted, sorted and queued under the scanner; the streamed file of three bytes
has ranges at its start, its end and between.  The clock of the pacer has 12
ticks and limits of 3, with timestamps close together, far apart and on both
sides of the wrap.

In `client_components` every threshold of the demuxer's clock keeps its
proportion to the wrap; a PMT has two tracks, a payload unit up to two packets and
a buffer one; two windows share three sizes of video; the connection tries each
transport twice, with two signals; pictures have lines of 1 to 4 pixels while a
length takes two bytes from 2 on, a run of the network's code from 4 on and a
pixel may be transparent or not in two colours; autocrop's frames have two
heights and a bar at the bottom, a frame is asked for ahead, and the detection is
switched at any moment (a bar at the top is left to the theorem); a metronom is replaced once with two frames in
flight.

In `sxfe_window` window 0 is asked to have one size only, and gets the screen's as
well, from a thread whose look at `sxfe_t` is old; users, callers and the mouse ask for something
new only while no event waits (`MaxEvents`), which bounds the queue, not what is
under way: both threads are then somewhere inside their functions, and what they
do queues up to six events.  A switch of both threads, one completely within the
other, is among the behaviours, as is a root window that changes its size.

Fairness.  The scheduler thread, the writer threads, the client's threads and
the waits with a timeout are weakly fair: they are threads that run, and a
timed wait ends.  `TcpWriter` assumes strong fairness of a successful `write()`:
a socket polled writable for ever takes data in the end.  `StreamSync` assumes
strong fairness of the demuxer seek: `read_block` returns as soon as xine
reports a pending action, so the seek gets its turn.  `client_components` and
`lost_while_playing` assume weak fairness of the connection's threads and main
loop together (`NetSteps`: some step of them is taken while one can be) and of the
OpenGL thread (`GlThread`); a transport's waits all have a timeout.  Nothing is
assumed of VDR (it need never play, clear, pause or resume), of clients'
disconnects, of signals and keys, or of the network.  `EveryFrameLeaves` is
conditional on the clock not staying paused.

## What the violation runs show

* `udp_removal`: the thread that removes the last client holds `m_Lock` and
  waits for `m_BackLogDeleteMutex`; the scheduler thread holds that mutex and
  waits for the paused clock; resuming the clock needs `m_Lock`.
* `udp_missing`: `ReSend()` prints the first number of a lost range behind the
  wrap without the mask, so the client does not recognise it.
* `server_stc`: `Value()` waits without a timeout, and another caller's
  `Reset()` can come between `Wait()` and `Value()`.
* `lost_while_playing`: `vdr_plugin_read_block()` returns while a slave stream is
  open, before it looks for a lost connection, and only the server closes the
  slave stream.

`server_rpc` also records, as the invariant `OwnCallNeverAnswered`, that the
`GETPOS` asked while a client's CONFIG is handled can only time out: the thread
that waits is the one that would read the answer.

## What does not hold, without a run of its own

These came up while the modules were written.  The first four are part of their
runs: the case is reached, a history variable remembers it, and the property
excepts exactly what it says.

* `InOrder` and `NothingBehind` (`UdpLink`): an accepted MISSING report moves `next_seq` to
  the end of its range without looking at the slots between
  (`xine_input_vdr.c:4403`).  A frame of that range which has arrived since the request
  stays behind; the next flush on padding walks round the ring, finds it there and
  hands it on after its successors, which it may then ask for again.  `passed` holds
  the slots of such frames while they are occupied.
* `DescriptorsOwned` and `TransportsMatch` (`ServerClients`): the connection of a client
  for which the device does not become the primary one is closed by its number
  only, and the number stays in the slot (`frontend_svr.c:1933`), where it is closed a
  second time when it may be somebody else's.  `refused` holds such numbers for as
  long as a table names them.
* `WindowAgrees` (`SxfeWindow`): `sxfe_display_config()` reads which window is shown, and
  names it to xine, after it has given up the display lock
  (`xine_sxfe_frontend.c:2531`, `2570`).  If the other thread switches windows and names
  its own in between, the first one names a window that is not on the screen, and
  xine goes on drawing into it.  In the same way `sxfe_toggle_fullscreen()` may restore
  the place of window 0 (`2602`) after the other thread has shown it somewhere else,
  and an event of window 1 that is handled after a switch back sets its place (`2899`).
  `stale` marks a thread that holds a look from before the other's switch, `late` says
  of the drawable and of the place whether such a thread, or such an event, wrote
  them last; the next writer, or the next switch, takes the mark away.
* `CropsWithin` and `SubtitlesKept` (`Autocrop`): autodetection switched on while a crop is
  active, as without detection it always is, goes on with lines that were never
  looked for on these frames (`xine_post_autocrop.c:1488`).  `switched` is set there, and
  reset when that crop ends.

Each of the others is stated in its module and fails in it; the runs leave it out,
or state the property without that case.

* `FeLocked` (`LocalFrontend`): `LOCK_FE` and `LOCK_FE_WR` (`frontend_local.c:49`)
  build an unnamed object that is destroyed at the end of the statement, so no
  call of VDR is protected from the thread that deletes the frontend.
* `VideoFindsBack` (`OpenglOsd`): an OSD that is opened and closed while one frame
  is drawn is forgotten (`xine_sxfe_frontend.c:2197`), and the video stays in a
  pixmap.
* `PlayerAlive` (`PlayerControl`, with `MayRelaunch`): a second control of the same
  kind is launched before VDR has deleted the first, whose end deletes the
  static player of both.
* `SettingsPlayed` says nothing of the OSD size that the frontend reports while a
  setup page is open: the page's copy is stored over it (`setup_menu.c:279`).
* `ShownAsDrawn` excepts the last pixel behind a transparent end of an ARGB line
  (`rle.c:384`), which keeps what was shown before.  `ScaledInOrder` excepts the
  last line of a picture that is scaled up, the number of lines of one scaled to
  less than half, and lines scaled to one pixel, of which rounding may leave no
  run: `(new_rle-1)` (`rle.c:150`) is then in front of the line.
* `HeldWithinLimit` excepts the moment the clock wraps while a frame waits, and
  the moment between the two halves of setting it, when the scheduler thread reads
  it without a lock.

## Proofs

All theorems hold for every value of the constants that satisfies the named
assumptions of the modules.

`UdpSchedulerProofs`: `TypeCorrect`, `NumberingHolds` and `FrameInFlightSafe`.
None of the three properties is inductive.  The invariant that is, `QueueInv`,
adds that the frame in flight lies directly in front of the head of the queue
(`InFlightBeforeHead`) and that the counters are zero while `RemoveHandle()` is
between its two steps (`EmptyWhileRemoving`).  That queue and frame in flight
together fit into the ring follows from `MaxLiveQueue < SeqSize`, and is why a
wrap cannot reach the frame in flight.  The arithmetic modulo the ring size is
done once, in lemmas.

`NoHoles` proves `HandlesDense`: a handle is added at the first free entry of
the socket table and the entries behind a removed one move up, so the table
stays without holes, for any number of sockets.

`RefinesFrameQueue` proves the refinement.  The mapping reads the abstract queue
off the ring, from the slot of the head upwards (`RingQueue`), and the frame in
flight from the slot the scheduler thread has taken (`RingSending`).  The
initial states map to initial states and each action to `Put`, `Drop`, `StartSending`,
`EndSending` or a stutter (one lemma each); `QueueInv` supplies that writing the
tail's slot, padding included, changes neither another queued frame nor the one
in flight.

`UdpLinkProofs`: `TypeCorrect` and `CountIsRight`, on a network that may lose
and reorder packets.  `queued` is the number of occupied slots (`Counted`) as
long as every packet stored finds its slot empty, every one handed on was
counted, and no MISSING marker stays in the queue.  The last is the hard part:
a marker is put in the slot `next_seq` waits for, and the same call takes it out
again (`QueueFacts`).  The loops that skip empty slots end because a counted
packet lies somewhere ahead (`SomewhereAhead`), a least-counterexample argument
on the naturals.  `NothingBehind` and `InOrder` stay with TLC: they depend on the
bound of the network's disorder, a packet that comes half a ring late being taken
for a new one.

`TcpWriterProofs`: `TypeCorrect`, `FramesStayWhole` and `OnlyClearedAreDropped`,
for both writers.  `WriterInv` says that the frames lie in the stream one behind
the other (`Contiguous`), that `m_PutPos` and `m_DiscardEnd` are always ends of
frames although a header and its payload are put in two steps (`PutAtBoundary`,
`DiscardAtBoundary`), and where the thread is (`Place`): at the beginning of a
frame, within data the raw writer drops, or within a frame of which everything
so far was written.  The ring has no markers, so this is what makes it right to
drop up to `m_DiscardEnd` only at the beginning of a frame.  `OnWire` and
`Dropped` carry the two properties: of a frame nothing, all or, of the current
one, a beginning has been written, and what was passed over without being
written lies in front of `m_DiscardEnd`.

`ServerRpcProofs`: `TypeCorrect`, `NoFutureDangles`, `AnswersMatch` and
`OwnCallUnanswered`.  An answer is delivered to the future registered under its
token, so that it is the right answer is a statement about every message under
way.  The invariant `RpcInv` says it: a message on a connection, or in the hands
of the server thread while it reads an image, that carries the token of a
registered future is about that future's call (`QueuesSound`, `GrabSound`), and
no token is newer than the counter (`FuturesOld`).  Tokens are compared by how
many were handed out before them, so the wrap of the counter does not matter.
The assumption `MaxCalls < TokenMod` is needed: an answer that is older than
65536 calls would be taken for a new one.

`StreamSyncProofs`: `TypeCorrect`, `ClearKeepsNewData` and `FlushNeverLate`.  The
invariant `SyncInv` follows each DISCARD that the control thread has not
completed (`Pending`): its twin on the data connection is still to be read, or
has been read and stops the reader (`TwinAhead`), and the reader has taken
nothing from behind its position (`NotPassed`).  Reading a frame keeps this
because every frame in front of a DISCARD is older than it (`DataOrdered`);
moving `discard_index` keeps it because it only moves forward (`SeekAhead`),
although the lock is free between the two halves of the control thread's work.
`TypeCorrect` needs that no message and no index of the client is ahead of what
the server has counted (`NothingAhead`).

`ClientProofs`: `ControlRoomKept`, that `ControlHasRoom` holds for all pool sizes.
It is not inductive, because a block is let in by what is free, and by a limit
that was set when the stream was another one.  `BufInv` adds that every buffer of
the fifo is free or queued (`SdAccounted`) and that no limit is below the reserve
(`ReserveLeft`); `BufAssumption` says that each pool of the fifo holds radio's
buffers and the reserve.

`ClockIsSteady`, in the same module, says that `ClockSteady` holds for all sets of
factors and without the bounds on moments (`MaxNow`, `MaxJumps` are any values).
The invariant only says that the fields are integers; the proof is about one step:
a pivot shows what the clock shows (`PivotShows`), a clock at its pivot shows the
pivot whatever its factor is (`AtPivot`), and a unit of time adds the factor
(`OneUnit`).  Both properties are conjuncts of the composed run's `InputKept` and
`SteadyOutput`; these two theorems are stated for the component's own specification.

`StreamStaysWhole`, in the same module, is `StreamWhole` of the composed run.
`TsInv` relates each converter to what the decoder has got of its stream: every
packet kept of a unit is in the buffer or has been put (`AllPut`), unless the unit
is over, or broken and dropped; nothing is begun where a unit is waited for
(`Idle`); and `pes_len` is what the header announced less what has come, or what
is dropped is broken or behind the end of its unit (`Awaits`).  `ClockInv` counts
places in the stream instead of timestamps: the one passed on last, and the last
picture, are behind the last wrap (`ShownAt`, `SeenAt`).  Two lemmas say that the
demuxer's two comparisons with thresholds recognise exactly the timestamps from
before a wrap (`BackIsEarlier`, `LateIsEarlier`), and a third that the rest is never
taken for a jump (`NearIsNoJump`).  They need what `ClockAssumption` says: that the
audio is less than 4 seconds (`WRAP_THRESHOLD`) behind the video, a B frame less
than 14400 ticks behind the frames around it, and that the code's thresholds lie
further apart than that; they do, 0x40400000 and 0x40000000 by 46 seconds.

`InputIsKept`, in the same module, is `InputKept` of the composed run; beside
`BufInv` it has four invariants.

* `PbInv` is about `ModesAgree`, which speaks only of the time when the commands
  of an operation are done.  It says of every state that what is not as the device
  wishes is still to be asked for (`Agrees`), and that each command still to come
  asks for what the device wishes (`Fits`).  That a command is not dropped when its
  turn comes depends on the order of two pairs only (`Precedes`): the end of a
  still picture comes before live mode, and the speed before a still picture.  Two
  operations need it, `SetTvMode()` and `StillPicture()` (`SetTvModeKeeps`,
  `StillPictureKeeps`); the commands of the others may come in any order
  (`Endings`).  A lemma per setter says that the tuning never leaves a speed behind
  (`ResetKeeps`, `PausedKeeps`, `AdjustedKeeps`), so the demuxer thread may run
  between any two commands, and while one of them has given up the lock.
* `NetInv` names for each stage of the fall-back (`Stage`) the requests and answers
  that may be under way.  A client that plays can only have left such requests
  behind as ask for the transport it has (`Plays`); UDP is asked for last
  (`UdpLast`), and what the server is asked to do after that it has done before.
* `KeysInv` says that the key the remote control holds is the last one read, and
  that a key is held only while it is repeated, unless a line of lircd was missed.
  `KeysAssumption`: a repeat is expected (`REPEATDELAY`) no later than a release is
  made up (`REPEATTIMEOUT`), as in the code, 350 and 500 ms.
* `MtrInv` says that no frame of the main stream is under way without the client's
  metronom, and that the hook knows the main stream once it has seen it.

`ServerProofs`: `SettingsArePlayed`, that `SettingsPlayed` holds whatever pages
are opened, tried out, stored or left.  The property is about the moment no page
is open; the invariant `MenuInv` says for each page in which settings its copy
(`Tried`) and the frontends (`Sent`) may differ from the configuration.  Each
page's destructor sends exactly what is in its row, which is why nothing that
was tried out stays; the main menu sends its own copy (`MainAgrees`) and the
page of the OSD tries the transparency in the configuration itself and remembers
what it was (`KeptAgrees`).  The steps of the other modules leave its variables
alone.

`ConnectionsAreAccounted`, in the same module, is `ConnectionsAccounted` for any
number of slots, descriptors and connections.  `TableInv` says it of the table as
relations between its columns: every open descriptor is in one place and no other
number is in any (`Owned`), scheduler, mask and writers agree with the slots
(`Matched`), the device is forced as often as slots are in use (`Counted`).  A
handler starts from any such table and leaves one, whatever it is called with, so
it does not matter that a poll event is stale when it is handled, nor what VDR's
threads did between two events; there is one lemma per handler (`DataKeeps`,
`PipeKeeps`, `ConnectKeeps`, ...), resting on what a descriptor that is opened,
closed or handed over does to `Owned`, and one per action.  Of the server thread
only the slot it reads an image for matters (`ThreadSound`).  Whether the device
becomes primary for a client is left open, as in the code: the numbers of refused
clients are carried along (`refused`), and every relation that speaks of a number
holds of the others.

`PlaybackProofs`: `PlaybackIsKept`, each of whose four parts has its invariant.
`PaceInv` follows the two halves in which the speed of the clock is set while a
frame waits: what the clock shows stays within the timestamps, and the frame was
due within the limit when it was held.  `HttpInv` ties the place in the file to
the bytes sent behind the start of the range, across parts of a range and the
requests of a kept connection.  `ControlInv` says that no handler leaves two OSDs
open; it is shown for each function a key calls (`Show`, `Hide`, `PlayKey`, ...)
and needs `Hide()` in front of every menu.  `ListInv` says that the list has no
item twice and holds the current one (`Sound`), that a scanner which is not to
start over holds an item of the list (`Scanned`), and that the menu's cursor and
mark are lines of it (`OnList`).  Adding, sorting, moving and deleting are first
shown to keep what they should of a list without repetitions (`RemoveAtKeeps`,
`InsertAtKeeps`, `SortedKeeps`), which rests on a finite set of numbers having an
order (`InOrder`).  `TableAssumption`, `PacerAssumption`,
`StreamerAssumption` and `ListAssumption` say that the constants are numbers and
truth values, lengths, timestamps below the wrap and a finite set of files.

`DeviceIsKept`, in the same module (`PlaybackProofs`), is `DeviceKept`: `VideoShown` and
`ReverseIsSilent` of the device, `NoGhostWindow` and `LocksNeverCross` of the OSDs, for
any number of packets, OSDs and handles (`DeviceAssumption` says that they are
numbers).

* `DevInv` says that wherever video may be fed and the stream is not taken for
  radio the frontends' video is on (`PictureOn`), and that the flags of reverse
  play agree with the speed last told to them (`Silent`).  Each operation of the
  device is a chain of calls; what a call leaves of the fields the invariant is
  about is one lemma (`SameLook`, `SameSpeed`).
* `OsdInv` says that handles of two OSDs differ, that the bitmap is the union of
  all handles, that an open window belongs to an OSD that is visible and attached
  to the device (`OsdSound`), and that the first OSD of the stack is visible
  (`HeadShown`).  That no thread waits crosswise rests on the server thread having
  given up its lock where it enters `OsdRefresh()`.

`WindowIsKept`, in the same module, is `WindowAgrees` of the run `sxfe_window`, for the
component's own specification and for any sizes, places and number of events
(`WindowAssumption`: they are numbers).  `WindowInv` is about what is under way.  The
last event about window 0 says its size and place (`SaysZero`), so when none is left
`sxfe_t` has them.  The event that is handled is still there, and is the one that was
looked at (`HandledIsHead`).  A thread that is to name a window, or to restore a place,
has the right one unless the other has switched since it looked (`NamesCurrent`).  Between
a switch and the call that tells xine of it the drawable may be the other one
(`Naming`), and between the width of the screen and the switch to it the size
(`Sizing`).  There is one lemma per step of a thread, and two steps of different
threads never have to be looked at together: what the other one does meanwhile is in
`stale`.

`OutputIsSteady`, in `ClientProofs`, is `SteadyOutput`, the two action properties
of the frontend: `ClockSteady` and `SubtitlesKept`.  The second is about one
analysis of a frame, which is a chain of calls that each touch some fields of the
plugin (`DetectedFactsOf`, `LimitedFacts`, `StabilizedFacts`, `SubtitlesFacts`).  A
limit that is active before and after the frame has been applied to its lines, so
the end line is at the limit or where it was; one that has just been set again was
set to the end line of this frame, because the end line detected before had been
compared with its predecessor (`Compared`, part of the invariant).  `CropAssumption`
says that lines and times are numbers.  The detection may be switched at any time:
with it off, frames are drawn with `cropping_active` set and nothing compared, so the
invariant speaks of a crop that was begun with the detection on (`~switched`).

`OutputIsKept`, in the same module, is the invariant `OutputKept` of that run, in
four parts with an invariant each.

* `Framed` is about `CropsWithin`.  The lines a frame is cropped by were found on
  frames before it, so what makes them fit is an argument about heights: a crop that
  follows the picture has been found on frames of the height of the one that is
  shown (`prev_height`), the frames that wait have it too, and `autocrop_get_frame()`
  ends the crop when the decoder asks for another.  Within one height the lines, the
  stabilized lines and the limit of the subtitles all lie in the frame, the first
  line in its upper quarter and the last in its lower half (`InFrame`), so that they
  never meet; each part of the analysis and the soft start between two such pairs
  of lines keeps that (`AnalysedFacts`, `ExaminedFacts`, `BetweenIn`).
  `CropAssumption` says that frames which are intercepted have at least 16 lines, as
  many as the eighths and quarters need; the code's have 288 to 576.  A crop
  that was active when the detection was switched on is left out until it ends
  (`switched`), as said above.
* `OsdInv` says of every window what `NoStaleScale` says, and of what kind the fields
  are; it is kept because `video_size_changed()` redraws every window it may not
  leave, and a window that it cannot redraw keeps no original.
* `HudInv` adds to `HiddenShowsNothing` the mask of the X shape extension: what is
  cut out for a hidden window is nothing, so mapping it shows nothing.
* `EngineInv` relates the places of the main loop with the objects that are there
  (`Placed`): all of them between `ready` and `run`, none when the frontend is freed,
  and no slave stream before the input plugin runs or after it has stopped.

Only model-checked: the liveness properties (fairness is out of the prover's
reach); `NothingBehind` and `InOrder` of `UdpLink`, which hold on the bounded
network only; `PicturesKept` of the composed run of the frontend, which is about
what recursive definitions compute of a picture (`Rle`) and about sequences of
plugins filtered by what is enabled (`PostChain`), for which the provers have no
facts; and the type invariants of the two composed runs, of which each proof has the
part it needs.

## Not modelled

* `tools/ts.c`, `pes.c`, `mpeg.c`, `h264.c`, `h265.c`, `bitstream.h`: functions of
  the bytes of one packet, without a state or a choice to explore.
* `tools/sap.c`, `sdp.c`, `avahi.c`, `rtcp.h`, `vdrdiscovery.c`, `gnome_screensaver.c`:
  formatting and one-shot I/O.
* `xine_post_swscale.c`, `xine_post_audiochannel.c`, the copying loops of
  `xine_post_autocrop.c`: pixels and samples of one frame.
* `vo_osdreorder.c`, `vo_hook.c`, `vo_frameoutput.c`: tables of forwarding functions
  and one sort.
* fbfe's and wlfe's own windows, key maps, visuals and window manager hints of sxfe.
* `setup.conf`'s text, command line, SVDRP, translations, file browser, metadata.
* `rle.c`'s output buffer, which grows as lines are written: `Rle` has the runs only.
* Memory of xine's own threads and of VDR: only their calls are there.
* A slot of the UDP server's ring used again by a frame a whole ring later, while the
  receiver still asks for the old one: the runs of `UdpLink` send fewer frames than
  the ring has slots.  With a ring small enough to go round, the receiver's window,
  which the code keeps much smaller than the ring, would no longer fit.
* The connections between `StreamSync` and `TcpWriter` (a DISCARD refused by a full
  ring), the destruction of the server while clients are connected, and a slave
  stream across the end of a frontend.
