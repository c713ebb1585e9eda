---- MODULE XineFrontend ----
(***************************************************************************)
(* What a frontend owns of xine's engine (xine_frontend.c): the engine,    *)
(* its two output ports, the stream with its event queue, the post         *)
(* plugins, and the streams that come and go: the input plugin's slave     *)
(* stream and the picture-in-picture stream.                               *)
(*                                                                         *)
(* The main loop (of an executable or of cXinelibLocal) calls fe_xine_*()  *)
(* one by one.  Meanwhile the input plugin calls fe_control(), xine's      *)
(* event thread reports the end of the playback, and keyboard, lirc and    *)
(* cec threads look for the input plugin (find_input_plugin()): they test  *)
(* and fetch the pointer in two steps.                                     *)
(***************************************************************************)
EXTENDS Naturals, FiniteSets

CONSTANTS MaxPlugins       \* bound: connections, each with an input plugin of its own

VARIABLES feo,    \* fe_t: the pointers, "at" is the main loop's place
          objs    \* the objects alive, how often one was disposed of in vain, the plugins made

feVars == <<feo, objs>>

Owned == {"xine", "video_port", "audio_port", "stream", "event_queue", "postplugins"}
Streams == {"slave_stream", "pip_stream"}
\* what has to be there as long as the first is
Needs == [stream |-> {"xine", "video_port"}, event_queue |-> {"stream"}, pip_stream |-> {"xine", "video_port"},
          video_port |-> {"xine"}, audio_port |-> {"xine"}]

FeInit ==
  /\ feo = [at |-> "created", has |-> {}, input_plugin |-> 0, fetching |-> FALSE,
            playback_finished |-> FALSE, slave_playback_finished |-> FALSE, terminate_key_pressed |-> FALSE]
  /\ objs = [alive |-> {}, twice |-> {}, plugin |-> 0, control |-> FALSE, made |-> 0]

---------------------------------------------------------------------------
(* xine disposes of something                                              *)

Disposed(o, things) == [o EXCEPT !.alive = @ \ things, !.twice = @ \cup (things \ o.alive)]

\* xine_close(): the input plugin goes, and with it the slave stream, of which
\* the frontend is told if the plugin can still call it
PluginClosed(f, o) ==
  [f |-> IF o.control /\ "slave_stream" \in o.alive THEN [f EXCEPT !.has = @ \ {"slave_stream"}] ELSE f,
   o |-> [o EXCEPT !.plugin = 0, !.control = FALSE, !.alive = @ \ {"slave_stream"}]]

Stopped(f) == [f EXCEPT !.input_plugin = 0, !.playback_finished = TRUE]

\* fe_xine_close(): the plugin is told not to call any more
Closed(f, o) ==
  LET silent == IF f.input_plugin # 0 THEN [o EXCEPT !.control = @ /\ f.input_plugin # o.plugin] ELSE o
  IN  IF "stream" \notin f.has THEN [f |-> f, o |-> silent]
      ELSE PluginClosed(Stopped(f), silent)

\* Wrong variant, for the sensitivity checks: the exit of a frontend
\* whose playback has finished leaves the plugin's streams
ExitedFinished(f, o) ==
  IF "xine" \notin f.has THEN [f |-> f, o |-> o]
  ELSE LET c == IF f.input_plugin # 0 \/ ~f.playback_finished THEN Closed(f, o) ELSE [f |-> f, o |-> o]
       IN  [f |-> [c.f EXCEPT !.has = {}], o |-> Disposed(c.o, c.f.has \ {"pip_stream"})]

\* fe_xine_exit(); whatever a pointer shows is disposed of
Exited(f, o) ==
  IF "xine" \notin f.has THEN [f |-> f, o |-> o]
  ELSE LET c == IF f.input_plugin # 0 \/ ~f.playback_finished THEN Closed(f, o) ELSE [f |-> f, o |-> o]
       IN  [f |-> [c.f EXCEPT !.has = {}], o |-> Disposed(c.o, c.f.has)]

---------------------------------------------------------------------------
(* the main loop                                                           *)

\* fe_xine_init() begins: an engine that is still there goes first
Renewed(f, o) == LET e == Exited(f, o) IN [f |-> [e.f EXCEPT !.input_plugin = 0], o |-> e.o]

Got(r, things) == [f |-> [r.f EXCEPT !.has = @ \cup things], o |-> [r.o EXCEPT !.alive = @ \cup things]]

FeXineInit ==
  /\ feo.at = "created"
  /\ LET r == Renewed(feo, objs)
         engine == Got(r, {"xine"})
         running == [engine EXCEPT !.f.playback_finished = FALSE]
         video == Got(running, {"video_port"})
     IN  \/ feo' = engine.f /\ objs' = engine.o                     \* plugins_check() fails
         \/ LET e == Exited(running.f, running.o) IN feo' = e.f /\ objs' = e.o    \* no video port
         \/ \E audio \in {{}, {"audio_port"}} :
              LET ports == Got(video, audio)
                  all   == Got(ports, {"stream", "event_queue", "postplugins"})
              IN  \/ LET e == Exited(ports.f, ports.o) IN feo' = e.f /\ objs' = e.o   \* no stream
                  \/ feo' = [all.f EXCEPT !.at = "ready"] /\ objs' = all.o

FeXineOpen ==
  /\ feo.at = "ready" /\ objs.made < MaxPlugins
  /\ LET c == PluginClosed(feo, objs)     \* xine_open() closes what was open
         opened == [c.f EXCEPT !.input_plugin = 0, !.playback_finished = TRUE, !.terminate_key_pressed = FALSE]
     IN  \/ feo' = opened /\ objs' = c.o
         \/ /\ feo' = [opened EXCEPT !.at = "opened"]
            /\ objs' = [c.o EXCEPT !.plugin = c.o.made + 1, !.made = @ + 1]

\* fe_xine_play(): xine_play(), while other threads may look for the plugin too
FeXinePlay ==
  /\ feo.at = "opened"
  /\ \E ok \in BOOLEAN :
       feo' = [feo EXCEPT !.at = "playing", !.playback_finished = ~ok, !.input_plugin = 0]
  /\ UNCHANGED objs

\* and find_input_plugin(); when that fails -1 is returned, which is no error
FeXinePlayed ==
  /\ feo.at = "playing"
  /\ LET found == feo.input_plugin # 0 \/ ~feo.playback_finished
     IN  /\ feo' = [feo EXCEPT !.at = "run", !.input_plugin = IF found /\ @ = 0 THEN objs.plugin ELSE @]
         /\ objs' = [objs EXCEPT !.control = found]

FeXineClose ==
  /\ feo.at \in {"opened", "run"}       \* also when a signal came
  /\ LET c == Closed(feo, objs) IN feo' = [c.f EXCEPT !.at = "ready"] /\ objs' = c.o

\* the end, or the local frontend is configured again; the input threads have been joined
FeXineExit ==
  /\ feo.at \in {"created", "ready"} /\ ~feo.fetching
  /\ \E again \in BOOLEAN :
       LET e == Exited(feo, objs)
       IN  feo' = [e.f EXCEPT !.at = IF again THEN "created" ELSE "freed"] /\ objs' = e.o

FeFreed == feo.at = "freed" /\ UNCHANGED feVars

---------------------------------------------------------------------------
(* the others                                                              *)

\* xine_event_cb()
PlaybackFinished ==
  /\ "event_queue" \in objs.alive /\ objs.plugin # 0
  /\ feo' = [feo EXCEPT !.playback_finished = TRUE] /\ UNCHANGED objs

\* fe_send_event(): QUIT
TerminateKey == /\ feo.at \in {"ready", "opened", "playing", "run"}
                /\ feo' = [feo EXCEPT !.terminate_key_pressed = TRUE] /\ UNCHANGED objs

\* find_input_plugin(): the tests, and the pointer taken
FindTests ==
  /\ feo.input_plugin = 0 /\ ~feo.fetching /\ feo.at \notin {"created", "freed"}
  /\ "stream" \in feo.has /\ objs.plugin # 0 /\ ~feo.playback_finished
  /\ feo' = [feo EXCEPT !.fetching = TRUE] /\ UNCHANGED objs
FindFetches ==
  /\ feo.fetching
  /\ feo' = [feo EXCEPT !.fetching = FALSE, !.input_plugin = objs.plugin] /\ UNCHANGED objs

\* fe_control(): "SLAVE <stream>", "SLAVE (nil)" with "SLAVE CLOSED", "ENDOFSTREAM"
SlaveOpens ==
  /\ objs.control /\ "slave_stream" \notin objs.alive
  /\ feo' = [feo EXCEPT !.has = @ \cup {"slave_stream"}, !.slave_playback_finished = FALSE]
  /\ objs' = [objs EXCEPT !.alive = @ \cup {"slave_stream"}]
SlaveCloses ==
  /\ objs.control /\ "slave_stream" \in objs.alive
  /\ feo' = [feo EXCEPT !.has = @ \ {"slave_stream"}, !.slave_playback_finished = TRUE]
  /\ objs' = Disposed(objs, {"slave_stream"})
EndOfStream ==
  /\ objs.control /\ "slave_stream" \in feo.has
  /\ feo' = [feo EXCEPT !.slave_playback_finished = TRUE] /\ UNCHANGED objs

\* "SUBSTREAM": a stream is made once, and kept when it cannot be opened
PipOpens ==
  /\ objs.control
  /\ feo' = [feo EXCEPT !.has = @ \cup {"pip_stream"}]
  /\ objs' = [objs EXCEPT !.alive = IF "pip_stream" \in feo.has THEN @ ELSE @ \cup {"pip_stream"}]
PipCloses ==
  /\ objs.control /\ "pip_stream" \in feo.has
  /\ feo' = [feo EXCEPT !.has = @ \ {"pip_stream"}]
  /\ objs' = Disposed(objs, {"pip_stream"})

FeNext ==
  \/ FeXineInit \/ FeXineOpen \/ FeXinePlay \/ FeXinePlayed \/ FeXineClose \/ FeXineExit \/ FeFreed
  \/ PlaybackFinished \/ TerminateKey \/ FindTests \/ FindFetches
  \/ SlaveOpens \/ SlaveCloses \/ EndOfStream \/ PipOpens \/ PipCloses

---------------------------------------------------------------------------
FeTypeOK ==
  /\ feo.has \subseteq Owned \cup Streams /\ feo.input_plugin \in 0 .. MaxPlugins
  /\ objs.alive \subseteq Owned \cup Streams /\ objs.twice \subseteq {"slave_stream"}
  /\ feo.at \in {"created", "ready", "opened", "playing", "run", "freed"}

\* On every path through fe_xine_init(), its failures, open, close and exit, with
\* streams opened and closed by fe_control() in between, what the frontend owns of
\* the engine is disposed of exactly once and not before what depends on it: no
\* pointer shows something that is gone, and nothing stays when the frontend is
\* freed.  (The slave stream, which belongs to the input plugin, is not covered.)
OwnedOnce ==
  /\ feo.has \ {"slave_stream"} = objs.alive \ {"slave_stream"}
  /\ objs.twice \subseteq {"slave_stream"}
  /\ \A o \in DOMAIN Needs : o \in objs.alive => Needs[o] \subseteq objs.alive
  /\ feo.at = "freed" => objs.alive = {}
====
