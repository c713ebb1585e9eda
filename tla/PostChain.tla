---- MODULE PostChain ----
(***************************************************************************)
(* The post plugins of a frontend: xine/post.c and its callers in          *)
(* xine_frontend.c (fe_post_open, fe_post_close, fe_post_unwire, the SLAVE *)
(* and SUBSTREAM commands of fe_control, fe_xine_play, fe_xine_stop).      *)
(*                                                                         *)
(* There are two lines of plugins, one to the video port and one to the    *)
(* audio port.  Plugins are kept in four lists, each in the order of       *)
(* loading; a line is made of the enabled ones.  Commands come from one    *)
(* thread, the input plugin's.                                             *)
(***************************************************************************)
EXTENDS Naturals, Sequences, SequencesExt, FiniteSets

CONSTANTS VideoPosts,     \* video filters the server switches, "autocrop" among them
          AudioPosts,     \* audio filters
          VisPosts,       \* audio visualizations
          Statics         \* filters named on the command line (enable = 2)

Lines == {"video", "audio"}
Streams == {"main", "slave"}
\* _pplugin_join_deinterlace_and_post_elements(): these go first
Order == <<"autocrop", "thread", "tvtime", "swscale">>

VARIABLES posts,   \* the lists, the switches, and which stream is the source of each line
          wires    \* how the streams and the plugins are connected

postVars == <<posts, wires>>

List(name) == IF name = "mosaico" THEN "pip" ELSE IF name \in VideoPosts THEN "video"
              ELSE IF name \in AudioPosts THEN "audio" ELSE "vis"
LineOf(list) == IF list \in {"video", "pip"} THEN "video" ELSE "audio"

---------------------------------------------------------------------------
(* the chain of a line                                                     *)

Enabled(p, list) == IF p.on[list] THEN SelectSeq(p.lists[list], LAMBDA n : p.enable[n] # 0) ELSE <<>>

\* moved to the front, in the order of Order
InOrder(chain) ==
  SelectSeq(Order, LAMBDA n : Contains(chain, n)) \o SelectSeq(chain, LAMBDA n : ~Contains(Order, n))

Chain(p, line) == IF line = "video" THEN InOrder(Enabled(p, "pip") \o Enabled(p, "video"))
                  ELSE Enabled(p, "audio") \o Enabled(p, "vis")

\* _vpplugin_unwire(), _applugin_unwire(): the source goes straight to the port
Unwired(p, w, line) == [w EXCEPT !.to[line][p.source[line]] = <<>>]

\* vpplugin_rewire_posts(), applugin_rewire_posts()
Rewired(p, w, line) == [w EXCEPT !.to[line][p.source[line]] = Chain(p, line)]

---------------------------------------------------------------------------
(* the lists                                                               *)

Loaded(p, name) == Contains(p.lists[List(name)], name)

\* xpplugin_enable_post(): found, or loaded, and enabled
Enable(p, name) ==
  LET loaded == IF Loaded(p, name) THEN p ELSE [p EXCEPT !.lists[List(name)] = Append(@, name)]
  IN  IF loaded.enable[name] = 0 THEN [loaded EXCEPT !.enable[name] = 1] ELSE loaded

\* _pplugin_disable_post()
Disable(p, name) == IF Loaded(p, name) /\ p.enable[name] = 1 THEN [p EXCEPT !.enable[name] = 0] ELSE p

\* _pplugin_unload_post(): not while it is enabled
Unload(p, name) == IF p.enable[name] = 0 THEN [p EXCEPT !.lists[List(name)] = Remove(@, name)] ELSE p

---------------------------------------------------------------------------
(* fe_post_open(), fe_post_close()                                         *)

Opened(p, w, name) ==
  LET q == Enable(p, name)
      r == [q EXCEPT !.on[IF List(name) = "pip" THEN "video" ELSE List(name)] = TRUE]
  IN  IF q.enable[name] = p.enable[name] THEN [p |-> q, w |-> w]
      ELSE [p |-> r, w |-> Rewired(r, Unwired(q, w, LineOf(List(name))), LineOf(List(name)))]

\* ..plugin_unload_post() tells whether something was disabled: only then it is rewired
Closed(p, w, name) ==
  LET q == Unload(Disable(p, name), name)
  IN  IF Loaded(p, name) /\ p.enable[name] = 1
      THEN [p |-> q, w |-> Rewired(q, Unwired(q, w, LineOf(List(name))), LineOf(List(name)))]
      ELSE [p |-> q, w |-> w]

\* the visualization that is loaded, if any
Vis(p) == p.lists["vis"]

\* Wrong variant, for the sensitivity checks: the visualization is
\* unloaded, its line is left as it was
ClosedVisWired(p, w) == IF Vis(p) = <<>> THEN [p |-> p, w |-> w]
                        ELSE [p |-> Closed(p, w, Head(Vis(p))).p, w |-> w]

ClosedVis(p, w) == IF Vis(p) = <<>> THEN [p |-> p, w |-> w] ELSE Closed(p, w, Head(Vis(p)))

\* `POST <name> On`; a plugin that cannot be loaded changes nothing, but the old
\* visualization is gone by then
PostOn(name) ==
  /\ LET c == IF name \in VisPosts /\ Vis(posts) # <<>> /\ Head(Vis(posts)) # name
              THEN ClosedVis(posts, wires) ELSE [p |-> posts, w |-> wires]
     IN  \/ LET o == Opened(c.p, c.w, name) IN posts' = o.p /\ wires' = o.w
         \/ ~Loaded(c.p, name) /\ posts' = c.p /\ wires' = c.w

\* `POST <name> Off`
PostOff(name) == LET c == Closed(posts, wires, name) IN posts' = c.p /\ wires' = c.w

\* `POST 0 Off`
VisOff == LET c == ClosedVis(posts, wires) IN posts' = c.p /\ wires' = c.w

\* `SUBSTREAM`: the input plugin asks for a stream when it has none
PipOn ==
  /\ ~posts.pip
  /\ LET o == Opened([posts EXCEPT !.pip = TRUE, !.on["pip"] = TRUE], wires, "mosaico")
     IN  posts' = o.p /\ wires' = o.w
PipOff ==
  /\ posts.pip
  /\ LET c == Closed(posts, wires, "mosaico") IN posts' = [c.p EXCEPT !.pip = FALSE] /\ wires' = c.w

---------------------------------------------------------------------------
(* the slave stream, start and stop                                        *)

\* fe_post_unwire(): the main stream's audio has no dummy port to go to
\* (audio_port_none is never made with the xine of today) and stays where it is
AllUnwired(p, w) ==
  [w EXCEPT !.to = [line \in Lines |->
     IF p.slave /\ p.source[line] = "slave" THEN [@[line] EXCEPT !["slave"] = <<>>]
     ELSE [@[line] EXCEPT !["main"] = <<>>]]]

BothRewired(p, w) == Rewired(p, Unwired(p, Rewired(p, Unwired(p, w, "video"), "video"), "audio"), "audio")

\* `SLAVE <stream> [Video | Audio]`
Slave(mix) ==
  /\ ~posts.slave
  /\ LET p == [posts EXCEPT !.slave = TRUE,
                 !.source = [video |-> IF mix = "Audio" THEN "main" ELSE "slave",
                             audio |-> IF mix = "Video" THEN "main" ELSE "slave"]]
     IN  posts' = p /\ wires' = BothRewired(p, AllUnwired(p, AllUnwired(posts, wires)))

\* close_slave_stream(): `POST 0 Off`, `SLAVE (nil)` and `SLAVE CLOSED`
SlaveClosed ==
  /\ posts.slave
  /\ LET c == ClosedVis(posts, wires)
         p == [c.p EXCEPT !.slave = FALSE, !.source = [line \in Lines |-> "main"]]
     IN  posts' = p /\ wires' = BothRewired(p, AllUnwired(c.p, c.w))

\* fe_xine_play() and fe_xine_stop()
PlayMain == ~wires.playing /\ posts' = posts /\ wires' = [BothRewired(posts, wires) EXCEPT !.playing = TRUE]
StopMain == wires.playing /\ posts' = posts /\ wires' = [AllUnwired(posts, wires) EXCEPT !.playing = FALSE]

\* commands come while the input plugin is there
Commanded ==
  /\ wires.playing
  /\ \/ \E name \in VideoPosts \cup AudioPosts \cup VisPosts : PostOn(name) \/ PostOff(name)
     \/ VisOff \/ PipOn \/ PipOff \/ SlaveClosed
     \/ \E mix \in {"", "Video", "Audio"} : Slave(mix)

\* fe_xine_init() loads the command line's filters
PostInit ==
  /\ posts = [lists |-> [l \in {"pip", "video", "audio", "vis"} |->
                           SetToSeq({n \in Statics : List(n) = l})],
              enable |-> [n \in VideoPosts \cup AudioPosts \cup VisPosts \cup {"mosaico"} |->
                            IF n \in Statics THEN 2 ELSE 0],
              on |-> [l \in {"pip", "video", "audio", "vis"} |-> l \in {"video", "audio"} /\ Statics # {}],
              source |-> [line \in Lines |-> "main"], slave |-> FALSE, pip |-> FALSE]
  /\ wires = [to |-> [line \in Lines |-> [s \in Streams |-> <<>>]], playing |-> FALSE]

\* fe_xine_stop() when no slave stream is open: the frontend is not told of one
\* that is closed later
PostNext == Commanded \/ PlayMain \/ (~posts.slave /\ StopMain)

---------------------------------------------------------------------------
PostTypeOK ==
  /\ \A l \in DOMAIN posts.lists : IsInjective(posts.lists[l])
  /\ \A n \in DOMAIN posts.enable : posts.enable[n] \in 0 .. 2
  /\ posts.source \in [Lines -> Streams]
  /\ \A line \in Lines, s \in Streams : IsInjective(wires.to[line][s])

\* While the stream plays, the source of a line goes through all of its enabled
\* plugins, in their order, the other streams through none, and no plugin that
\* was unloaded is left in a line: what every path of fe_post_open(),
\* fe_post_close() and fe_control() has to restore by unwiring and rewiring.
WiredAsEnabled ==
  wires.playing =>
    \A line \in Lines, s \in Streams :
      wires.to[line][s] = IF s = posts.source[line] THEN Chain(posts, line) ELSE <<>>
====
