----------------------------- MODULE SetupMenus -----------------------------
(* The setup pages (setup_menu.c) and the settings of the main menu (menu.c). *)
(* A page works on a copy of the configuration, lets the frontends try what   *)
(* the left and right keys choose, and puts them back to the configuration    *)
(* when it is deleted, stored or not. One value stands for a group of         *)
(* settings that travel together. VDR's main thread does all of it except     *)
(* WindowReported.                                                            *)
EXTENDS Integers

CONSTANTS Edited            \* the settings the user changes

VARIABLES menu, xc, played, conf
setupVars == <<menu, xc, played, conf>>

\* Settings the long ConfigurePostprocessing() sends together, all that reach
\* the frontends, and what setup.conf alone keeps.
Sound == {"deinterlace", "compression", "equalizer", "surround"}
Played == Sound \cup {"upmix", "picture", "autocrop", "aspect", "buffers", "remote"}
Kept == {"alpha", "extsub"}
Settings == Played \cup Kept \cup {"osd_auto"}

\* The transparency of the OSD page is tried out in the configuration itself;
\* the size of the external subtitles is shown one higher.
SetupTypeOK ==
  /\ menu \in [page: {"none", "main", "audio", "eq", "video", "osd", "local", "decoder", "remote", "media"},
               newconfig: [Settings -> 0..2], pes_buffers: 0..1, alpha: 0..1]
  /\ xc \in [Settings -> 0..1]
  /\ played \in [Played -> 0..1]
  /\ conf \in [Kept -> 0..1]

\* Outside the menus the frontends play with the configuration, whatever was
\* tried out, and what the OSD page tries out or shows otherwise is what
\* setup.conf has (the destructors and Store() of the pages).
DeviceAsConfigured ==
  menu.page = "none" => /\ \A f \in Played : played[f] = xc[f]
                        /\ \A f \in Kept : xc[f] = conf[f]

SetupInit ==
  /\ xc = [f \in Settings |-> 0] /\ played = [f \in Played |-> 0] /\ conf = [f \in Kept |-> 0]
  /\ menu = [page |-> "none", newconfig |-> xc, pes_buffers |-> 0, alpha |-> 0]

\* m_Dev->Configure...() with the settings F of x.
Configured(x, F) == [f \in Played |-> IF f \in F THEN x[f] ELSE played[f]]

\* What a key on the item of setting f makes of the page's copy.
Choices(f) == IF f \in Edited THEN {[menu.newconfig EXCEPT ![f] = v] : v \in 0..1} \ {menu.newconfig} ELSE {}
Tries(n, d) == menu' = [menu EXCEPT !.newconfig = n] /\ played' = d /\ UNCHANGED <<xc, conf>>

Opens(page, n) ==
  /\ menu.page = "none"
  /\ menu' = [menu EXCEPT !.page = page, !.newconfig = n, !.alpha = xc["alpha"]]
  /\ UNCHANGED <<xc, played, conf>>

\* The page is deleted with the configuration x; its destructor sends F.
Leaves(x, F) ==
  /\ xc' = x /\ played' = Configured(x, F)
  /\ menu' = [menu EXCEPT !.page = "none", !.newconfig = x, !.alpha = x["alpha"]]

\* Store() copies the page's whole configuration over xc, or Back drops it.
StoredOrNot(F) == \E x \in {menu.newconfig, xc} : Leaves(x, F) /\ UNCHANGED conf

AudioOpens == Opens("audio", xc)

\* The key on surround or upmix that would leave both on turns off the other
\* one in the copy; what was just sent is not sent again.
AudioKey ==
  /\ menu.page = "audio"
  /\ \/ \E n \in Choices("compression") :
          Tries(n, Configured([n EXCEPT !["deinterlace"] = xc["deinterlace"]], Sound))
     \/ \E n \in Choices("surround") :
          Tries(IF n["surround"] = 1 THEN [n EXCEPT !["upmix"] = 0] ELSE n,
                Configured([n EXCEPT !["deinterlace"] = xc["deinterlace"]], Sound))
     \/ \E n \in Choices("upmix") :
          Tries(IF n["upmix"] = 1 THEN [n EXCEPT !["surround"] = 0] ELSE n, Configured(n, {"upmix"}))

AudioRestored == Sound \cup {"upmix"}
AudioLeaves == menu.page = "audio" /\ StoredOrNot(AudioRestored)

EqOpens == Opens("eq", xc)
EqKey ==
  /\ menu.page = "eq"
  /\ \E n \in Choices("equalizer") :
       Tries(n, Configured([xc EXCEPT !["equalizer"] = n["equalizer"]], Sound))
EqLeaves == menu.page = "eq" /\ StoredOrNot(Sound)

VideoOpens == Opens("video", xc)

\* The deinterlacer is the one setting of the page that is not tried out.
VideoKey ==
  /\ menu.page = "video"
  /\ \/ \E f \in {"picture", "autocrop"} : \E n \in Choices(f) : Tries(n, Configured(n, {f}))
     \/ \E n \in Choices("deinterlace") : Tries(n, played)
VideoLeaves == menu.page = "video" /\ StoredOrNot(Sound \cup {"picture", "autocrop"})

OsdOpens == Opens("osd", [xc EXCEPT !["extsub"] = @ + 1])
OsdKey ==
  /\ menu.page = "osd"
  /\ \/ \E n \in Choices("alpha") :
          /\ xc' = [xc EXCEPT !["alpha"] = n["alpha"]]
          /\ menu' = [menu EXCEPT !.newconfig = n]
          /\ UNCHANGED <<played, conf>>
     \/ \E v \in 1..2 : "extsub" \in Edited /\ v # menu.newconfig["extsub"]
                        /\ Tries([menu.newconfig EXCEPT !["extsub"] = v], played)
OsdBack == menu.page = "osd" /\ Leaves([xc EXCEPT !["alpha"] = menu.alpha], {}) /\ UNCHANGED conf
OsdOk ==
  LET x == [menu.newconfig EXCEPT !["extsub"] = @ - 1] IN
  /\ menu.page = "osd"
  /\ Leaves(x, {})
  /\ conf' = [f \in Kept |-> x[f]]

\* The page of the local frontend, with the decoder page below it, which has a
\* copy of its own and stores nothing but the buffers.
LocalOpens == Opens("local", xc)
LocalKey == menu.page = "local" /\ \E n \in Choices("aspect") : Tries(n, Configured([xc EXCEPT !["aspect"] = n["aspect"]], {"aspect"}))
DecoderOpens ==
  /\ menu.page = "local"
  /\ menu' = [menu EXCEPT !.page = "decoder", !.pes_buffers = xc["buffers"]]
  /\ UNCHANGED <<xc, played, conf>>
DecoderKey ==
  /\ menu.page = "decoder" /\ "buffers" \in Edited
  /\ menu' = [menu EXCEPT !.pes_buffers = 1 - @]
  /\ UNCHANGED <<xc, played, conf>>
DecoderLeaves ==
  /\ menu.page = "decoder"
  /\ \E v \in {menu.pes_buffers, xc["buffers"]} :
       /\ xc' = [xc EXCEPT !["buffers"] = v]
       /\ played' = Configured(xc', {"buffers"})
  /\ menu' = [menu EXCEPT !.page = "local", !.pes_buffers = 0]
  /\ UNCHANGED conf

\* Plausible bug: Store() of the local page keeps its own, older buffers.
LocalStoredWhole == menu.newconfig

LocalStored == [menu.newconfig EXCEPT !["buffers"] = xc["buffers"]]
LocalLeaves ==
  /\ menu.page = "local"
  /\ \E x \in {LocalStored, xc} : Leaves(x, Sound \cup {"aspect"}) /\ UNCHANGED conf

RemoteOpens == Opens("remote", xc)
RemoteKey == menu.page = "remote" /\ \E n \in Choices("remote") : Tries(n, played)

\* Store() also starts or stops the server (Listen()).
RemoteLeaves == menu.page = "remote" /\ UNCHANGED conf
                /\ (Leaves(menu.newconfig, {"remote"}) \/ Leaves(xc, {}))

\* The settings of the media player reach no frontend, but the page, too,
\* copies the whole configuration back.
MediaOpens == Opens("media", xc)
MediaLeaves == menu.page = "media" /\ StoredOrNot({})

MainOpens == Opens("main", xc)
MainKey ==
  /\ menu.page = "main"
  /\ \/ \E n \in Choices("compression") :
          Tries(n, Configured([xc EXCEPT !["compression"] = n["compression"]], Sound))
     \/ \E f \in {"picture", "autocrop"} : \E n \in Choices(f) : Tries(n, Configured([xc EXCEPT ![f] = n[f]], {f}))

\* Store() sets three settings; the destructor sends those that still differ.
MainStored == [f \in Settings |-> IF f \in {"compression", "picture", "autocrop"} THEN menu.newconfig[f] ELSE xc[f]]
MainDiffers(x) == UNION {IF f = "compression" THEN Sound ELSE {f} :
                         f \in {g \in {"compression", "picture", "autocrop"} : x[g] # menu.newconfig[g]}}
MainLeaves ==
  /\ menu.page = "main"
  /\ \E x \in {MainStored, xc} : Leaves(x, MainDiffers(x)) /\ UNCHANGED conf

\* A hot key pressed twice within three seconds changes the configuration and
\* sends it at once; the first press only shows it.
Hotkey ==
  /\ menu.page = "main" /\ MainDiffers(xc) = {}
  /\ \E f \in {"aspect", "picture", "autocrop", "deinterlace", "upmix", "surround", "compression"} \cap Edited :
     \E v \in 0..1 :
       Leaves([xc EXCEPT ![f] = v], IF f \in Sound THEN Sound ELSE {f})
  /\ UNCHANGED conf

\* The control thread notes the size of a frontend's window.
WindowReported ==
  /\ "osd_auto" \in Edited
  /\ xc' = [xc EXCEPT !["osd_auto"] = 1 - @]
  /\ UNCHANGED <<menu, played, conf>>

SetupNext ==
  \/ AudioOpens \/ AudioKey \/ AudioLeaves
  \/ EqOpens \/ EqKey \/ EqLeaves
  \/ VideoOpens \/ VideoKey \/ VideoLeaves
  \/ OsdOpens \/ OsdKey \/ OsdBack \/ OsdOk
  \/ LocalOpens \/ LocalKey \/ LocalLeaves
  \/ DecoderOpens \/ DecoderKey \/ DecoderLeaves
  \/ RemoteOpens \/ RemoteKey \/ RemoteLeaves
  \/ MediaOpens \/ MediaLeaves
  \/ MainOpens \/ MainKey \/ MainLeaves \/ Hotkey
  \/ WindowReported
=============================================================================
