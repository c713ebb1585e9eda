---------------------------- MODULE ServerProofs ----------------------------
(***************************************************************************)
(* Proofs about components of the VDR process.  A component's invariant is *)
(* kept by the component's own steps, and by the steps of the others,      *)
(* which leave its variables alone.                                        *)
(***************************************************************************)
EXTENDS MCServerComponents, FiniteSetTheorems, NaturalsInduction, WellFoundedInduction, TLAPS

-----------------------------------------------------------------------------
(* The setup pages.  That the frontends play with the stored settings when *)
(* no page is open rests on what may differ while one is: only what the    *)
(* page lets the user try out, in its copy or in the frontends, and only   *)
(* what its destructor sends, whichever way it is left.                    *)

(* The settings in which a page's copy may differ from the configuration,  *)
(* other than the window's size, which the control thread notes.           *)
Tried == [none    |-> Menus!Settings,
          main    |-> {"compression", "picture", "autocrop"},
          audio   |-> {"compression", "surround", "upmix"},
          eq      |-> {"equalizer"},
          video   |-> {"picture", "autocrop", "deinterlace"},
          osd     |-> {"alpha", "extsub"},
          local   |-> {"aspect", "buffers"},
          decoder |-> {"aspect", "buffers"},
          remote  |-> {"remote"},
          media   |-> {}]

(* The settings in which the frontends may differ from it.                 *)
Sent == [none    |-> {},
         main    |-> {"compression", "picture", "autocrop"},
         audio   |-> {"compression", "surround", "upmix"},
         eq      |-> {"equalizer"},
         video   |-> {"picture", "autocrop"},
         osd     |-> {},
         local   |-> {"aspect"},
         decoder |-> {"aspect"},
         remote  |-> {},
         media   |-> {}]

CopyAgrees ==
  \A f \in Menus!Settings \ (Tried[menu.page] \cup {"osd_auto"}) : menu.newconfig[f] = xc[f]

FrontendsAgree == \A f \in Menus!Played \ Sent[menu.page] : played[f] = xc[f]

(* The page of the main menu sends what it changed.                        *)
MainAgrees == menu.page = "main" => \A f \in Sent.main : played[f] = menu.newconfig[f]

(* setup.conf has the rest; the OSD page tries the transparency in the     *)
(* configuration itself and remembers what it was.                         *)
KeptAgrees ==
  /\ xc["extsub"] = conf["extsub"]
  /\ IF menu.page = "osd" THEN menu.alpha = conf["alpha"] ELSE xc["alpha"] = conf["alpha"]

(* Off the OSD page the copy is a configuration.                           *)
CopyIsConfig ==
  /\ menu.page # "osd" => menu.newconfig \in [Menus!Settings -> 0 .. 1]
  /\ \A f \in Menus!Settings \ {"extsub"} : menu.newconfig[f] \in 0 .. 1
  /\ menu.page = "osd" => menu.newconfig["extsub"] \in 1 .. 2

MenuInv == /\ Menus!SetupTypeOK
           /\ CopyAgrees /\ FrontendsAgree /\ MainAgrees /\ KeptAgrees /\ CopyIsConfig

LEMMA MenuInvInit == Menus!SetupInit => MenuInv
  BY DEF Menus!SetupInit, MenuInv, Menus!SetupTypeOK, CopyAgrees, FrontendsAgree, MainAgrees,
         KeptAgrees, CopyIsConfig, Tried, Sent, Menus!Settings, Menus!Played, Menus!Sound, Menus!Kept

(* A page is deleted.                                                      *)
LEMMA LeavesKeeps ==
  ASSUME MenuInv, NEW x \in [Menus!Settings -> 0 .. 1], NEW F, Menus!Leaves(x, F),
         \A f \in Menus!Played \ F : played[f] = x[f],
         conf' \in [Menus!Kept -> 0 .. 1], \A f \in Menus!Kept : conf'[f] = x[f]
  PROVE  MenuInv'
<1>1. /\ xc' = x /\ played' = Menus!Configured(x, F)
      /\ menu' = [menu EXCEPT !.page = "none", !.newconfig = x, !.alpha = x["alpha"]]
  BY DEF Menus!Leaves
<1>2. "alpha" \in Menus!Settings /\ Menus!Played \subseteq Menus!Settings
  BY DEF Menus!Settings, Menus!Kept, Menus!Played
<1>3. played' \in [Menus!Played -> 0 .. 1] /\ \A f \in Menus!Played : played'[f] = x[f]
  <2>1. \A f \in Menus!Played : (IF f \in F THEN x[f] ELSE played[f]) = x[f]
    OBVIOUS
  <2> QED
    BY <1>1, <1>2, <2>1 DEF Menus!Configured
<1>4. /\ menu'.page = "none" /\ menu'.newconfig = x
      /\ menu' \in [page : {"none", "main", "audio", "eq", "video", "osd", "local", "decoder",
                            "remote", "media"},
                    newconfig : [Menus!Settings -> 0 .. 2], pes_buffers : 0 .. 1, alpha : 0 .. 1]
  <2>1. x \in [Menus!Settings -> 0 .. 2] /\ x["alpha"] \in 0 .. 1
    BY <1>2
  <2> QED
    BY <1>1, <2>1 DEF MenuInv, Menus!SetupTypeOK
<1>5. Menus!SetupTypeOK'
  BY <1>1, <1>3, <1>4 DEF Menus!SetupTypeOK
<1>6. CopyAgrees' /\ CopyIsConfig' /\ MainAgrees'
  BY <1>1, <1>4 DEF CopyAgrees, CopyIsConfig, MainAgrees
<1>7. FrontendsAgree' /\ KeptAgrees'
  BY <1>1, <1>3, <1>4 DEF FrontendsAgree, KeptAgrees, Menus!Kept
<1> QED
  BY <1>5, <1>6, <1>7 DEF MenuInv

(* A page is opened.                                                       *)
LEMMA OpensKeeps ==
  ASSUME MenuInv,
         NEW p \in {"main", "audio", "eq", "video", "osd", "local", "remote", "media"},
         NEW n \in [Menus!Settings -> 0 .. 2], Menus!Opens(p, n),
         IF p = "osd" THEN n = [xc EXCEPT !["extsub"] = @ + 1] ELSE n = xc
  PROVE  MenuInv'
<1>1. /\ menu.page = "none"
      /\ menu' = [menu EXCEPT !.page = p, !.newconfig = n, !.alpha = xc["alpha"]]
      /\ UNCHANGED <<xc, played, conf>>
  BY DEF Menus!Opens
<1>2. xc \in [Menus!Settings -> 0 .. 1] /\ xc["alpha"] \in 0 .. 1 /\ xc["extsub"] \in 0 .. 1
  BY DEF MenuInv, Menus!SetupTypeOK, Menus!Settings, Menus!Kept
<1>3. /\ menu'.page = p /\ menu'.newconfig = n /\ menu'.alpha = xc["alpha"]
      /\ Menus!SetupTypeOK'
  BY <1>1, <1>2 DEF MenuInv, Menus!SetupTypeOK
<1>4. \A f \in Menus!Settings \ {"extsub"} : n[f] = xc[f]
  BY <1>2
<1>5. p = "osd" => n["extsub"] = xc["extsub"] + 1
  BY <1>2 DEF Menus!Settings, Menus!Kept
<1>6. CopyAgrees'
  BY <1>1, <1>3, <1>4 DEF CopyAgrees, Tried
<1>7. \A f \in Menus!Played : played[f] = xc[f]
  BY <1>1 DEF MenuInv, FrontendsAgree, Sent
<1>8. FrontendsAgree' /\ MainAgrees'
  BY <1>1, <1>3, <1>7 DEF FrontendsAgree, MainAgrees, Sent, Menus!Played, Menus!Sound
<1>9. KeptAgrees'
  BY <1>1, <1>3 DEF MenuInv, KeptAgrees
<1>10. CopyIsConfig'
  BY <1>2, <1>3, <1>4, <1>5 DEF CopyIsConfig
<1> QED
  BY <1>3, <1>6, <1>8, <1>9, <1>10 DEF MenuInv

(* A key changes the copy and what the frontends have.                     *)
LEMMA TriesKeeps ==
  ASSUME MenuInv, NEW n \in [Menus!Settings -> 0 .. 2], NEW d \in [Menus!Played -> 0 .. 1],
         Menus!Tries(n, d),
         \A f \in Menus!Settings \ Tried[menu.page] : n[f] = menu.newconfig[f],
         \A f \in Menus!Played \ Sent[menu.page] : d[f] = played[f],
         menu.page = "main" => \A f \in Sent.main : d[f] = n[f],
         \A f \in Menus!Settings \ {"extsub"} : n[f] \in 0 .. 1,
         IF menu.page = "osd" THEN n["extsub"] \in 1 .. 2 ELSE n["extsub"] \in 0 .. 1
  PROVE  MenuInv'
<1>1. menu' = [menu EXCEPT !.newconfig = n] /\ played' = d /\ UNCHANGED <<xc, conf>>
  BY DEF Menus!Tries
<1>2. /\ menu'.page = menu.page /\ menu'.newconfig = n /\ menu'.alpha = menu.alpha
      /\ Menus!SetupTypeOK'
  BY <1>1 DEF MenuInv, Menus!SetupTypeOK
<1>3. CopyAgrees'
  BY <1>1, <1>2 DEF MenuInv, CopyAgrees
<1>4. FrontendsAgree' /\ MainAgrees' /\ KeptAgrees'
  BY <1>1, <1>2 DEF MenuInv, FrontendsAgree, MainAgrees, KeptAgrees
<1>5. CopyIsConfig'
  BY <1>2 DEF CopyIsConfig
<1> QED
  BY <1>2, <1>3, <1>4, <1>5 DEF MenuInv

LEMMA ConfigCopy ==
  ASSUME MenuInv, menu.page # "osd"
  PROVE  menu.newconfig \in [Menus!Settings -> 0 .. 1] /\ xc \in [Menus!Settings -> 0 .. 1]
  BY DEF MenuInv, CopyIsConfig, Menus!SetupTypeOK

(* What a key makes of the copy, off the OSD page.                         *)
LEMMA ChoiceFacts ==
  ASSUME MenuInv, menu.page # "osd", NEW f \in Menus!Settings, NEW n \in Menus!Choices(f)
  PROVE  /\ n \in [Menus!Settings -> 0 .. 1]
         /\ \A g \in Menus!Settings \ {f} : n[g] = menu.newconfig[g]
<1>1. PICK v \in 0 .. 1 : n = [menu.newconfig EXCEPT ![f] = v]
  BY DEF Menus!Choices
<1> QED
  BY <1>1, ConfigCopy

LEMMA ConfiguredFacts ==
  ASSUME MenuInv, NEW x \in [Menus!Settings -> 0 .. 1], NEW F
  PROVE  /\ Menus!Configured(x, F) \in [Menus!Played -> 0 .. 1]
         /\ \A g \in Menus!Played : Menus!Configured(x, F)[g] = IF g \in F THEN x[g] ELSE played[g]
<1>1. Menus!Played \subseteq Menus!Settings /\ played \in [Menus!Played -> 0 .. 1]
  BY DEF MenuInv, Menus!SetupTypeOK, Menus!Settings
<1> QED
  BY <1>1 DEF Menus!Configured

(* Stored or not, the page sends everything it has tried out.              *)
LEMMA StoredOrNotKeeps ==
  ASSUME MenuInv, NEW F, Menus!StoredOrNot(F), menu.page \notin {"none", "osd", "main"},
         Tried[menu.page] \cap Menus!Played \subseteq F, Sent[menu.page] \subseteq F,
         Tried[menu.page] \cap Menus!Kept = {}
  PROVE  MenuInv'
<1>1. PICK x \in {menu.newconfig, xc} : Menus!Leaves(x, F) /\ UNCHANGED conf
  BY DEF Menus!StoredOrNot
<1>2. x \in [Menus!Settings -> 0 .. 1]
  BY <1>1, ConfigCopy
<1>3. /\ Menus!Played \subseteq Menus!Settings /\ Menus!Kept \subseteq Menus!Settings
      /\ "osd_auto" \notin Menus!Played /\ "osd_auto" \notin Menus!Kept
  BY DEF Menus!Settings, Menus!Played, Menus!Kept, Menus!Sound
<1>4. \A f \in Menus!Played \ F : x[f] = xc[f] /\ played[f] = xc[f]
  BY <1>1, <1>3 DEF MenuInv, CopyAgrees, FrontendsAgree
<1>5. \A f \in Menus!Kept : x[f] = xc[f] /\ xc[f] = conf[f]
  <2>1. \A f \in Menus!Kept : x[f] = xc[f]
    BY <1>1, <1>3 DEF MenuInv, CopyAgrees
  <2>2. \A f \in Menus!Kept : xc[f] = conf[f]
    BY DEF MenuInv, KeptAgrees, Menus!Kept
  <2> QED
    BY <2>1, <2>2
<1>6. conf' \in [Menus!Kept -> 0 .. 1] /\ conf' = conf
  BY <1>1 DEF MenuInv, Menus!SetupTypeOK
<1> QED
  BY <1>1, <1>2, <1>4, <1>5, <1>6, LeavesKeeps

LEMMA AudioKeeps ==
  ASSUME MenuInv, Menus!AudioKey \/ Menus!AudioLeaves
  PROVE  MenuInv'
<1>0. /\ {"compression", "surround", "upmix", "deinterlace"} \subseteq Menus!Settings
      /\ Menus!Sound \subseteq Menus!Played
  BY DEF Menus!Settings, Menus!Played, Menus!Sound
<1>1. ASSUME menu.page = "audio", NEW f \in {"compression", "surround", "upmix"},
             NEW n \in Menus!Choices(f), NEW m,
             m \in {n, [n EXCEPT !["upmix"] = 0], [n EXCEPT !["surround"] = 0]}
      PROVE  /\ n \in [Menus!Settings -> 0 .. 1] /\ m \in [Menus!Settings -> 0 .. 1]
             /\ \A g \in Menus!Settings \ Tried.audio : m[g] = menu.newconfig[g] /\ n[g] = menu.newconfig[g]
  <2>1. /\ n \in [Menus!Settings -> 0 .. 1]
        /\ \A g \in Menus!Settings \ {f} : n[g] = menu.newconfig[g]
    BY <1>0, <1>1, ChoiceFacts
  <2> QED
    BY <1>0, <1>1, <2>1 DEF Tried
<1>2. CASE Menus!AudioKey
  <2>1. menu.page = "audio"
    BY <1>2 DEF Menus!AudioKey
  <2>2. PICK f \in {"compression", "surround", "upmix"} : \E n \in Menus!Choices(f) :
           \E m \in {n, [n EXCEPT !["upmix"] = 0], [n EXCEPT !["surround"] = 0]} :
             \/ Menus!Tries(m, Menus!Configured([n EXCEPT !["deinterlace"] = xc["deinterlace"]],
                                                Menus!Sound))
             \/ Menus!Tries(m, Menus!Configured(n, {"upmix"}))
    BY <1>2 DEF Menus!AudioKey
  <2>3. PICK n \in Menus!Choices(f) :
           \E m \in {n, [n EXCEPT !["upmix"] = 0], [n EXCEPT !["surround"] = 0]} :
             \/ Menus!Tries(m, Menus!Configured([n EXCEPT !["deinterlace"] = xc["deinterlace"]],
                                                Menus!Sound))
             \/ Menus!Tries(m, Menus!Configured(n, {"upmix"}))
    BY <2>2
  <2>4. PICK m \in {n, [n EXCEPT !["upmix"] = 0], [n EXCEPT !["surround"] = 0]} :
             \/ Menus!Tries(m, Menus!Configured([n EXCEPT !["deinterlace"] = xc["deinterlace"]],
                                                Menus!Sound))
             \/ Menus!Tries(m, Menus!Configured(n, {"upmix"}))
    BY <2>3
  <2>5. /\ n \in [Menus!Settings -> 0 .. 1] /\ m \in [Menus!Settings -> 0 .. 1]
        /\ \A g \in Menus!Settings \ Tried.audio : m[g] = menu.newconfig[g] /\ n[g] = menu.newconfig[g]
    BY <1>1, <2>1, <2>4
  <2> DEFINE k == [n EXCEPT !["deinterlace"] = xc["deinterlace"]]
  <2>6. /\ k \in [Menus!Settings -> 0 .. 1]
        /\ \A g \in Menus!Sound \ Tried.audio : k[g] = xc[g] /\ played[g] = xc[g]
    <3>1. xc["deinterlace"] \in 0 .. 1
      BY <1>0, <2>1, ConfigCopy
    <3>2. \A g \in Menus!Settings \ (Tried.audio \cup {"osd_auto"}) : n[g] = xc[g]
      BY <2>1, <2>5 DEF MenuInv, CopyAgrees
    <3>3. \A g \in Menus!Played \ Tried.audio : played[g] = xc[g]
      BY <2>1 DEF MenuInv, FrontendsAgree, Tried, Sent
    <3>4. Menus!Sound \subseteq Menus!Settings \ {"osd_auto"}
      BY DEF Menus!Sound, Menus!Settings, Menus!Played
    <3> QED
      BY <1>0, <2>5, <3>1, <3>2, <3>3, <3>4
  <2> HIDE DEF k
  <2>7. PICK d \in [Menus!Played -> 0 .. 1] :
          Menus!Tries(m, d) /\ \A g \in Menus!Played \ Sent.audio : d[g] = played[g]
    <3>1. CASE Menus!Tries(m, Menus!Configured(k, Menus!Sound))
      BY <3>1, <2>6, ConfiguredFacts DEF Tried, Sent
    <3>2. CASE Menus!Tries(m, Menus!Configured(n, {"upmix"}))
      BY <3>2, <2>5, ConfiguredFacts DEF Sent
    <3> QED
      BY <2>4, <3>1, <3>2 DEF k
  <2>8. /\ m \in [Menus!Settings -> 0 .. 2] /\ \A g \in Menus!Settings : m[g] \in 0 .. 1
        /\ "extsub" \in Menus!Settings
    BY <2>5 DEF Menus!Settings, Menus!Kept
  <2> QED
    BY <2>1, <2>5, <2>7, <2>8, TriesKeeps
<1>3. CASE Menus!AudioLeaves
  BY <1>3, StoredOrNotKeeps
  DEF Menus!AudioLeaves, Menus!AudioRestored, Tried, Sent, Menus!Sound, Menus!Kept
<1> QED
  BY <1>2, <1>3

(* A page that sends the setting it changes, or nothing.                   *)
LEMMA OneKeyKeeps ==
  ASSUME MenuInv, menu.page \notin {"osd", "main"}, NEW f \in Tried[menu.page] \cap Menus!Settings,
         NEW n \in Menus!Choices(f), NEW d \in [Menus!Played -> 0 .. 1], Menus!Tries(n, d),
         \A g \in Menus!Played \ Sent[menu.page] : d[g] = played[g]
  PROVE  MenuInv'
<1>1. /\ n \in [Menus!Settings -> 0 .. 1]
      /\ \A g \in Menus!Settings \ {f} : n[g] = menu.newconfig[g]
  BY ChoiceFacts
<1>2. /\ n \in [Menus!Settings -> 0 .. 2] /\ \A g \in Menus!Settings : n[g] \in 0 .. 1
      /\ "extsub" \in Menus!Settings
  BY <1>1 DEF Menus!Settings, Menus!Kept
<1>3. \A g \in Menus!Settings \ Tried[menu.page] : n[g] = menu.newconfig[g]
  BY <1>1
<1> QED
  BY <1>2, <1>3, TriesKeeps

(* What is sent beside the setting itself is as it is in the frontends.    *)
LEMMA SentAgain ==
  ASSUME MenuInv, NEW f \in Menus!Played, NEW x \in [Menus!Settings -> 0 .. 1], NEW F,
         \A g \in (F \cap Menus!Played) \ {f} : x[g] = played[g]
  PROVE  /\ Menus!Configured(x, F) \in [Menus!Played -> 0 .. 1]
         /\ \A g \in Menus!Played \ {f} : Menus!Configured(x, F)[g] = played[g]
         /\ f \in F => Menus!Configured(x, F)[f] = x[f]
<1> DEFINE d == Menus!Configured(x, F)
<1>1. /\ d \in [Menus!Played -> 0 .. 1]
      /\ \A g \in Menus!Played : d[g] = IF g \in F THEN x[g] ELSE played[g]
  BY ConfiguredFacts
<1> HIDE DEF d
<1>2. \A g \in Menus!Played \ {f} : d[g] = played[g]
  BY <1>1
<1>3. f \in F => d[f] = x[f]
  BY <1>1
<1> QED
  BY <1>1, <1>2, <1>3 DEF d

LEMMA EqKeeps ==
  ASSUME MenuInv, Menus!EqKey \/ Menus!EqLeaves
  PROVE  MenuInv'
<1>1. CASE Menus!EqKey
  <2>1. menu.page = "eq" /\ "equalizer" \in Menus!Settings /\ "equalizer" \in Menus!Played
    BY <1>1 DEF Menus!EqKey, Menus!Settings, Menus!Played, Menus!Sound
  <2>2. PICK n \in Menus!Choices("equalizer") :
          Menus!Tries(n, Menus!Configured([xc EXCEPT !["equalizer"] = n["equalizer"]], Menus!Sound))
    BY <1>1 DEF Menus!EqKey
  <2>3. PICK v \in 0 .. 1 : v = n["equalizer"]
    BY <2>1, <2>2, ChoiceFacts
  <2>4. \A g \in Menus!Played \ {"equalizer"} : played[g] = xc[g]
    BY <2>1 DEF MenuInv, FrontendsAgree, Sent
  <2> DEFINE x == [xc EXCEPT !["equalizer"] = v]
             d == Menus!Configured(x, Menus!Sound)
  <2>5. d \in [Menus!Played -> 0 .. 1] /\ \A g \in Menus!Played \ {"equalizer"} : d[g] = played[g]
    <3>1. xc \in [Menus!Settings -> 0 .. 1] /\ Menus!Played \subseteq Menus!Settings
      BY <2>1, ConfigCopy DEF Menus!Settings
    <3>2. x \in [Menus!Settings -> 0 .. 1] /\ \A g \in Menus!Played \ {"equalizer"} : x[g] = xc[g]
      BY <3>1
    <3> HIDE DEF x
    <3> QED
      BY <2>1, <2>4, <3>2, SentAgain
  <2>6. Menus!Tries(n, d)
    BY <2>2, <2>3
  <2> HIDE DEF d
  <2> QED
    BY <2>1, <2>5, <2>6, OneKeyKeeps DEF Tried, Sent
<1>2. CASE Menus!EqLeaves
  BY <1>2, StoredOrNotKeeps DEF Menus!EqLeaves, Tried, Sent, Menus!Sound, Menus!Kept
<1> QED
  BY <1>1, <1>2

LEMMA VideoKeeps ==
  ASSUME MenuInv, Menus!VideoKey \/ Menus!VideoLeaves
  PROVE  MenuInv'
<1>1. CASE Menus!VideoKey
  <2>1. menu.page = "video" /\ {"picture", "autocrop", "deinterlace"} \subseteq Menus!Settings
    BY <1>1 DEF Menus!VideoKey, Menus!Settings, Menus!Played, Menus!Sound
  <2>2. CASE \E f \in {"picture", "autocrop"} : \E n \in Menus!Choices(f) :
               Menus!Tries(n, Menus!Configured(n, {f}))
    <3>1. PICK f \in {"picture", "autocrop"} : \E n \in Menus!Choices(f) :
            Menus!Tries(n, Menus!Configured(n, {f}))
      BY <2>2
    <3>2. PICK n \in Menus!Choices(f) : Menus!Tries(n, Menus!Configured(n, {f}))
      BY <3>1
    <3>3. n \in [Menus!Settings -> 0 .. 1]
      BY <2>1, <3>2, ChoiceFacts
    <3>4. /\ Menus!Configured(n, {f}) \in [Menus!Played -> 0 .. 1]
          /\ \A g \in Menus!Played \ {f} : Menus!Configured(n, {f})[g] = played[g]
      BY <3>3, ConfiguredFacts
    <3> QED
      BY <2>1, <3>2, <3>4, OneKeyKeeps DEF Tried, Sent
  <2>3. CASE \E n \in Menus!Choices("deinterlace") : Menus!Tries(n, played)
    <3>1. played \in [Menus!Played -> 0 .. 1]
      BY DEF MenuInv, Menus!SetupTypeOK
    <3> QED
      BY <2>1, <2>3, <3>1, OneKeyKeeps DEF Tried
  <2> QED
    BY <1>1, <2>2, <2>3 DEF Menus!VideoKey
<1>2. CASE Menus!VideoLeaves
  BY <1>2, StoredOrNotKeeps DEF Menus!VideoLeaves, Tried, Sent, Menus!Sound, Menus!Kept
<1> QED
  BY <1>1, <1>2

(* The decoder page is below the local one: its buffers are not the ones   *)
(* of the copy the local page has.                                         *)
LEMMA LocalKeeps ==
  ASSUME MenuInv, Menus!LocalKey \/ Menus!LocalLeaves
  PROVE  MenuInv'
<1>1. CASE Menus!LocalKey
  <2>1. menu.page = "local" /\ "aspect" \in Menus!Settings /\ "aspect" \in Menus!Played
    BY <1>1 DEF Menus!LocalKey, Menus!Settings, Menus!Played
  <2>2. PICK n \in Menus!Choices("aspect") :
          Menus!Tries(n, Menus!Configured([xc EXCEPT !["aspect"] = n["aspect"]], {"aspect"}))
    BY <1>1 DEF Menus!LocalKey
  <2>3. PICK v \in 0 .. 1 : v = n["aspect"]
    BY <2>1, <2>2, ChoiceFacts
  <2> DEFINE x == [xc EXCEPT !["aspect"] = v]
             d == Menus!Configured(x, {"aspect"})
  <2>4. d \in [Menus!Played -> 0 .. 1] /\ \A g \in Menus!Played \ {"aspect"} : d[g] = played[g]
    <3>1. xc \in [Menus!Settings -> 0 .. 1] /\ Menus!Played \subseteq Menus!Settings
      BY <2>1, ConfigCopy DEF Menus!Settings
    <3>2. x \in [Menus!Settings -> 0 .. 1] /\ \A g \in Menus!Played \ {"aspect"} : x[g] = xc[g]
      BY <3>1
    <3> HIDE DEF x
    <3> QED
      BY <2>1, <3>2, SentAgain
  <2>5. Menus!Tries(n, d)
    BY <2>2, <2>3
  <2> HIDE DEF d
  <2> QED
    BY <2>1, <2>4, <2>5, OneKeyKeeps DEF Tried, Sent
<1>2. CASE Menus!LocalLeaves
  <2>1. menu.page = "local"
    BY <1>2 DEF Menus!LocalLeaves
  <2>2. PICK x \in {Menus!LocalStored, xc} : Menus!Leaves(x, Menus!Sound \cup {"aspect"}) /\ UNCHANGED conf
    BY <1>2 DEF Menus!LocalLeaves
  <2>3. /\ xc \in [Menus!Settings -> 0 .. 1] /\ menu.newconfig \in [Menus!Settings -> 0 .. 1]
        /\ \A f \in Menus!Settings \ {"aspect", "buffers", "osd_auto"} : menu.newconfig[f] = xc[f]
    BY <2>1, ConfigCopy DEF MenuInv, CopyAgrees, Tried
  <2>4. x \in [Menus!Settings -> 0 .. 1] /\ \A f \in Menus!Settings \ {"aspect", "osd_auto"} : x[f] = xc[f]
    <3>1. "buffers" \in Menus!Settings
      BY DEF Menus!Settings, Menus!Played
    <3> QED
      BY <2>2, <2>3, <3>1 DEF Menus!LocalStored
  <2>5. \A f \in Menus!Played \ (Menus!Sound \cup {"aspect"}) : played[f] = x[f]
    BY <2>1, <2>4 DEF MenuInv, FrontendsAgree, Sent, Menus!Settings, Menus!Played, Menus!Sound
  <2>6. conf' \in [Menus!Kept -> 0 .. 1] /\ \A f \in Menus!Kept : conf'[f] = x[f]
    BY <2>1, <2>2, <2>4 DEF MenuInv, Menus!SetupTypeOK, KeptAgrees, Menus!Kept, Menus!Settings
  <2> QED
    BY <2>2, <2>4, <2>5, <2>6, LeavesKeeps
<1> QED
  BY <1>1, <1>2

LEMMA DecoderKeeps ==
  ASSUME MenuInv, Menus!DecoderOpens \/ Menus!DecoderKey \/ Menus!DecoderLeaves
  PROVE  MenuInv'
<1>0. /\ "buffers" \in Menus!Settings /\ "buffers" \in Menus!Played
      /\ xc["buffers"] \in 0 .. 1 /\ menu.pes_buffers \in 0 .. 1
  BY DEF MenuInv, Menus!SetupTypeOK, Menus!Settings, Menus!Played
<1>1. CASE Menus!DecoderOpens \/ Menus!DecoderKey
  <2>1. /\ menu.page \in {"local", "decoder"} /\ menu'.page \in {"local", "decoder"}
        /\ menu'.newconfig = menu.newconfig /\ UNCHANGED <<xc, played, conf>>
        /\ Menus!SetupTypeOK'
    <3>1. 1 - menu.pes_buffers \in 0 .. 1
      BY <1>0
    <3>2. /\ menu.page \in {"local", "decoder"} /\ UNCHANGED <<xc, played, conf>>
          /\ \/ menu' = [menu EXCEPT !.page = "decoder", !.pes_buffers = xc["buffers"]]
             \/ menu' = [menu EXCEPT !.pes_buffers = 1 - menu.pes_buffers]
      BY <1>1 DEF Menus!DecoderOpens, Menus!DecoderKey
    <3>3. CASE menu' = [menu EXCEPT !.page = "decoder", !.pes_buffers = xc["buffers"]]
      BY <1>0, <3>2, <3>3 DEF MenuInv, Menus!SetupTypeOK
    <3>4. CASE menu' = [menu EXCEPT !.pes_buffers = 1 - menu.pes_buffers]
      BY <3>1, <3>2, <3>4 DEF MenuInv, Menus!SetupTypeOK
    <3> QED
      BY <3>2, <3>3, <3>4
  <2>2. CopyAgrees' /\ FrontendsAgree'
    BY <2>1 DEF MenuInv, CopyAgrees, FrontendsAgree, Tried, Sent
  <2> QED
    BY <2>1, <2>2 DEF MenuInv, MainAgrees, KeptAgrees, CopyIsConfig
<1>2. CASE Menus!DecoderLeaves
  <2>1. PICK v \in {menu.pes_buffers, xc["buffers"]} :
          xc' = [xc EXCEPT !["buffers"] = v] /\ played' = Menus!Configured(xc', {"buffers"})
    BY <1>2 DEF Menus!DecoderLeaves
  <2>2. /\ menu.page = "decoder" /\ UNCHANGED conf
        /\ menu' = [menu EXCEPT !.page = "local", !.pes_buffers = 0]
    BY <1>2 DEF Menus!DecoderLeaves
  <2>3. /\ xc' \in [Menus!Settings -> 0 .. 1] /\ xc'["buffers"] \in 0 .. 1
        /\ \A f \in Menus!Settings \ {"buffers"} : xc'[f] = xc[f]
    BY <1>0, <2>1 DEF MenuInv, Menus!SetupTypeOK
  <2>4. /\ played' \in [Menus!Played -> 0 .. 1] /\ played'["buffers"] = xc'["buffers"]
        /\ \A f \in Menus!Played \ {"buffers"} : played'[f] = played[f]
    BY <1>0, <2>1, <2>3 DEF Menus!Configured, MenuInv, Menus!SetupTypeOK
  <2>5. /\ menu'.page = "local" /\ menu'.newconfig = menu.newconfig
        /\ Menus!SetupTypeOK'
    <3>1. /\ menu'.page = "local" /\ menu'.newconfig = menu.newconfig
          /\ menu'.pes_buffers = 0 /\ menu'.alpha = menu.alpha
      BY <2>2 DEF MenuInv, Menus!SetupTypeOK
    <3>2. /\ 0 \in 0 .. 1
          /\ menu' \in [page : {"none", "main", "audio", "eq", "video", "osd", "local", "decoder",
                                "remote", "media"},
                        newconfig : [Menus!Settings -> 0 .. 2], pes_buffers : 0 .. 1, alpha : 0 .. 1]
      <4> DEFINE m == [menu EXCEPT !.page = "local"]
      <4>1. m \in [page : {"none", "main", "audio", "eq", "video", "osd", "local", "decoder",
                           "remote", "media"},
                   newconfig : [Menus!Settings -> 0 .. 2], pes_buffers : 0 .. 1, alpha : 0 .. 1]
        BY DEF MenuInv, Menus!SetupTypeOK
      <4>2. menu' = [m EXCEPT !.pes_buffers = 0]
        BY <2>2 DEF MenuInv, Menus!SetupTypeOK
      <4> HIDE DEF m
      <4> QED
        BY <4>1, <4>2
    <3> QED
      BY <2>2, <2>3, <2>4, <3>1, <3>2 DEF MenuInv, Menus!SetupTypeOK
  <2>6. CopyAgrees'
    BY <2>2, <2>3, <2>5 DEF MenuInv, CopyAgrees, Tried
  <2>7. FrontendsAgree'
    <3>1. Menus!Played \subseteq Menus!Settings
      BY DEF Menus!Settings
    <3> QED
      BY <2>2, <2>3, <2>4, <2>5, <3>1 DEF MenuInv, FrontendsAgree, Sent
  <2>8. KeptAgrees' /\ MainAgrees' /\ CopyIsConfig'
    BY <2>2, <2>3, <2>5
    DEF MenuInv, KeptAgrees, MainAgrees, CopyIsConfig, Menus!Settings, Menus!Kept
  <2> QED
    BY <2>5, <2>6, <2>7, <2>8 DEF MenuInv
<1> QED
  BY <1>1, <1>2

LEMMA OsdKeeps ==
  ASSUME MenuInv, Menus!OsdKey \/ Menus!OsdBack \/ Menus!OsdOk
  PROVE  MenuInv'
<1>0. /\ menu.page = "osd" /\ xc \in [Menus!Settings -> 0 .. 1]
      /\ menu.newconfig \in [Menus!Settings -> 0 .. 2] /\ menu.alpha \in 0 .. 1
      /\ "alpha" \in Menus!Settings /\ "extsub" \in Menus!Settings
      /\ played \in [Menus!Played -> 0 .. 1] /\ conf \in [Menus!Kept -> 0 .. 1]
  BY DEF Menus!OsdKey, Menus!OsdBack, Menus!OsdOk, MenuInv, Menus!SetupTypeOK,
         Menus!Settings, Menus!Kept
<1>1. CASE \E n \in Menus!Choices("alpha") :
             /\ xc' = [xc EXCEPT !["alpha"] = n["alpha"]]
             /\ menu' = [menu EXCEPT !.newconfig = n]
             /\ UNCHANGED <<played, conf>>
  <2>1. PICK n \in Menus!Choices("alpha") :
          /\ xc' = [xc EXCEPT !["alpha"] = n["alpha"]]
          /\ menu' = [menu EXCEPT !.newconfig = n]
          /\ UNCHANGED <<played, conf>>
    BY <1>1
  <2>2. PICK v \in 0 .. 1 : n = [menu.newconfig EXCEPT !["alpha"] = v]
    BY DEF Menus!Choices
  <2>3. /\ n \in [Menus!Settings -> 0 .. 2] /\ n["alpha"] = v
        /\ \A f \in Menus!Settings \ {"alpha"} : n[f] = menu.newconfig[f]
    <3>1. v \in 0 .. 2
      OBVIOUS
    <3> QED
      BY <1>0, <2>2, <3>1
  <2>4. /\ xc' \in [Menus!Settings -> 0 .. 1]
        /\ \A f \in Menus!Settings \ {"alpha"} : xc'[f] = xc[f]
    BY <1>0, <2>1, <2>3
  <2>5. /\ menu'.page = "osd" /\ menu'.newconfig = n /\ menu'.alpha = menu.alpha
        /\ Menus!SetupTypeOK'
    BY <1>0, <2>1, <2>3, <2>4 DEF MenuInv, Menus!SetupTypeOK
  <2>6. CopyAgrees'
    BY <1>0, <2>3, <2>4, <2>5 DEF MenuInv, CopyAgrees, Tried
  <2>7. FrontendsAgree' /\ MainAgrees'
    BY <1>0, <2>1, <2>4, <2>5
    DEF MenuInv, FrontendsAgree, MainAgrees, Sent, Menus!Settings, Menus!Played, Menus!Sound
  <2>8. KeptAgrees'
    BY <1>0, <2>1, <2>4, <2>5 DEF MenuInv, KeptAgrees
  <2>9. CopyIsConfig'
    BY <1>0, <2>3, <2>5 DEF MenuInv, CopyIsConfig
  <2> QED
    BY <2>5, <2>6, <2>7, <2>8, <2>9 DEF MenuInv
<1>2. CASE \E v \in 1 .. 2 : Menus!Tries([menu.newconfig EXCEPT !["extsub"] = v], played)
  <2>1. PICK v \in 1 .. 2 : Menus!Tries([menu.newconfig EXCEPT !["extsub"] = v], played)
    BY <1>2
  <2> DEFINE n == [menu.newconfig EXCEPT !["extsub"] = v]
  <2>2. /\ n \in [Menus!Settings -> 0 .. 2] /\ n["extsub"] = v
        /\ \A f \in Menus!Settings \ {"extsub"} : n[f] = menu.newconfig[f]
    <3>1. v \in 0 .. 2
      OBVIOUS
    <3> QED
      BY <1>0, <3>1
  <2>3. Menus!Tries(n, played)
    BY <2>1
  <2>4. \A f \in Menus!Settings \ {"extsub"} : menu.newconfig[f] \in 0 .. 1
    BY DEF MenuInv, CopyIsConfig
  <2> HIDE DEF n
  <2> QED
    BY <1>0, <2>2, <2>3, <2>4, TriesKeeps DEF Tried
<1>3. CASE Menus!OsdBack
  <2> DEFINE x == [xc EXCEPT !["alpha"] = menu.alpha]
  <2>1. x \in [Menus!Settings -> 0 .. 1] /\ \A f \in Menus!Settings \ {"alpha"} : x[f] = xc[f]
    BY <1>0
  <2>2. Menus!Leaves(x, {}) /\ conf' = conf
    BY <1>3 DEF Menus!OsdBack
  <2>3. x["alpha"] = menu.alpha
    BY <1>0
  <2> HIDE DEF x
  <2>4. \A f \in Menus!Played \ {} : played[f] = x[f]
    BY <1>0, <2>1
    DEF MenuInv, FrontendsAgree, Sent, Menus!Settings, Menus!Played, Menus!Sound
  <2>5. \A f \in Menus!Kept : conf'[f] = x[f]
    BY <1>0, <2>1, <2>2, <2>3 DEF MenuInv, KeptAgrees, Menus!Kept
  <2> QED
    BY <1>0, <2>1, <2>2, <2>4, <2>5, LeavesKeeps
<1>4. CASE Menus!OsdOk
  <2> DEFINE x == [menu.newconfig EXCEPT !["extsub"] = menu.newconfig["extsub"] - 1]
  <2>1. /\ \A f \in Menus!Settings \ {"extsub"} : menu.newconfig[f] \in 0 .. 1
        /\ menu.newconfig["extsub"] - 1 \in 0 .. 1
    BY <1>0 DEF MenuInv, CopyIsConfig
  <2>2. /\ x \in [Menus!Settings -> 0 .. 1]
        /\ \A f \in Menus!Settings \ {"extsub"} : x[f] = menu.newconfig[f]
    <3>1. \A f \in Menus!Settings : x[f] \in 0 .. 1
      BY <1>0, <2>1
    <3>2. x \in [Menus!Settings -> Int]
      BY <1>0, <2>1
    <3> QED
      BY <1>0, <3>1, <3>2
  <2>3. Menus!Leaves(x, {}) /\ conf' = [f \in Menus!Kept |-> x[f]]
    BY <1>4 DEF Menus!OsdOk
  <2> HIDE DEF x
  <2>4. \A f \in Menus!Played \ {} : played[f] = x[f]
    BY <1>0, <2>2
    DEF MenuInv, FrontendsAgree, CopyAgrees, Tried, Sent, Menus!Settings, Menus!Played, Menus!Sound
  <2>5. conf' \in [Menus!Kept -> 0 .. 1] /\ \A f \in Menus!Kept : conf'[f] = x[f]
    BY <2>2, <2>3 DEF Menus!Settings
  <2> QED
    BY <2>2, <2>3, <2>4, <2>5, LeavesKeeps
<1> QED
  BY <1>1, <1>2, <1>3, <1>4 DEF Menus!OsdKey

LEMMA RemoteKeeps ==
  ASSUME MenuInv, Menus!RemoteKey \/ Menus!RemoteLeaves
  PROVE  MenuInv'
<1>0. /\ menu.page = "remote" /\ "remote" \in Menus!Settings
      /\ played \in [Menus!Played -> 0 .. 1]
  BY DEF Menus!RemoteKey, Menus!RemoteLeaves, MenuInv, Menus!SetupTypeOK, Menus!Settings, Menus!Played
<1>1. CASE Menus!RemoteKey
  BY <1>0, <1>1, OneKeyKeeps DEF Menus!RemoteKey, Tried
<1>2. CASE Menus!RemoteLeaves
  <2>1. PICK x \in {menu.newconfig, xc}, F \in {{"remote"}, {}} :
          /\ Menus!Leaves(x, F) /\ UNCHANGED conf
          /\ F = {} => x = xc
    BY <1>2 DEF Menus!RemoteLeaves
  <2>2. x \in [Menus!Settings -> 0 .. 1]
    BY <1>0, <2>1, ConfigCopy
  <2>3. /\ \A f \in Menus!Settings \ {"remote", "osd_auto"} : x[f] = xc[f]
        /\ \A f \in Menus!Played : played[f] = xc[f]
    BY <1>0, <2>1 DEF MenuInv, CopyAgrees, FrontendsAgree, Tried, Sent
  <2>4. \A f \in Menus!Played \ F : played[f] = x[f]
    BY <2>1, <2>3 DEF Menus!Settings, Menus!Played, Menus!Sound
  <2>5. conf' \in [Menus!Kept -> 0 .. 1] /\ \A f \in Menus!Kept : conf'[f] = x[f]
    BY <1>0, <2>1, <2>3 DEF MenuInv, Menus!SetupTypeOK, KeptAgrees, Menus!Kept, Menus!Settings
  <2> QED
    BY <2>1, <2>2, <2>4, <2>5, LeavesKeeps
<1> QED
  BY <1>1, <1>2

LEMMA MediaKeeps ==
  ASSUME MenuInv, Menus!MediaLeaves
  PROVE  MenuInv'
  BY StoredOrNotKeeps DEF Menus!MediaLeaves, Tried, Sent

LEMMA WindowReportedKeeps ==
  ASSUME MenuInv, Menus!WindowReported
  PROVE  MenuInv'
<1>1. /\ "osd_auto" \in Menus!Settings /\ "osd_auto" \notin Menus!Played
      /\ "extsub" \in Menus!Settings /\ "alpha" \in Menus!Settings
      /\ Menus!Played \subseteq Menus!Settings
  BY DEF Menus!Settings, Menus!Played, Menus!Sound, Menus!Kept
<1>2. /\ xc' \in [Menus!Settings -> 0 .. 1]
      /\ \A f \in Menus!Settings \ {"osd_auto"} : xc'[f] = xc[f]
  <2>1. xc \in [Menus!Settings -> 0 .. 1] /\ 1 - xc["osd_auto"] \in 0 .. 1
    BY <1>1 DEF MenuInv, Menus!SetupTypeOK
  <2> QED
    BY <1>1, <2>1 DEF Menus!WindowReported
<1>3. UNCHANGED <<menu, played, conf>>
  BY DEF Menus!WindowReported
<1>4. Menus!SetupTypeOK'
  BY <1>2, <1>3 DEF MenuInv, Menus!SetupTypeOK
<1>5. CopyAgrees' /\ FrontendsAgree' /\ MainAgrees'
  BY <1>1, <1>2, <1>3 DEF MenuInv, CopyAgrees, FrontendsAgree, MainAgrees
<1>6. KeptAgrees' /\ CopyIsConfig'
  BY <1>1, <1>2, <1>3 DEF MenuInv, KeptAgrees, CopyIsConfig
<1> QED
  BY <1>4, <1>5, <1>6 DEF MenuInv

LEMMA MainPage ==
  ASSUME MenuInv, menu.page = "main"
  PROVE  /\ xc \in [Menus!Settings -> 0 .. 1] /\ menu.newconfig \in [Menus!Settings -> 0 .. 1]
         /\ Sent.main \subseteq Menus!Played /\ Menus!Played \subseteq Menus!Settings
         /\ \A f \in Menus!Played \ Sent.main : played[f] = xc[f]
         /\ \A f \in Sent.main : played[f] = menu.newconfig[f]
<1>1. /\ xc \in [Menus!Settings -> 0 .. 1] /\ menu.newconfig \in [Menus!Settings -> 0 .. 1]
  BY ConfigCopy
<1>2. Sent.main \subseteq Menus!Played /\ Menus!Played \subseteq Menus!Settings
  BY DEF Sent, Menus!Settings, Menus!Played, Menus!Sound
<1>3. \A f \in Menus!Played \ Sent.main : played[f] = xc[f]
  BY DEF MenuInv, FrontendsAgree
<1>4. \A f \in Sent.main : played[f] = menu.newconfig[f]
  BY DEF MenuInv, MainAgrees
<1> QED
  BY <1>1, <1>2, <1>3, <1>4

LEMMA MainKeyKeeps ==
  ASSUME MenuInv, Menus!MainKey
  PROVE  MenuInv'
<1>0. menu.page = "main"
  BY DEF Menus!MainKey
<1>1. PICK f \in Sent.main :
        \E n \in Menus!Choices(f) :
          Menus!Tries(n, Menus!Configured([xc EXCEPT ![f] = n[f]],
                                          IF f = "compression" THEN Menus!Sound ELSE {f}))
  BY DEF Menus!MainKey, Sent
<1>2. PICK n \in Menus!Choices(f) :
        Menus!Tries(n, Menus!Configured([xc EXCEPT ![f] = n[f]],
                                        IF f = "compression" THEN Menus!Sound ELSE {f}))
  BY <1>1
<1> DEFINE F == IF f = "compression" THEN Menus!Sound ELSE {f}
           x == [xc EXCEPT ![f] = n[f]]
           d == Menus!Configured(x, F)
<1>3. f \in Menus!Played /\ f \in Menus!Settings /\ f \in F
  BY <1>0, MainPage DEF Menus!Sound
<1>4. /\ n \in [Menus!Settings -> 0 .. 1]
      /\ \A g \in Menus!Settings \ {f} : n[g] = menu.newconfig[g]
  BY <1>0, <1>3, ChoiceFacts
<1>5. /\ x \in [Menus!Settings -> 0 .. 1] /\ x[f] = n[f]
      /\ \A g \in Menus!Settings \ {f} : x[g] = xc[g]
  BY <1>0, <1>3, <1>4, MainPage
<1>6. \A g \in (F \cap Menus!Played) \ {f} : g \notin Sent.main
  BY DEF Sent, Menus!Sound
<1>7. Menus!Tries(n, d)
  BY <1>2
<1> HIDE DEF F, x
<1>8. \A g \in (F \cap Menus!Played) \ {f} : x[g] = played[g]
  BY <1>0, <1>5, <1>6, MainPage
<1>9. /\ d \in [Menus!Played -> 0 .. 1] /\ d[f] = n[f]
      /\ \A g \in Menus!Played \ {f} : d[g] = played[g]
  BY <1>3, <1>5, <1>8, SentAgain
<1> HIDE DEF d
<1>10. \A g \in Sent.main : d[g] = n[g]
  BY <1>0, <1>4, <1>9, MainPage
<1>11. /\ \A g \in Menus!Settings \ Tried.main : n[g] = menu.newconfig[g]
       /\ \A g \in Menus!Played \ Sent.main : d[g] = played[g]
  <2>1. f \in Tried.main
    BY DEF Tried, Sent
  <2> QED
    BY <1>4, <1>9, <2>1
<1>12. /\ n \in [Menus!Settings -> 0 .. 2] /\ \A g \in Menus!Settings : n[g] \in 0 .. 1
       /\ "extsub" \in Menus!Settings
  BY <1>4 DEF Menus!Settings, Menus!Kept
<1> QED
  BY <1>0, <1>7, <1>9, <1>10, <1>11, <1>12, TriesKeeps

(* A setting that is not sent again is what the frontends have already.    *)
LEMMA MainLeavesKeeps ==
  ASSUME MenuInv, Menus!MainLeaves
  PROVE  MenuInv'
<1>0. menu.page = "main"
  BY DEF Menus!MainLeaves
<1>1. PICK x \in {Menus!MainStored, xc} :
        Menus!Leaves(x, Menus!MainDiffers(x)) /\ UNCHANGED conf
  BY DEF Menus!MainLeaves
<1> DEFINE F == Menus!MainDiffers(x)
<1>2. /\ x \in [Menus!Settings -> 0 .. 1]
      /\ \A f \in Menus!Settings \ Sent.main : x[f] = xc[f]
  BY <1>0, <1>1, MainPage DEF Menus!MainStored, Sent
<1>3. \A f \in Sent.main \ F : x[f] = menu.newconfig[f]
  BY DEF Menus!MainDiffers, Sent, Menus!Sound
<1>4. Menus!Leaves(x, F) /\ UNCHANGED conf
  BY <1>1
<1> HIDE DEF F
<1>5. \A f \in Menus!Played \ F : played[f] = x[f]
  BY <1>0, <1>2, <1>3, MainPage
<1>6. conf' \in [Menus!Kept -> 0 .. 1] /\ \A f \in Menus!Kept : conf'[f] = x[f]
  <2>1. \A f \in Menus!Kept : conf[f] = xc[f]
    BY <1>0 DEF MenuInv, KeptAgrees, Menus!Kept
  <2>2. Menus!Kept \subseteq Menus!Settings \ Sent.main
    BY DEF Menus!Kept, Menus!Settings, Sent
  <2> QED
    BY <1>2, <1>4, <2>1, <2>2 DEF MenuInv, Menus!SetupTypeOK
<1> QED
  BY <1>2, <1>4, <1>5, <1>6, LeavesKeeps

LEMMA HotkeyKeeps ==
  ASSUME MenuInv, Menus!Hotkey
  PROVE  MenuInv'
<1>0. menu.page = "main" /\ Menus!MainDiffers(xc) = {} /\ UNCHANGED conf
  BY DEF Menus!Hotkey
<1>1. PICK f \in {"aspect", "picture", "autocrop", "deinterlace", "upmix", "surround",
                  "compression"} \cap Edited :
        \E v \in 0 .. 1 :
          Menus!Leaves([xc EXCEPT ![f] = v], IF f \in Menus!Sound THEN Menus!Sound ELSE {f})
  BY DEF Menus!Hotkey
<1>2. PICK v \in 0 .. 1 :
        Menus!Leaves([xc EXCEPT ![f] = v], IF f \in Menus!Sound THEN Menus!Sound ELSE {f})
  BY <1>1
<1> DEFINE F == IF f \in Menus!Sound THEN Menus!Sound ELSE {f}
           x == [xc EXCEPT ![f] = v]
<1>3. f \in F /\ f \in Menus!Played
  BY DEF Menus!Played, Menus!Sound
<1>4. \A g \in Menus!Played : played[g] = xc[g]
  <2>1. \A g \in Sent.main : xc[g] = menu.newconfig[g]
    BY <1>0 DEF Menus!MainDiffers, Sent, Menus!Sound
  <2> QED
    BY <1>0, <2>1, MainPage
<1>5. /\ x \in [Menus!Settings -> 0 .. 1]
      /\ \A g \in Menus!Settings \ {f} : x[g] = xc[g]
  BY <1>0, <1>3, MainPage
<1>6. Menus!Leaves(x, F)
  BY <1>2
<1> HIDE DEF F, x
<1>7. \A g \in Menus!Played \ F : played[g] = x[g]
  BY <1>0, <1>3, <1>4, <1>5, MainPage
<1>8. conf' \in [Menus!Kept -> 0 .. 1] /\ \A g \in Menus!Kept : conf'[g] = x[g]
  <2>1. \A g \in Menus!Kept : conf[g] = xc[g]
    BY <1>0 DEF MenuInv, KeptAgrees, Menus!Kept
  <2>2. Menus!Kept \subseteq Menus!Settings \ {f}
    BY DEF Menus!Kept, Menus!Settings
  <2> QED
    BY <1>0, <1>5, <2>1, <2>2 DEF MenuInv, Menus!SetupTypeOK
<1> QED
  BY <1>5, <1>6, <1>7, <1>8, LeavesKeeps

LEMMA PageOpens ==
  ASSUME MenuInv,
         \/ Menus!AudioOpens \/ Menus!EqOpens \/ Menus!VideoOpens \/ Menus!OsdOpens
         \/ Menus!LocalOpens \/ Menus!RemoteOpens \/ Menus!MediaOpens \/ Menus!MainOpens
  PROVE  MenuInv'
<1>1. xc \in [Menus!Settings -> 0 .. 1] /\ "extsub" \in Menus!Settings
  BY DEF MenuInv, Menus!SetupTypeOK, Menus!Settings, Menus!Kept
<1>2. xc \in [Menus!Settings -> 0 .. 2]
  BY <1>1
<1>3. CASE Menus!OsdOpens
  <2> DEFINE n == [xc EXCEPT !["extsub"] = @ + 1]
  <2>1. n \in [Menus!Settings -> 0 .. 2]
    <3>1. xc["extsub"] + 1 \in 0 .. 2
      BY <1>1
    <3> QED
      BY <1>2, <3>1
  <2>2. Menus!Opens("osd", n)
    BY <1>3 DEF Menus!OsdOpens
  <2> QED
    BY <2>1, <2>2, OpensKeeps
<1>4. CASE \E p \in {"main", "audio", "eq", "video", "local", "remote", "media"} : Menus!Opens(p, xc)
  BY <1>2, <1>4, OpensKeeps
<1> QED
  BY <1>3, <1>4
  DEF Menus!AudioOpens, Menus!EqOpens, Menus!VideoOpens, Menus!LocalOpens, Menus!RemoteOpens,
      Menus!MediaOpens, Menus!MainOpens

LEMMA MenuInvNext == MenuInv /\ [Next]_vars => MenuInv'
<1> SUFFICES ASSUME MenuInv, [Next]_vars PROVE MenuInv'
  OBVIOUS
<1>1. CASE Menus!SetupNext
  BY <1>1, PageOpens, AudioKeeps, EqKeeps, VideoKeeps, OsdKeeps, LocalKeeps, DecoderKeeps,
     RemoteKeeps, MediaKeeps, MainKeyKeeps, MainLeavesKeeps, HotkeyKeeps, WindowReportedKeeps
  DEF Menus!SetupNext
<1>2. CASE UNCHANGED menuVars
  BY <1>2 DEF menuVars, MenuInv, Menus!SetupTypeOK, CopyAgrees, FrontendsAgree, MainAgrees,
              KeptAgrees, CopyIsConfig
<1>3. Menus!SetupNext \/ UNCHANGED menuVars
  BY DEF Next, Step, OthersStay, Stopped, vars
<1> QED
  BY <1>1, <1>2, <1>3

(* However the pages are used, stored or left with Back, with hot keys and *)
(* reports of the window's size in between: when no page is open, the      *)
(* frontends play with the configuration, and what it has of the OSD is    *)
(* what setup.conf has (the destructors and Store() of setup_menu.c).      *)
THEOREM SettingsArePlayed == Spec => []SettingsPlayed
<1>1. Init => MenuInv
  BY MenuInvInit DEF Init
<1>2. MenuInv => SettingsPlayed
  BY DEF MenuInv, FrontendsAgree, KeptAgrees, Sent, SettingsPlayed, Menus!DeviceAsConfigured,
         Menus!Kept
<1> QED
  BY <1>1, <1>2, MenuInvNext, PTL DEF Spec

-----------------------------------------------------------------------------
(* The connection table.  That every descriptor has one place is kept by   *)
(* each handler as a whole, from any table that is sound: the lemmas are   *)
(* about one handler each, and the order in which clients, poll events and *)
(* VDR's calls come does not matter.                                       *)

NoFd == Table!NoFd

FdTable == [Clients -> Fds \cup {NoFd}]

ConnTypes == {"detecting", "control", "http", "rtsp"}

Tables == [fd_control : FdTable, fd_data : FdTable, fd_osd : FdTable, m_Writer : FdTable,
           m_ConnType : [Clients -> ConnTypes],
           m_bUdp : SUBSET Clients, m_iMulticastMask : SUBSET Clients,
           m_bConfigOk : SUBSET Clients, m_bOsdConn : SUBSET Clients,
           m_MasterCli : Clients \cup {NoFd}, m_Handles : SUBSET Fds, rtp : BOOLEAN,
           m_Streamers : SUBSET Fds, primary : Int, fd_listen : Fds \cup {NoFd},
           open : SUBSET Fds]

(* Every open descriptor is in one place of the server, and no other is in *)
(* any, but for the numbers in R: those of refused clients.                *)
OwnedBut(control, data, osds, str, lis, open, R) ==
  /\ \A c \in Clients : /\ control[c] \in open \cup R \cup {NoFd} /\ data[c] \in open \cup R \cup {NoFd}
                        /\ osds[c] \in open \cup R \cup {NoFd}
  /\ str \subseteq open \cup R /\ lis \in open \cup R \cup {NoFd} /\ (lis \in str => lis \in R)
  /\ \A c, d \in Clients :
       /\ control[c] \notin R \cup {NoFd} =>
            (control[d] = control[c] => d = c) /\ data[d] # control[c] /\ osds[d] # control[c]
       /\ data[c] \notin R \cup {NoFd} => (data[d] = data[c] => d = c) /\ osds[d] # data[c]
       /\ osds[c] \notin R \cup {NoFd} => (osds[d] = osds[c] => d = c)
  /\ \A c \in Clients :
       /\ (control[c] \in str => control[c] \in R) /\ (data[c] \in str => data[c] \in R)
       /\ (osds[c] \in str => osds[c] \in R)
       /\ lis \notin R \cup {NoFd} => control[c] # lis /\ data[c] # lis /\ osds[c] # lis
  /\ \A fd \in open : fd \in str \/ fd = lis
                      \/ \E c \in Clients : control[c] = fd \/ data[c] = fd \/ osds[c] = fd

(* What sends agrees with the slots.                                       *)
MatchedBut(control, data, udp, mask, handles, rtp, writer, R) ==
  /\ handles \subseteq {data[c] : c \in udp}
  /\ \A c \in udp : data[c] \in handles \cup R
  /\ UseRtp => (rtp <=> (RtpAlwaysOn \/ mask # {}))
  /\ \A c \in Clients : writer[c] # NoFd => writer[c] = data[c] \/ writer[c] = control[c]

Owned(control, data, osds, str, lis, open) ==
  OwnedBut(control, data, osds, str, lis, open, refused)

Matched(control, data, udp, mask, handles, rtp, writer) ==
  MatchedBut(control, data, udp, mask, handles, rtp, writer, refused)

Counted(control, primary) == primary >= Cardinality({c \in Clients : control[c] # NoFd})

TableSound(s) ==
  /\ s \in Tables
  /\ Owned(s.fd_control, s.fd_data, s.fd_osd, s.m_Streamers, s.fd_listen, s.open)
  /\ Matched(s.fd_control, s.fd_data, s.m_bUdp, s.m_iMulticastMask, s.m_Handles, s.rtp, s.m_Writer)
  /\ Counted(s.fd_control, s.primary)

(* The server thread's step, and the slot whose image it reads.            *)
ThreadSound(t) == /\ {"pc", "cli"} \subseteq DOMAIN t
                  /\ t.pc = "grab" => t.cli \in Clients

TableInv == TableSound(srv) /\ ThreadSound(thread) /\ refused \subseteq Fds

LEMMA NoFdIsNone == NoFd \notin Fds
BY TableAssumption DEF NoFd, Table!NoFd

LEMMA SameCardinality == ASSUME NEW S PROVE Table!Cardinality(S) = Cardinality(S)
BY DEF Table!Cardinality, Cardinality

LEMMA WithoutTable ==
  ASSUME NEW f \in FdTable, NEW clis \in SUBSET Clients
  PROVE  LET g == Table!Without(f, clis)
         IN  g \in FdTable /\ \A c \in Clients : g[c] = IF c \in clis THEN NoFd ELSE f[c]
BY DEF Table!Without, FdTable, NoFd

(* A table without some of its descriptors, which are closed.              *)
LEMMA OwnedWithoutData ==
  ASSUME NEW control \in FdTable, NEW data \in FdTable, NEW osds \in FdTable, NEW str, NEW lis, NEW open,
         Owned(control, data, osds, str, lis, open), open \subseteq Fds, NEW clis \in SUBSET Clients,
         NEW g \in FdTable, \A c \in Clients : g[c] = IF c \in clis THEN NoFd ELSE data[c]
  PROVE  Owned(control, g, osds, str, lis, open \ {data[c] : c \in clis})
BY NoFdIsNone DEF Owned, OwnedBut

LEMMA OwnedWithoutOsd ==
  ASSUME NEW control \in FdTable, NEW data \in FdTable, NEW osds \in FdTable, NEW str, NEW lis, NEW open,
         Owned(control, data, osds, str, lis, open), open \subseteq Fds, NEW clis \in SUBSET Clients,
         NEW g \in FdTable, \A c \in Clients : g[c] = IF c \in clis THEN NoFd ELSE osds[c]
  PROVE  Owned(control, data, g, str, lis, open \ {osds[c] : c \in clis})
BY NoFdIsNone DEF Owned, OwnedBut

LEMMA OwnedWithoutControl ==
  ASSUME NEW control \in FdTable, NEW data \in FdTable, NEW osds \in FdTable, NEW str, NEW lis, NEW open,
         Owned(control, data, osds, str, lis, open), open \subseteq Fds, NEW clis \in SUBSET Clients,
         NEW g \in FdTable, \A c \in Clients : g[c] = IF c \in clis THEN NoFd ELSE control[c]
  PROVE  Owned(g, data, osds, str, lis, open \ {control[c] : c \in clis})
BY NoFdIsNone DEF Owned, OwnedBut

LEMMA CloseDataFields ==
  ASSUME NEW s \in Tables, NEW clis \in SUBSET Clients
  PROVE  LET t == Table!CloseDataConnections(s, clis)
             mask == s.m_iMulticastMask \ clis
         IN  /\ t \in Tables
             /\ t.open = s.open \ {s.fd_data[c] : c \in clis}
             /\ t.m_Handles = s.m_Handles \ {s.fd_data[c] : c \in clis \cap s.m_bUdp}
             /\ t.fd_data = Table!Without(s.fd_data, clis)
             /\ t.m_Writer = Table!Without(s.m_Writer, clis)
             /\ t.m_bUdp = s.m_bUdp \ clis /\ t.m_bConfigOk = s.m_bConfigOk \ clis
             /\ t.m_iMulticastMask = mask
             /\ t.rtp = IF mask = {} /\ ~RtpAlwaysOn THEN FALSE ELSE s.rtp
             /\ t.fd_control = s.fd_control /\ t.fd_osd = s.fd_osd /\ t.m_ConnType = s.m_ConnType
             /\ t.m_bOsdConn = s.m_bOsdConn /\ t.m_Streamers = s.m_Streamers
             /\ t.primary = s.primary /\ t.fd_listen = s.fd_listen
<1> PICK open \in SUBSET Fds : open = s.open \ {s.fd_data[c] : c \in clis}
  BY DEF Tables
<1> PICK handles \in SUBSET Fds : handles = s.m_Handles \ {s.fd_data[c] : c \in clis \cap s.m_bUdp}
  BY DEF Tables
<1> PICK data \in FdTable : data = Table!Without(s.fd_data, clis)
  BY WithoutTable DEF Tables
<1> PICK writer \in FdTable : writer = Table!Without(s.m_Writer, clis)
  BY WithoutTable DEF Tables
<1> PICK udp \in SUBSET Clients : udp = s.m_bUdp \ clis
  BY DEF Tables
<1> PICK ready \in SUBSET Clients : ready = s.m_bConfigOk \ clis
  BY DEF Tables
<1> PICK mask \in SUBSET Clients : mask = s.m_iMulticastMask \ clis
  BY DEF Tables
<1> PICK master \in Clients \cup {NoFd} : master = IF s.m_MasterCli \in clis THEN Table!NoFd ELSE s.m_MasterCli
  BY DEF Tables, NoFd
<1> PICK rtp \in BOOLEAN : rtp = IF mask = {} /\ ~RtpAlwaysOn THEN FALSE ELSE s.rtp
  BY DEF Tables
<1> DEFINE t == Table!CloseDataConnections(s, clis)
<1>1. t = [s EXCEPT !.open = open, !.m_Handles = handles, !.fd_data = data, !.m_Writer = writer,
                    !.m_bUdp = udp, !.m_bConfigOk = ready, !.m_iMulticastMask = mask,
                    !.m_MasterCli = master, !.rtp = rtp]
  BY ZenonT(30) DEF Table!CloseDataConnections, Table!RemoveRtp, Tables
<1> HIDE DEF t
<1>2. t \in Tables
  BY ONLY <1>1, s \in Tables, open \in SUBSET Fds, handles \in SUBSET Fds, data \in FdTable, writer \in FdTable,
    udp \in SUBSET Clients, ready \in SUBSET Clients, mask \in SUBSET Clients, master \in Clients \cup {NoFd}, rtp \in BOOLEAN DEF Tables
<1>3. t.open = open /\ t.m_Handles = handles /\ t.fd_data = data /\ t.m_Writer = writer /\ t.m_bUdp = udp
      /\ t.m_bConfigOk = ready /\ t.m_iMulticastMask = mask /\ t.m_MasterCli = master
  BY ONLY <1>1, s \in Tables DEF Tables
<1>4. t.rtp = rtp /\ t.fd_control = s.fd_control /\ t.fd_osd = s.fd_osd /\ t.m_ConnType = s.m_ConnType
      /\ t.m_bOsdConn = s.m_bOsdConn /\ t.m_Streamers = s.m_Streamers
  BY ONLY <1>1, s \in Tables DEF Tables
<1>5. t.primary = s.primary /\ t.fd_listen = s.fd_listen
  BY ONLY <1>1, s \in Tables DEF Tables
<1> QED
  BY <1>2, <1>3, <1>4, <1>5 DEF t

(* Closing data connections takes their sockets from the scheduler, and no *)
(* other's.                                                                *)
LEMMA CloseDataKeeps ==
  ASSUME NEW s, TableSound(s), NEW clis \in SUBSET Clients
  PROVE  LET t == Table!CloseDataConnections(s, clis)
         IN  /\ TableSound(t)
             /\ t.fd_control = s.fd_control /\ t.fd_osd = s.fd_osd /\ t.m_ConnType = s.m_ConnType
             /\ t.m_bOsdConn = s.m_bOsdConn /\ t.m_Streamers = s.m_Streamers
             /\ t.primary = s.primary /\ t.fd_listen = s.fd_listen
             /\ t.open \subseteq s.open /\ t.m_bUdp = s.m_bUdp \ clis
             /\ \A c \in Clients : t.fd_data[c] = IF c \in clis THEN NoFd ELSE s.fd_data[c]
             /\ \A c \in Clients : t.m_Writer[c] = IF c \in clis THEN NoFd ELSE s.m_Writer[c]
<1> DEFINE t == Table!CloseDataConnections(s, clis)
<1> s \in Tables
  BY DEF TableSound
<1>1. /\ t \in Tables
      /\ t.open = s.open \ {s.fd_data[c] : c \in clis}
      /\ t.m_Handles = s.m_Handles \ {s.fd_data[c] : c \in clis \cap s.m_bUdp}
      /\ t.fd_data = Table!Without(s.fd_data, clis)
      /\ t.m_Writer = Table!Without(s.m_Writer, clis)
      /\ t.m_bUdp = s.m_bUdp \ clis
      /\ t.m_iMulticastMask = s.m_iMulticastMask \ clis
      /\ t.rtp = IF s.m_iMulticastMask \ clis = {} /\ ~RtpAlwaysOn THEN FALSE ELSE s.rtp
      /\ t.fd_control = s.fd_control /\ t.fd_osd = s.fd_osd /\ t.m_ConnType = s.m_ConnType
      /\ t.m_bOsdConn = s.m_bOsdConn /\ t.m_Streamers = s.m_Streamers
      /\ t.primary = s.primary /\ t.fd_listen = s.fd_listen
  BY ZenonT(30), CloseDataFields
<1> HIDE DEF t
<1>2. /\ s.fd_control \in FdTable /\ s.fd_data \in FdTable /\ s.fd_osd \in FdTable
      /\ s.m_Writer \in FdTable /\ s.open \subseteq Fds /\ s.m_bUdp \in SUBSET Clients
      /\ s.m_iMulticastMask \in SUBSET Clients /\ s.rtp \in BOOLEAN
  BY DEF Tables
<1>3. /\ t.fd_data \in FdTable /\ \A c \in Clients : t.fd_data[c] = IF c \in clis THEN NoFd ELSE s.fd_data[c]
      /\ t.m_Writer \in FdTable /\ \A c \in Clients : t.m_Writer[c] = IF c \in clis THEN NoFd ELSE s.m_Writer[c]
  BY <1>1, <1>2, WithoutTable
<1>4. Owned(t.fd_control, t.fd_data, t.fd_osd, t.m_Streamers, t.fd_listen, t.open)
  BY <1>1, <1>2, <1>3, OwnedWithoutData DEF TableSound
<1>5. t.rtp \in BOOLEAN
  BY <1>1 DEF Tables
<1>6. Matched(t.fd_control, t.fd_data, t.m_bUdp, t.m_iMulticastMask, t.m_Handles, t.rtp, t.m_Writer)
  <2>1. /\ Owned(s.fd_control, s.fd_data, s.fd_osd, s.m_Streamers, s.fd_listen, s.open)
        /\ Matched(s.fd_control, s.fd_data, s.m_bUdp, s.m_iMulticastMask, s.m_Handles, s.rtp,
                   s.m_Writer)
    BY DEF TableSound
  <2>2. t.m_Handles \subseteq {t.fd_data[c] : c \in t.m_bUdp}
        /\ \A c \in t.m_bUdp : t.fd_data[c] \in t.m_Handles \cup refused
    <3>1. ASSUME NEW fd \in t.m_Handles PROVE \E c \in t.m_bUdp : t.fd_data[c] = fd
      <4> PICK c \in s.m_bUdp : s.fd_data[c] = fd
        BY <1>1, <2>1, <3>1 DEF Matched, MatchedBut
      <4>1. c \notin clis
        BY <1>1, <3>1
      <4> QED
        BY <1>1, <1>2, <1>3, <4>1
    <3>2. ASSUME NEW c \in t.m_bUdp PROVE t.fd_data[c] \in t.m_Handles \cup refused
      <4>1. c \in Clients /\ c \in s.m_bUdp /\ c \notin clis /\ t.fd_data[c] = s.fd_data[c]
        BY <1>1, <1>2, <1>3
      <4>2. s.fd_data[c] \in s.m_Handles \cup refused
        BY <2>1, <4>1 DEF Matched, MatchedBut
      <4>3. s.fd_data[c] \in refused \cup {NoFd} \/ \A d \in Clients : s.fd_data[d] = s.fd_data[c] => d = c
        BY <2>1, <4>1 DEF Owned, OwnedBut
      <4>4. s.fd_data[c] # NoFd \/ s.fd_data[c] \in refused
        BY <4>2, NoFdIsNone DEF Tables
      <4> QED
        BY <1>1, <1>2, <4>1, <4>2, <4>3, <4>4
    <3> QED
      BY <3>1, <3>2
  <2>3. UseRtp => (t.rtp <=> (RtpAlwaysOn \/ t.m_iMulticastMask # {}))
    BY <1>1, <1>2, <2>1, TableAssumption DEF Matched, MatchedBut
  <2>4. \A c \in Clients : t.m_Writer[c] # NoFd => t.m_Writer[c] = t.fd_data[c] \/ t.m_Writer[c] = t.fd_control[c]
    BY <1>1, <1>3, <2>1 DEF Matched, MatchedBut
  <2> QED
    BY <2>2, <2>3, <2>4 DEF Matched, MatchedBut
<1> QED
  BY <1>1, <1>3, <1>4, <1>6 DEF TableSound, t

LEMMA CloseOsdKeeps ==
  ASSUME NEW s, TableSound(s), NEW clis \in SUBSET Clients
  PROVE  LET t == Table!CloseOsdConnections(s, clis)
         IN  /\ TableSound(t)
             /\ t.fd_control = s.fd_control /\ t.fd_data = s.fd_data /\ t.m_ConnType = s.m_ConnType
             /\ t.m_bOsdConn = s.m_bOsdConn /\ t.m_Streamers = s.m_Streamers
             /\ t.primary = s.primary /\ t.fd_listen = s.fd_listen
             /\ t.open \subseteq s.open /\ t.m_bUdp = s.m_bUdp /\ t.m_Writer = s.m_Writer
             /\ \A c \in Clients : t.fd_osd[c] = IF c \in clis THEN NoFd ELSE s.fd_osd[c]
<1> s \in Tables
  BY DEF TableSound
<1>2. /\ s.fd_control \in FdTable /\ s.fd_data \in FdTable /\ s.fd_osd \in FdTable
      /\ s.open \subseteq Fds
  BY DEF Tables
<1> PICK open \in SUBSET Fds : open = s.open \ {s.fd_osd[c] : c \in clis}
  BY DEF Tables
<1> PICK osds \in FdTable : osds = Table!Without(s.fd_osd, clis)
  BY <1>2, WithoutTable
<1>3. \A c \in Clients : osds[c] = IF c \in clis THEN NoFd ELSE s.fd_osd[c]
  BY <1>2, WithoutTable
<1> DEFINE t == Table!CloseOsdConnections(s, clis)
<1>4. t = [s EXCEPT !.open = open, !.fd_osd = osds]
  BY DEF Table!CloseOsdConnections, Tables
<1> HIDE DEF t
<1>5. t \in Tables
  BY ONLY <1>4, s \in Tables, open \in SUBSET Fds, osds \in FdTable DEF Tables
<1>6. /\ t.open = open /\ t.fd_osd = osds
      /\ t.fd_control = s.fd_control /\ t.fd_data = s.fd_data /\ t.m_ConnType = s.m_ConnType
      /\ t.m_bOsdConn = s.m_bOsdConn /\ t.m_Streamers = s.m_Streamers
  BY ONLY <1>4, s \in Tables DEF Tables
<1>7. /\ t.primary = s.primary /\ t.fd_listen = s.fd_listen /\ t.m_bUdp = s.m_bUdp
      /\ t.m_Writer = s.m_Writer /\ t.m_iMulticastMask = s.m_iMulticastMask /\ t.m_Handles = s.m_Handles
      /\ t.rtp = s.rtp
  BY ONLY <1>4, s \in Tables DEF Tables
<1>8. Owned(t.fd_control, t.fd_data, t.fd_osd, t.m_Streamers, t.fd_listen, t.open)
  BY <1>2, <1>3, <1>6, <1>7, OwnedWithoutOsd DEF TableSound
<1> QED
  BY <1>3, <1>5, <1>6, <1>7, <1>8 DEF TableSound, t

(* The connections that are left when some are closed.                     *)
LEMMA CountedWithout ==
  ASSUME NEW control \in FdTable, NEW primary \in Int, Counted(control, primary),
         NEW clis \in SUBSET Clients,
         NEW g \in FdTable, \A c \in Clients : g[c] = IF c \in clis THEN NoFd ELSE control[c]
  PROVE  /\ Cardinality(clis \cap {c \in Clients : control[c] # NoFd}) \in Nat
         /\ Counted(g, primary - Cardinality(clis \cap {c \in Clients : control[c] # NoFd}))
<1> DEFINE used == {c \in Clients : control[c] # NoFd}
           left == {c \in Clients : g[c] # NoFd}
           closed == clis \cap used
<1>1. left = used \ clis /\ closed = used \cap clis
  OBVIOUS
<1>2. IsFiniteSet(used)
  BY FS_Subset, TableAssumption
<1> HIDE DEF used, left, closed
<1>3. IsFiniteSet(closed) /\ IsFiniteSet(left) /\ Cardinality(left) = Cardinality(used) - Cardinality(closed)
  BY <1>1, <1>2, FS_Difference, FS_Intersection
<1>4. Cardinality(used) \in Nat /\ Cardinality(closed) \in Nat /\ Cardinality(left) \in Nat
  BY <1>2, <1>3, FS_CardinalityType
<1>5. primary >= Cardinality(used)
  BY DEF Counted, used
<1>6. primary - Cardinality(closed) >= Cardinality(left)
  BY <1>3, <1>4, <1>5
<1> QED
  BY <1>4, <1>6 DEF Counted, used, left, closed

LEMMA CloseKeeps ==
  ASSUME NEW s, TableSound(s), NEW clis \in SUBSET Clients
  PROVE  LET t == Table!CloseConnections(s, clis)
         IN  TableSound(t) /\ t.open \subseteq s.open
<1> DEFINE d == Table!CloseDataConnections(s, clis)
           u == Table!CloseOsdConnections(d, clis)
           t == Table!CloseConnections(s, clis)
<1>1. /\ TableSound(d) /\ d.fd_control = s.fd_control /\ d.primary = s.primary /\ d.open \subseteq s.open
      /\ d.m_bOsdConn = s.m_bOsdConn
      /\ \A c \in Clients : d.m_Writer[c] = IF c \in clis THEN NoFd ELSE s.m_Writer[c]
  BY CloseDataKeeps
<1> HIDE DEF d
<1>2. /\ TableSound(u) /\ u.fd_control = d.fd_control /\ u.primary = d.primary /\ u.open \subseteq d.open
      /\ u.m_bOsdConn = d.m_bOsdConn /\ u.m_Writer = d.m_Writer
  BY <1>1, CloseOsdKeeps
<1>3. t = [u EXCEPT !.m_bOsdConn = @ \ clis, !.open = @ \ {s.fd_control[c] : c \in clis},
                    !.fd_control = Table!Without(@, clis),
                    !.primary = @ - Cardinality(clis \cap {c \in Clients : s.fd_control[c] # NoFd})]
  BY SameCardinality DEF Table!CloseConnections, Table!InUse, d, NoFd
<1> HIDE DEF u
<1>4. u \in Tables
  BY <1>2 DEF TableSound
<1>5. /\ u.fd_control \in FdTable /\ u.fd_data \in FdTable /\ u.fd_osd \in FdTable
      /\ u.open \subseteq Fds /\ u.primary \in Int /\ u.m_bOsdConn \in SUBSET Clients
  BY <1>4 DEF Tables
<1> PICK open \in SUBSET Fds : open = u.open \ {u.fd_control[c] : c \in clis}
  BY <1>5
<1> PICK control \in FdTable : control = Table!Without(u.fd_control, clis)
  BY <1>5, WithoutTable
<1>6. \A c \in Clients : control[c] = IF c \in clis THEN NoFd ELSE u.fd_control[c]
  BY <1>5, WithoutTable
<1> DEFINE n == Cardinality(clis \cap {c \in Clients : u.fd_control[c] # NoFd})
<1>7. n \in Nat /\ Counted(control, u.primary - n)
  BY <1>2, <1>5, <1>6, CountedWithout DEF TableSound
<1>a. n = Cardinality(clis \cap {c \in Clients : u.fd_control[c] # NoFd})
  OBVIOUS
<1> HIDE DEF n
<1> PICK primary \in Int : primary = u.primary - n
  BY <1>5, <1>7
<1> PICK osdConn \in SUBSET Clients : osdConn = u.m_bOsdConn \ clis
  BY <1>5
<1>8. t = [u EXCEPT !.m_bOsdConn = osdConn, !.open = open, !.fd_control = control, !.primary = primary]
  BY <1>1, <1>2, <1>3, <1>4, <1>a DEF Tables
<1> HIDE DEF t
<1>9. t \in Tables
  BY ONLY <1>8, u \in Tables, <1>4, osdConn \in SUBSET Clients, open \in SUBSET Fds, control \in FdTable,
          primary \in Int DEF Tables
<1>10. t.open = open /\ t.fd_control = control /\ t.primary = primary /\ t.fd_data = u.fd_data
       /\ t.fd_osd = u.fd_osd /\ t.m_Streamers = u.m_Streamers /\ t.fd_listen = u.fd_listen
  BY ONLY <1>8, <1>4 DEF Tables
<1>11. t.m_bUdp = u.m_bUdp /\ t.m_iMulticastMask = u.m_iMulticastMask /\ t.m_Handles = u.m_Handles
       /\ t.rtp = u.rtp /\ t.m_Writer = u.m_Writer
  BY ONLY <1>8, <1>4 DEF Tables
<1>12. Owned(t.fd_control, t.fd_data, t.fd_osd, t.m_Streamers, t.fd_listen, t.open)
  BY <1>2, <1>5, <1>6, <1>10, OwnedWithoutControl DEF TableSound
<1>13. Matched(t.fd_control, t.fd_data, t.m_bUdp, t.m_iMulticastMask, t.m_Handles, t.rtp, t.m_Writer)
  BY <1>1, <1>2, <1>6, <1>10, <1>11 DEF TableSound, Matched, MatchedBut
<1>14. Counted(t.fd_control, t.primary)
  BY <1>7, <1>10
<1>15. t.open \subseteq s.open
  BY <1>1, <1>2, <1>10
<1> QED
  BY <1>9, <1>12, <1>13, <1>14, <1>15 DEF TableSound, t

LEMMA LeastIn == ASSUME NEW S \in SUBSET Nat, S # {} PROVE Table!Min(S) \in S
<1>1. IsWellFoundedOn(OpToRel(<, Nat), Nat)
  BY NatLessThanWellFounded
<1>2. PICK x \in S : \A y \in S : ~ (<<y, x>> \in OpToRel(<, Nat))
  BY <1>1, WFMin
<1>3. \A y \in S : ~ (y < x)
  BY <1>2 DEF OpToRel
<1>4. \A y \in S : x <= y
  BY <1>3
<1> QED
  BY <1>4 DEF Table!Min

LEMMA NewFdIsClosed ==
  ASSUME NEW s, Fds \ s.open # {} PROVE Table!NewFd(s) \in Fds \ s.open
BY LeastIn, TableAssumption DEF Table!NewFd

(* An opened descriptor goes into an empty place.                          *)
LEMMA OwnedWithData ==
  ASSUME NEW control \in FdTable, NEW data \in FdTable, NEW osds \in FdTable, NEW str, NEW lis,
         NEW open \in SUBSET Fds,
         Owned(control, data, osds, str, lis, open), NEW fd \in Fds \ open, NEW cli \in Clients,
         data[cli] = NoFd,
         NEW g \in FdTable, \A c \in Clients : g[c] = IF c = cli THEN fd ELSE data[c]
  PROVE  Owned(control, g, osds, str, lis, open \cup {fd})
<1>1. /\ \A c \in Clients : /\ control[c] \in open \cup refused \cup {NoFd}
                            /\ data[c] \in open \cup refused \cup {NoFd}
                            /\ osds[c] \in open \cup refused \cup {NoFd}
      /\ str \subseteq open \cup refused /\ lis \in open \cup refused \cup {NoFd}
      /\ lis \in str => lis \in refused
  BY DEF Owned, OwnedBut
<1>2. /\ fd # NoFd
      /\ fd \notin refused => /\ fd \notin str /\ fd # lis
                             /\ \A c \in Clients : control[c] # fd /\ osds[c] # fd /\ data[c] # fd
  BY <1>1, NoFdIsNone
<1>3. \A c \in Clients : /\ control[c] \in open \cup {fd} \cup refused \cup {NoFd}
                         /\ g[c] \in open \cup {fd} \cup refused \cup {NoFd}
                         /\ osds[c] \in open \cup {fd} \cup refused \cup {NoFd}
  BY <1>1
<1>4. \A c, d \in Clients :
        /\ control[c] \notin refused \cup {NoFd} =>
             (control[d] = control[c] => d = c) /\ g[d] # control[c] /\ osds[d] # control[c]
        /\ g[c] \notin refused \cup {NoFd} => (g[d] = g[c] => d = c) /\ osds[d] # g[c]
        /\ osds[c] \notin refused \cup {NoFd} => (osds[d] = osds[c] => d = c)
  BY <1>2 DEF Owned, OwnedBut
<1>5. \A c \in Clients :
        /\ (control[c] \in str => control[c] \in refused) /\ (g[c] \in str => g[c] \in refused)
        /\ (osds[c] \in str => osds[c] \in refused)
        /\ lis \notin refused \cup {NoFd} => control[c] # lis /\ g[c] # lis /\ osds[c] # lis
  BY <1>2 DEF Owned, OwnedBut
<1>6. \A f \in open \cup {fd} : f \in str \/ f = lis
                          \/ \E c \in Clients : control[c] = f \/ g[c] = f \/ osds[c] = f
  <2>1. g[cli] = fd
    OBVIOUS
  <2>2. ASSUME NEW f \in open PROVE f \in str \/ f = lis
                          \/ \E c \in Clients : control[c] = f \/ g[c] = f \/ osds[c] = f
    BY NoFdIsNone DEF Owned, OwnedBut
  <2> QED
    BY <2>1, <2>2
<1> QED
  BY <1>1, <1>3, <1>4, <1>5, <1>6 DEF Owned, OwnedBut

LEMMA OwnedWithControl ==
  ASSUME NEW control \in FdTable, NEW data \in FdTable, NEW osds \in FdTable, NEW str, NEW lis,
         NEW open \in SUBSET Fds,
         Owned(control, data, osds, str, lis, open), NEW fd \in Fds \ open, NEW cli \in Clients,
         control[cli] = NoFd,
         NEW g \in FdTable, \A c \in Clients : g[c] = IF c = cli THEN fd ELSE control[c]
  PROVE  Owned(g, data, osds, str, lis, open \cup {fd})
<1>1. /\ \A c \in Clients : /\ control[c] \in open \cup refused \cup {NoFd}
                            /\ data[c] \in open \cup refused \cup {NoFd}
                            /\ osds[c] \in open \cup refused \cup {NoFd}
      /\ str \subseteq open \cup refused /\ lis \in open \cup refused \cup {NoFd}
      /\ lis \in str => lis \in refused
  BY DEF Owned, OwnedBut
<1>2. /\ fd # NoFd
      /\ fd \notin refused => /\ fd \notin str /\ fd # lis
                             /\ \A c \in Clients : control[c] # fd /\ osds[c] # fd /\ data[c] # fd
  BY <1>1, NoFdIsNone
<1>3. \A c \in Clients : /\ g[c] \in open \cup {fd} \cup refused \cup {NoFd}
                         /\ data[c] \in open \cup {fd} \cup refused \cup {NoFd}
                         /\ osds[c] \in open \cup {fd} \cup refused \cup {NoFd}
  BY <1>1
<1>4. \A c, d \in Clients :
        /\ g[c] \notin refused \cup {NoFd} =>
             (g[d] = g[c] => d = c) /\ data[d] # g[c] /\ osds[d] # g[c]
        /\ data[c] \notin refused \cup {NoFd} => (data[d] = data[c] => d = c) /\ osds[d] # data[c]
        /\ osds[c] \notin refused \cup {NoFd} => (osds[d] = osds[c] => d = c)
  BY <1>2 DEF Owned, OwnedBut
<1>5. \A c \in Clients :
        /\ (g[c] \in str => g[c] \in refused) /\ (data[c] \in str => data[c] \in refused)
        /\ (osds[c] \in str => osds[c] \in refused)
        /\ lis \notin refused \cup {NoFd} => g[c] # lis /\ data[c] # lis /\ osds[c] # lis
  BY <1>2 DEF Owned, OwnedBut
<1>6. \A f \in open \cup {fd} : f \in str \/ f = lis
                          \/ \E c \in Clients : g[c] = f \/ data[c] = f \/ osds[c] = f
  <2>1. g[cli] = fd
    OBVIOUS
  <2>2. ASSUME NEW f \in open PROVE f \in str \/ f = lis
                          \/ \E c \in Clients : g[c] = f \/ data[c] = f \/ osds[c] = f
    BY NoFdIsNone DEF Owned, OwnedBut
  <2> QED
    BY <2>1, <2>2
<1> QED
  BY <1>1, <1>3, <1>4, <1>5, <1>6 DEF Owned, OwnedBut

LEMMA TableWithData ==
  ASSUME NEW t \in Tables, NEW fd \in Fds \ t.open, NEW cli \in Clients, t.open \in SUBSET Fds,
         t.fd_control \in FdTable, t.fd_data \in FdTable, t.fd_osd \in FdTable,
         Owned(t.fd_control, t.fd_data, t.fd_osd, t.m_Streamers, t.fd_listen, t.open),
         t.fd_data[cli] = NoFd,
         NEW data \in FdTable, \A c \in Clients : data[c] = IF c = cli THEN fd ELSE t.fd_data[c]
  PROVE  Owned(t.fd_control, data, t.fd_osd, t.m_Streamers, t.fd_listen, t.open \cup {fd})
<1> PICK control \in FdTable : control = t.fd_control
  OBVIOUS
<1> PICK old \in FdTable : old = t.fd_data
  OBVIOUS
<1> PICK osds \in FdTable : osds = t.fd_osd
  OBVIOUS
<1> PICK str : str = t.m_Streamers
  OBVIOUS
<1> PICK lis : lis = t.fd_listen
  OBVIOUS
<1> PICK open \in SUBSET Fds : open = t.open
  OBVIOUS
<1>1. Owned(control, old, osds, str, lis, open)
  OBVIOUS
<1>2. Owned(control, data, osds, str, lis, open \cup {fd})
  BY <1>1, OwnedWithData
<1> QED
  BY <1>2

LEMMA TableWithControl ==
  ASSUME NEW t \in Tables, NEW fd \in Fds \ t.open, NEW cli \in Clients, t.open \in SUBSET Fds,
         t.fd_control \in FdTable, t.fd_data \in FdTable, t.fd_osd \in FdTable,
         Owned(t.fd_control, t.fd_data, t.fd_osd, t.m_Streamers, t.fd_listen, t.open),
         t.fd_control[cli] = NoFd,
         NEW control \in FdTable, \A c \in Clients : control[c] = IF c = cli THEN fd ELSE t.fd_control[c]
  PROVE  Owned(control, t.fd_data, t.fd_osd, t.m_Streamers, t.fd_listen, t.open \cup {fd})
<1> PICK old \in FdTable : old = t.fd_control
  OBVIOUS
<1> PICK data \in FdTable : data = t.fd_data
  OBVIOUS
<1> PICK osds \in FdTable : osds = t.fd_osd
  OBVIOUS
<1> PICK str : str = t.m_Streamers
  OBVIOUS
<1> PICK lis : lis = t.fd_listen
  OBVIOUS
<1> PICK open \in SUBSET Fds : open = t.open
  OBVIOUS
<1>1. Owned(old, data, osds, str, lis, open)
  OBVIOUS
<1>2. Owned(control, data, osds, str, lis, open \cup {fd})
  BY <1>1, OwnedWithControl
<1> QED
  BY <1>2

(* A control connection becomes another slot's data or OSD connection, or  *)
(* a file streamer's.                                                      *)
LEMMA OwnedMovedToData ==
  ASSUME NEW control \in FdTable, NEW data \in FdTable, NEW osds \in FdTable, NEW str, NEW lis, NEW open,
         Owned(control, data, osds, str, lis, open), NEW cli \in Clients, NEW id \in Clients,
         data[id] = NoFd
  PROVE  Owned([control EXCEPT ![cli] = NoFd], [data EXCEPT ![id] = control[cli]], osds, str, lis, open)
BY NoFdIsNone DEF Owned, OwnedBut, FdTable

LEMMA OwnedMovedToOsd ==
  ASSUME NEW control \in FdTable, NEW data \in FdTable, NEW osds \in FdTable, NEW str, NEW lis, NEW open,
         Owned(control, data, osds, str, lis, open), NEW cli \in Clients, NEW id \in Clients,
         osds[id] = NoFd
  PROVE  Owned([control EXCEPT ![cli] = NoFd], data, [osds EXCEPT ![id] = control[cli]], str, lis, open)
BY NoFdIsNone DEF Owned, OwnedBut, FdTable

LEMMA OwnedMovedToStreamer ==
  ASSUME NEW control \in FdTable, NEW data \in FdTable, NEW osds \in FdTable, NEW str, NEW lis, NEW open,
         Owned(control, data, osds, str, lis, open), NEW cli \in Clients, control[cli] # NoFd, NoFd \notin open
  PROVE  Owned([control EXCEPT ![cli] = NoFd], data, osds, str \cup {control[cli]}, lis, open)
BY NoFdIsNone DEF Owned, OwnedBut, FdTable

LEMMA CountedOne ==
  ASSUME NEW control \in FdTable, NEW primary \in Int, Counted(control, primary), NEW cli \in Clients,
         NEW g \in FdTable, \A c \in Clients \ {cli} : g[c] = control[c]
  PROVE  /\ g[cli] = NoFd => Counted(g, primary)
         /\ g[cli] = NoFd /\ control[cli] # NoFd => Counted(g, primary - 1)
         /\ g[cli] # NoFd /\ control[cli] = NoFd => Counted(g, primary + 1)
<1> DEFINE used == {c \in Clients : control[c] # NoFd}
           left == {c \in Clients : g[c] # NoFd}
           n == Cardinality(used)
           m == Cardinality(left)
<1>1. IsFiniteSet(used) /\ n \in Nat /\ primary >= n
  BY FS_Subset, FS_CardinalityType, TableAssumption DEF Counted
<1>2. left = IF g[cli] = NoFd THEN used \ {cli} ELSE used \cup {cli}
  OBVIOUS
<1>3. cli \in used <=> control[cli] # NoFd
  OBVIOUS
<1> HIDE DEF used, left
<1>4. Cardinality(used \ {cli}) = IF cli \in used THEN n - 1 ELSE n
  BY <1>1, FS_RemoveElement
<1>5. Cardinality(used \cup {cli}) = IF cli \in used THEN n ELSE n + 1
  BY <1>1, FS_AddElement
<1>6. m = IF g[cli] = NoFd THEN (IF control[cli] # NoFd THEN n - 1 ELSE n)
          ELSE (IF control[cli] # NoFd THEN n ELSE n + 1)
  BY <1>2, <1>3, <1>4, <1>5
<1>7. \A p \in Int : Counted(g, p) <=> p >= m
  BY DEF Counted, left
<1> HIDE DEF m, n
<1> QED
  BY <1>1, <1>6, <1>7

(* Reading a sound table.                                                  *)
LEMMA TableFields ==
  ASSUME NEW s, TableSound(s)
  PROVE  /\ s \in Tables
         /\ s.fd_control \in FdTable /\ s.fd_data \in FdTable /\ s.fd_osd \in FdTable
         /\ s.m_Writer \in FdTable /\ s.open \subseteq Fds /\ s.m_bUdp \in SUBSET Clients
         /\ s.m_iMulticastMask \in SUBSET Clients /\ s.rtp \in BOOLEAN /\ s.primary \in Int
         /\ s.m_Streamers \in SUBSET Fds /\ s.m_Handles \in SUBSET Fds
         /\ s.fd_listen \in Fds \cup {NoFd} /\ s.m_bConfigOk \in SUBSET Clients
         /\ s.m_bOsdConn \in SUBSET Clients
         /\ s.m_ConnType \in [Clients -> ConnTypes]
         /\ NoFd \notin s.open
BY NoFdIsNone DEF TableSound, Tables

(* What the soundness of a table depends on.                               *)
LEMMA OtherFields ==
  ASSUME NEW s, TableSound(s), NEW u \in Tables,
         u.fd_control = s.fd_control, u.fd_data = s.fd_data, u.fd_osd = s.fd_osd,
         u.m_Streamers = s.m_Streamers, u.fd_listen = s.fd_listen, u.open = s.open,
         u.m_bUdp = s.m_bUdp, u.m_iMulticastMask = s.m_iMulticastMask,
         u.m_Handles = s.m_Handles, u.rtp = s.rtp, u.m_Writer = s.m_Writer,
         u.primary = s.primary
  PROVE  TableSound(u)
BY DEF TableSound

LEMMA PipeKeeps ==
  ASSUME NEW s, TableSound(s), NEW cli \in Clients, NEW opened, Fds \ s.open # {}
  PROVE  TableSound(Table!Handle_Control_PIPE(s, cli, opened))
<1> PICK d : d = Table!CloseDataConnection(s, cli)
  OBVIOUS
<1> PICK t : t = Table!CloseOsdConnection(d, cli)
  OBVIOUS
<1>1. TableSound(d) /\ d.open \subseteq s.open /\ d.fd_data[cli] = NoFd /\ cli \notin d.m_bUdp
  BY CloseDataKeeps DEF Table!CloseDataConnection
<1>2. TableSound(t) /\ t.open \subseteq d.open /\ t.fd_data[cli] = NoFd /\ cli \notin t.m_bUdp
  BY <1>1, CloseOsdKeeps DEF Table!CloseOsdConnection
<1> PICK fd : fd = Table!NewFd(t)
  OBVIOUS
<1>3. fd \in Fds \ t.open
  <2>1. Fds \ t.open # {}
    BY <1>1, <1>2
  <2> QED
    BY <2>1, NewFdIsClosed
<1>4. t \in Tables /\ t.fd_data \in FdTable /\ t.m_Writer \in FdTable /\ t.open \subseteq Fds
      /\ t.fd_control \in FdTable /\ t.fd_osd \in FdTable
  BY <1>2, TableFields
<1> PICK data \in FdTable : data = [t.fd_data EXCEPT ![cli] = fd]
  BY <1>3, <1>4 DEF FdTable
<1> PICK writer \in FdTable : writer = [t.m_Writer EXCEPT ![cli] = fd]
  BY <1>3, <1>4 DEF FdTable
<1> PICK open \in SUBSET Fds : open = t.open \cup {fd}
  BY <1>3, <1>4
<1> PICK u : u = [t EXCEPT !.open = open, !.m_Writer = writer, !.fd_data = data]
  OBVIOUS
<1>5. Table!Handle_Control_PIPE(s, cli, opened) = IF opened THEN u ELSE t
  BY <1>4 DEF Table!Handle_Control_PIPE, Table!Opened, Tables
<1>6. u \in Tables
  BY ONLY u = [t EXCEPT !.open = open, !.m_Writer = writer, !.fd_data = data], <1>4,
          open \in SUBSET Fds, writer \in FdTable, data \in FdTable DEF Tables
<1>7. u.open = open /\ u.m_Writer = writer /\ u.fd_data = data /\ u.fd_control = t.fd_control
      /\ u.fd_osd = t.fd_osd /\ u.m_Streamers = t.m_Streamers /\ u.fd_listen = t.fd_listen
  BY ONLY u = [t EXCEPT !.open = open, !.m_Writer = writer, !.fd_data = data], <1>4 DEF Tables
<1>8. u.m_bUdp = t.m_bUdp /\ u.m_iMulticastMask = t.m_iMulticastMask /\ u.m_Handles = t.m_Handles
      /\ u.rtp = t.rtp /\ u.primary = t.primary
  BY ONLY u = [t EXCEPT !.open = open, !.m_Writer = writer, !.fd_data = data], <1>4 DEF Tables
<1>9. Owned(u.fd_control, u.fd_data, u.fd_osd, u.m_Streamers, u.fd_listen, u.open)
  <2>1. \A c \in Clients : data[c] = IF c = cli THEN fd ELSE t.fd_data[c]
    BY <1>4 DEF FdTable
  <2>2. Owned(t.fd_control, t.fd_data, t.fd_osd, t.m_Streamers, t.fd_listen, t.open)
    BY <1>2 DEF TableSound
  <2>3. Owned(t.fd_control, data, t.fd_osd, t.m_Streamers, t.fd_listen, t.open \cup {fd})
    <3>1. fd \in Fds \ t.open /\ t.open \in SUBSET Fds /\ t.fd_data[cli] = NoFd
      BY <1>2, <1>3, <1>4
    <3> QED
      BY ONLY <1>4, <2>1, <2>2, <3>1, cli \in Clients, data \in FdTable, TableWithData
  <2> QED
    BY <1>7, <2>3
<1>10. Matched(u.fd_control, u.fd_data, u.m_bUdp, u.m_iMulticastMask, u.m_Handles, u.rtp, u.m_Writer)
  <2>1. Matched(t.fd_control, t.fd_data, t.m_bUdp, t.m_iMulticastMask, t.m_Handles, t.rtp, t.m_Writer)
        /\ t.m_bUdp \in SUBSET Clients
    BY <1>2, <1>4 DEF TableSound, Tables
  <2>2. \A c \in Clients : c # cli => data[c] = t.fd_data[c] /\ writer[c] = t.m_Writer[c]
    BY <1>4 DEF FdTable
  <2>3. data[cli] = fd /\ writer[cli] = fd
    BY <1>4 DEF FdTable
  <2>4. {data[c] : c \in t.m_bUdp} = {t.fd_data[c] : c \in t.m_bUdp}
    BY <1>2, <2>1, <2>2
  <2> QED
    BY <1>7, <1>8, <2>1, <2>2, <2>3, <2>4 DEF Matched, MatchedBut
<1>11. Counted(u.fd_control, u.primary)
  BY <1>2, <1>7, <1>8 DEF TableSound
<1> QED
  BY <1>2, <1>5, <1>6, <1>9, <1>10, <1>11 DEF TableSound

LEMMA UdpKeeps ==
  ASSUME NEW s, TableSound(s), NEW cli \in Clients, Fds \ s.open # {}
  PROVE  TableSound(Table!Handle_Control_UDP(s, cli))
<1> PICK t : t = Table!CloseDataConnection(s, cli)
  OBVIOUS
<1>2. TableSound(t) /\ t.open \subseteq s.open /\ t.fd_data[cli] = NoFd /\ cli \notin t.m_bUdp
      /\ t.m_Writer[cli] = NoFd
  BY CloseDataKeeps DEF Table!CloseDataConnection
<1> PICK fd : fd = Table!NewFd(t)
  OBVIOUS
<1>3. fd \in Fds \ t.open
  <2>1. Fds \ t.open # {}
    BY <1>2
  <2> QED
    BY <2>1, NewFdIsClosed
<1>4. t \in Tables /\ t.fd_data \in FdTable /\ t.m_Writer \in FdTable /\ t.open \in SUBSET Fds
      /\ t.fd_control \in FdTable /\ t.fd_osd \in FdTable /\ t.m_bUdp \in SUBSET Clients
      /\ t.m_Handles \in SUBSET Fds
  BY <1>2, TableFields
<1> PICK data \in FdTable : data = [t.fd_data EXCEPT ![cli] = fd]
  BY <1>3, <1>4 DEF FdTable
<1> PICK open \in SUBSET Fds : open = t.open \cup {fd}
  BY <1>3, <1>4
<1> PICK udp \in SUBSET Clients : udp = t.m_bUdp \cup {cli}
  BY <1>4
<1> PICK handles \in SUBSET Fds : handles = t.m_Handles \cup {fd}
  BY <1>3, <1>4
<1> PICK u : u = [t EXCEPT !.open = open, !.m_bUdp = udp, !.fd_data = data, !.m_Handles = handles]
  OBVIOUS
<1>5. Table!Handle_Control_UDP(s, cli) = u
  BY <1>4 DEF Table!Handle_Control_UDP, Table!Opened, Tables
<1>6. u \in Tables
  BY ONLY u = [t EXCEPT !.open = open, !.m_bUdp = udp, !.fd_data = data, !.m_Handles = handles],
          <1>4, open \in SUBSET Fds, udp \in SUBSET Clients, data \in FdTable, handles \in SUBSET Fds
     DEF Tables
<1>7. u.open = open /\ u.m_bUdp = udp /\ u.fd_data = data /\ u.m_Handles = handles
      /\ u.fd_control = t.fd_control /\ u.fd_osd = t.fd_osd /\ u.m_Streamers = t.m_Streamers
  BY ONLY u = [t EXCEPT !.open = open, !.m_bUdp = udp, !.fd_data = data, !.m_Handles = handles],
          <1>4 DEF Tables
<1>8. u.fd_listen = t.fd_listen /\ u.m_iMulticastMask = t.m_iMulticastMask
      /\ u.rtp = t.rtp /\ u.primary = t.primary /\ u.m_Writer = t.m_Writer
  BY ONLY u = [t EXCEPT !.open = open, !.m_bUdp = udp, !.fd_data = data, !.m_Handles = handles],
          <1>4 DEF Tables
<1>9. \A c \in Clients : data[c] = IF c = cli THEN fd ELSE t.fd_data[c]
  BY <1>4 DEF FdTable
<1>10. Owned(u.fd_control, u.fd_data, u.fd_osd, u.m_Streamers, u.fd_listen, u.open)
  <2>1. Owned(t.fd_control, t.fd_data, t.fd_osd, t.m_Streamers, t.fd_listen, t.open)
    BY <1>2 DEF TableSound
  <2>2. Owned(t.fd_control, data, t.fd_osd, t.m_Streamers, t.fd_listen, t.open \cup {fd})
    BY ONLY <1>2, <1>3, <1>4, <1>9, <2>1, cli \in Clients, data \in FdTable, TableWithData
  <2> QED
    BY <1>7, <1>8, <2>2
<1>11. Matched(u.fd_control, u.fd_data, u.m_bUdp, u.m_iMulticastMask, u.m_Handles, u.rtp, u.m_Writer)
  <2>1. Matched(t.fd_control, t.fd_data, t.m_bUdp, t.m_iMulticastMask, t.m_Handles, t.rtp, t.m_Writer)
    BY <1>2 DEF TableSound
  <2>2. handles \subseteq {data[c] : c \in udp} /\ \A c \in udp : data[c] \in handles \cup refused
    <3>1. {data[c] : c \in udp} = {t.fd_data[c] : c \in t.m_bUdp} \cup {fd}
      BY <1>2, <1>4, <1>9
    <3> QED
      BY <1>3, <2>1, <3>1, NoFdIsNone DEF Matched, MatchedBut
  <2>3. \A c \in Clients : t.m_Writer[c] # NoFd => t.m_Writer[c] = data[c] \/ t.m_Writer[c] = t.fd_control[c]
    BY <1>2, <1>9, <2>1 DEF Matched, MatchedBut
  <2> QED
    BY <1>7, <1>8, <2>1, <2>2, <2>3 DEF Matched, MatchedBut
<1>12. Counted(u.fd_control, u.primary)
  BY <1>2, <1>7, <1>8 DEF TableSound
<1> QED
  BY <1>5, <1>6, <1>10, <1>11, <1>12 DEF TableSound

(* Multicast is on when the first client listens.                          *)
LEMMA JoinKeeps ==
  ASSUME NEW s, TableSound(s), NEW cli \in Clients
  PROVE  TableSound(Table!JoinMulticast(s, cli))
<1>1. s \in Tables /\ s.m_iMulticastMask \in SUBSET Clients /\ s.rtp \in BOOLEAN
  BY TableFields
<1> PICK mask \in SUBSET Clients : mask = s.m_iMulticastMask \cup {cli}
  BY <1>1
<1> PICK rtp \in BOOLEAN : rtp = IF s.m_iMulticastMask = {} /\ ~RtpAlwaysOn THEN TRUE ELSE s.rtp
  BY <1>1
<1> PICK u : u = [s EXCEPT !.m_iMulticastMask = mask, !.rtp = rtp]
  OBVIOUS
<1>2. Table!JoinMulticast(s, cli) = u
  BY <1>1 DEF Table!JoinMulticast, Table!AddRtp, Tables
<1>3. u \in Tables
  BY ONLY u = [s EXCEPT !.m_iMulticastMask = mask, !.rtp = rtp], <1>1, mask \in SUBSET Clients,
          rtp \in BOOLEAN DEF Tables
<1>4. u.m_iMulticastMask = mask /\ u.rtp = rtp /\ u.fd_control = s.fd_control /\ u.fd_data = s.fd_data
      /\ u.fd_osd = s.fd_osd /\ u.m_Streamers = s.m_Streamers /\ u.fd_listen = s.fd_listen
  BY ONLY u = [s EXCEPT !.m_iMulticastMask = mask, !.rtp = rtp], <1>1 DEF Tables
<1>5. u.open = s.open /\ u.m_bUdp = s.m_bUdp /\ u.m_Handles = s.m_Handles /\ u.m_Writer = s.m_Writer
      /\ u.primary = s.primary
  BY ONLY u = [s EXCEPT !.m_iMulticastMask = mask, !.rtp = rtp], <1>1 DEF Tables
<1>6. UseRtp => (rtp <=> (RtpAlwaysOn \/ mask # {}))
  BY <1>1, TableAssumption DEF TableSound, Matched, MatchedBut
<1> QED
  BY <1>2, <1>3, <1>4, <1>5, <1>6 DEF TableSound, Matched, MatchedBut

LEMMA RtpKeeps ==
  ASSUME NEW s, TableSound(s), NEW cli \in Clients
  PROVE  TableSound(Table!Handle_Control_RTP(s, cli))
BY CloseDataKeeps, JoinKeeps DEF Table!Handle_Control_RTP, Table!CloseDataConnection

(* The control connection of one slot becomes the data connection of       *)
(* another, whose old one is closed.                                       *)
LEMMA DataKeeps ==
  ASSUME NEW s, TableSound(s), NEW cli \in Clients, NEW id \in Clients, s.fd_control[cli] # NoFd
  PROVE  TableSound(Table!Handle_Control_DATA(s, cli, id))
<1> PICK o : o = Table!CloseOsdConnection(s, cli)
  OBVIOUS
<1> PICK t : t = Table!CloseDataConnection(o, cli)
  OBVIOUS
<1> PICK v : v = Table!CloseDataConnection(t, id)
  OBVIOUS
<1>1. TableSound(o) /\ o.fd_control = s.fd_control
  BY CloseOsdKeeps DEF Table!CloseOsdConnection
<1>2. TableSound(t) /\ t.fd_control = s.fd_control /\ t.m_Writer[cli] = NoFd
  BY <1>1, CloseDataKeeps DEF Table!CloseDataConnection
<1>3. TableSound(v) /\ v.fd_control = s.fd_control /\ v.m_Writer[cli] = NoFd /\ v.m_Writer[id] = NoFd
      /\ v.fd_data[id] = NoFd /\ id \notin v.m_bUdp
  BY <1>2, CloseDataKeeps DEF Table!CloseDataConnection
<1>4. v \in Tables /\ v.fd_control \in FdTable /\ v.fd_data \in FdTable /\ v.fd_osd \in FdTable
      /\ v.m_Writer \in FdTable /\ v.primary \in Int /\ v.m_bUdp \in SUBSET Clients
  BY <1>3, TableFields
<1> PICK fd \in Fds \cup {NoFd} : fd = v.fd_control[cli]
  BY <1>4 DEF FdTable
<1> PICK control \in FdTable : control = [v.fd_control EXCEPT ![cli] = NoFd]
  BY <1>4 DEF FdTable
<1> PICK data \in FdTable : data = [v.fd_data EXCEPT ![id] = fd]
  BY <1>4 DEF FdTable
<1> PICK writer \in FdTable : writer = [v.m_Writer EXCEPT ![id] = fd]
  BY <1>4 DEF FdTable
<1> PICK primary \in Int : primary = v.primary - 1
  BY <1>4
<1> PICK u : u = [v EXCEPT !.fd_control = control, !.fd_data = data, !.m_Writer = writer, !.primary = primary]
  OBVIOUS
<1>5. Table!Handle_Control_DATA(s, cli, id)
      = IF ~Table!Parse_Client_Id(t, id) THEN Table!CloseConnection(t, cli) ELSE u
  BY <1>4 DEF Table!Handle_Control_DATA, Tables, NoFd
<1>6. u \in Tables
  BY ONLY u = [v EXCEPT !.fd_control = control, !.fd_data = data, !.m_Writer = writer, !.primary = primary],
          <1>4, control \in FdTable, data \in FdTable, writer \in FdTable, primary \in Int DEF Tables
<1>7. u.fd_control = control /\ u.fd_data = data /\ u.m_Writer = writer /\ u.primary = primary
      /\ u.fd_osd = v.fd_osd /\ u.m_Streamers = v.m_Streamers /\ u.fd_listen = v.fd_listen
  BY ONLY u = [v EXCEPT !.fd_control = control, !.fd_data = data, !.m_Writer = writer, !.primary = primary],
          <1>4 DEF Tables
<1>8. u.open = v.open /\ u.m_bUdp = v.m_bUdp /\ u.m_iMulticastMask = v.m_iMulticastMask
      /\ u.m_Handles = v.m_Handles /\ u.rtp = v.rtp
  BY ONLY u = [v EXCEPT !.fd_control = control, !.fd_data = data, !.m_Writer = writer, !.primary = primary],
          <1>4 DEF Tables
<1>9. /\ Owned(v.fd_control, v.fd_data, v.fd_osd, v.m_Streamers, v.fd_listen, v.open)
      /\ Matched(v.fd_control, v.fd_data, v.m_bUdp, v.m_iMulticastMask, v.m_Handles, v.rtp, v.m_Writer)
      /\ Counted(v.fd_control, v.primary)
  BY <1>3 DEF TableSound
<1>10. Owned(control, data, v.fd_osd, v.m_Streamers, v.fd_listen, v.open)
  BY <1>3, <1>4, <1>9, OwnedMovedToData
<1>11. /\ \A c \in Clients : control[c] = IF c = cli THEN NoFd ELSE v.fd_control[c]
       /\ \A c \in Clients : data[c] = IF c = id THEN fd ELSE v.fd_data[c]
       /\ \A c \in Clients : writer[c] = IF c = id THEN fd ELSE v.m_Writer[c]
  BY <1>4 DEF FdTable
<1>12. Matched(control, data, v.m_bUdp, v.m_iMulticastMask, v.m_Handles, v.rtp, writer)
  <2>1. {data[c] : c \in v.m_bUdp} = {v.fd_data[c] : c \in v.m_bUdp}
    BY <1>3, <1>4, <1>11
  <2>2. \A c \in Clients : writer[c] # NoFd => writer[c] = data[c] \/ writer[c] = control[c]
    BY <1>3, <1>9, <1>11 DEF Matched, MatchedBut
  <2> QED
    BY <1>9, <2>1, <2>2 DEF Matched, MatchedBut
<1>13. Counted(control, primary)
  <2>1. control[cli] = NoFd /\ v.fd_control[cli] # NoFd /\ \A c \in Clients \ {cli} : control[c] = v.fd_control[c]
    BY <1>3, <1>11
  <2> QED
    BY ONLY <1>4, <1>9, <2>1, cli \in Clients, control \in FdTable, primary = v.primary - 1, CountedOne
<1>14. TableSound(u)
  BY <1>6, <1>7, <1>8, <1>10, <1>12, <1>13 DEF TableSound
<1> QED
  BY <1>2, <1>5, <1>14, CloseKeeps DEF Table!CloseConnection

LEMMA OsdConnectionKeeps ==
  ASSUME NEW s, TableSound(s), NEW cli \in Clients, NEW id \in Clients, s.fd_control[cli] # NoFd
  PROVE  TableSound(Table!Handle_Control_OSD(s, cli, id))
<1> PICK o : o = Table!CloseOsdConnection(s, cli)
  OBVIOUS
<1> PICK t : t = Table!CloseDataConnection(o, cli)
  OBVIOUS
<1> PICK v : v = Table!CloseOsdConnection(t, id)
  OBVIOUS
<1>1. TableSound(o) /\ o.fd_control = s.fd_control
  BY CloseOsdKeeps DEF Table!CloseOsdConnection
<1>2. TableSound(t) /\ t.fd_control = s.fd_control /\ t.m_Writer[cli] = NoFd
  BY <1>1, CloseDataKeeps DEF Table!CloseDataConnection
<1>3. TableSound(v) /\ v.fd_control = s.fd_control /\ v.m_Writer[cli] = NoFd /\ v.fd_osd[id] = NoFd
  BY <1>2, CloseOsdKeeps DEF Table!CloseOsdConnection
<1>4. v \in Tables /\ v.fd_control \in FdTable /\ v.fd_data \in FdTable /\ v.fd_osd \in FdTable
      /\ v.m_Writer \in FdTable /\ v.primary \in Int /\ v.m_bOsdConn \in SUBSET Clients
  BY <1>3, TableFields
<1> PICK fd \in Fds \cup {NoFd} : fd = v.fd_control[cli]
  BY <1>4 DEF FdTable
<1> PICK control \in FdTable : control = [v.fd_control EXCEPT ![cli] = NoFd]
  BY <1>4 DEF FdTable
<1> PICK osds \in FdTable : osds = [v.fd_osd EXCEPT ![id] = fd]
  BY <1>4 DEF FdTable
<1> PICK osdConn \in SUBSET Clients : osdConn = v.m_bOsdConn \cup {id}
  BY <1>4
<1> PICK primary \in Int : primary = v.primary - 1
  BY <1>4
<1> PICK u : u = [v EXCEPT !.fd_control = control, !.fd_osd = osds, !.m_bOsdConn = osdConn, !.primary = primary]
  OBVIOUS
<1>5. Table!Handle_Control_OSD(s, cli, id)
      = IF ~Table!Parse_Client_Id(t, id) THEN Table!CloseConnection(t, cli) ELSE u
  BY <1>4 DEF Table!Handle_Control_OSD, Tables, NoFd
<1>6. u \in Tables
  BY ONLY u = [v EXCEPT !.fd_control = control, !.fd_osd = osds, !.m_bOsdConn = osdConn, !.primary = primary],
          <1>4, control \in FdTable, osds \in FdTable, osdConn \in SUBSET Clients, primary \in Int DEF Tables
<1>7. u.fd_control = control /\ u.fd_osd = osds /\ u.primary = primary /\ u.fd_data = v.fd_data
      /\ u.m_Streamers = v.m_Streamers /\ u.fd_listen = v.fd_listen
  BY ONLY u = [v EXCEPT !.fd_control = control, !.fd_osd = osds, !.m_bOsdConn = osdConn, !.primary = primary],
          <1>4 DEF Tables
<1>8. u.open = v.open /\ u.m_bUdp = v.m_bUdp /\ u.m_iMulticastMask = v.m_iMulticastMask
      /\ u.m_Handles = v.m_Handles /\ u.rtp = v.rtp /\ u.m_Writer = v.m_Writer
  BY ONLY u = [v EXCEPT !.fd_control = control, !.fd_osd = osds, !.m_bOsdConn = osdConn, !.primary = primary],
          <1>4 DEF Tables
<1>9. /\ Owned(v.fd_control, v.fd_data, v.fd_osd, v.m_Streamers, v.fd_listen, v.open)
      /\ Matched(v.fd_control, v.fd_data, v.m_bUdp, v.m_iMulticastMask, v.m_Handles, v.rtp, v.m_Writer)
      /\ Counted(v.fd_control, v.primary)
  BY <1>3 DEF TableSound
<1>10. Owned(control, v.fd_data, osds, v.m_Streamers, v.fd_listen, v.open)
  BY <1>3, <1>4, <1>9, OwnedMovedToOsd
<1>11. \A c \in Clients : control[c] = IF c = cli THEN NoFd ELSE v.fd_control[c]
  BY <1>4 DEF FdTable
<1>12. Matched(control, v.fd_data, v.m_bUdp, v.m_iMulticastMask, v.m_Handles, v.rtp, v.m_Writer)
  BY <1>3, <1>9, <1>11 DEF Matched, MatchedBut
<1>13. Counted(control, primary)
  <2>1. control[cli] = NoFd /\ v.fd_control[cli] # NoFd /\ \A c \in Clients \ {cli} : control[c] = v.fd_control[c]
    BY <1>3, <1>11
  <2> QED
    BY ONLY <1>4, <1>9, <2>1, cli \in Clients, control \in FdTable, primary = v.primary - 1, CountedOne
<1>14. TableSound(u)
  BY <1>6, <1>7, <1>8, <1>10, <1>12, <1>13 DEF TableSound
<1> QED
  BY <1>2, <1>5, <1>14, CloseKeeps DEF Table!CloseConnection

LEMMA ConfigKeeps ==
  ASSUME NEW s, TableSound(s), NEW cli \in Clients
  PROVE  TableSound(Table!Handle_Control_CONFIG(s, cli))
<1>1. s \in Tables /\ s.m_bConfigOk \in SUBSET Clients
  BY TableFields
<1> PICK ready \in SUBSET Clients : ready = s.m_bConfigOk \cup {cli}
  BY <1>1
<1> PICK u : u = [s EXCEPT !.m_bConfigOk = ready]
  OBVIOUS
<1>2. Table!Handle_Control_CONFIG(s, cli) = u
  BY <1>1 DEF Table!Handle_Control_CONFIG, Tables
<1>3. u \in Tables
  BY ONLY u = [s EXCEPT !.m_bConfigOk = ready], <1>1, ready \in SUBSET Clients DEF Tables
<1>4. u.fd_control = s.fd_control /\ u.fd_data = s.fd_data /\ u.fd_osd = s.fd_osd
      /\ u.m_Streamers = s.m_Streamers /\ u.fd_listen = s.fd_listen /\ u.open = s.open
  BY ONLY u = [s EXCEPT !.m_bConfigOk = ready], <1>1 DEF Tables
<1>5. u.m_bUdp = s.m_bUdp /\ u.m_iMulticastMask = s.m_iMulticastMask /\ u.m_Handles = s.m_Handles
      /\ u.rtp = s.rtp /\ u.m_Writer = s.m_Writer /\ u.primary = s.primary
  BY ONLY u = [s EXCEPT !.m_bConfigOk = ready], <1>1 DEF Tables
<1> QED
  BY <1>2, <1>3, <1>4, <1>5, OtherFields

LEMMA ConnTypeKeeps ==
  ASSUME NEW s, TableSound(s), NEW cli \in Clients, NEW x \in ConnTypes
  PROVE  LET t == [s EXCEPT !.m_ConnType[cli] = x]
         IN  TableSound(t) /\ t.fd_control = s.fd_control /\ t.fd_data = s.fd_data /\ t.open = s.open
             /\ t.m_Writer = s.m_Writer /\ t.m_bUdp = s.m_bUdp
<1>1. s \in Tables /\ s.m_ConnType \in [Clients -> ConnTypes]
  BY TableFields
<1> PICK conn \in [Clients -> ConnTypes] : conn = [s.m_ConnType EXCEPT ![cli] = x]
  BY <1>1
<1> PICK u : u = [s EXCEPT !.m_ConnType = conn]
  OBVIOUS
<1>2. [s EXCEPT !.m_ConnType[cli] = x] = u
  BY <1>1 DEF Tables
<1>3. u \in Tables
  BY ONLY u = [s EXCEPT !.m_ConnType = conn], <1>1, conn \in [Clients -> ConnTypes] DEF Tables
<1>4. u.fd_control = s.fd_control /\ u.fd_data = s.fd_data /\ u.fd_osd = s.fd_osd
      /\ u.m_Streamers = s.m_Streamers /\ u.fd_listen = s.fd_listen /\ u.open = s.open
  BY ONLY u = [s EXCEPT !.m_ConnType = conn], <1>1 DEF Tables
<1>5. u.m_bUdp = s.m_bUdp /\ u.m_iMulticastMask = s.m_iMulticastMask /\ u.m_Handles = s.m_Handles
      /\ u.rtp = s.rtp /\ u.m_Writer = s.m_Writer /\ u.primary = s.primary
  BY ONLY u = [s EXCEPT !.m_ConnType = conn], <1>1 DEF Tables
<1> QED
  BY <1>2, <1>3, <1>4, <1>5, OtherFields

LEMMA RtspKeeps ==
  ASSUME NEW s, TableSound(s), NEW cli \in Clients, NEW request, NEW allowed \in BOOLEAN
  PROVE  TableSound(Table!Handle_Control_RTSP(s, cli, request, allowed))
<1> PICK t : t = [s EXCEPT !.m_ConnType[cli] = "rtsp"]
  OBVIOUS
<1>1. TableSound(t)
  BY ConnTypeKeeps DEF ConnTypes
<1>2. TableSound(Table!CloseConnection(t, cli))
  BY <1>1, CloseKeeps DEF Table!CloseConnection
<1>3. TableSound(Table!JoinMulticast(t, cli))
  BY <1>1, JoinKeeps
<1>4. CASE ~allowed \/ request = "TEARDOWN"
  BY <1>2, <1>4 DEF Table!Handle_Control_RTSP
<1>5. CASE allowed /\ request = "PLAY"
  BY <1>3, <1>5 DEF Table!Handle_Control_RTSP
<1>6. CASE allowed /\ request # "PLAY" /\ request # "TEARDOWN"
  BY <1>1, <1>6 DEF Table!Handle_Control_RTSP
<1> QED
  BY <1>4, <1>5, <1>6

(* The control connection becomes the stream's, or a file streamer's.      *)
LEMMA HttpKeeps ==
  ASSUME NEW s, TableSound(s), NEW cli \in Clients, NEW request, NEW allowed \in BOOLEAN,
         s.fd_control[cli] # NoFd
  PROVE  TableSound(Table!Handle_Control_HTTP(s, cli, request, allowed))
<1> PICK k : k = [s EXCEPT !.m_ConnType[cli] = "http"]
  OBVIOUS
<1>1. TableSound(k) /\ k.fd_control = s.fd_control
  BY ConnTypeKeeps DEF ConnTypes
<1>2. k \in Tables /\ k.m_Writer \in FdTable /\ k.fd_control \in FdTable /\ k.fd_data \in FdTable
      /\ k.fd_osd \in FdTable /\ k.m_Streamers \in SUBSET Fds /\ NoFd \notin k.open /\ k.primary \in Int
      /\ s \in Tables
  BY <1>1, TableFields
<1>3. ASSUME NEW x \in {NoFd, k.fd_control[cli]},
             NEW w, w = [k EXCEPT !.m_Writer[cli] = x]
      PROVE  TableSound(w) /\ w.fd_control = k.fd_control
  <2>1. x \in Fds \cup {NoFd}
    BY <1>2 DEF FdTable
  <2> PICK writer \in FdTable : writer = [k.m_Writer EXCEPT ![cli] = x]
    BY <1>2, <2>1 DEF FdTable
  <2>2. w = [k EXCEPT !.m_Writer = writer]
    BY <1>2, <1>3 DEF Tables
  <2>3. w \in Tables
    BY ONLY <2>2, <1>2, writer \in FdTable DEF Tables
  <2>4. w.m_Writer = writer /\ w.fd_control = k.fd_control /\ w.fd_data = k.fd_data /\ w.fd_osd = k.fd_osd
        /\ w.m_Streamers = k.m_Streamers /\ w.fd_listen = k.fd_listen /\ w.open = k.open
    BY ONLY <2>2, <1>2 DEF Tables
  <2>5. w.m_bUdp = k.m_bUdp /\ w.m_iMulticastMask = k.m_iMulticastMask /\ w.m_Handles = k.m_Handles
        /\ w.rtp = k.rtp /\ w.primary = k.primary
    BY ONLY <2>2, <1>2 DEF Tables
  <2>6. \A c \in Clients : writer[c] = IF c = cli THEN x ELSE k.m_Writer[c]
    BY <1>2 DEF FdTable
  <2>7. \A c \in Clients : writer[c] # NoFd => writer[c] = k.fd_data[c] \/ writer[c] = k.fd_control[c]
    BY <1>1, <2>6 DEF TableSound, Matched, MatchedBut
  <2> QED
    BY <1>1, <2>3, <2>4, <2>5, <2>7 DEF TableSound, Matched, MatchedBut
<1> PICK t : t = [k EXCEPT !.m_Writer[cli] = NoFd]
  OBVIOUS
<1> PICK stream : stream = [k EXCEPT !.m_Writer[cli] = k.fd_control[cli]]
  OBVIOUS
<1>4. TableSound(t) /\ t.fd_control = k.fd_control /\ TableSound(stream)
  BY <1>3
<1>a. s.m_Writer \in FdTable
  BY TableFields
<1>5. [s EXCEPT !.m_Writer[cli] = Table!NoFd, !.m_ConnType[cli] = "http"] = t
      /\ [t EXCEPT !.m_Writer[cli] = s.fd_control[cli]] = stream
  <2>1. k.m_Writer = s.m_Writer
    BY <1>2 DEF Tables
  <2>2. [s EXCEPT !.m_Writer[cli] = Table!NoFd, !.m_ConnType[cli] = "http"] = t
    BY <1>2 DEF Tables, NoFd
  <2> PICK wr : wr = [k.m_Writer EXCEPT ![cli] = k.fd_control[cli]]
    OBVIOUS
  <2>3. [[k.m_Writer EXCEPT ![cli] = NoFd] EXCEPT ![cli] = k.fd_control[cli]] = wr
    BY <1>2 DEF FdTable
  <2>4. stream = [k EXCEPT !.m_Writer = wr]
    BY <1>2 DEF Tables
  <2>5. [t EXCEPT !.m_Writer[cli] = s.fd_control[cli]] = [k EXCEPT !.m_Writer = wr]
    BY <1>1, <1>2, <2>3 DEF Tables
  <2> QED
    BY <2>2, <2>4, <2>5
<1>6. CASE allowed /\ request = "GET /"
  BY <1>4, <1>5, <1>6 DEF Table!Handle_Control_HTTP
<1>7. CASE allowed /\ request = "GET /PLAYFILE"
  <2>1. t \in Tables /\ t.fd_control \in FdTable /\ t.fd_data \in FdTable /\ t.fd_osd \in FdTable
        /\ t.m_Streamers \in SUBSET Fds /\ NoFd \notin t.open /\ t.primary \in Int /\ t.fd_control[cli] # NoFd
        /\ t.m_Writer \in FdTable
    BY <1>1, <1>4, TableFields
  <2>2. t.fd_control[cli] \in Fds
    BY <2>1 DEF FdTable
  <2> PICK control \in FdTable : control = [t.fd_control EXCEPT ![cli] = NoFd]
    BY <2>1 DEF FdTable
  <2> PICK str \in SUBSET Fds : str = t.m_Streamers \cup {t.fd_control[cli]}
    BY <2>1, <2>2
  <2> PICK u : u = [t EXCEPT !.m_Streamers = str, !.fd_control = control]
    OBVIOUS
  <2>3. Table!Handle_Control_HTTP(s, cli, request, allowed) = Table!CloseConnection(u, cli)
    BY <1>1, <1>4, <1>5, <1>7, <2>1 DEF Table!Handle_Control_HTTP, Tables, NoFd
  <2>4. u \in Tables
    BY ONLY u = [t EXCEPT !.m_Streamers = str, !.fd_control = control], <2>1, str \in SUBSET Fds,
            control \in FdTable DEF Tables
  <2>5. u.fd_control = control /\ u.m_Streamers = str /\ u.fd_data = t.fd_data /\ u.fd_osd = t.fd_osd
        /\ u.fd_listen = t.fd_listen /\ u.open = t.open /\ u.m_Writer = t.m_Writer
    BY ONLY u = [t EXCEPT !.m_Streamers = str, !.fd_control = control], <2>1 DEF Tables
  <2>6. u.m_bUdp = t.m_bUdp /\ u.m_iMulticastMask = t.m_iMulticastMask /\ u.m_Handles = t.m_Handles
        /\ u.rtp = t.rtp /\ u.primary = t.primary
    BY ONLY u = [t EXCEPT !.m_Streamers = str, !.fd_control = control], <2>1 DEF Tables
  <2>7. /\ Owned(t.fd_control, t.fd_data, t.fd_osd, t.m_Streamers, t.fd_listen, t.open)
        /\ Matched(t.fd_control, t.fd_data, t.m_bUdp, t.m_iMulticastMask, t.m_Handles, t.rtp, t.m_Writer)
        /\ Counted(t.fd_control, t.primary)
    BY <1>4 DEF TableSound
  <2>8. Owned(control, t.fd_data, t.fd_osd, str, t.fd_listen, t.open)
    BY ONLY <2>1, <2>7, cli \in Clients, control = [t.fd_control EXCEPT ![cli] = NoFd],
            str = t.m_Streamers \cup {t.fd_control[cli]}, OwnedMovedToStreamer
  <2>9. \A c \in Clients : control[c] = IF c = cli THEN NoFd ELSE t.fd_control[c]
    BY <2>1 DEF FdTable
  <2>10. t.m_Writer[cli] = NoFd
    BY <1>2 DEF Tables, FdTable
  <2>11. Matched(control, t.fd_data, t.m_bUdp, t.m_iMulticastMask, t.m_Handles, t.rtp, t.m_Writer)
    BY <2>7, <2>9, <2>10 DEF Matched, MatchedBut
  <2>12. Counted(control, t.primary)
    <3>1. control[cli] = NoFd /\ \A c \in Clients \ {cli} : control[c] = t.fd_control[c]
      BY <2>9
    <3> QED
      BY <2>1, <2>7, <3>1, CountedOne
  <2>13. TableSound(u)
    BY <2>4, <2>5, <2>6, <2>8, <2>11, <2>12 DEF TableSound
  <2> QED
    BY <2>3, <2>13, CloseKeeps DEF Table!CloseConnection
<1>8. CASE ~(allowed /\ request = "GET /") /\ ~(allowed /\ request = "GET /PLAYFILE")
  <2>1. TableSound(Table!CloseConnection(t, cli))
    BY <1>4, CloseKeeps DEF Table!CloseConnection
  <2>2. Table!Handle_Control_HTTP(s, cli, request, allowed) = Table!CloseConnection(t, cli)
    BY <1>5, <1>8 DEF Table!Handle_Control_HTTP
  <2> QED
    BY <2>1, <2>2
<1> QED
  BY <1>6, <1>7, <1>8

LEMMA HandleKeeps ==
  ASSUME NEW s, TableSound(s), NEW cli \in Clients, NEW id \in Clients, NEW line, NEW ok \in BOOLEAN,
         s.fd_control[cli] # NoFd, line \in {"UDP", "PIPE"} => Fds \ s.open # {}
  PROVE  TableSound(Table!Handle_Control(s, cli, line, id, ok))
<1>1. CASE line = "OPTIONS" \/ s.m_ConnType[cli] = "rtsp"
  <2>1. PICK allowed \in BOOLEAN : allowed = (ok /\ line \in Table!RtspRequests)
    OBVIOUS
  <2>2. TableSound(Table!Handle_Control_RTSP(s, cli, line, allowed))
    BY RtspKeeps
  <2> QED
    BY <1>1, <2>1, <2>2 DEF Table!Handle_Control
<1>2. CASE ~(line = "OPTIONS" \/ s.m_ConnType[cli] = "rtsp")
           /\ (line \in Table!HttpRequests \/ s.m_ConnType[cli] = "http")
  <2>1. TableSound(Table!Handle_Control_HTTP(s, cli, line, ok))
    BY HttpKeeps
  <2> QED
    BY <1>2, <2>1 DEF Table!Handle_Control
<1>3. CASE /\ ~(line = "OPTIONS" \/ s.m_ConnType[cli] = "rtsp")
           /\ ~(line \in Table!HttpRequests \/ s.m_ConnType[cli] = "http")
  <2>1. CASE line = "PIPE"
    BY <1>3, <2>1, PipeKeeps DEF Table!Handle_Control
  <2>2. CASE line = "RTP"
    BY <1>3, <2>2, RtpKeeps DEF Table!Handle_Control
  <2>3. CASE line = "UDP"
    BY <1>3, <2>3, UdpKeeps DEF Table!Handle_Control
  <2>4. CASE line = "DATA"
    BY <1>3, <2>4, DataKeeps DEF Table!Handle_Control
  <2>5. CASE line = "OSD"
    BY <1>3, <2>5, OsdConnectionKeeps DEF Table!Handle_Control
  <2>6. CASE line = "CONFIG"
    BY <1>3, <2>6, ConfigKeeps DEF Table!Handle_Control
  <2>7. CASE line = "CONTROL"
    BY <1>3, <2>7, ConnTypeKeeps DEF Table!Handle_Control, Table!Handle_Control_CONTROL, ConnTypes
  <2>8. CASE line = "CLOSE"
    BY <1>3, <2>8, CloseKeeps DEF Table!Handle_Control, Table!CloseConnection
  <2>9. CASE line \notin {"PIPE", "RTP", "UDP", "DATA", "OSD", "CONFIG", "CONTROL", "CLOSE"}
    BY <1>3, <2>9 DEF Table!Handle_Control
  <2> QED
    BY <2>1, <2>2, <2>3, <2>4, <2>5, <2>6, <2>7, <2>8, <2>9
<1> QED
  BY <1>1, <1>2, <1>3

(* A connection that is accepted.  What the slot was left with by an       *)
(* earlier client is closed first.                                         *)
LEMMA ConnectKeeps ==
  ASSUME NEW s, TableSound(s), NEW fd \in Fds \ s.open, NEW acceptable \in BOOLEAN
  PROVE  TableSound(Table!Handle_ClientConnected(s, fd, acceptable, TRUE))
<1> PICK free \in SUBSET Clients : free = {c \in Clients : s.fd_control[c] = Table!NoFd}
  OBVIOUS
<1>1. CASE ~acceptable \/ free = {}
  BY <1>1 DEF Table!Handle_ClientConnected
<1>2. CASE acceptable /\ free # {}
  <2> PICK cli : cli = Table!Min(free)
    OBVIOUS
  <2>1. cli \in Clients /\ s.fd_control[cli] = NoFd
    <3>1. free \in SUBSET Nat
      BY TableAssumption
    <3>2. cli \in free
      BY <1>2, <3>1, LeastIn
    <3> QED
      BY <3>2 DEF NoFd
  <2> PICK one \in SUBSET Clients : one = {cli}
    BY <2>1
  <2>2. s \in Tables /\ s.open \subseteq Fds /\ s.fd_data \in FdTable /\ s.fd_control \in FdTable
    BY TableFields
  <2> PICK more \in SUBSET Fds : more = s.open \cup {fd}
    BY <2>2
  <2> PICK o : o = [s EXCEPT !.open = more]
    OBVIOUS
  <2>3. o \in Tables
    BY ONLY o = [s EXCEPT !.open = more], <2>2, more \in SUBSET Fds DEF Tables
  <2>4. o.open = more /\ o.fd_data = s.fd_data /\ o.m_Writer = s.m_Writer /\ o.m_bUdp = s.m_bUdp
        /\ o.m_Handles = s.m_Handles /\ o.m_iMulticastMask = s.m_iMulticastMask /\ o.rtp = s.rtp
    BY ONLY o = [s EXCEPT !.open = more], <2>2 DEF Tables
  <2>5. o.fd_control = s.fd_control /\ o.fd_osd = s.fd_osd /\ o.m_Streamers = s.m_Streamers
        /\ o.primary = s.primary /\ o.fd_listen = s.fd_listen
    BY ONLY o = [s EXCEPT !.open = more], <2>2 DEF Tables
  <2> PICK v : v = Table!CloseDataConnections(s, one)
    OBVIOUS
  <2> PICK w : w = Table!CloseDataConnections(o, one)
    OBVIOUS
  <2>6. /\ TableSound(v) /\ v.fd_control = s.fd_control /\ v.open \subseteq s.open
        /\ v.m_Writer[cli] = NoFd
    BY <2>1, CloseDataKeeps
  <2>7. /\ v \in Tables
        /\ v.open = s.open \ {s.fd_data[c] : c \in one}
        /\ v.m_Handles = s.m_Handles \ {s.fd_data[c] : c \in one \cap s.m_bUdp}
        /\ v.fd_data = Table!Without(s.fd_data, one)
        /\ v.m_Writer = Table!Without(s.m_Writer, one)
        /\ v.m_bUdp = s.m_bUdp \ one
        /\ v.m_iMulticastMask = s.m_iMulticastMask \ one
        /\ v.rtp = (IF s.m_iMulticastMask \ one = {} /\ ~RtpAlwaysOn THEN FALSE ELSE s.rtp)
        /\ v.fd_control = s.fd_control /\ v.fd_osd = s.fd_osd /\ v.m_Streamers = s.m_Streamers
        /\ v.primary = s.primary /\ v.fd_listen = s.fd_listen
    <3>1. s \in Tables
      BY <2>2
    <3> QED
      BY ONLY ZenonT(30), <3>1, one \in SUBSET Clients, v = Table!CloseDataConnections(s, one), CloseDataFields
  <2>8. /\ w \in Tables
        /\ w.open = o.open \ {o.fd_data[c] : c \in one}
        /\ w.m_Handles = o.m_Handles \ {o.fd_data[c] : c \in one \cap o.m_bUdp}
        /\ w.fd_data = Table!Without(o.fd_data, one)
        /\ w.m_Writer = Table!Without(o.m_Writer, one)
        /\ w.m_bUdp = o.m_bUdp \ one
        /\ w.m_iMulticastMask = o.m_iMulticastMask \ one
        /\ w.rtp = (IF o.m_iMulticastMask \ one = {} /\ ~RtpAlwaysOn THEN FALSE ELSE o.rtp)
        /\ w.fd_control = o.fd_control /\ w.fd_osd = o.fd_osd /\ w.m_Streamers = o.m_Streamers
        /\ w.primary = o.primary /\ w.fd_listen = o.fd_listen
    BY ONLY ZenonT(30), <2>3, one \in SUBSET Clients, w = Table!CloseDataConnections(o, one), CloseDataFields
  <2>9. /\ w.m_Handles = v.m_Handles /\ w.fd_data = v.fd_data /\ w.m_Writer = v.m_Writer
        /\ w.m_bUdp = v.m_bUdp /\ w.m_iMulticastMask = v.m_iMulticastMask /\ w.rtp = v.rtp
        /\ w.fd_control = v.fd_control /\ w.fd_osd = v.fd_osd /\ w.m_Streamers = v.m_Streamers
        /\ w.primary = v.primary /\ w.fd_listen = v.fd_listen
    BY ONLY <2>4, <2>5, <2>7, <2>8
  <2>10. w.open = v.open \cup {fd} \/ (w.open = v.open /\ fd \in refused)
    <3>1. s.fd_data[cli] \in s.open \cup refused \cup {NoFd} /\ fd # NoFd /\ fd \notin s.open
      BY <2>1, NoFdIsNone DEF TableSound, Owned, OwnedBut
    <3>2. w.open = (s.open \cup {fd}) \ {s.fd_data[cli]} /\ v.open = s.open \ {s.fd_data[cli]}
      BY ONLY <2>4, <2>7, <2>8, more = s.open \cup {fd}, one = {cli}
    <3> QED
      BY ONLY <3>1, <3>2
  <2>11. v.fd_control \in FdTable /\ v.fd_data \in FdTable /\ v.fd_osd \in FdTable /\ v.primary \in Int
         /\ v.open \in SUBSET Fds /\ w.m_ConnType \in [Clients -> ConnTypes]
    BY ZenonT(30), <2>6, <2>8, TableFields DEF Tables
  <2> PICK conn \in [Clients -> ConnTypes] : conn = [w.m_ConnType EXCEPT ![cli] = "detecting"]
    BY <2>11 DEF ConnTypes
  <2> PICK control \in FdTable : control = [v.fd_control EXCEPT ![cli] = fd]
    BY <2>11 DEF FdTable
  <2> PICK primary \in Int : primary = v.primary + 1
    BY ONLY <2>11
  <2> PICK u : u = [w EXCEPT !.m_ConnType = conn, !.fd_control = control, !.primary = primary]
    OBVIOUS
  <2>12. Table!Handle_ClientConnected(s, fd, acceptable, TRUE) = u
    <3>1. Table!Opened(s, fd) = o
      BY <2>2 DEF Table!Opened, Tables
    <3>2. Table!Handle_ClientConnected(s, fd, acceptable, TRUE)
            = [w EXCEPT !.m_ConnType[cli] = "detecting", !.fd_control[cli] = fd, !.primary = @ + 1]
      BY <1>2, <3>1 DEF Table!Handle_ClientConnected, Table!CloseDataConnection
    <3>3. control = [w.fd_control EXCEPT ![cli] = fd] /\ primary = w.primary + 1
      BY <2>9
    <3> QED
      BY ONLY <2>8, <3>2, <3>3, conn = [w.m_ConnType EXCEPT ![cli] = "detecting"],
              u = [w EXCEPT !.m_ConnType = conn, !.fd_control = control, !.primary = primary] DEF Tables
  <2>13. u \in Tables
    BY ONLY u = [w EXCEPT !.m_ConnType = conn, !.fd_control = control, !.primary = primary],
            <2>8, conn \in [Clients -> ConnTypes], control \in FdTable, primary \in Int DEF Tables
  <2>14. u.fd_control = control /\ u.primary = primary /\ u.fd_data = w.fd_data /\ u.fd_osd = w.fd_osd
         /\ u.m_Streamers = w.m_Streamers /\ u.fd_listen = w.fd_listen /\ u.open = w.open
    BY ONLY u = [w EXCEPT !.m_ConnType = conn, !.fd_control = control, !.primary = primary],
            <2>8 DEF Tables
  <2>15. u.m_bUdp = w.m_bUdp /\ u.m_iMulticastMask = w.m_iMulticastMask /\ u.m_Handles = w.m_Handles
         /\ u.rtp = w.rtp /\ u.m_Writer = w.m_Writer
    BY ONLY u = [w EXCEPT !.m_ConnType = conn, !.fd_control = control, !.primary = primary],
            <2>8 DEF Tables
  <2>16. \A c \in Clients : control[c] = IF c = cli THEN fd ELSE v.fd_control[c]
    BY <2>11 DEF FdTable
  <2>17. /\ Owned(v.fd_control, v.fd_data, v.fd_osd, v.m_Streamers, v.fd_listen, v.open)
         /\ Matched(v.fd_control, v.fd_data, v.m_bUdp, v.m_iMulticastMask, v.m_Handles, v.rtp, v.m_Writer)
         /\ Counted(v.fd_control, v.primary)
    BY <2>6 DEF TableSound
  <2>18. v.fd_control[cli] = NoFd /\ fd \in Fds \ v.open
    BY <2>1, <2>6
  <2>19. Owned(control, v.fd_data, v.fd_osd, v.m_Streamers, v.fd_listen, w.open)
    <3>1. Owned(control, v.fd_data, v.fd_osd, v.m_Streamers, v.fd_listen, v.open \cup {fd})
      BY ONLY <2>1, <2>7, <2>11, <2>16, <2>17, <2>18, control \in FdTable, TableWithControl
    <3>2. ASSUME fd \in refused
          PROVE  Owned(control, v.fd_data, v.fd_osd, v.m_Streamers, v.fd_listen, v.open)
      BY ONLY <2>11, <2>16, <2>17, <2>18, <3>2, NoFdIsNone DEF Owned, OwnedBut
    <3> QED
      BY ONLY <2>10, <3>1, <3>2
  <2>20. Matched(control, v.fd_data, v.m_bUdp, v.m_iMulticastMask, v.m_Handles, v.rtp, v.m_Writer)
    <3>1. \A c \in Clients : v.m_Writer[c] # NoFd => v.m_Writer[c] = v.fd_data[c] \/ v.m_Writer[c] = control[c]
      BY SMTT(30), <2>6, <2>16, <2>17 DEF Matched, MatchedBut
    <3> QED
      BY <2>17, <3>1 DEF Matched, MatchedBut
  <2>21. Counted(control, primary)
    <3>1. control[cli] # NoFd /\ \A c \in Clients \ {cli} : control[c] = v.fd_control[c]
      BY <2>1, <2>16, NoFdIsNone
    <3> QED
      BY ONLY <2>1, <2>11, <2>17, <2>18, <3>1, control \in FdTable, primary = v.primary + 1, CountedOne
  <2>22. TableSound(u)
    BY ONLY <2>9, <2>13, <2>14, <2>15, <2>19, <2>20, <2>21 DEF TableSound
  <2> QED
    BY <2>12, <2>22
<1> QED
  BY <1>1, <1>2

(* The listening socket.                                                   *)
LEMMA OwnedListening ==
  ASSUME NEW control \in FdTable, NEW data \in FdTable, NEW osds \in FdTable, NEW str, NEW lis,
         NEW open \in SUBSET Fds, Owned(control, data, osds, str, lis, open)
  PROVE  /\ Owned(control, data, osds, str, NoFd, open \ {lis})
         /\ \A fd \in Fds \ (open \ {lis}) :
              Owned(control, data, osds, str, fd, (open \ {lis}) \cup {fd})
<1>1. Owned(control, data, osds, str, NoFd, open \ {lis})
  BY NoFdIsNone DEF Owned, OwnedBut
<1>2. ASSUME NEW fd \in Fds \ (open \ {lis})
      PROVE  Owned(control, data, osds, str, fd, (open \ {lis}) \cup {fd})
  <2> PICK less : less = open \ {lis}
    OBVIOUS
  <2>1. Owned(control, data, osds, str, NoFd, less)
    BY <1>1
  <2>2. fd \notin less /\ fd # NoFd /\ NoFd \notin less
    BY <1>2, NoFdIsNone
  <2>3. Owned(control, data, osds, str, fd, less \cup {fd})
    BY ONLY <2>1, <2>2 DEF Owned, OwnedBut
  <2> QED
    BY <2>3
<1> QED
  BY <1>1, <1>2

LEMMA ListenKeeps ==
  ASSUME NEW s \in Tables, NEW on \in BOOLEAN, on = (UseRtp /\ (RtpAlwaysOn \/ s.m_iMulticastMask # {})),
         Owned(s.fd_control, s.fd_data, s.fd_osd, s.m_Streamers, s.fd_listen, s.open),
         Matched(s.fd_control, s.fd_data, s.m_bUdp, s.m_iMulticastMask, s.m_Handles, on, s.m_Writer),
         Counted(s.fd_control, s.primary),
         NEW samePort \in BOOLEAN, NEW bound \in BOOLEAN
  PROVE  TableSound(Table!Listen(s, samePort, bound))
<1>1. s \in Tables
  OBVIOUS
<1>2. ASSUME NEW lis \in Fds \cup {NoFd}, NEW open \in SUBSET Fds,
             Table!Reopened(s, samePort, bound) = [s EXCEPT !.fd_listen = lis, !.open = open],
             Owned(s.fd_control, s.fd_data, s.fd_osd, s.m_Streamers, lis, open)
      PROVE  TableSound(Table!Listen(s, samePort, bound))
  <2> PICK u : u = [s EXCEPT !.fd_listen = lis, !.open = open, !.rtp = on]
    OBVIOUS
  <2>1. Table!Listen(s, samePort, bound) = u
    BY <1>2 DEF Table!Listen, Tables
  <2>2. u \in Tables
    BY ONLY u = [s EXCEPT !.fd_listen = lis, !.open = open, !.rtp = on],
            <1>1, lis \in Fds \cup {NoFd}, open \in SUBSET Fds, on \in BOOLEAN DEF Tables
  <2>3. u.fd_listen = lis /\ u.open = open /\ u.rtp = on /\ u.fd_control = s.fd_control
        /\ u.fd_data = s.fd_data /\ u.fd_osd = s.fd_osd /\ u.m_Streamers = s.m_Streamers
    BY ONLY u = [s EXCEPT !.fd_listen = lis, !.open = open, !.rtp = on], <1>1 DEF Tables
  <2>4. u.m_bUdp = s.m_bUdp /\ u.m_iMulticastMask = s.m_iMulticastMask /\ u.m_Handles = s.m_Handles
        /\ u.m_Writer = s.m_Writer /\ u.primary = s.primary
    BY ONLY u = [s EXCEPT !.fd_listen = lis, !.open = open, !.rtp = on], <1>1 DEF Tables
  <2> QED
    BY <1>2, <2>1, <2>2, <2>3, <2>4 DEF TableSound
<1>3. s.fd_control \in FdTable /\ s.fd_data \in FdTable /\ s.fd_osd \in FdTable /\ s.open \in SUBSET Fds
      /\ s.fd_listen \in Fds \cup {NoFd}
  BY <1>1 DEF Tables
<1> PICK less \in SUBSET Fds : less = s.open \ {s.fd_listen}
  BY <1>3
<1>4. /\ Owned(s.fd_control, s.fd_data, s.fd_osd, s.m_Streamers, NoFd, less)
      /\ \A fd \in Fds \ less : Owned(s.fd_control, s.fd_data, s.fd_osd, s.m_Streamers, fd, less \cup {fd})
  BY ONLY <1>3, less = s.open \ {s.fd_listen}, OwnedListening,
          Owned(s.fd_control, s.fd_data, s.fd_osd, s.m_Streamers, s.fd_listen, s.open)
<1> PICK t : t = Table!CloseFd(s, s.fd_listen)
  OBVIOUS
<1>5. t = [s EXCEPT !.open = less] /\ t.open = less /\ t \in Tables
  BY <1>1 DEF Table!CloseFd, Tables
<1>6. CASE samePort /\ s.fd_listen # NoFd
  <2>1. Table!Reopened(s, samePort, bound) = s
    BY <1>6 DEF Table!Reopened, NoFd
  <2>2. s = [s EXCEPT !.fd_listen = s.fd_listen, !.open = s.open]
    BY <1>1 DEF Tables
  <2> QED
    BY <1>2, <1>3, <2>1, <2>2
<1>7. CASE ~(samePort /\ s.fd_listen # NoFd) /\ bound /\ Fds \ less # {}
  <2> PICK fd : fd = Table!NewFd(t)
    OBVIOUS
  <2>1. fd \in Fds \ less
    BY <1>5, <1>7, NewFdIsClosed
  <2> PICK more \in SUBSET Fds : more = less \cup {fd}
    BY <2>1
  <2>2. Table!Reopened(s, samePort, bound) = [Table!Opened(t, fd) EXCEPT !.fd_listen = fd]
    BY <1>5, <1>7 DEF Table!Reopened, NoFd
  <2>3. [Table!Opened(t, fd) EXCEPT !.fd_listen = fd] = [s EXCEPT !.fd_listen = fd, !.open = more]
    BY ONLY <1>1, <1>5, more = less \cup {fd} DEF Table!Opened, Tables
  <2>4. Owned(s.fd_control, s.fd_data, s.fd_osd, s.m_Streamers, fd, more)
    BY <1>4, <2>1
  <2>5. Table!Reopened(s, samePort, bound) = [s EXCEPT !.fd_listen = fd, !.open = more]
    BY ONLY <2>2, <2>3
  <2>6. fd \in Fds \cup {NoFd}
    BY <2>1
  <2> QED
    BY ONLY <1>2, <2>4, <2>5, <2>6, more \in SUBSET Fds
<1>8. CASE ~(samePort /\ s.fd_listen # NoFd) /\ ~(bound /\ Fds \ less # {})
  <2>1. Table!Reopened(s, samePort, bound) = [t EXCEPT !.fd_listen = NoFd]
    BY <1>5, <1>8 DEF Table!Reopened, NoFd
  <2>2. [t EXCEPT !.fd_listen = NoFd] = [s EXCEPT !.fd_listen = NoFd, !.open = less]
    BY ONLY <1>1, <1>5 DEF Tables
  <2>3. Table!Reopened(s, samePort, bound) = [s EXCEPT !.fd_listen = NoFd, !.open = less]
    BY ONLY <2>1, <2>2
  <2>4. NoFd \in Fds \cup {NoFd}
    OBVIOUS
  <2> QED
    BY ONLY <1>2, <1>4, <2>3, <2>4, less \in SUBSET Fds
<1> QED
  BY <1>6, <1>7, <1>8

(* File streamers end: their descriptors are nobody else's.                *)
LEMMA StreamersKeep ==
  ASSUME NEW s, TableSound(s), NEW ended \in SUBSET s.m_Streamers
  PROVE  TableSound([s EXCEPT !.m_Streamers = @ \ ended, !.open = @ \ ended])
<1>1. s \in Tables /\ s.m_Streamers \in SUBSET Fds /\ s.open \in SUBSET Fds /\ NoFd \notin s.open
  BY TableFields
<1> PICK str \in SUBSET Fds : str = s.m_Streamers \ ended
  BY <1>1
<1> PICK open \in SUBSET Fds : open = s.open \ ended
  BY <1>1
<1> PICK u : u = [s EXCEPT !.m_Streamers = str, !.open = open]
  OBVIOUS
<1>2. [s EXCEPT !.m_Streamers = @ \ ended, !.open = @ \ ended] = u
  BY <1>1 DEF Tables
<1>3. u \in Tables
  BY ONLY u = [s EXCEPT !.m_Streamers = str, !.open = open], <1>1,
          str \in SUBSET Fds, open \in SUBSET Fds DEF Tables
<1>4. u.m_Streamers = str /\ u.open = open /\ u.fd_control = s.fd_control /\ u.fd_data = s.fd_data
      /\ u.fd_osd = s.fd_osd /\ u.fd_listen = s.fd_listen
  BY ONLY u = [s EXCEPT !.m_Streamers = str, !.open = open], <1>1 DEF Tables
<1>5. u.m_bUdp = s.m_bUdp /\ u.m_iMulticastMask = s.m_iMulticastMask /\ u.m_Handles = s.m_Handles
      /\ u.rtp = s.rtp /\ u.m_Writer = s.m_Writer /\ u.primary = s.primary
  BY ONLY u = [s EXCEPT !.m_Streamers = str, !.open = open], <1>1 DEF Tables
<1>6. Owned(s.fd_control, s.fd_data, s.fd_osd, str, s.fd_listen, open)
  <2>1. Owned(s.fd_control, s.fd_data, s.fd_osd, s.m_Streamers, s.fd_listen, s.open)
    BY DEF TableSound
  <2> QED
    BY <1>1, <2>1 DEF Owned, OwnedBut
<1>7. /\ Matched(s.fd_control, s.fd_data, s.m_bUdp, s.m_iMulticastMask, s.m_Handles, s.rtp, s.m_Writer)
      /\ Counted(s.fd_control, s.primary)
  BY DEF TableSound
<1>8. TableSound(u)
  BY ONLY <1>3, <1>4, <1>5, <1>6, <1>7 DEF TableSound
<1> QED
  BY <1>2, <1>8

LEMMA MasterKeeps ==
  ASSUME NEW s, TableSound(s), NEW cli \in Clients \cup {NoFd}
  PROVE  TableSound([s EXCEPT !.m_MasterCli = cli])
<1>1. s \in Tables
  BY TableFields
<1> PICK u : u = [s EXCEPT !.m_MasterCli = cli]
  OBVIOUS
<1>2. u \in Tables
  BY ONLY <1>1, u = [s EXCEPT !.m_MasterCli = cli], cli \in Clients \cup {NoFd} DEF Tables
<1>3. u.fd_control = s.fd_control /\ u.fd_data = s.fd_data /\ u.fd_osd = s.fd_osd
      /\ u.m_Streamers = s.m_Streamers /\ u.fd_listen = s.fd_listen /\ u.open = s.open
  BY ONLY <1>1, u = [s EXCEPT !.m_MasterCli = cli] DEF Tables
<1>4. u.m_bUdp = s.m_bUdp /\ u.m_iMulticastMask = s.m_iMulticastMask /\ u.m_Handles = s.m_Handles
      /\ u.rtp = s.rtp /\ u.m_Writer = s.m_Writer /\ u.primary = s.primary
  BY ONLY <1>1, u = [s EXCEPT !.m_MasterCli = cli] DEF Tables
<1> QED
  BY <1>2, <1>3, <1>4, OtherFields

(* A refused client: its number is an exception from now on, until no      *)
(* table names it.                                                         *)
SoundBut(s, R) ==
  /\ s \in Tables
  /\ OwnedBut(s.fd_control, s.fd_data, s.fd_osd, s.m_Streamers, s.fd_listen, s.open, R)
  /\ MatchedBut(s.fd_control, s.fd_data, s.m_bUdp, s.m_iMulticastMask, s.m_Handles, s.rtp,
                s.m_Writer, R)
  /\ Counted(s.fd_control, s.primary)

LEMMA SoundButMore ==
  ASSUME NEW s, TableSound(s), NEW Q, refused \subseteq Q
  PROVE  SoundBut(s, Q)
<1>1. OwnedBut(s.fd_control, s.fd_data, s.fd_osd, s.m_Streamers, s.fd_listen, s.open, refused)
  BY DEF TableSound, Owned
<1>2. MatchedBut(s.fd_control, s.fd_data, s.m_bUdp, s.m_iMulticastMask, s.m_Handles, s.rtp,
                 s.m_Writer, refused)
  BY DEF TableSound, Matched
<1>3. OwnedBut(s.fd_control, s.fd_data, s.fd_osd, s.m_Streamers, s.fd_listen, s.open, Q)
  BY <1>1 DEF OwnedBut
<1>4. MatchedBut(s.fd_control, s.fd_data, s.m_bUdp, s.m_iMulticastMask, s.m_Handles, s.rtp,
                 s.m_Writer, Q)
  BY <1>2 DEF MatchedBut
<1> QED
  BY <1>3, <1>4 DEF TableSound, SoundBut

LEMMA SoundButClosed ==
  ASSUME NEW s, NEW Q, SoundBut(s, Q), NEW fd \in Q
  PROVE  SoundBut(Table!CloseFd(s, fd), Q)
<1>1. s \in Tables /\ s.open \in SUBSET Fds
  BY DEF SoundBut, Tables
<1> PICK open \in SUBSET Fds : open = s.open \ {fd}
  BY <1>1
<1> PICK u : u = [s EXCEPT !.open = open]
  OBVIOUS
<1>2. Table!CloseFd(s, fd) = u
  BY <1>1 DEF Table!CloseFd, Tables
<1>3. u \in Tables
  BY ONLY <1>1, u = [s EXCEPT !.open = open], open \in SUBSET Fds DEF Tables
<1>4. u.open = open /\ u.fd_control = s.fd_control /\ u.fd_data = s.fd_data /\ u.fd_osd = s.fd_osd
      /\ u.m_Streamers = s.m_Streamers /\ u.fd_listen = s.fd_listen /\ u.primary = s.primary
  BY ONLY <1>1, u = [s EXCEPT !.open = open] DEF Tables
<1>5. u.m_bUdp = s.m_bUdp /\ u.m_iMulticastMask = s.m_iMulticastMask /\ u.m_Handles = s.m_Handles
      /\ u.rtp = s.rtp /\ u.m_Writer = s.m_Writer
  BY ONLY <1>1, u = [s EXCEPT !.open = open] DEF Tables
<1>6. OwnedBut(s.fd_control, s.fd_data, s.fd_osd, s.m_Streamers, s.fd_listen, s.open, Q)
  BY DEF SoundBut
<1>7. OwnedBut(s.fd_control, s.fd_data, s.fd_osd, s.m_Streamers, s.fd_listen, open, Q)
  BY ONLY <1>6, fd \in Q, open = s.open \ {fd} DEF OwnedBut
<1>8. /\ MatchedBut(s.fd_control, s.fd_data, s.m_bUdp, s.m_iMulticastMask, s.m_Handles, s.rtp,
                    s.m_Writer, Q)
      /\ Counted(s.fd_control, s.primary)
  BY DEF SoundBut
<1>9. SoundBut(u, Q)
  BY ONLY <1>3, <1>4, <1>5, <1>7, <1>8 DEF SoundBut
<1> QED
  BY <1>2, <1>9

(* A number that no table names is no exception any more.                  *)
LEMMA SoundButNamed ==
  ASSUME NEW s, NEW Q, SoundBut(s, Q)
  PROVE  SoundBut(s, Table!StillNamed(Q, s))
<1> PICK control, data, osds, str, lis, open :
         /\ control = s.fd_control /\ data = s.fd_data /\ osds = s.fd_osd
         /\ str = s.m_Streamers /\ lis = s.fd_listen /\ open = s.open
  OBVIOUS
<1>1. control \in FdTable /\ data \in FdTable /\ osds \in FdTable
  BY DEF SoundBut, Tables
<1> PICK R : R = Table!StillNamed(Q, s)
  OBVIOUS
<1>2. /\ R \subseteq Q /\ (lis \in Q => lis \in R)
      /\ \A c \in Clients : /\ control[c] \in Q => control[c] \in R
                            /\ data[c] \in Q => data[c] \in R
                            /\ osds[c] \in Q => osds[c] \in R
      /\ \A fd \in str : fd \in Q => fd \in R
  BY <1>1 DEF Table!StillNamed, Table!Names, Table!Range, FdTable
<1>3. OwnedBut(control, data, osds, str, lis, open, Q)
  BY DEF SoundBut
<1>4. OwnedBut(control, data, osds, str, lis, open, R)
  <2>1. /\ \A c \in Clients : /\ control[c] \in open \cup R \cup {NoFd} /\ data[c] \in open \cup R \cup {NoFd}
                              /\ osds[c] \in open \cup R \cup {NoFd}
        /\ str \subseteq open \cup R /\ lis \in open \cup R \cup {NoFd} /\ (lis \in str => lis \in R)
    BY ONLY <1>2, <1>3 DEF OwnedBut
  <2>2. \A c, d \in Clients :
          /\ control[c] \notin R \cup {NoFd} =>
               (control[d] = control[c] => d = c) /\ data[d] # control[c] /\ osds[d] # control[c]
          /\ data[c] \notin R \cup {NoFd} => (data[d] = data[c] => d = c) /\ osds[d] # data[c]
          /\ osds[c] \notin R \cup {NoFd} => (osds[d] = osds[c] => d = c)
    BY ONLY <1>2, <1>3 DEF OwnedBut
  <2>3. \A c \in Clients :
          /\ (control[c] \in str => control[c] \in R) /\ (data[c] \in str => data[c] \in R)
          /\ (osds[c] \in str => osds[c] \in R)
          /\ lis \notin R \cup {NoFd} => control[c] # lis /\ data[c] # lis /\ osds[c] # lis
    <3> SUFFICES ASSUME NEW c \in Clients
                 PROVE  /\ control[c] \in str => control[c] \in R
                        /\ data[c] \in str => data[c] \in R
                        /\ osds[c] \in str => osds[c] \in R
                        /\ lis \notin R \cup {NoFd} => control[c] # lis /\ data[c] # lis /\ osds[c] # lis
      OBVIOUS
    <3>1. /\ control[c] \in str => control[c] \in Q
          /\ data[c] \in str => data[c] \in Q
          /\ osds[c] \in str => osds[c] \in Q
          /\ lis \notin Q \cup {NoFd} => control[c] # lis /\ data[c] # lis /\ osds[c] # lis
      BY ONLY <1>3, c \in Clients DEF OwnedBut
    <3> QED
      BY ONLY <1>2, <3>1, c \in Clients
  <2>4. \A fd \in open : fd \in str \/ fd = lis
                         \/ \E c \in Clients : control[c] = fd \/ data[c] = fd \/ osds[c] = fd
    BY ONLY <1>3 DEF OwnedBut
  <2> QED
    BY ONLY <2>1, <2>2, <2>3, <2>4 DEF OwnedBut
<1>5. /\ MatchedBut(control, data, s.m_bUdp, s.m_iMulticastMask, s.m_Handles, s.rtp, s.m_Writer, Q)
      /\ s.m_bUdp \in SUBSET Clients
  BY DEF SoundBut, Tables
<1>6. MatchedBut(control, data, s.m_bUdp, s.m_iMulticastMask, s.m_Handles, s.rtp, s.m_Writer, R)
  BY ONLY <1>2, <1>5 DEF MatchedBut
<1> QED
  BY <1>4, <1>6 DEF SoundBut

(* Where the server thread goes from here, it reads no image.              *)
LEMMA AfterRuns ==
  /\ \A i : ThreadSound(Table!After(i))
  /\ ThreadSound(Table!Polling(srv'))
  /\ TableInv => ThreadSound([thread EXCEPT !.pc = "run", !.cli = Table!NoFd])
  /\ \A i, line : \A cli \in Clients :
       ThreadSound([Table!After(i) EXCEPT !.pc = IF line = "GRAB" THEN "grab" ELSE "unlocked",
                                          !.cli = cli])
<1>1. \A i : ThreadSound(Table!After(i))
  BY DEF ThreadSound, Table!After
<1>2. ThreadSound(Table!Polling(srv'))
  BY DEF ThreadSound, Table!Polling
<1>3. TableInv => ThreadSound([thread EXCEPT !.pc = "run", !.cli = Table!NoFd])
  BY DEF TableInv, ThreadSound
<1>4. ASSUME NEW i, NEW line, NEW cli \in Clients
      PROVE  ThreadSound([Table!After(i) EXCEPT !.pc = IF line = "GRAB" THEN "grab" ELSE "unlocked",
                                                !.cli = cli])
  <2>1. {"pc", "cli"} \subseteq DOMAIN Table!After(i)
    BY DEF Table!After
  <2> QED
    BY ONLY <2>1, cli \in Clients DEF ThreadSound
<1> QED
  BY <1>1, <1>2, <1>3, <1>4

(* The actions: each applies a handler to the table as it is.              *)
LEMMA ErrorKeeps ==
  ASSUME TableInv, Table!EventError
  PROVE  TableSound(srv') /\ ThreadSound(thread')
<1> PICK i \in DOMAIN thread.pfd :
         /\ thread' = Table!After(i)
         /\ IF thread.pfd[i] = srv.fd_listen
            THEN \E bound \in BOOLEAN :
                   srv' = Table!Listen([Table!CloseFd(srv, thread.pfd[i]) EXCEPT !.fd_listen = Table!NoFd],
                                       TRUE, bound)
            ELSE srv' = Table!CloseConnections(srv, {c \in Clients :
                          thread.pfd[i] \in {srv.fd_data[c], srv.fd_control[c]}})
  BY DEF Table!EventError
<1>1. ThreadSound(thread')
  BY AfterRuns
<1>2. TableSound(srv)
  BY DEF TableInv
<1> PICK s : s = srv
  OBVIOUS
<1>3. CASE thread.pfd[i] = srv.fd_listen
  <2> PICK bound \in BOOLEAN :
           srv' = Table!Listen([Table!CloseFd(srv, thread.pfd[i]) EXCEPT !.fd_listen = Table!NoFd],
                               TRUE, bound)
    BY <1>3
  <2>1. /\ s \in Tables /\ s.fd_control \in FdTable /\ s.fd_data \in FdTable /\ s.fd_osd \in FdTable
        /\ s.open \in SUBSET Fds
    BY <1>2, TableFields
  <2> PICK less \in SUBSET Fds : less = s.open \ {s.fd_listen}
    BY <2>1
  <2> PICK e : e = [s EXCEPT !.open = less, !.fd_listen = NoFd]
    OBVIOUS
  <2>2. [Table!CloseFd(srv, thread.pfd[i]) EXCEPT !.fd_listen = Table!NoFd] = e
    BY <1>3, <2>1 DEF Table!CloseFd, NoFd, Tables
  <2>3. e \in Tables
    BY ONLY <2>1, e = [s EXCEPT !.open = less, !.fd_listen = NoFd], less \in SUBSET Fds DEF Tables
  <2>4. e.fd_listen = NoFd /\ e.open = less /\ e.rtp = s.rtp /\ e.fd_control = s.fd_control
        /\ e.fd_data = s.fd_data /\ e.fd_osd = s.fd_osd /\ e.m_Streamers = s.m_Streamers
    BY ONLY <2>1, e = [s EXCEPT !.open = less, !.fd_listen = NoFd] DEF Tables
  <2>5. e.m_bUdp = s.m_bUdp /\ e.m_iMulticastMask = s.m_iMulticastMask /\ e.m_Handles = s.m_Handles
        /\ e.m_Writer = s.m_Writer /\ e.primary = s.primary
    BY ONLY <2>1, e = [s EXCEPT !.open = less, !.fd_listen = NoFd] DEF Tables
  <2>6. /\ Owned(s.fd_control, s.fd_data, s.fd_osd, s.m_Streamers, s.fd_listen, s.open)
        /\ Matched(s.fd_control, s.fd_data, s.m_bUdp, s.m_iMulticastMask, s.m_Handles, s.rtp, s.m_Writer)
        /\ Counted(s.fd_control, s.primary)
    BY <1>2 DEF TableSound
  <2>7. Owned(e.fd_control, e.fd_data, e.fd_osd, e.m_Streamers, e.fd_listen, e.open)
    <3>1. Owned(s.fd_control, s.fd_data, s.fd_osd, s.m_Streamers, NoFd, less)
      BY ONLY <2>1, <2>6, less = s.open \ {s.fd_listen}, OwnedListening
    <3> QED
      BY <2>4, <3>1
  <2> PICK on \in BOOLEAN : on = (UseRtp /\ (RtpAlwaysOn \/ e.m_iMulticastMask # {}))
    BY TableAssumption
  <2>8. Matched(e.fd_control, e.fd_data, e.m_bUdp, e.m_iMulticastMask, e.m_Handles, on, e.m_Writer)
    <3>1. UseRtp => (on <=> (RtpAlwaysOn \/ s.m_iMulticastMask # {}))
      BY <2>5
    <3>2. Matched(s.fd_control, s.fd_data, s.m_bUdp, s.m_iMulticastMask, s.m_Handles, on, s.m_Writer)
      BY ONLY <2>6, <3>1 DEF Matched, MatchedBut
    <3> QED
      BY ONLY <2>4, <2>5, <3>2
  <2>9. Counted(e.fd_control, e.primary)
    BY <2>4, <2>5, <2>6
  <2>10. TableSound(Table!Listen(e, TRUE, bound))
    BY ONLY <2>3, <2>7, <2>8, <2>9, on \in BOOLEAN, bound \in BOOLEAN,
            on = (UseRtp /\ (RtpAlwaysOn \/ e.m_iMulticastMask # {})), ListenKeeps
  <2> QED
    BY <1>1, <2>2, <2>10 DEF TableInv
<1>4. CASE thread.pfd[i] # srv.fd_listen
  <2> PICK clis \in SUBSET Clients :
           clis = {c \in Clients : thread.pfd[i] \in {srv.fd_data[c], srv.fd_control[c]}}
    OBVIOUS
  <2>1. srv' = Table!CloseConnections(s, clis)
    BY <1>4
  <2>2. TableSound(Table!CloseConnections(s, clis))
    BY <1>2, CloseKeeps
  <2> QED
    BY <1>1, <2>1, <2>2 DEF TableInv
<1> QED
  BY <1>3, <1>4

(* A connection that is refused because the device is not the primary one  *)
(* would stay in its slot.                                                 *)
LEMMA ConnectedKeeps ==
  ASSUME TableInv, Table!EventConnect
  PROVE  /\ ThreadSound(thread')
         /\ \E Q \in SUBSET Fds : SoundBut(srv', Q) /\ refused' = Table!StillNamed(Q, srv')
<1>1. ThreadSound(thread')
  BY AfterRuns DEF Table!EventConnect
<1> PICK s : s = srv
  OBVIOUS
<1>2. TableSound(s) /\ Fds \ s.open # {} /\ refused \in SUBSET Fds
  BY DEF TableInv, Table!EventConnect
<1> PICK fd : fd = Table!NewFd(s)
  OBVIOUS
<1>3. fd \in Fds \ s.open
  BY <1>2, NewFdIsClosed
<1> PICK acceptable \in BOOLEAN, isPrimary \in BOOLEAN :
         /\ srv' = Table!Handle_ClientConnected(s, fd, acceptable, isPrimary)
         /\ refused' = Table!StillNamed(IF isPrimary THEN refused ELSE refused \cup {fd}, srv')
  BY DEF Table!EventConnect
<1> PICK t : t = Table!Handle_ClientConnected(s, fd, acceptable, TRUE)
  OBVIOUS
<1>4. TableSound(t)
  BY <1>2, <1>3, ConnectKeeps
<1>5. CASE isPrimary
  <2>1. SoundBut(srv', refused)
    BY <1>4, <1>5 DEF TableSound, SoundBut, Owned, Matched
  <2> QED
    BY <1>1, <1>2, <1>5, <2>1
<1>6. CASE ~isPrimary
  <2> PICK Q \in SUBSET Fds : Q = refused \cup {fd}
    BY <1>2, <1>3
  <2>1. SoundBut(s, Q) /\ SoundBut(t, Q)
    BY <1>2, <1>4, SoundButMore
  <2>2. srv' = s \/ srv' = Table!CloseFd(t, fd)
    BY <1>6 DEF Table!Handle_ClientConnected
  <2>3. SoundBut(Table!CloseFd(t, fd), Q)
    BY <2>1, SoundButClosed
  <2>4. refused' = Table!StillNamed(Q, srv')
    BY <1>6
  <2> QED
    BY <1>1, <2>1, <2>2, <2>3, <2>4
<1> QED
  BY <1>5, <1>6

LEMMA ReadKeeps ==
  ASSUME TableInv, Table!EventRead
  PROVE  TableSound(srv') /\ ThreadSound(thread')
<1> PICK s : s = srv
  OBVIOUS
<1>1. TableSound(s)
  BY DEF TableInv
<1> PICK i \in DOMAIN thread.pfd :
         /\ Table!Readers(thread.pfd[i]) # {}
         /\ \E line \in Lines : \E id \in Table!Ids(line),
              ok \in Table!Outcomes(line, Table!Min(Table!Readers(thread.pfd[i]))) :
              LET cli == Table!Min(Table!Readers(thread.pfd[i])) IN
              /\ line \in {"UDP", "PIPE"} => Fds \ srv.open # {}
              /\ srv' = IF line = "EOF" THEN Table!CloseConnection(srv, cli)
                        ELSE Table!Handle_Control(srv, cli, line, id, ok)
              /\ thread' = IF Table!Unlocks(srv, cli, line)
                           THEN [Table!After(i) EXCEPT
                                   !.pc = IF line = "GRAB" THEN "grab" ELSE "unlocked",
                                   !.cli = cli]
                           ELSE Table!After(i)
  BY DEF Table!EventRead
<1> PICK cli : cli = Table!Min(Table!Readers(thread.pfd[i]))
  OBVIOUS
<1>2. cli \in Clients /\ s.fd_control[cli] # NoFd
  <2> PICK readers : readers = Table!Readers(thread.pfd[i])
    OBVIOUS
  <2>1. readers \in SUBSET Nat /\ readers # {}
    BY TableAssumption DEF Table!Readers, Table!InUse
  <2>2. cli \in readers
    BY <2>1, LeastIn
  <2> QED
    BY <2>2 DEF Table!Readers, Table!InUse, NoFd
<1> PICK line \in Lines : \E id \in Table!Ids(line), ok \in Table!Outcomes(line, cli) :
              /\ line \in {"UDP", "PIPE"} => Fds \ s.open # {}
              /\ srv' = IF line = "EOF" THEN Table!CloseConnection(s, cli)
                        ELSE Table!Handle_Control(s, cli, line, id, ok)
              /\ thread' = IF Table!Unlocks(s, cli, line)
                           THEN [Table!After(i) EXCEPT
                                   !.pc = IF line = "GRAB" THEN "grab" ELSE "unlocked",
                                   !.cli = cli]
                           ELSE Table!After(i)
  OBVIOUS
<1> PICK id \in Table!Ids(line), ok \in Table!Outcomes(line, cli) :
              /\ line \in {"UDP", "PIPE"} => Fds \ s.open # {}
              /\ srv' = IF line = "EOF" THEN Table!CloseConnection(s, cli)
                        ELSE Table!Handle_Control(s, cli, line, id, ok)
              /\ thread' = IF Table!Unlocks(s, cli, line)
                           THEN [Table!After(i) EXCEPT
                                   !.pc = IF line = "GRAB" THEN "grab" ELSE "unlocked",
                                   !.cli = cli]
                           ELSE Table!After(i)
  OBVIOUS
<1>3. id \in Clients /\ ok \in BOOLEAN
  <2>1. Table!Min(Clients) \in Clients
    BY <1>2, TableAssumption, LeastIn
  <2> QED
    BY <2>1 DEF Table!Ids, Table!Outcomes
<1>4. ThreadSound(thread')
  BY <1>2, AfterRuns
<1>5. CASE line = "EOF"
  BY <1>1, <1>2, <1>4, <1>5, CloseKeeps DEF Table!CloseConnection, TableInv
<1>6. CASE line # "EOF"
  <2>1. TableSound(Table!Handle_Control(s, cli, line, id, ok))
    BY <1>1, <1>2, <1>3, HandleKeeps
  <2> QED
    BY <1>4, <1>6, <2>1 DEF TableInv
<1> QED
  BY <1>5, <1>6

LEMMA GrabKeeps ==
  ASSUME TableInv, Table!GrabRead
  PROVE  TableSound(srv') /\ ThreadSound(thread')
<1>1. ThreadSound(thread')
  BY AfterRuns DEF Table!GrabRead
<1> PICK s, cli : s = srv /\ cli = thread.cli
  OBVIOUS
<1>2. TableSound(s) /\ cli \in Clients
  BY DEF TableInv, ThreadSound, Table!GrabRead
<1>3. TableSound(Table!CloseConnections(s, {cli}))
  BY <1>2, CloseKeeps
<1> QED
  BY <1>1, <1>2, <1>3 DEF TableInv, Table!GrabRead, Table!CloseConnection

(* VDR's calls drop clients.                                               *)
LEMMA CallsKeep ==
  ASSUME TableInv, Table!ServerPlay \/ Table!Xine_Control \/ Table!ServerOsdCmd
  PROVE  TableSound(srv') /\ ThreadSound(thread')
<1> PICK s : s = srv
  OBVIOUS
<1>1. TableSound(s)
  BY DEF TableInv
<1>2. ThreadSound(thread')
  BY DEF TableInv, Table!ServerPlay, Table!Xine_Control, Table!ServerOsdCmd
<1>3. CASE Table!ServerPlay \/ Table!Xine_Control
  <2> PICK failed \in SUBSET Clients : srv' = Table!CloseConnections(s, failed)
    BY <1>3 DEF Table!ServerPlay, Table!Xine_Control, Table!Controlled, Table!Served, Table!InUse
  <2>1. TableSound(Table!CloseConnections(s, failed))
    BY <1>1, CloseKeeps
  <2> QED
    BY <1>2, <2>1 DEF TableInv
<1>4. CASE Table!ServerOsdCmd
  <2> PICK failed \in SUBSET Clients : srv' = Table!DropOsd(s, failed)
    BY <1>4 DEF Table!ServerOsdCmd, Table!Served, Table!InUse
  <2> PICK whole \in SUBSET Clients : whole = failed \ s.m_bOsdConn
    OBVIOUS
  <2> PICK own \in SUBSET Clients : own = failed \cap s.m_bOsdConn
    OBVIOUS
  <2> PICK t : t = Table!CloseConnections(s, whole)
    OBVIOUS
  <2>1. TableSound(t)
    BY <1>1, CloseKeeps
  <2>2. TableSound(Table!CloseOsdConnections(t, own))
    BY <2>1, CloseOsdKeeps
  <2> QED
    BY <1>2, <2>2 DEF TableInv, Table!DropOsd
<1> QED
  BY <1>3, <1>4

LEMMA SelectKeeps ==
  ASSUME TableInv, Table!SelectMaster
  PROVE  TableSound(srv') /\ ThreadSound(thread')
<1> PICK s : s = srv
  OBVIOUS
<1>1. TableSound(s) /\ ThreadSound(thread')
  BY DEF TableInv, Table!SelectMaster
<1> PICK cli : cli = Table!Master(s)
  OBVIOUS
<1>2. cli \in Clients \cup {NoFd}
  <2> PICK paced : paced = {c \in Table!Served(s) : s.m_Writer[c] # Table!NoFd}
    OBVIOUS
  <2>1. paced \in SUBSET Clients /\ paced \in SUBSET Nat
    BY TableAssumption DEF Table!Served, Table!InUse
  <2>2. cli = Table!NoFd \/ (paced # {} /\ cli = Table!Min(paced))
    BY DEF Table!Master
  <2>3. paced # {} => Table!Min(paced) \in paced
    BY <2>1, LeastIn
  <2> QED
    BY <2>1, <2>2, <2>3 DEF NoFd
<1> PICK failed \in SUBSET Clients : srv' = [Table!CloseConnections(s, failed) EXCEPT !.m_MasterCli = cli]
  BY DEF Table!SelectMaster, Table!Controlled, Table!Served, Table!InUse
<1> PICK t : t = Table!CloseConnections(s, failed)
  OBVIOUS
<1>3. TableSound(t)
  BY <1>1, CloseKeeps
<1>4. TableSound([t EXCEPT !.m_MasterCli = cli])
  BY <1>2, <1>3, MasterKeeps
<1> QED
  BY <1>1, <1>4 DEF TableInv

LEMMA ListenAgainKeeps ==
  ASSUME TableInv, Table!ListenAgain
  PROVE  TableSound(srv') /\ ThreadSound(thread')
<1> PICK s : s = srv
  OBVIOUS
<1>1. TableSound(s) /\ ThreadSound(thread')
  BY DEF TableInv, Table!ListenAgain
<1> PICK samePort \in BOOLEAN, bound \in BOOLEAN : srv' = Table!Listen(s, samePort, bound)
  BY DEF Table!ListenAgain
<1> PICK on \in BOOLEAN : on = (UseRtp /\ (RtpAlwaysOn \/ s.m_iMulticastMask # {}))
  BY TableAssumption
<1>2. /\ s \in Tables
      /\ Owned(s.fd_control, s.fd_data, s.fd_osd, s.m_Streamers, s.fd_listen, s.open)
      /\ Matched(s.fd_control, s.fd_data, s.m_bUdp, s.m_iMulticastMask, s.m_Handles, s.rtp, s.m_Writer)
      /\ Counted(s.fd_control, s.primary)
  BY <1>1 DEF TableSound
<1>3. Matched(s.fd_control, s.fd_data, s.m_bUdp, s.m_iMulticastMask, s.m_Handles, on, s.m_Writer)
  BY <1>2 DEF Matched, MatchedBut
<1>4. s \in Tables
  BY <1>2
<1>5. TableSound(Table!Listen(s, samePort, bound))
  BY ONLY <1>2, <1>3, <1>4, on \in BOOLEAN, samePort \in BOOLEAN, bound \in BOOLEAN,
          on = (UseRtp /\ (RtpAlwaysOn \/ s.m_iMulticastMask # {})), ListenKeeps
<1> QED
  BY <1>1, <1>5 DEF TableInv

LEMMA StreamerEndsKeeps ==
  ASSUME TableInv, Table!StreamerEnds
  PROVE  TableSound(srv') /\ ThreadSound(thread')
<1> PICK s : s = srv
  OBVIOUS
<1>1. TableSound(s) /\ ThreadSound(thread')
  BY DEF TableInv, Table!StreamerEnds
<1> PICK ended \in SUBSET s.m_Streamers :
         srv' = [s EXCEPT !.m_Streamers = @ \ ended, !.open = @ \ ended]
  BY DEF Table!StreamerEnds
<1>2. TableSound([s EXCEPT !.m_Streamers = @ \ ended, !.open = @ \ ended])
  BY <1>1, StreamersKeep
<1> QED
  BY <1>1, <1>2 DEF TableInv

LEMMA TableInvInit == Table!SrvInit => TableInv
<1> SUFFICES ASSUME Table!SrvInit PROVE TableInv
  OBVIOUS
<1> PICK none : none = [c \in Clients |-> NoFd]
  OBVIOUS
<1>1. none \in FdTable /\ \A c \in Clients : none[c] = NoFd
  BY DEF FdTable
<1> PICK s : s = Table!ServerUp
  OBVIOUS
<1>2. s \in Tables
  BY <1>1 DEF Table!ServerUp, Tables, NoFd, ConnTypes
<1>3. s.fd_control = none /\ s.fd_data = none /\ s.fd_osd = none /\ s.m_Writer = none /\ s.m_Streamers = {}
      /\ s.fd_listen = NoFd /\ s.open = {} /\ s.m_bUdp = {} /\ s.m_iMulticastMask = {} /\ s.m_Handles = {}
      /\ s.primary = 0
  BY DEF Table!ServerUp, NoFd
<1>4. Owned(none, none, none, {}, NoFd, {})
  BY <1>1 DEF Owned, OwnedBut
<1> PICK on \in BOOLEAN : on = (UseRtp /\ (RtpAlwaysOn \/ s.m_iMulticastMask # {}))
  BY TableAssumption
<1>5. Matched(none, none, {}, {}, {}, on, none)
  BY <1>1, <1>3 DEF Matched, MatchedBut
<1>6. Counted(none, 0)
  <2>1. {c \in Clients : none[c] # NoFd} = {}
    BY <1>1
  <2> QED
    BY <2>1, FS_EmptySet DEF Counted
<1>7. /\ Owned(s.fd_control, s.fd_data, s.fd_osd, s.m_Streamers, s.fd_listen, s.open)
      /\ Matched(s.fd_control, s.fd_data, s.m_bUdp, s.m_iMulticastMask, s.m_Handles, on, s.m_Writer)
      /\ Counted(s.fd_control, s.primary)
  BY ONLY <1>3, <1>4, <1>5, <1>6
<1>8. TableSound(Table!Listen(s, TRUE, TRUE))
  BY ONLY <1>2, <1>7, on \in BOOLEAN, on = (UseRtp /\ (RtpAlwaysOn \/ s.m_iMulticastMask # {})), ListenKeeps
<1>9. ThreadSound(thread)
  BY DEF Table!SrvInit, Table!Polling, ThreadSound
<1> QED
  BY <1>8, <1>9 DEF TableInv, Table!SrvInit

LEMMA TableInvNext == TableInv /\ [Next]_vars => TableInv'
<1> SUFFICES ASSUME TableInv, [Next]_vars PROVE TableInv'
  OBVIOUS
<1>1. CASE UNCHANGED tableVars
  BY <1>1 DEF tableVars, TableInv, TableSound, Owned, Matched
<1>2. CASE Table!SrvNext
  <2>1. ThreadSound(thread')
        /\ \E Q \in SUBSET Fds : SoundBut(srv', Q) /\ refused' = Table!StillNamed(Q, srv')
    <3>1. CASE Table!EventConnect
      BY <3>1, ConnectedKeeps
    <3>2. CASE ~Table!EventConnect
      <4>1. refused' = Table!StillNamed(refused, srv')
        BY <1>2, <3>2 DEF Table!SrvNext
      <4>2. TableSound(srv') /\ ThreadSound(thread')
        <5>1. CASE Table!PollAgain
          BY <5>1, AfterRuns DEF Table!PollAgain, TableInv, Table!Polling, ThreadSound
        <5>2. CASE Table!LockAgain
          BY <5>2, AfterRuns DEF Table!LockAgain, TableInv
        <5> QED
          BY <1>2, <3>2, <5>1, <5>2, ErrorKeeps, ReadKeeps, GrabKeeps, CallsKeep, SelectKeeps,
             ListenAgainKeeps, StreamerEndsKeeps DEF Table!SrvNext
      <4>3. SoundBut(srv', refused) /\ refused \in SUBSET Fds
        BY <4>2 DEF TableInv, TableSound, SoundBut, Owned, Matched
      <4> QED
        BY <4>1, <4>2, <4>3
    <3> QED
      BY <3>1, <3>2
  <2> PICK Q \in SUBSET Fds : SoundBut(srv', Q) /\ refused' = Table!StillNamed(Q, srv')
    BY <2>1
  <2>2. SoundBut(srv', refused') /\ refused' \subseteq Fds
    BY SoundButNamed DEF Table!StillNamed
  <2> QED
    BY <2>1, <2>2 DEF TableInv, TableSound, SoundBut, Owned, Matched
<1> QED
  BY <1>1, <1>2 DEF Next, Step, OthersStay, Stopped, vars

(* Where there is one place for a descriptor, there is one owner.          *)
LEMMA OwnersCounted == TableInv => Table!DescriptorsOwned
<1> SUFFICES ASSUME TableInv, NEW fd \in Fds
             PROVE  /\ fd \in srv.open => Table!Owners(fd) # {}
                    /\ fd \notin refused =>
                         Table!Cardinality(Table!Owners(fd)) = IF fd \in srv.open THEN 1 ELSE 0
  BY DEF Table!DescriptorsOwned
<1> PICK control, data, osds, str, lis, open :
         /\ control = srv.fd_control /\ data = srv.fd_data /\ osds = srv.fd_osd
         /\ str = srv.m_Streamers /\ lis = srv.fd_listen /\ open = srv.open
  OBVIOUS
<1>1. OwnedBut(control, data, osds, str, lis, open, refused) /\ fd # NoFd
  BY NoFdIsNone DEF TableInv, TableSound, Owned
<1> PICK owners : owners = Table!Owners(fd)
  OBVIOUS
<1>2. owners = {<<"control", c>> : c \in {d \in Clients : control[d] = fd}}
               \cup {<<"data", c>> : c \in {d \in Clients : data[d] = fd}}
               \cup {<<"osd", c>> : c \in {d \in Clients : osds[d] = fd}}
               \cup (IF fd \in str THEN {<<"streamer", fd>>} ELSE {})
               \cup (IF fd = lis THEN {<<"listen", fd>>} ELSE {})
  BY DEF Table!Owners
<1>3. CASE fd \notin open /\ fd \notin refused
  <2>1. {d \in Clients : control[d] = fd} = {} /\ {d \in Clients : data[d] = fd} = {}
        /\ {d \in Clients : osds[d] = fd} = {} /\ fd \notin str /\ fd # lis
    BY <1>1, <1>3 DEF OwnedBut
  <2>2. owners = {}
    BY ONLY <1>2, <2>1
  <2> QED
    BY <1>3, <2>2, FS_EmptySet, SameCardinality
<1>4. CASE fd \in open /\ fd \notin refused
  <2>1. ASSUME NEW x, owners = {x} PROVE Table!Cardinality(Table!Owners(fd)) = 1
    BY <2>1, FS_Singleton, SameCardinality
  <2>2. ASSUME NEW c \in Clients, control[c] = fd PROVE owners = {<<"control", c>>}
    <3>1. {d \in Clients : control[d] = fd} = {c} /\ {d \in Clients : data[d] = fd} = {}
          /\ {d \in Clients : osds[d] = fd} = {} /\ fd \notin str /\ fd # lis
      BY <1>1, <1>4, <2>2 DEF OwnedBut
    <3> QED
      BY ONLY <1>2, <3>1
  <2>3. ASSUME NEW c \in Clients, data[c] = fd PROVE owners = {<<"data", c>>}
    <3>1. {d \in Clients : control[d] = fd} = {} /\ {d \in Clients : data[d] = fd} = {c}
          /\ {d \in Clients : osds[d] = fd} = {} /\ fd \notin str /\ fd # lis
      BY <1>1, <1>4, <2>3 DEF OwnedBut
    <3> QED
      BY ONLY <1>2, <3>1
  <2>4. ASSUME NEW c \in Clients, osds[c] = fd PROVE owners = {<<"osd", c>>}
    <3>1. {d \in Clients : control[d] = fd} = {} /\ {d \in Clients : data[d] = fd} = {}
          /\ {d \in Clients : osds[d] = fd} = {c} /\ fd \notin str /\ fd # lis
      BY <1>1, <1>4, <2>4 DEF OwnedBut
    <3> QED
      BY ONLY <1>2, <3>1
  <2>5. ASSUME fd \in str PROVE owners = {<<"streamer", fd>>}
    <3>1. {d \in Clients : control[d] = fd} = {} /\ {d \in Clients : data[d] = fd} = {}
          /\ {d \in Clients : osds[d] = fd} = {} /\ fd # lis
      BY <1>1, <1>4, <2>5 DEF OwnedBut
    <3> QED
      BY ONLY <1>2, <2>5, <3>1
  <2>6. ASSUME fd = lis PROVE owners = {<<"listen", fd>>}
    <3>1. {d \in Clients : control[d] = fd} = {} /\ {d \in Clients : data[d] = fd} = {}
          /\ {d \in Clients : osds[d] = fd} = {} /\ fd \notin str
      BY <1>1, <1>4, <2>6 DEF OwnedBut
    <3> QED
      BY ONLY <1>2, <2>6, <3>1
  <2>7. fd \in str \/ fd = lis \/ \E c \in Clients : control[c] = fd \/ data[c] = fd \/ osds[c] = fd
    BY <1>1, <1>4 DEF OwnedBut
  <2>8. Table!Cardinality(Table!Owners(fd)) = 1
    BY <2>1, <2>2, <2>3, <2>4, <2>5, <2>6, <2>7
  <2> QED
    BY <1>4, <2>8, FS_EmptySet, SameCardinality
<1>5. fd \in open => owners # {}
  <2>1. fd \in open => fd \in str \/ fd = lis
                       \/ \E c \in Clients : control[c] = fd \/ data[c] = fd \/ osds[c] = fd
    BY <1>1 DEF OwnedBut
  <2> QED
    BY <1>2, <2>1
<1> QED
  BY <1>3, <1>4, <1>5

LEMMA TableAccounted == TableInv => ConnectionsAccounted
<1> SUFFICES ASSUME TableInv PROVE ConnectionsAccounted
  OBVIOUS
<1>1. Table!DescriptorsOwned
  BY OwnersCounted
<1>2. /\ Matched(srv.fd_control, srv.fd_data, srv.m_bUdp, srv.m_iMulticastMask, srv.m_Handles,
                 srv.rtp, srv.m_Writer)
      /\ Counted(srv.fd_control, srv.primary)
  BY DEF TableInv, TableSound
<1>3. Table!TransportsMatch
  BY <1>2 DEF Matched, MatchedBut, Table!TransportsMatch, NoFd, TableInv, TableSound, Tables
<1>4. Table!PrimaryHeld
  BY <1>2, SameCardinality DEF Counted, Table!PrimaryHeld, Table!InUse, NoFd
<1> QED
  BY <1>1, <1>3, <1>4 DEF ConnectionsAccounted

(* For every number of slots, descriptors and connections: however         *)
(* requests, hang-ups, poll events that have become stale and VDR's calls  *)
(* follow each other, no descriptor is leaked, shared by two places, or    *)
(* kept after it was closed; the scheduler's sockets, the multicast mask   *)
(* and the writers agree with the slots; and the device stays primary      *)
(* while a client is connected (CloseConnection(), Handle_Control_DATA(),  *)
(* Listen() and the rest of frontend_svr.c).  The device may become the    *)
(* primary one or not: the number of a refused client, which Handle_       *)
(* ClientConnected() closes and leaves in its slot, is the only exception, *)
(* and no longer than a table names it.                                    *)
THEOREM ConnectionsAreAccounted == Spec => []ConnectionsAccounted
<1>1. Init => TableInv
  BY TableInvInit DEF Init
<1> QED
  BY <1>1, TableInvNext, TableAccounted, PTL DEF Spec
=============================================================================
