---------------------------- MODULE ChromecastApp ----------------------------
(***************************************************************************)
(* The Chromecast app's screens (chromecast/app.cc, view.cc) over the      *)
(* session of module Session.                                              *)
(*                                                                         *)
(* Three views of the same flow are never quite in step: what the user     *)
(* sees and taps (`drawn', the last frame), what the app knows (`snapshot',*)
(* changed at once by a tap and later by on_session()), and what the       *)
(* worker works on.  Taps name rows by index in all three.                 *)
(***************************************************************************)
EXTENDS Session

VARIABLES
    readable,  \* the session's eventfd
    snapshot,  \* App::snapshot
    awaiting,  \* App::awaiting
    entering,  \* App::entering
    chosen,    \* App::chosen
    asked,     \* App::password_ssid
    drawn,     \* App::layout, with what its rows said
    meant      \* what the user was shown when he last opened a device or joined a network
appVars == <<vars, readable, snapshot, awaiting, entering, chosen, asked, drawn, meant>>
ui == <<readable, snapshot, awaiting, entering, chosen, asked, drawn, meant>>
-------------------------------------------------------------------------------
(* view.cc.                                                                *)
Screens == {"devices", "working", "networks", "password", "progress", "result"}

\* screen_for()
ScreenFor(s, password) ==
    CASE s.stage \in {"searching", "devices"} -> "devices"
      [] s.stage \in {"hotspot", "scanning"} -> "working"
      [] s.stage = "networks" -> IF password THEN "password" ELSE "networks"
      [] s.stage = "failed" /\ s.target = NoNetwork -> "result"
      [] OTHER -> "progress"
Screen == ScreenFor(snapshot, entering)

\* layout_view(), as far as a tap on it depends on the snapshot.
View == [screen |-> Screen, stage |-> snapshot.stage, retry |-> snapshot.retry,
         rows |-> IF Screen = "devices" THEN [i \in DOMAIN snapshot.devices |-> snapshot.devices[i].id]
                  ELSE IF Screen = "networks" THEN snapshot.networks
                  ELSE IF Screen = "password" THEN <<snapshot.networks[chosen]>>
                  ELSE <<>>]
-------------------------------------------------------------------------------
(* app.cc: the commands update the snapshot at once, so that the next      *)
(* frame shows the new screen.                                             *)
Sends(command, argument, password) ==
    /\ Command(command, argument, password)
    /\ awaiting' = slot'.sequence

NothingMeant == [device |-> NoDevice, network |-> NoNetwork]

\* go_search()
GoSearch ==
    /\ Sends("search", NoArgument, NoPassword)
    /\ entering' = FALSE
    /\ snapshot' = [snapshot EXCEPT !.stage = "searching", !.target = NoNetwork]
    /\ meant' = NothingMeant
    /\ UNCHANGED <<readable, chosen, asked, drawn>>

\* go_open(): the row that was tapped is known by its place in the list.
GoOpen(i) ==
    LET device == IF i \in DOMAIN snapshot.devices THEN snapshot.devices[i] ELSE NoSuchDevice
    IN /\ Sends("open", i, NoPassword)
       /\ entering' = FALSE
       /\ snapshot' = [snapshot EXCEPT !.device = device, !.networks = <<>>,
                         !.stage = IF device.reachable THEN "scanning" ELSE "hotspot"]
       /\ UNCHANGED <<readable, chosen, asked, drawn>>

\* A row is tappable while the list is still being searched for.
TapDevice(i) ==
    /\ drawn.screen = "devices"
    /\ i \in DOMAIN drawn.rows
    /\ meant' = [NothingMeant EXCEPT !.device = drawn.rows[i]]
    /\ GoOpen(i)

TapHotspot ==
    /\ drawn.screen = "devices"
    /\ meant' = NothingMeant
    /\ GoOpen(NoArgument)

TapSearch == drawn.screen = "devices" /\ drawn.stage = "devices" /\ GoSearch

\* Mutant of TapNetwork: the row that was tapped is forgotten.
TapNetworkFirst(i) ==
    /\ drawn.screen = "networks"
    /\ i \in DOMAIN drawn.rows
    /\ drawn.rows[i] \in Supported
    /\ 1 \in DOMAIN snapshot.networks
    /\ chosen' = 1
    /\ asked' = drawn.rows[i]
    /\ entering' = TRUE
    /\ UNCHANGED <<vars, readable, snapshot, awaiting, drawn, meant>>

\* choose(); a greyed row takes no tap.
TapNetwork(i) ==
    /\ drawn.screen = "networks"
    /\ i \in DOMAIN drawn.rows
    /\ drawn.rows[i] \in Supported
    /\ i \in DOMAIN snapshot.networks
    /\ snapshot.networks[i] \in Supported
    /\ chosen' = i
    /\ asked' = snapshot.networks[i]
    /\ entering' = TRUE
    /\ UNCHANGED <<vars, readable, snapshot, awaiting, drawn, meant>>

\* connect() needs a password of a valid form, or none for an open network.
Connects(password, shown) ==
    /\ entering
    /\ chosen \in DOMAIN snapshot.networks
    /\ LET target == snapshot.networks[chosen]
       IN /\ IF target \in Unsecured THEN password = NoPassword
                                     ELSE password \in Passphrases \ {"malformed"}
          /\ snapshot' = [snapshot EXCEPT !.target = target, !.stage = "sending"]
    /\ entering' = FALSE
    /\ Sends("join", chosen, password)
    /\ meant' = [device |-> snapshot.device.id, network |-> shown]
    /\ UNCHANGED <<readable, chosen, asked, drawn>>

TapConnect(password) == drawn.screen = "password" /\ Connects(password, drawn.rows[1])

\* enter(), the key of a real keyboard.
Enter(password) == Screen = "password" /\ Connects(password, asked)

\* Target::kRescan and kRetry.
TapRescan ==
    /\ \/ drawn.screen = "networks"
       \/ drawn.screen = "result"
       \/ drawn.stage = "failed" /\ drawn.retry
    /\ entering' = FALSE
    /\ snapshot' = [snapshot EXCEPT !.stage = "scanning", !.networks = <<>>, !.target = NoNetwork]
    /\ Sends("rescan", NoArgument, NoPassword)
    /\ UNCHANGED <<readable, chosen, asked, drawn, meant>>

TapDone ==
    /\ drawn.screen = "result" \/ drawn.stage \in {"done", "failed"}
    /\ GoSearch

\* back(), from the button or the system: on the device list it leaves the app instead.
Back ==
    \/ /\ Screen = "password"
       /\ entering' = FALSE
       /\ UNCHANGED <<vars, readable, snapshot, awaiting, chosen, asked, drawn, meant>>
    \/ Screen \notin {"devices", "password"} /\ GoSearch
-------------------------------------------------------------------------------
\* Mutant of OnSession: the report on the command awaited is taken for an old one.
OnSessionTooNew ==
    /\ Alive
    /\ readable
    /\ readable' = FALSE
    /\ IF shared.command <= awaiting THEN UNCHANGED <<snapshot, entering>>
       ELSE snapshot' = shared /\ entering' = FALSE
    /\ UNCHANGED <<vars, awaiting, chosen, asked, drawn, meant>>

(* on_session(): take_snapshot(), then an old command's report is dropped. *)
(* The password screen stays only while its network keeps its place.       *)
OnSession ==
    /\ Alive
    /\ readable
    /\ readable' = FALSE
    /\ IF shared.command < awaiting THEN UNCHANGED <<snapshot, entering, asked>>
       ELSE /\ snapshot' = shared
            /\ entering' = (/\ entering
                            /\ shared.stage = "networks"
                            /\ chosen \in DOMAIN shared.networks
                            /\ shared.networks[chosen] = asked)
            /\ asked' = IF shared.stage = "done" THEN NoNetwork ELSE asked
    /\ UNCHANGED <<vars, awaiting, chosen, drawn, meant>>

\* draw()
Draw ==
    /\ Alive
    /\ drawn # View
    /\ drawn' = View
    /\ UNCHANGED <<vars, readable, snapshot, awaiting, entering, chosen, asked, meant>>

\* destroy(App*) joins the worker.
Close == Destroy /\ UNCHANGED ui

\* What the worker, the clock and the Chromecasts do; a publish makes the eventfd readable.
Works(A) ==
    /\ A
    /\ readable' = (readable \/ shared' # shared)
    /\ UNCHANGED <<snapshot, awaiting, entering, chosen, asked, drawn, meant>>
-------------------------------------------------------------------------------
\* create_app() takes the empty snapshot and starts a search.
AppInit ==
    /\ Init
    /\ readable = FALSE
    /\ snapshot = NoSnapshot
    /\ awaiting = 0
    /\ entering = FALSE
    /\ chosen = NoArgument
    /\ asked = NoNetwork
    /\ drawn = View
    /\ meant = NothingMeant

CreateApp == awaiting = 0 /\ GoSearch

Tap ==
    \/ \E i \in 1 .. Cardinality(Devices) : TapDevice(i)
    \/ TapHotspot \/ TapSearch
    \/ \E i \in DOMAIN snapshot.networks : TapNetwork(i)
    \/ \E p \in Passphrases \cup {NoPassword} : TapConnect(p) \/ Enter(p)
    \/ TapRescan \/ TapDone \/ Back

AppNext ==
    \/ CreateApp
    \/ awaiting > 0 /\ Alive /\ Tap
    \/ OnSession \/ Draw \/ Close
    \/ Works(Worker) \/ Works(Tick) \/ Works(World)

\* As in Session; and the looper delivers a readable eventfd.
AppFairness == /\ WF_appVars(Works(Worker)) /\ WF_appVars(Works(Tick))
               /\ WF_appVars(OnSession) /\ WF_appVars(CreateApp)
AppSpec == AppInit /\ [][AppNext]_appVars /\ AppFairness
-------------------------------------------------------------------------------
(* The Chromecast is given the network that the password screen named, and *)
(* it is the Chromecast whose networks were listed: the index that the tap *)
(* sends still means the same to the worker when it takes it.              *)
JoinsAsShown ==
    pc \in {"send", "connect"} /\ slot.command = "none" =>
        work.target = meant.network /\ here.device.id = meant.device

(* A screen on which a flow is over, or the device list, never hides a     *)
(* Wi-Fi request that the phone still serves.                              *)
ScreenReleases ==
    snapshot.stage \in {"devices", "done", "failed"} => android = {}

(* A screen that shows progress is followed by one that shows an outcome,  *)
(* without the user's doing, unless the app is closed.                     *)
ScreenSettles ==
    snapshot.stage \notin {"devices", "networks", "done", "failed"}
        ~> snapshot.stage \in {"devices", "networks", "done", "failed"} \/ ~Alive
-------------------------------------------------------------------------------
(* A claim of the documentation that the code does not keep.               *)

(* "Tapping it asks Android to join that hotspot by the BSSID the          *)
(* Chromecast reported earlier": the Chromecast that the worker opens is   *)
(* the one whose row was tapped.                                           *)
OpensTappedDevice ==
    [][pc = "open" /\ pc' = "contact" /\ slot.command = "none" => here'.device.id = meant.device]_appVars
===============================================================================
