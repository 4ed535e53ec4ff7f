------------------------------- MODULE Session -------------------------------
(***************************************************************************)
(* The flows that the Chromecast session's worker thread runs              *)
(* (chromecast/session.cc): search, open or rescan, join.  Each step is    *)
(* the code between two points where another thread, Android or the        *)
(* Chromecast can act: a publish, a wait, a network call, a check of the   *)
(* interrupted flag.  Wording, ports, addresses and bytes are left out.    *)
(*                                                                         *)
(* Storing a snapshot and writing the eventfd are one step here; module    *)
(* SessionMailbox shows what their separation does.                        *)
(***************************************************************************)
EXTENDS CommandSlot, Sequences, FiniteSets, Functions

CONSTANTS
    Devices,       \* Chromecasts, as same_device() tells them apart
    Identified,    \* those that report a MAC address or UDN; the others only a public key
    Networks,      \* Wi-Fi networks, by SSID
    PhoneWifi,     \* networks the phone is on by itself
    PhoneHotspots, \* Chromecasts whose hotspot the phone is on by itself
    Supported,     \* networks with security the setup API handles
    Unsecured,     \* supported networks that need no password
    Scans,         \* the lists of networks a scan may return
    KnownFirst,    \* Session::known as read from devices.json
    CastsFirst,    \* the states the Chromecasts may start in
    Passphrases,   \* passwords given with join()
    Flaky,         \* whether a Chromecast may lose its network on its own
    MaxCommands,   \* bound: commands sent
    ScanAttempts,  \* attempts to read a scan's results, 6 in the code
    SaveAttempts,  \* attempts to confirm a save, 4 in the code
    MaxMisses      \* unanswered polls that end the wait on the hotspot, 3 in the code

NoDevice == "no device"
NoNetwork == "no network"
NoRequest == -1
-------------------------------------------------------------------------------
(* Setup states, by what the code tells apart: 10-19 idle, 31 and 32       *)
(* wrong, 21, 41, 51, 53 and 54 failed, others below 60 joining, 60        *)
(* connected, 61 unsaved, 62 saved, 63 and 64 pending.                     *)
ConnectedStates == {"connected", "unsaved", "saved", "pending"}
FailedStates == {"wrong", "failed"}
States == {"idle", "joining"} \cup FailedStates \cup ConnectedStates

\* struct Device: who it is, what it last reported, and where its setup API answered.
NoSuchDevice == [id |-> NoDevice, ssid |-> NoNetwork, state |-> "idle",
                 reachable |-> FALSE, hotspot |-> FALSE]
Remembered(x) == [NoSuchDevice EXCEPT !.id = x]

\* What a Chromecast is: its network, hotspot, what it saved, and what it was given.  One
\* that says it is connected is on a network.
Casts == {c \in [trying : Networks \cup {NoNetwork}, good : BOOLEAN, keep : BOOLEAN,
                 ssid : Networks \cup {NoNetwork}, state : States, saved : SUBSET Networks,
                 hotspot : BOOLEAN] :
            c.state \in ConnectedStates => c.ssid \in Networks}

\* devices.json, the app's own file, names no device twice, and none without MAC and UDN.
ASSUME ConstantsAssumption ==
    /\ PhoneWifi \subseteq Networks /\ Supported \subseteq Networks
    /\ Unsecured \subseteq Supported
    /\ Identified \subseteq Devices
    /\ PhoneHotspots \subseteq Devices /\ IsFiniteSet(Devices)
    /\ Scans \subseteq Seq(Networks)
    /\ KnownFirst \in Seq(Identified) /\ IsInjective(KnownFirst)
    /\ CastsFirst \subseteq [Devices -> Casts]
    /\ Passphrases \subseteq {"right", "wrong", "malformed"}
    /\ Flaky \in BOOLEAN
    /\ MaxCommands \in Nat
    /\ {ScanAttempts, SaveAttempts, MaxMisses} \subseteq Nat \ {0}

Stages == {"searching", "devices", "hotspot", "scanning", "networks", "sending", "joining",
           "finding", "saving", "done", "failed"}

\* struct Snapshot, without its message.
NoSnapshot == [stage |-> "searching", devices |-> <<>>, device |-> NoSuchDevice,
               networks |-> <<>>, target |-> NoNetwork, prompt |-> FALSE, joined |-> FALSE,
               retry |-> FALSE, failed |-> "failed", command |-> 0]
DeviceReports == [id : Devices \cup {NoDevice}, ssid : Networks \cup {NoNetwork}, state : States,
                  reachable : BOOLEAN, hotspot : BOOLEAN]
Snapshots == [stage : Stages, devices : Seq(DeviceReports), device : DeviceReports,
              networks : Seq(Networks), target : Networks \cup {NoNetwork}, prompt : BOOLEAN,
              joined : BOOLEAN, retry : BOOLEAN, failed : Stages, command : Nat]

VARIABLES
    slot,     \* the fields of Session its mutex guards, see CommandSlot
    shared,   \* Session::shared
    work,     \* Session::work
    current,  \* Session::current
    known,    \* Session::known
    held,     \* Session::hotspot_request and target_request
    pc,       \* what the worker does next
    here,     \* the locals of the running command
    elapsed,  \* since(start): 0, past the loop's first threshold, past its deadline
    android,  \* the network requests Android holds for the app
    cast      \* the Chromecasts themselves
vars == <<slot, shared, work, current, known, held, pc, here, elapsed, android, cast>>

\* Locals: the device and password at hand, `left', `misses' or attempts, `widened', `saved'.
Nowhere == [device |-> NoSuchDevice, password |-> NoPassword, argument |-> NoArgument,
            left |-> FALSE, tries |-> 0, widened |-> FALSE, saved |-> FALSE]

Locals == [device : DeviceReports, password : Passphrases \cup {NoPassword}, argument : Int,
           left : BOOLEAN, tries : 0 .. ScanAttempts + SaveAttempts + MaxMisses,
           widened : BOOLEAN, saved : BOOLEAN]

NothingHeld == [hotspot |-> NoRequest, target |-> NoRequest]
HeldIds == {held.hotspot, held.target} \ {NoRequest}
-------------------------------------------------------------------------------
(* Android.  request_network() gives a request an unused number;           *)
(* release_network() forgets it.  The real numbers only grow, but are only *)
(* compared with -1: reusing the smallest keeps the model finite, and      *)
(* makes a second release of one number hit the next request.              *)
FreeId(requests) == CHOOSE i \in 0 .. Cardinality(requests) : \A r \in requests : r.id # i

HotspotOf(x) == [kind |-> "hotspot", of |-> x]  \* by BSSID
AnyHotspot == HotspotOf(NoDevice)               \* by an SSID prefix
Wifi(n) == [kind |-> "wifi", of |-> n]          \* by SSID and passphrase

Without(ids) == {r \in android : r.id \notin ids}

\* release_network() of some requests, then request_network().
Ask(released, which, wants) ==
    LET kept == Without(released)
    IN /\ android' = kept \cup {[id |-> FreeId(kept), wants |-> wants]}
       /\ held' = [w \in DOMAIN held |-> IF w = which THEN FreeId(kept)
                                         ELSE IF held[w] \in released THEN NoRequest ELSE held[w]]

\* Mutant of ReleaseHotspot: the session goes on with the number of a request that is gone.
ReleaseHotspotOnly == android' = Without({held.hotspot}) /\ UNCHANGED held

\* The hotspot's request alone is released; there may be none.
ReleaseHotspot == /\ held' = [held EXCEPT !.hotspot = NoRequest]
                  /\ android' = Without({held.hotspot})

\* release_requests(); its callers' snapshots drop `prompt'.
ReleaseRequests == held' = NothingHeld /\ android' = Without(HeldIds)

(* The Chromecasts that can answer the phone, by the way they are reached; *)
(* any call may go unanswered all the same.                                *)
OnHotspot == {x \in Devices :
    /\ cast[x].hotspot
    /\ x \in PhoneHotspots \/ \E r \in android : r.wants \in {HotspotOf(x), AnyHotspot}}
OnLan == {x \in Devices :
    cast[x].ssid \in PhoneWifi \/ \E r \in android : r.wants = Wifi(cast[x].ssid)}
At(device) == IF device.hotspot THEN OnHotspot ELSE OnLan

\* read_info(): what device x says of itself now, where it answered before or elsewhere.
Reported(x, device) == [device EXCEPT !.id = x, !.ssid = cast[x].ssid, !.state = cast[x].state]
Found(x, hotspot) == [Reported(x, NoSuchDevice) EXCEPT !.reachable = TRUE, !.hotspot = hotspot]
-------------------------------------------------------------------------------
(* How a step of the worker ends.                                          *)

\* publish()
Publish(next) == work' = next /\ shared' = [next EXCEPT !.command = current]

With(locals, label) == /\ here' = locals
                       /\ pc' = label
                       /\ UNCHANGED <<shared, work, elapsed, known, held, android>>
Continue(label) == With(here, label)
Announce(next, locals, label) == /\ Publish(next)
                                 /\ here' = locals
                                 /\ pc' = label
                                 /\ UNCHANGED <<elapsed, known, held, android>>

\* The running command returns to run(), where the flow stands or because it was replaced.
Return == pc' = "waiting" /\ here' = Nowhere /\ elapsed' = 0
Drop == Return /\ UNCHANGED <<shared, work, known, held, android>>
Abandon == slot.interrupted /\ Drop

\* pause(): a pending command ends the wait, and the flow with it.
Pause(label, next) == pc = label /\ IF slot.command = "none" THEN Continue(next) ELSE Drop

Failed(w, retry) == [w EXCEPT !.prompt = FALSE, !.failed = w.stage, !.stage = "failed",
                              !.retry = retry]

\* Mutant of Fail: the requests stay.
FailHolding(w, retry) == /\ Publish(Failed(w, retry))
                         /\ Return
                         /\ UNCHANGED <<known, held, android>>

\* fail()
Fail(w, retry) == /\ ReleaseRequests
                  /\ Publish(Failed(w, retry))
                  /\ Return
                  /\ UNCHANGED known
-------------------------------------------------------------------------------
(* run_search().                                                           *)
Orders(S) == {s \in [1 .. Cardinality(S) -> S] : Range(s) = S}

\* The members of S that the list has, in its order.
Those(list, S) ==
    LET those[i \in 0 .. Len(list)] ==
            IF i = 0 THEN <<>>
            ELSE IF list[i] \in S THEN Append(those[i - 1], list[i]) ELSE those[i - 1]
    IN those[Len(list)]

\* remember(): devices are kept in the order they were first seen, if they can be told again.
RememberAll(list, ids) == list \o Those(ids, (Range(ids) \cap Identified) \ Range(list))

\* Up to the first publish.
RunSearch ==
    /\ pc = "search"
    /\ ReleaseRequests
    /\ Publish([NoSnapshot EXCEPT !.devices = [i \in DOMAIN known |-> Remembered(known[i])]])
    /\ pc' = "discover"
    /\ UNCHANGED <<here, elapsed, known>>

\* The flag is checked between networks and after the last one.
Discover == pc = "discover" /\ IF slot.interrupted THEN Abandon ELSE Continue("list")

\* Mutant of HotspotOnly: a device that answers twice is listed twice.
HotspotEvery(lan) == OnHotspot

\* add_device(): the devices left to be listed as met on a hotspot.
HotspotOnly(lan) == OnHotspot \ lan

(* From the last check of the flag.  The devices answering on a LAN come   *)
(* before those on a hotspot, the remembered ones that did not answer last.*)
ListDevices ==
    /\ pc = "list"
    /\ \E lan \in SUBSET OnLan : \E hot \in SUBSET HotspotOnly(lan) :
       \E first \in Orders(lan), second \in Orders(hot), order \in Orders(lan \cup hot) :
         LET silent == Those(known', Range(known') \ (lan \cup hot))
         IN /\ known' = RememberAll(known, order)
            /\ Publish([work EXCEPT !.stage = "devices",
                          !.devices = [i \in DOMAIN first |-> Found(first[i], FALSE)]
                                   \o [i \in DOMAIN second |-> Found(second[i], TRUE)]
                                   \o [i \in DOMAIN silent |-> Remembered(silent[i])]])
    /\ Return
    /\ UNCHANGED <<held, android>>
-------------------------------------------------------------------------------
(* open(), for run_open() and a rescan.                                    *)

Opening(device) == [work EXCEPT !.device = device, !.networks = <<>>, !.target = NoNetwork,
                                !.retry = FALSE, !.stage = "scanning"]
Open(device) == Announce(Opening(device), [here EXCEPT !.device = device], "contact")

\* run_open(): an index that the list does not have opens a device never seen.
RunOpen ==
    /\ pc = "open"
    /\ Open(IF here.argument \in DOMAIN work.devices THEN work.devices[here.argument]
                                                     ELSE NoSuchDevice)

Rescan == pc = "rescan" /\ Open(work.device)

\* The requests that open() keeps while it scans over a device in reach.
Needed(device) == [NothingHeld EXCEPT !.hotspot = IF device.hotspot THEN held.hotspot ELSE @]

(* A device in reach is asked who it is; then the flag is checked, and the *)
(* requests that the device does not need go.                              *)
Contact ==
    /\ pc = "contact"
    /\ IF slot.interrupted THEN Abandon ELSE
         /\ UNCHANGED <<shared, elapsed, known>>
         /\ \/ /\ here.device.reachable
               /\ here.device.id \in At(here.device)
               /\ here' = [here EXCEPT !.device = Reported(here.device.id, here.device)]
               /\ work' = [work EXCEPT !.device = here'.device]
               /\ held' = Needed(here.device)
               /\ android' = Without(HeldIds \ {held'.hotspot})
               /\ pc' = "scan"
            \/ /\ ReleaseRequests
               /\ here' = [here EXCEPT !.device.reachable = FALSE, !.device.hotspot = FALSE]
               /\ work' = [work EXCEPT !.prompt = FALSE]
               /\ pc' = "hotspot"

\* join_hotspot() announces the prompt before it asks Android.
JoinHotspot ==
    pc = "hotspot" /\ Announce([work EXCEPT !.stage = "hotspot", !.prompt = TRUE], here, "ask")

\* What is asked for: a hotspot by its BSSID where the device is known with one.
HotspotAsks == IF here.widened THEN {AnyHotspot} ELSE {HotspotOf(here.device.id), AnyHotspot}

\* The first request, and the one that widens it: nothing is held when Android refuses.
AskForHotspot ==
    /\ pc = "ask"
    /\ \/ Fail(work, FALSE)
       \/ \E asked \in HotspotAsks :
            /\ Ask({}, "hotspot", asked)
            /\ here' = [here EXCEPT !.widened = asked = AnyHotspot]
            /\ pc' = IF here.widened THEN "wait hotspot" ELSE "poll hotspot"
            /\ UNCHANGED <<shared, work, elapsed, known>>

\* A Chromecast answers at the hotspot's address, and it is the one that was opened.
HotspotAnswers ==
    /\ ~slot.interrupted
    /\ \E x \in OnHotspot :
         /\ here.device.id \in {x, NoDevice}
         /\ here' = [here EXCEPT !.device = Found(x, TRUE)]
    /\ work' = [work EXCEPT !.prompt = FALSE, !.device = here'.device]
    /\ pc' = "scan"
    /\ UNCHANGED <<shared, elapsed, known, held, android>>

\* After a while the hotspot is asked for by name, in case its BSSID is another.
WidenHotspot ==
    /\ ReleaseHotspot
    /\ here' = [here EXCEPT !.widened = TRUE]
    /\ pc' = "ask"
    /\ UNCHANGED <<shared, work, elapsed, known>>

\* One turn of join_hotspot()'s loop.
PollHotspot ==
    /\ pc = "poll hotspot"
    /\ \/ elapsed = 2 /\ Fail(work, FALSE)
       \/ elapsed < 2 /\ (Abandon \/ HotspotAnswers)
       \/ elapsed < 2 /\ (here.widened \/ elapsed = 0) /\ Continue("wait hotspot")
       \/ elapsed = 1 /\ ~here.widened /\ WidenHotspot

WaitHotspot == Pause("wait hotspot", "poll hotspot")
-------------------------------------------------------------------------------
(* scan(): announced, then asked for, then read.                           *)
Scan ==
    pc = "scan" /\ Announce([work EXCEPT !.stage = "scanning", !.networks = <<>>], here, "start scan")

\* A request that was sent whole counts as received.
StartScan ==
    pc = "start scan" /\ (Fail(work, TRUE) \/ With([here EXCEPT !.tries = 0], "wait scan"))

WaitScan == Pause("wait scan", "read scan")

ScanError == <<"error">>

\* Mutant of ReadScan: the requests go once the networks are listed.
ReadScanReleasing ==
    /\ pc = "read scan"
    /\ \E scan \in {ScanError} \cup (IF At(here.device) # {} THEN Scans ELSE {}) :
         IF scan \in {<<>>, ScanError} /\ here.tries + 1 < ScanAttempts
           THEN With([here EXCEPT !.tries = @ + 1], "wait scan")
         ELSE IF scan = ScanError THEN Fail(work, TRUE)
         ELSE /\ ReleaseRequests
              /\ Publish([work EXCEPT !.networks = scan, !.stage = "networks"])
              /\ Return
              /\ UNCHANGED known

(* One read of the results: an error or an empty list is tried again until *)
(* the attempts are used up, and only the last read decides what is said.  *)
ReadScan ==
    /\ pc = "read scan"
    /\ \E scan \in {ScanError} \cup (IF At(here.device) # {} THEN Scans ELSE {}) :
         IF scan \in {<<>>, ScanError} /\ here.tries + 1 < ScanAttempts
           THEN With([here EXCEPT !.tries = @ + 1], "wait scan")
         ELSE IF scan = ScanError THEN Fail(work, TRUE)
         ELSE /\ Publish([work EXCEPT !.networks = scan, !.stage = "networks"])
              /\ Return
              /\ UNCHANGED <<known, held, android>>
-------------------------------------------------------------------------------
(* run_join().                                                             *)
OnTarget(device) == device.ssid = work.target /\ device.state \in ConnectedStates

Joining(target) == [work EXCEPT !.target = target, !.stage = "sending", !.retry = FALSE,
                                !.joined = FALSE]

\* Up to the first publish; an index without a network ends the command unseen.
RunJoin ==
    /\ pc = "join"
    /\ IF here.argument \in DOMAIN work.networks
         THEN Announce(Joining(work.networks[here.argument]),
                       [here EXCEPT !.device = work.device], "send")
         ELSE Drop

\* supported(), needs_password() and valid_passphrase().
Sendable == work.target \in Unsecured \/ here.password \in {"right", "wrong"}

(* Up to the POST: the network and the password are checked, the device is *)
(* asked who it is, and the password is encrypted with the key it reports. *)
Send ==
    /\ pc = "send"
    /\ \/ Fail(work, FALSE)
       \/ work.target \in Supported /\ ~Sendable /\ Fail(work, TRUE)
       \/ /\ work.target \in Supported /\ Sendable
          /\ here.device.id \in At(here.device)
          /\ With([here EXCEPT !.device = Reported(here.device.id, here.device)], "connect")

\* The Chromecast takes the new network, which it will try once it has answered.
Configured(x, keep) ==
    [cast EXCEPT ![x].trying = work.target,
                 ![x].good = work.target \in Unsecured \/ here.password = "right",
                 ![x].keep = keep]

(* The POST of connect_wifi: refused or never sent, or answered, or sent   *)
(* and not answered, whether or not the Chromecast received it.            *)
Connect ==
    /\ pc = "connect"
    /\ \/ Fail(work, FALSE) /\ UNCHANGED cast
       \/ \E answered \in BOOLEAN, keep \in {FALSE, here.device.hotspot} :
            /\ \/ /\ here.device.id \in At(here.device)
                  /\ cast' = Configured(here.device.id, keep)
               \/ ~answered /\ UNCHANGED cast
            /\ Publish([work EXCEPT !.stage = "joining", !.device = here.device])
            /\ here' = [here EXCEPT !.left = ~answered, !.tries = 0]
            /\ elapsed' = 0
            /\ pc' = "wait join"
            /\ UNCHANGED <<known, held, android>>

WaitJoin == Pause("wait join", "read join")

\* finish() up to its first publish.
Finish(device) ==
    Announce([work EXCEPT !.joined = TRUE, !.prompt = FALSE, !.stage = "saving", !.device = device],
             [here EXCEPT !.device = device, !.tries = 0, !.saved = FALSE], "reach")

\* Mutant of PollOn: neither the clock nor the misses end the loop.
PollForever(device, left, misses) ==
    With([here EXCEPT !.device = device, !.left = left, !.tries = 0], "wait join")

\* The loop that polls the device goes on, unless its time or the misses are used up.
PollOn(device, left, misses) ==
    With([here EXCEPT !.device = device, !.left = left, !.tries = misses],
         IF elapsed = 2 \/ misses = MaxMisses THEN "end join" ELSE "wait join")

(* One poll: silence, another device at that address, or what it says.     *)
ReadJoin ==
    /\ pc = "read join"
    /\ \/ PollOn(here.device, TRUE, here.tries + 1)
       \/ At(here.device) \ {here.device.id} # {} /\ PollOn(here.device, here.left, 0)
       \/ /\ here.device.id \in At(here.device)
          /\ LET now == Reported(here.device.id, here.device)
             IN IF now.state \in FailedStates THEN Fail(work, now.state = "wrong")
                ELSE IF OnTarget(now) THEN Finish(now)
                ELSE PollOn(now, here.left \/ now.state = "joining", 0)

\* A device that never left its network refused; one that did is looked for.
EndJoin ==
    /\ pc = "end join"
    /\ IF here.left
         THEN /\ ReleaseHotspot
              /\ Publish([work EXCEPT !.stage = "finding"])
              /\ elapsed' = 0
              /\ pc' = "find"
              /\ UNCHANGED <<here, known>>
         ELSE Fail(work, TRUE)

(* request_target(): the phone gives up the hotspot and asks for the       *)
(* target network, once; `after' is the step that follows if it can.       *)
RequestTarget(locals, after) ==
    IF held.target # NoRequest THEN With(locals, after)
    ELSE \/ /\ Ask({held.hotspot}, "target", Wifi(work.target))
            /\ Publish([work EXCEPT !.prompt = TRUE])
            /\ here' = locals
            /\ pc' = after
            /\ UNCHANGED <<elapsed, known>>
         \/ Fail(work, FALSE)

(* One round of looking for the device on the phone's other networks: the  *)
(* phone asks for the target network itself only after a while.            *)
Find ==
    /\ pc = "find"
    /\ \/ elapsed = 2 /\ Fail(work, FALSE)
       \/ elapsed < 2 /\ Abandon
       \/ /\ elapsed < 2
          /\ ~slot.interrupted
          /\ here.device.id \in OnLan
          /\ LET found == Found(here.device.id, FALSE)
             IN IF OnTarget(found) THEN Finish(found)
                ELSE found.state \in FailedStates \cup ConnectedStates /\ Fail(work, TRUE)
       \/ elapsed = 0 /\ Continue("wait find")
       \/ elapsed = 1 /\ RequestTarget(here, "wait find")

WaitFind == Pause("wait find", "find")
-------------------------------------------------------------------------------
(* finish(): saving must be confirmed, then the device reached on a LAN.   *)
Again == [here EXCEPT !.tries = @ + 1]

\* Mutant of AgainAt: the attempts are not counted.
AgainForever == "wait save"

AgainAt == IF here.tries + 1 = SaveAttempts THEN "end save" ELSE "wait save"

WaitSave == Pause("wait save", "reach")

\* The device where it was, or found by find_on_lan(), which the flag cuts short.
Reachable ==
    {d \in {Reported(here.device.id, here.device), Found(here.device.id, FALSE)} :
        /\ here.device.id \in At(d)
        /\ d.hotspot = here.device.hotspot \/ ~slot.interrupted}

(* An attempt reaches the device, or makes sure that its network is asked  *)
(* for.  Only the first attempt starts with a check of the flag.           *)
Reach ==
    /\ pc = "reach"
    /\ IF here.tries = 0 /\ slot.interrupted THEN Abandon ELSE
         \/ \E d \in Reachable :
              IF OnTarget(d) THEN With([here EXCEPT !.device = d], "check save")
              ELSE Fail([work EXCEPT !.joined = FALSE], TRUE)
         \/ RequestTarget(Again, AgainAt)

\* Mutant of NetworkSaved: any answer to save_wifi counts as saved.
SavedWhenAnswered == {pc = "check again"}

\* network_saved(): state 62 says yes, 61 no, and otherwise the device's list says.
NetworkSaved ==
    CASE here.device.state = "saved" -> {TRUE}
      [] here.device.state = "unsaved" -> {FALSE}
      [] OTHER -> {FALSE} \cup {(work.target \in cast[x].saved) : x \in At(here.device) \cap {here.device.id}}

\* Asked before the POST of save_wifi and once more after its answer.
CheckSave ==
    /\ pc \in {"check save", "check again"}
    /\ \E saved \in NetworkSaved :
         IF saved THEN With([here EXCEPT !.saved = TRUE], "end save")
         ELSE IF pc = "check save" THEN Continue("save")
         ELSE With(Again, AgainAt)

\* What save_wifi may leave behind: an unsaved network is saved, now or at a later call.
SavedBy(x) ==
    {cast} \cup {[cast EXCEPT ![x].saved = @ \cup {cast[x].ssid}, ![x].state = state,
                              ![x].hotspot = FALSE] :
                 state \in IF cast[x].state = "unsaved" THEN {"connected", "saved", "pending"} ELSE {}}

\* The answer may be an error or lost, whether or not the Chromecast acted.
Save ==
    /\ pc = "save"
    /\ \/ UNCHANGED cast /\ With(Again, AgainAt)
       \/ /\ here.device.id \in At(here.device)
          /\ cast' \in SavedBy(here.device.id)
          /\ \/ With(Again, AgainAt)
             \/ LET state == cast'[here.device.id].state
                IN With([here EXCEPT !.device.state = IF state \in ConnectedStates THEN state ELSE @],
                        "check again")

\* The device is remembered, saved or not.
EndSave ==
    /\ pc = "end save"
    /\ IF slot.interrupted THEN Abandon ELSE
         /\ known' = RememberAll(known, <<here.device.id>>)
         /\ elapsed' = 0
         /\ pc' = IF here.saved THEN "verify" ELSE "not saved"
         /\ UNCHANGED <<shared, work, here, held, android>>

NotSaved == pc = "not saved" /\ Fail(work, TRUE)

(* A device saved over its hotspot must also answer on a LAN.              *)
Verify ==
    /\ pc = "verify"
    /\ here.device.hotspot /\ elapsed < 2
    /\ IF slot.interrupted THEN Abandon ELSE
         \/ /\ here.device.id \in OnLan
            /\ With([here EXCEPT !.device = Found(here.device.id, FALSE)], "verify")
         \/ RequestTarget(here, "wait verify")

WaitVerify == Pause("wait verify", "verify")

\* The device is known already: remembering it again changes what it last said.
Done ==
    /\ pc = "verify"
    /\ ~here.device.hotspot \/ elapsed = 2
    /\ IF slot.interrupted THEN Abandon
       ELSE IF here.device.hotspot \/ ~OnTarget(here.device) THEN Fail(work, FALSE)
       ELSE /\ ReleaseRequests
            /\ Publish([work EXCEPT !.prompt = FALSE, !.device = here.device, !.stage = "done"])
            /\ Return
            /\ UNCHANGED known
-------------------------------------------------------------------------------
(* run(), its clients, the clock and the Chromecasts.                      *)

\* run() takes the pending command and starts it.
Take ==
    /\ pc = "waiting"
    /\ slot.command # "none"
    /\ slot' = Taken(slot)
    /\ current' = slot.pending
    /\ With([Nowhere EXCEPT !.argument = slot.argument, !.password = slot.password], slot.command)
    /\ UNCHANGED cast

\* run() after kStop.
Stop ==
    /\ pc = "stop"
    /\ ReleaseRequests
    /\ work' = [work EXCEPT !.prompt = FALSE]
    /\ pc' = "exited"
    /\ UNCHANGED <<shared, here, elapsed, known>>

Alive == slot.command # "stop" /\ pc \notin {"stop", "exited"}

\* search(), open_device(), rescan() and join(), from the thread that owns the session.
Command(command, argument, password) ==
    /\ Alive
    /\ slot.sequence < MaxCommands
    /\ slot' = Sent(slot, command, argument, password)
    /\ UNCHANGED <<current, cast>> /\ Continue(pc)

\* destroy().
Destroy ==
    /\ Alive
    /\ slot' = Stopped(slot)
    /\ UNCHANGED <<current, cast>> /\ Continue(pc)

\* The loops that watch the clock.
Timed == {"poll hotspot", "wait hotspot", "wait join", "read join", "find", "wait find",
          "verify", "wait verify"}
Tick ==
    /\ pc \in Timed
    /\ elapsed < 2
    /\ elapsed' = elapsed + 1
    /\ UNCHANGED <<slot, current, shared, work, here, pc, known, held, android, cast>>

(* A Chromecast that was given a network leaves its own and tries the new  *)
(* one.  It joins, is refused, joins without reaching the internet, or     *)
(* goes back to a network it has saved.                                    *)
CastLeaves(x) ==
    /\ cast[x].trying # NoNetwork
    /\ cast[x].state # "joining"
    /\ cast' = [cast EXCEPT ![x].state = "joining", ![x].ssid = NoNetwork,
                            ![x].hotspot = @ /\ cast[x].keep]

CastOutcomes(c) ==
    (IF ~c.good THEN {[c EXCEPT !.state = "wrong", !.hotspot = TRUE]}
     ELSE {[c EXCEPT !.ssid = c.trying,
                     !.state = IF c.trying \in c.saved THEN "connected" ELSE "unsaved"],
           [c EXCEPT !.ssid = c.trying, !.state = "failed"],
           [c EXCEPT !.state = "failed", !.hotspot = TRUE]})
    \cup {[c EXCEPT !.ssid = n, !.state = "connected", !.hotspot = FALSE] : n \in c.saved}

CastSettles(x) ==
    /\ cast[x].trying # NoNetwork
    /\ cast[x].state = "joining"
    /\ \E c \in CastOutcomes(cast[x]) :
         cast' = [cast EXCEPT ![x] = [c EXCEPT !.trying = NoNetwork, !.good = FALSE, !.keep = FALSE]]

\* Or it loses its network and opens its hotspot.
CastDrops(x) ==
    /\ Flaky
    /\ cast[x].trying = NoNetwork
    /\ ~cast[x].hotspot
    /\ cast' = [cast EXCEPT ![x].ssid = NoNetwork, ![x].state = "idle", ![x].hotspot = TRUE]
-------------------------------------------------------------------------------
Init ==
    /\ slot = EmptySlot
    /\ shared = NoSnapshot /\ work = NoSnapshot
    /\ current = 0
    /\ known = KnownFirst
    /\ held = NothingHeld /\ android = {}
    /\ pc = "waiting" /\ here = Nowhere /\ elapsed = 0
    /\ cast \in CastsFirst

\* The flows; they leave the slot alone, and only two of their steps reach a Chromecast's state.
Flow ==
    \/ Stop
    \/ RunSearch \/ Discover \/ ListDevices
    \/ RunOpen \/ Rescan \/ Contact
    \/ JoinHotspot \/ AskForHotspot \/ PollHotspot \/ WaitHotspot
    \/ Scan \/ StartScan \/ WaitScan \/ ReadScan
    \/ RunJoin \/ Send \/ WaitJoin \/ ReadJoin \/ EndJoin \/ Find \/ WaitFind
    \/ WaitSave \/ Reach \/ CheckSave \/ EndSave \/ NotSaved \/ Verify \/ WaitVerify \/ Done

Worker ==
    \/ Take
    \/ Flow /\ UNCHANGED <<slot, current, cast>>
    \/ (Connect \/ Save) /\ UNCHANGED <<slot, current>>

Client ==
    \/ Command("search", NoArgument, NoPassword)
    \/ Command("rescan", NoArgument, NoPassword)
    \/ \E i \in (1 .. Cardinality(Devices)) \cup {NoArgument} : Command("open", i, NoPassword)
    \/ \E i \in DOMAIN shared.networks, p \in Passphrases : Command("join", i, p)
    \/ Destroy

World == /\ \E x \in Devices : CastLeaves(x) \/ CastSettles(x) \/ CastDrops(x)
         /\ UNCHANGED <<slot, current, shared, work, here, elapsed, known, held, pc, android>>

Next == Worker \/ Tick \/ Client \/ World

\* The worker thread runs, every call it makes has a deadline, and the clock advances.
Fairness == WF_vars(Worker) /\ WF_vars(Tick)
Spec == Init /\ [][Next]_vars /\ Fairness
-------------------------------------------------------------------------------
(* Properties.                                                             *)
Labels ==
    (Commands \ {"none"}) \cup Timed \cup
    {"waiting", "exited", "discover", "list", "contact", "hotspot", "ask", "scan", "start scan",
     "wait scan", "read scan", "send", "connect", "end join", "reach", "wait save", "check save",
     "save", "check again", "end save", "not saved"}

TypeOK ==
    /\ slot \in Slots(Int, Passphrases \cup {NoPassword})
    /\ shared \in Snapshots /\ work \in Snapshots
    /\ current \in Nat
    /\ known \in Seq(Identified)
    /\ held \in [hotspot : {NoRequest, 0}, target : {NoRequest, 0}]
    /\ pc \in Labels
    /\ here \in Locals
    /\ elapsed \in 0 .. 2
    /\ \A r \in android : r.wants \in {HotspotOf(x) : x \in Devices \cup {NoDevice}}
                                      \cup {Wifi(n) : n \in Networks}
    /\ cast \in [Devices -> Casts]

(* The requests that Android holds are those the session remembers, on     *)
(* every path through every flow and every interruption: none leaks, none  *)
(* is released twice, and the phone is never asked for two networks at     *)
(* once.                                                                   *)
RequestsAccounted ==
    /\ {r.id : r \in android} = HeldIds
    /\ Cardinality(android) <= 1
    /\ pc = "exited" => android = {}

(* What the screen shows once a flow is over, or before one starts, leaves *)
(* no Wi-Fi request behind, and promises no prompt.                        *)
SettledReleases ==
    shared.stage \in {"searching", "devices", "done", "failed"} =>
        android = {} /\ ~shared.prompt

(* Networks listed over a setup hotspot stay joinable: the phone keeps the *)
(* request that holds the hotspot until the join needs the phone's radio.  *)
HotspotKept ==
    /\ shared.stage = "networks"
    /\ shared.device.hotspot
    /\ shared.device.id \notin PhoneHotspots
    /\ pc = "waiting"
    => held.hotspot # NoRequest

(* Success is only claimed for a network that the Chromecast has saved,    *)
(* and after it answered there over a network that is not its own hotspot. *)
DoneIsVerified ==
    shared.stage = "done" =>
        /\ shared.joined
        /\ shared.target \in cast[shared.device.id].saved
        /\ shared.device.ssid = shared.target
        /\ ~shared.device.hotspot

(* A finished search lists every Chromecast known once, and of those that  *)
(* can be told again no other: one that answers on two networks is merged, *)
(* one that is silent is kept, and one without MAC and UDN is listed only  *)
(* while it answers.                                                       *)
DevicesListed ==
    shared.stage = "devices" =>
        LET ids == [i \in DOMAIN shared.devices |-> shared.devices[i].id]
        IN /\ Range(ids) \cap Identified = Range(known)
           /\ Len(ids) = Cardinality(Range(ids))

(* A command that published anything and was not replaced ends with a      *)
(* stage that the screen can leave: no flow stops half way in silence.     *)
NoSilentEnd ==
    pc = "waiting" /\ slot.command = "none" /\ current > 0 /\ shared.command = current =>
        shared.stage \in {"devices", "networks", "done", "failed"}

(* Every command, a stop too, is picked up and ends, whatever Android and  *)
(* the Chromecasts do: no wait in any flow is endless.                     *)
CommandsEnd ==
    slot.command # "none" \/ pc \notin {"waiting", "exited"}
        ~> slot.command = "none" /\ pc \in {"waiting", "exited"}
-------------------------------------------------------------------------------
(* Two claims of the source that its code does not keep.                   *)

(* "If the Chromecast comes back on its old network, the join failed, and  *)
(* the app says so" (chromecast/README.md): once a Chromecast has left for *)
(* a network whose password is wrong, where it can only be refused or come *)
(* back to what it had, and the app has not taken it as joined before, the *)
(* command never ends as done.                                             *)
LeftInVain(x) ==
    /\ here.device.id = x /\ here.password = "wrong"
    /\ cast[x].trying = work.target /\ ~cast[x].good /\ cast[x].state = "joining"
    /\ shared.stage \in {"joining", "finding"}

FailedJoinNotDone ==
    \A x \in Devices, n \in 1 .. MaxCommands :
        [](current = n /\ LeftInVain(x) =>
             [](shared.command = n => shared.stage # "done"))

(* Snapshot::prompt says that "Android is showing, or may show, a prompt   *)
(* to join a Wi-Fi network": a session at rest that says so has asked.     *)
PromptIsReal == shared.prompt /\ pc = "waiting" => android # {}
===============================================================================
