-------------------------- MODULE ChromecastAppProofs --------------------------
(***************************************************************************)
(* Proofs about ChromecastApp, for every set of devices and networks and   *)
(* every bound: however far the drawn frame, the app's snapshot and the    *)
(* worker drift apart, what they say of a network that is joined, and of a *)
(* flow that is over, is the same.                                         *)
(***************************************************************************)
EXTENDS ChromecastApp, SessionProofs
-------------------------------------------------------------------------------
(* What is over is shown only when the worker rests: the report was on the *)
(* last command sent.                                                      *)
Over == {"devices", "networks", "done", "failed"}
Restful == {"waiting", "stop", "exited"}
Resting == slot.command \in {"none", "stop"} /\ pc \in Restful
ScreenOK == snapshot.stage \in Over => Resting /\ shared.stage = snapshot.stage

(* The networks on the screen are those the worker has, of the device that *)
(* it has.                                                                 *)
ListedOK ==
    snapshot.stage = "networks" =>
        snapshot.networks = work.networks /\ snapshot.device.id = work.device.id
ToldOK == shared.stage = "networks" => shared.networks = work.networks /\ shared.device = work.device

(* The password asked for is that of the row chosen, and of the row drawn. *)
EnteringOK ==
    entering =>
        /\ chosen \in DOMAIN snapshot.networks /\ snapshot.networks[chosen] = asked
        /\ drawn.screen = "password" => snapshot.stage = "networks" /\ drawn.rows[1] = asked

(* A join that was asked for finds the worker where the user saw it, and   *)
(* keeps to the network and the device until it has configured it.         *)
JoinTaken ==
    slot.command = "join" =>
        /\ pc = "waiting" /\ slot.argument \in DOMAIN work.networks
        /\ work.networks[slot.argument] = meant.network /\ work.device.id = meant.device
JoinStarted ==
    pc = "join" /\ slot.command = "none" =>
        work.networks[here.argument] = meant.network /\ work.device.id = meant.device
JoinOK == JoinTaken /\ JoinStarted /\ JoinsAsShown

AppInv ==
    /\ snapshot \in Snapshots /\ awaiting = slot.sequence
    /\ ScreenOK /\ ListedOK /\ ToldOK /\ EnteringOK /\ JoinOK
-------------------------------------------------------------------------------
(* What a step of a flow leaves in the snapshots: it publishes what it     *)
(* changes, but for the device that open() meets before it scans.          *)
Meeting == {"contact", "poll hotspot"}
Tells ==
    \/ shared' = [work' EXCEPT !.command = current]
    \/ UNCHANGED <<shared, work>>
    \/ pc \in Meeting /\ UNCHANGED shared

LEMMA FailTells ==
    ASSUME NEW w, NEW retry, Fail(w, retry)
    PROVE  Tells /\ pc' = "waiting"
  BY DEF Fail, Publish, Return, Tells

LEMMA DropTells == Drop => Tells /\ pc' = "waiting"
  BY DEF Drop, Return, Tells

LEMMA WithTells ==
    ASSUME NEW locals, NEW label, With(locals, label)
    PROVE  Tells /\ pc' = label
  BY DEF With, Tells

LEMMA AnnounceTells ==
    ASSUME NEW next, NEW locals, NEW label, Announce(next, locals, label)
    PROVE  Tells /\ pc' = label
  BY DEF Announce, Publish, Tells

LEMMA PauseTells ==
    ASSUME NEW label, NEW next, Pause(label, next)
    PROVE  Tells /\ pc = label /\ pc' \in {next, "waiting"}
  BY WithTells, DropTells DEF Pause, Continue

LEMMA RequestTargetTells ==
    ASSUME NEW locals, NEW after, RequestTarget(locals, after)
    PROVE  Tells /\ pc' \in {after, "waiting"}
  BY WithTells, FailTells DEF RequestTarget, Publish, Tells

(* No step of a flow starts where the worker rests, and none but run_join()*)
(* and the POST's preparation leads to them.                               *)
Flows == Tells /\ pc \notin Restful /\ pc' \notin {"join", "send", "connect"}

LEMMA SearchTells ==
    ASSUME RunSearch \/ Discover \/ ListDevices
    PROVE  Flows
<1> USE DEF Flows, Restful
<1>1. CASE RunSearch
  BY <1>1 DEF RunSearch, Publish, Tells
<1>2. CASE Discover
  BY <1>2, DropTells, WithTells DEF Discover, Abandon, Continue
<1>3. CASE ListDevices
  <2>1. pc = "list" /\ pc' = "waiting" /\ Tells
    BY <1>3 DEF ListDevices, Publish, Return, Tells
  <2>2. QED
    BY <2>1
<1>4. QED
  BY <1>1, <1>2, <1>3

LEMMA OpenTells ==
    ASSUME RunOpen \/ Rescan \/ Contact
    PROVE  Flows
<1> USE DEF Flows, Restful
<1>1. CASE RunOpen \/ Rescan
  BY <1>1, AnnounceTells DEF RunOpen, Rescan, Open
<1>2. CASE Contact
  <2>1. CASE Abandon
    BY <1>2, <2>1, DropTells DEF Contact, Abandon
  <2>2. CASE ~slot.interrupted
    BY <1>2, <2>2 DEF Contact, Tells, Meeting
  <2>3. QED
    BY <1>2, <2>1, <2>2 DEF Contact
<1>3. QED
  BY <1>1, <1>2

LEMMA HotspotTells ==
    ASSUME JoinHotspot \/ AskForHotspot \/ PollHotspot \/ WaitHotspot
    PROVE  Flows
<1> USE DEF Flows, Restful
<1>1. CASE JoinHotspot
  BY <1>1, AnnounceTells DEF JoinHotspot
<1>2. CASE AskForHotspot
  BY <1>2, FailTells DEF AskForHotspot, Tells
<1>3. CASE PollHotspot
  <2>1. pc = "poll hotspot"
    BY <1>3 DEF PollHotspot
  <2>2. CASE Fail(work, FALSE)
    BY <2>1, <2>2, FailTells
  <2>3. CASE Abandon
    BY <2>1, <2>3, DropTells DEF Abandon
  <2>4. CASE HotspotAnswers
    BY <2>1, <2>4 DEF HotspotAnswers, Tells, Meeting
  <2>5. CASE Continue("wait hotspot")
    <3>1. Tells /\ pc' = "wait hotspot"
      BY <2>5, WithTells DEF Continue
    <3>2. QED
      BY <2>1, <3>1
  <2>6. CASE WidenHotspot
    BY <2>1, <2>6, FailTells DEF WidenHotspot, Tells
  <2>7. QED
    BY <1>3, <2>2, <2>3, <2>4, <2>5, <2>6 DEF PollHotspot
<1>4. CASE WaitHotspot
  <2>1. Tells /\ pc = "wait hotspot" /\ pc' \in {"poll hotspot", "waiting"}
    BY <1>4, PauseTells DEF WaitHotspot
  <2>2. QED
    BY <2>1
<1>5. QED
  BY <1>1, <1>2, <1>3, <1>4

LEMMA ScanTells ==
    ASSUME Scan \/ StartScan \/ WaitScan \/ ReadScan
    PROVE  Flows
<1> USE DEF Flows, Restful
<1>1. CASE Scan
  <2>1. pc = "scan" /\ Tells /\ pc' = "start scan"
    BY <1>1, AnnounceTells DEF Scan
  <2>2. QED
    BY <2>1
<1>2. CASE StartScan
  <2>1. pc = "start scan" /\ Tells /\ pc' \in {"wait scan", "waiting"}
    BY <1>2, FailTells, WithTells DEF StartScan
  <2>2. QED
    BY <2>1
<1>3. CASE WaitScan
  <2>1. Tells /\ pc = "wait scan" /\ pc' \in {"read scan", "waiting"}
    BY <1>3, PauseTells DEF WaitScan
  <2>2. QED
    BY <2>1
<1>4. CASE ReadScan
  <2>1. pc = "read scan"
    BY <1>4 DEF ReadScan
  <2>2. CASE With([here EXCEPT !.tries = @ + 1], "wait scan")
    <3>1. Tells /\ pc' = "wait scan"
      BY <2>2, WithTells
    <3>2. QED
      BY <2>1, <3>1
  <2>3. CASE Fail(work, TRUE)
    BY <2>1, <2>3, FailTells
  <2>4. ASSUME NEW scan, Publish([work EXCEPT !.networks = scan, !.stage = "networks"]), Return
        PROVE  Flows
    BY <2>1, <2>4 DEF Publish, Return, Tells
  <2>5. QED
    BY <1>4, <2>2, <2>3, <2>4 DEF ReadScan
<1>5. QED
  BY <1>1, <1>2, <1>3, <1>4

LEMMA FinishTells ==
    ASSUME NEW device, Finish(device)
    PROVE  Tells /\ pc' = "reach"
  BY AnnounceTells DEF Finish

LEMMA JoinTells ==
    ASSUME Connect \/ WaitJoin \/ ReadJoin \/ EndJoin \/ Find \/ WaitFind
    PROVE  Flows
<1> USE DEF Flows, Restful
<1>1. CASE Connect
  <2>1. pc = "connect"
    BY <1>1 DEF Connect
  <2>2. CASE Fail(work, FALSE)
    BY <2>1, <2>2, FailTells
  <2>3. CASE Publish([work EXCEPT !.stage = "joining", !.device = here.device]) /\ pc' = "wait join"
    BY <2>1, <2>3 DEF Publish, Tells
  <2>4. QED
    BY <1>1, <2>2, <2>3 DEF Connect
<1>2. CASE WaitJoin
  <2>1. Tells /\ pc = "wait join" /\ pc' \in {"read join", "waiting"}
    BY <1>2, PauseTells DEF WaitJoin
  <2>2. QED
    BY <2>1
<1>6. CASE WaitFind
  <2>1. Tells /\ pc = "wait find" /\ pc' \in {"find", "waiting"}
    BY <1>6, PauseTells DEF WaitFind
  <2>2. QED
    BY <2>1
<1>3. CASE ReadJoin
  <2>1. pc = "read join"
    BY <1>3 DEF ReadJoin
  <2>2. ASSUME NEW device, NEW left, NEW misses, PollOn(device, left, misses)
        PROVE  Flows
    <3>1. Tells /\ pc' \in {"end join", "wait join"}
      BY <2>2, WithTells DEF PollOn
    <3>2. QED
      BY <2>1, <3>1
  <2>3. ASSUME NEW retry, Fail(work, retry) PROVE Flows
    BY <2>1, <2>3, FailTells
  <2>4. ASSUME NEW device, Finish(device) PROVE Flows
    BY <2>1, <2>4, FinishTells
  <2>5. QED
    BY <1>3, <2>2, <2>3, <2>4 DEF ReadJoin
<1>4. CASE EndJoin
  <2>1. pc = "end join"
    BY <1>4 DEF EndJoin
  <2>2. CASE Fail(work, TRUE)
    BY <2>1, <2>2, FailTells
  <2>3. CASE Publish([work EXCEPT !.stage = "finding"]) /\ pc' = "find"
    BY <2>1, <2>3 DEF Publish, Tells
  <2>4. QED
    BY <1>4, <2>2, <2>3 DEF EndJoin
<1>5. CASE Find
  <2>1. pc = "find"
    BY <1>5 DEF Find
  <2>2. ASSUME NEW retry, Fail(work, retry) PROVE Flows
    BY <2>1, <2>2, FailTells
  <2>3. ASSUME NEW device, Finish(device) PROVE Flows
    BY <2>1, <2>3, FinishTells
  <2>4. CASE Abandon
    BY <2>1, <2>4, DropTells DEF Abandon
  <2>5. CASE Continue("wait find")
    <3>1. Tells /\ pc' = "wait find"
      BY <2>5, WithTells DEF Continue
    <3>2. QED
      BY <2>1, <3>1
  <2>6. CASE RequestTarget(here, "wait find")
    <3>1. Tells /\ pc' \in {"wait find", "waiting"}
      BY <2>6, RequestTargetTells
    <3>2. QED
      BY <2>1, <3>1
  <2>7. QED
    BY <1>5, <2>2, <2>3, <2>4, <2>5, <2>6 DEF Find
<1>7. QED
  BY <1>1, <1>2, <1>3, <1>4, <1>5, <1>6

LEMMA SaveTells ==
    ASSUME WaitSave \/ Reach \/ CheckSave \/ Save \/ EndSave \/ NotSaved \/ Verify \/ WaitVerify \/ Done
    PROVE  Flows
<1> USE DEF Flows, Restful
<1>1. CASE WaitSave
  <2>1. Tells /\ pc = "wait save" /\ pc' \in {"reach", "waiting"}
    BY <1>1, PauseTells DEF WaitSave
  <2>2. QED
    BY <2>1
<1>2. AgainAt \in {"end save", "wait save"}
  BY DEF AgainAt
<1>3. ASSUME NEW w, NEW retry, Fail(w, retry), pc \notin Restful PROVE Flows
  BY <1>3, FailTells
<1>4. ASSUME Abandon, pc \notin Restful PROVE Flows
  BY <1>4, DropTells DEF Abandon
<1>5. ASSUME NEW locals, NEW label \in {"check save", "end save", "wait save", "save", "check again", "verify"},
             With(locals, label), pc \notin Restful
      PROVE  Flows
  BY <1>5, WithTells
<1>6. CASE Reach
  <2>1. pc = "reach"
    BY <1>6 DEF Reach
  <2>2. CASE RequestTarget(Again, AgainAt)
    BY <1>2, <2>1, <2>2, RequestTargetTells
  <2>3. QED
    BY <1>3, <1>4, <1>5, <1>6, <2>1, <2>2 DEF Reach
<1>7. CASE CheckSave
  BY <1>2, <1>5, <1>7 DEF CheckSave, Continue
<1>8. CASE Save
  BY <1>2, <1>5, <1>8 DEF Save
<1>9. CASE EndSave
  <2>1. CASE Abandon
    BY <1>4, <1>9, <2>1 DEF EndSave
  <2>2. CASE pc' = (IF here.saved THEN "verify" ELSE "not saved") /\ UNCHANGED <<shared, work>>
    BY <1>9, <2>2 DEF EndSave, Tells
  <2>3. QED
    BY <1>9, <2>1, <2>2 DEF EndSave
<1>10. CASE NotSaved
  BY <1>3, <1>10 DEF NotSaved
<1>11. CASE Verify
  <2>1. pc = "verify"
    BY <1>11 DEF Verify
  <2>2. CASE RequestTarget(here, "wait verify")
    <3>1. Tells /\ pc' \in {"wait verify", "waiting"}
      BY <2>2, RequestTargetTells
    <3>2. QED
      BY <2>1, <3>1
  <2>3. QED
    BY <1>4, <1>5, <1>11, <2>1, <2>2 DEF Verify
<1>12. CASE Done
  <2>1. pc = "verify"
    BY <1>12 DEF Done
  <2>2. CASE Publish([work EXCEPT !.prompt = FALSE, !.device = here.device, !.stage = "done"]) /\ Return
    BY <2>1, <2>2 DEF Publish, Return, Tells
  <2>3. QED
    BY <1>3, <1>4, <1>12, <2>1, <2>2 DEF Done
<1>13. CASE WaitVerify
  <2>1. Tells /\ pc = "wait verify" /\ pc' \in {"verify", "waiting"}
    BY <1>13, PauseTells DEF WaitVerify
  <2>2. QED
    BY <2>1
<1>14. QED
  BY <1>1, <1>6, <1>7, <1>8, <1>9, <1>10, <1>11, <1>12, <1>13

LEMMA FlowTells ==
    ASSUME Flow \/ Connect \/ Save
    PROVE  Flows \/ Stop \/ RunJoin \/ Send
<1>1. CASE RunSearch \/ Discover \/ ListDevices \/ RunOpen \/ Rescan \/ Contact
  BY <1>1, SearchTells, OpenTells
<1>2. CASE JoinHotspot \/ AskForHotspot \/ PollHotspot \/ WaitHotspot
           \/ Scan \/ StartScan \/ WaitScan \/ ReadScan
  BY <1>2, HotspotTells, ScanTells
<1>3. CASE Connect \/ WaitJoin \/ ReadJoin \/ EndJoin \/ Find \/ WaitFind
  BY <1>3, JoinTells
<1>4. CASE WaitSave \/ Reach \/ CheckSave \/ Save \/ EndSave \/ NotSaved \/ Verify \/ WaitVerify \/ Done
  BY <1>4, SaveTells
<1>5. QED
  BY <1>1, <1>2, <1>3, <1>4 DEF Flow
-------------------------------------------------------------------------------
(* The worker's steps, the clock's and the Chromecasts'.                   *)
AppBefore == FullInv /\ AppInv
ScreenAlone == UNCHANGED <<snapshot, awaiting, entering, chosen, asked, drawn, meant>>

(* What is drawn and entered is a matter of the screen's own state.        *)
LEMMA EnteringStays ==
    ASSUME EnteringOK, ScreenAlone
    PROVE  EnteringOK'
  BY DEF EnteringOK, ScreenAlone

(* A step that leaves the slot, the snapshots and the flow where they are. *)
LEMMA IdleKeeps ==
    ASSUME AppInv, ScreenAlone, UNCHANGED <<slot, shared, work, here, pc>>
    PROVE  AppInv'
<1> USE DEF AppInv, ScreenAlone
<1>1. ScreenOK' /\ ListedOK' /\ ToldOK'
  BY DEF ScreenOK, Resting, ListedOK, ToldOK
<1>2. JoinOK'
  BY DEF JoinOK, JoinTaken, JoinStarted, JoinsAsShown
<1>3. QED
  BY <1>1, <1>2, EnteringStays

LEMMA TakeKeepsApp ==
    ASSUME AppBefore, Take, ScreenAlone
    PROVE  AppInv'
<1> USE DEF AppBefore, AppInv
<1>1. /\ pc = "waiting" /\ slot.command # "none" /\ slot' = Taken(slot) /\ pc' = slot.command
      /\ here' = [Nowhere EXCEPT !.argument = slot.argument, !.password = slot.password]
      /\ shared' = shared /\ work' = work
  BY DEF Take, With
<1>2. slot \in Slots(Int, Passphrases \cup {NoPassword})
  BY DEF FullInv, NumbersOK
<1>3. slot'.command = "none" /\ slot'.sequence = slot.sequence /\ slot.command \in Commands
  BY <1>1, <1>2 DEF Taken, Slots, Commands
<1>4. here'.argument = slot.argument
  BY <1>1 DEF Nowhere
<1>5. UNCHANGED <<snapshot, awaiting, meant>>
  BY DEF ScreenAlone
<1>6. ScreenOK'
  BY <1>1, <1>3, <1>5 DEF ScreenOK, Resting, Restful
<1>7. ListedOK' /\ ToldOK'
  BY <1>1, <1>5 DEF ListedOK, ToldOK
<1>8. JoinTaken'
  BY <1>3 DEF JoinTaken
<1>9. JoinStarted'
  BY <1>1, <1>4, <1>5 DEF JoinStarted, JoinOK, JoinTaken
<1>10. JoinsAsShown'
  BY <1>1, <1>3 DEF JoinsAsShown, Commands, Requests
<1>11. EnteringOK'
  BY EnteringStays
<1>12. awaiting' = slot'.sequence /\ snapshot' \in Snapshots
  BY <1>3, <1>5
<1>13. QED
  BY <1>6, <1>7, <1>8, <1>9, <1>10, <1>11, <1>12 DEF JoinOK

(* A screen that shows an end, and a join that waits, find no flow running.*)
LEMMA RunningHides ==
    ASSUME AppInv, pc \notin Restful
    PROVE  snapshot.stage \notin Over /\ slot.command # "join"
  BY DEF AppInv, ScreenOK, Resting, JoinOK, JoinTaken, Restful

(* A flow that goes on keeps what the worker told of the networks.         *)
LEMMA FlowsKeepApp ==
    ASSUME AppBefore, Flows, ScreenAlone, UNCHANGED slot
    PROVE  AppInv'
<1> USE DEF AppBefore, AppInv
<1>1. pc \notin Restful /\ Tells /\ pc' \notin {"join", "send", "connect"}
  BY DEF Flows
<1>2. snapshot.stage \notin Over /\ slot.command # "join"
  BY <1>1, RunningHides
<1>3. UNCHANGED <<snapshot, awaiting, meant>>
  BY DEF ScreenAlone
<1>4. ScreenOK' /\ ListedOK'
  BY <1>2, <1>3 DEF ScreenOK, ListedOK, Over
<1>5. ToldOK'
  <2>1. CASE shared' = [work' EXCEPT !.command = current]
    BY <2>1 DEF ToldOK
  <2>2. CASE UNCHANGED <<shared, work>>
    BY <2>2 DEF ToldOK
  <2>3. CASE pc \in Meeting /\ UNCHANGED shared
    <3>1. Fits(pc, work, here) /\ shared.stage = work.stage
      BY BeforeHolds, BeforeFacts
    <3>2. shared.stage # "networks"
      BY <2>3, <3>1 DEF Fits, Announced, Meeting
    <3>3. QED
      BY <2>3, <3>2 DEF ToldOK
  <2>4. QED
    BY <1>1, <2>1, <2>2, <2>3 DEF Tells
<1>6. JoinOK'
  BY <1>1, <1>2 DEF JoinOK, JoinTaken, JoinStarted, JoinsAsShown
<1>7. QED
  BY <1>3, <1>4, <1>5, <1>6, EnteringStays

LEMMA StopKeepsApp ==
    ASSUME AppBefore, Stop, ScreenAlone, UNCHANGED slot
    PROVE  AppInv'
<1> USE DEF AppBefore, AppInv
<1>1. pc = "stop" /\ pc' = "exited" /\ shared' = shared /\ work' = [work EXCEPT !.prompt = FALSE]
  BY DEF Stop
<1>2. UNCHANGED <<snapshot, awaiting, meant>>
  BY DEF ScreenAlone
<1>3. work \in Snapshots
  BY BeforeHolds, BeforeFacts
<1>4. work'.networks = work.networks /\ work'.device = work.device
  BY <1>1, <1>3 DEF Snapshots
<1>5. ScreenOK'
  BY <1>1, <1>2 DEF ScreenOK, Resting, Restful
<1>6. ListedOK' /\ ToldOK'
  BY <1>1, <1>2, <1>4 DEF ListedOK, ToldOK
<1>7. JoinOK'
  BY <1>1 DEF JoinOK, JoinTaken, JoinStarted, JoinsAsShown
<1>8. QED
  BY <1>2, <1>5, <1>6, <1>7, EnteringStays

(* run_join() takes the network and the device that the user was shown.    *)
LEMMA RunJoinKeepsApp ==
    ASSUME AppBefore, RunJoin, ScreenAlone, UNCHANGED slot
    PROVE  AppInv'
<1> USE DEF AppBefore, AppInv
<1>1. pc = "join" /\ pc \notin Restful
  BY DEF RunJoin, Restful
<1>2. CASE Drop
  <2>1. Flows
    BY <1>1, <1>2, DropTells DEF Flows
  <2>2. QED
    BY <2>1, FlowsKeepApp
<1>3. CASE /\ here.argument \in DOMAIN work.networks
           /\ Announce(Joining(work.networks[here.argument]), [here EXCEPT !.device = work.device], "send")
  <2> DEFINE target == work.networks[here.argument]
  <2>1. /\ work' = Joining(target) /\ shared' = [work' EXCEPT !.command = current]
        /\ here' = [here EXCEPT !.device = work.device] /\ pc' = "send"
    BY <1>3 DEF Announce, Publish
  <2>2. work \in Snapshots /\ here \in Locals
    BY BeforeHolds, BeforeFacts
  <2>3. work'.target = target /\ work'.stage = "sending" /\ shared'.stage = "sending"
    BY <2>1, <2>2 DEF Joining, Snapshots
  <2>4. here'.device = work.device
    BY <2>1, <2>2 DEF Locals
  <2>5. snapshot.stage \notin Over /\ slot.command # "join"
    BY <1>1, RunningHides
  <2>6. UNCHANGED <<snapshot, awaiting, meant>>
    BY DEF ScreenAlone
  <2>7. ScreenOK' /\ ListedOK' /\ ToldOK'
    BY <2>3, <2>5, <2>6 DEF ScreenOK, ListedOK, ToldOK, Over
  <2>8. JoinTaken' /\ JoinStarted'
    BY <2>1, <2>5 DEF JoinTaken, JoinStarted
  <2>9. JoinsAsShown'
    BY <1>1, <2>3, <2>4, <2>6 DEF JoinsAsShown, JoinOK, JoinStarted
  <2>10. QED
    BY <2>6, <2>7, <2>8, <2>9, EnteringStays DEF JoinOK
<1>4. QED
  BY <1>2, <1>3 DEF RunJoin

(* The device is asked who it is, and the same one is configured.          *)
LEMMA SendKeepsApp ==
    ASSUME AppBefore, Send, ScreenAlone, UNCHANGED slot
    PROVE  AppInv'
<1> USE DEF AppBefore, AppInv
<1>1. pc = "send" /\ pc \notin Restful
  BY DEF Send, Restful
<1>2. ASSUME NEW retry, Fail(work, retry) PROVE AppInv'
  <2>1. Flows
    BY <1>1, <1>2, FailTells DEF Flows
  <2>2. QED
    BY <2>1, FlowsKeepApp
<1>3. CASE With([here EXCEPT !.device = Reported(here.device.id, here.device)], "connect")
  <2>1. /\ UNCHANGED <<shared, work>> /\ pc' = "connect"
        /\ here' = [here EXCEPT !.device = Reported(here.device.id, here.device)]
    BY <1>3 DEF With
  <2>2. here \in Locals
    BY BeforeHolds, BeforeFacts
  <2>3. here'.device.id = here.device.id
    BY <2>1, <2>2 DEF Locals, DeviceReports, Reported
  <2>4. snapshot.stage \notin Over /\ slot.command # "join"
    BY <1>1, RunningHides
  <2>5. UNCHANGED <<snapshot, awaiting, meant>>
    BY DEF ScreenAlone
  <2>6. ScreenOK' /\ ListedOK' /\ ToldOK'
    BY <2>1, <2>4, <2>5 DEF ScreenOK, ListedOK, ToldOK, Over
  <2>7. JoinTaken' /\ JoinStarted'
    BY <2>1, <2>4 DEF JoinTaken, JoinStarted
  <2>8. JoinsAsShown'
    BY <1>1, <2>1, <2>3, <2>5 DEF JoinsAsShown, JoinOK
  <2>9. QED
    BY <2>5, <2>6, <2>7, <2>8, EnteringStays DEF JoinOK
<1>4. QED
  BY <1>2, <1>3 DEF Send

LEMMA WorkKeepsApp ==
    ASSUME AppBefore, Worker \/ Tick \/ World, ScreenAlone
    PROVE  FullInv' /\ AppInv'
<1>1. FullInv'
  BY StepFits DEF AppBefore, Next
<1>2. CASE Take
  BY <1>1, <1>2, TakeKeepsApp
<1>3. CASE (Flow \/ Connect \/ Save) /\ UNCHANGED slot
  BY <1>1, <1>3, FlowTells, FlowsKeepApp, StopKeepsApp, RunJoinKeepsApp, SendKeepsApp
<1>4. CASE Tick
  BY <1>1, <1>4, IdleKeeps DEF Tick, AppBefore
<1>5. CASE World
  BY <1>1, <1>5, IdleKeeps DEF World, AppBefore
<1>6. QED
  BY <1>1, <1>2, <1>3, <1>4, <1>5 DEF Worker
-------------------------------------------------------------------------------
(* The user's commands.                                                    *)

(* A command changes the screen at once, to one that shows progress; a     *)
(* join is only sent for a network that the worker at rest listed.         *)
LEMMA SendsKeeps ==
    ASSUME AppBefore, NEW command \in Requests, NEW argument \in Int,
           NEW password \in Passphrases \cup {NoPassword}, Sends(command, argument, password),
           ~entering', snapshot' \in Snapshots, snapshot'.stage \notin Over,
           command = "join" => /\ pc = "waiting" /\ argument \in DOMAIN work.networks
                               /\ work.networks[argument] = meant'.network
                               /\ work.device.id = meant'.device
    PROVE  FullInv' /\ AppInv'
<1> USE DEF AppBefore
<1>1. Command(command, argument, password) /\ awaiting' = slot'.sequence
  BY DEF Sends
<1>2. /\ slot' = Sent(slot, command, argument, password) /\ slot.command # "stop"
      /\ UNCHANGED <<cast, shared, work, here, elapsed, known, held, android, pc>>
  BY <1>1 DEF Command, Alive, Continue, With
<1>3. FlowInv' /\ NumbersOK'
  BY <1>1, BeforeHolds, CommandFits
<1>4. CastsOK'
  BY <1>2 DEF CastsOK, FullInv
<1>5. slot' = [command |-> command, argument |-> argument, password |-> password,
               sequence |-> slot.sequence + 1, pending |-> slot.sequence + 1, interrupted |-> TRUE]
  BY <1>2 DEF Sent
<1>6. slot'.command = command /\ slot'.argument = argument /\ command # "none" /\ command # "stop"
  BY <1>5 DEF Requests
<1>7. IInv'
  <2>1. SlotOK'
    BY <1>5 DEF SlotOK, EmptySlot, Commands
  <2>2. HeldOK' /\ PlaceOK'
    BY <1>2, StayingKeeps DEF FullInv, IInv, Untouched
  <2>3. QED
    BY <2>1, <2>2 DEF IInv
<1>8. ScreenOK' /\ ListedOK'
  BY DEF ScreenOK, ListedOK, Over
<1>9. ToldOK'
  BY <1>2 DEF ToldOK, AppInv
<1>10. EnteringOK'
  BY DEF EnteringOK
<1>11. JoinOK'
  <2>1. JoinTaken'
    BY <1>2, <1>6 DEF JoinTaken
  <2>2. JoinStarted' /\ JoinsAsShown'
    BY <1>6 DEF JoinStarted, JoinsAsShown
  <2>3. QED
    BY <2>1, <2>2 DEF JoinOK
<1>12. QED
  BY <1>1, <1>3, <1>4, <1>7, <1>8, <1>9, <1>10, <1>11 DEF FullInv, AppInv

LEMMA Typed ==
    /\ NoArgument \in Int /\ NoPassword \in Passphrases \cup {NoPassword}
    /\ Requests = {"search", "open", "rescan", "join"}
    /\ {"searching", "scanning", "hotspot", "sending"} \subseteq Stages \ Over
  BY DEF NoArgument, Requests, Stages, Over

LEMMA GoSearchKeeps ==
    ASSUME AppBefore, GoSearch
    PROVE  FullInv' /\ AppInv'
<1>1. /\ Sends("search", NoArgument, NoPassword) /\ ~entering'
      /\ snapshot' = [snapshot EXCEPT !.stage = "searching", !.target = NoNetwork]
  BY DEF GoSearch
<1>2. snapshot' \in Snapshots /\ snapshot'.stage = "searching"
  BY <1>1, Typed DEF AppBefore, AppInv, Snapshots
<1>3. "search" \in Requests /\ snapshot'.stage \notin Over
  BY <1>2, Typed
<1>4. QED
  BY <1>1, <1>2, <1>3, Typed, SendsKeeps

LEMMA GoOpenKeeps ==
    ASSUME AppBefore, NEW i \in Int, GoOpen(i)
    PROVE  FullInv' /\ AppInv'
<1> DEFINE device == IF i \in DOMAIN snapshot.devices THEN snapshot.devices[i] ELSE NoSuchDevice
           stage == IF device.reachable THEN "scanning" ELSE "hotspot"
<1>1. /\ Sends("open", i, NoPassword) /\ ~entering'
      /\ snapshot' = [snapshot EXCEPT !.device = device, !.networks = <<>>, !.stage = stage]
  BY DEF GoOpen
<1>2. snapshot \in Snapshots
  BY DEF AppBefore, AppInv
<1>3. device \in DeviceReports
  <2>1. snapshot.devices \in Seq(DeviceReports)
    BY <1>2 DEF Snapshots
  <2>2. i \in DOMAIN snapshot.devices => snapshot.devices[i] \in DeviceReports
    BY <2>1
  <2>3. QED
    BY <2>2, Empties
<1>4. stage \in {"scanning", "hotspot"}
  OBVIOUS
<1> HIDE DEF device, stage
<1>5. snapshot' \in Snapshots /\ snapshot'.stage = stage
  <2>1. <<>> \in Seq(Networks) /\ stage \in Stages
    BY <1>4, Typed
  <2>2. QED
    BY <1>1, <1>2, <1>3, <2>1 DEF Snapshots
<1>6. "open" \in Requests /\ snapshot'.stage \notin Over
  BY <1>4, <1>5, Typed
<1>7. QED
  BY <1>1, <1>5, <1>6, Typed, SendsKeeps

(* The password screen, as drawn or as known, names a network that the     *)
(* worker at rest has listed.                                              *)
LEMMA ConnectsKeeps ==
    ASSUME AppBefore, NEW password \in Passphrases \cup {NoPassword}, NEW shown,
           Connects(password, shown), snapshot.stage = "networks", shown = asked
    PROVE  FullInv' /\ AppInv'
<1> DEFINE target == snapshot.networks[chosen]
<1>1. /\ entering /\ chosen \in DOMAIN snapshot.networks /\ ~entering'
      /\ snapshot' = [snapshot EXCEPT !.target = target, !.stage = "sending"]
      /\ Sends("join", chosen, password)
      /\ meant' = [device |-> snapshot.device.id, network |-> shown]
  BY DEF Connects
<1>2. snapshot \in Snapshots
  BY DEF AppBefore, AppInv
<1>3. chosen \in Int /\ target \in Networks
  <2>1. snapshot.networks \in Seq(Networks)
    BY <1>2 DEF Snapshots
  <2>2. QED
    BY <1>1, <2>1
<1>4. target = asked
  BY <1>1 DEF AppBefore, AppInv, EnteringOK
<1>5. snapshot.networks = work.networks /\ snapshot.device.id = work.device.id
  BY DEF AppBefore, AppInv, ListedOK
<1>6. pc = "waiting"
  <2>1. pc \in Restful
    BY DEF AppBefore, AppInv, ScreenOK, Resting, Over
  <2>2. Alive
    BY <1>1 DEF Sends, Command
  <2>3. QED
    BY <2>1, <2>2 DEF Alive, Restful
<1>7. /\ chosen \in DOMAIN work.networks
      /\ work.networks[chosen] = meant'.network /\ work.device.id = meant'.device
  BY <1>1, <1>4, <1>5
<1> HIDE DEF target
<1>8. snapshot' \in Snapshots /\ snapshot'.stage = "sending"
  BY <1>1, <1>2, <1>3, Typed DEF Snapshots
<1>9. "join" \in Requests /\ snapshot'.stage \notin Over
  BY <1>8, Typed
<1>10. QED
  BY <1>1, <1>3, <1>6, <1>7, <1>8, <1>9, SendsKeeps

LEMMA TapRescanKeeps ==
    ASSUME AppBefore, TapRescan
    PROVE  FullInv' /\ AppInv'
<1>1. /\ Sends("rescan", NoArgument, NoPassword) /\ ~entering'
      /\ snapshot' = [snapshot EXCEPT !.stage = "scanning", !.networks = <<>>, !.target = NoNetwork]
  BY DEF TapRescan
<1>2. snapshot' \in Snapshots /\ snapshot'.stage = "scanning"
  <2>1. <<>> \in Seq(Networks) /\ "scanning" \in Stages
    BY Typed
  <2>2. QED
    BY <1>1, <2>1 DEF AppBefore, AppInv, Snapshots
<1>3. "rescan" \in Requests /\ snapshot'.stage \notin Over
  BY <1>2, Typed
<1>4. QED
  BY <1>1, <1>2, <1>3, Typed, SendsKeeps

(* A step of the screen's alone, which only chooses a row, forgets it, or  *)
(* draws.                                                                  *)
LEMMA LookingKeeps ==
    ASSUME AppBefore, UNCHANGED <<vars, snapshot, awaiting, meant>>, EnteringOK'
    PROVE  FullInv' /\ AppInv'
<1> USE DEF AppBefore, AppInv
<1>1. FullInv'
  BY StepFits
<1>2. UNCHANGED <<slot, shared, work, here, pc>>
  BY DEF vars
<1>3. ScreenOK' /\ ListedOK' /\ ToldOK'
  BY <1>2 DEF ScreenOK, Resting, ListedOK, ToldOK
<1>4. JoinOK'
  BY <1>2 DEF JoinOK, JoinTaken, JoinStarted, JoinsAsShown
<1>5. QED
  BY <1>1, <1>2, <1>3, <1>4

LEMMA TapKeeps ==
    ASSUME AppBefore, Tap
    PROVE  FullInv' /\ AppInv'
<1> USE DEF AppBefore
<1>1. EnteringOK
  BY DEF AppInv
<1>2. ASSUME NEW i \in 1 .. Cardinality(Devices), TapDevice(i)
      PROVE  FullInv' /\ AppInv'
  <2>1. i \in Int
    BY <1>2, ConstantsAssumption, FS_CardinalityType
  <2>2. QED
    BY <1>2, <2>1, GoOpenKeeps DEF TapDevice
<1>3. CASE TapHotspot
  BY <1>3, Typed, GoOpenKeeps DEF TapHotspot
<1>4. CASE TapSearch \/ TapDone
  BY <1>4, GoSearchKeeps DEF TapSearch, TapDone
<1>5. ASSUME NEW i, TapNetwork(i)
      PROVE  FullInv' /\ AppInv'
  <2>1. /\ drawn.screen = "networks" /\ i \in DOMAIN snapshot.networks
        /\ chosen' = i /\ asked' = snapshot.networks[i]
        /\ UNCHANGED <<vars, snapshot, awaiting, drawn, meant>>
    BY <1>5 DEF TapNetwork
  <2>2. EnteringOK'
    BY <2>1 DEF EnteringOK
  <2>3. QED
    BY <2>1, <2>2, LookingKeeps
<1>6. ASSUME NEW p \in Passphrases \cup {NoPassword}, TapConnect(p) \/ Enter(p)
      PROVE  FullInv' /\ AppInv'
  <2>1. CASE TapConnect(p)
    <3>1. drawn.screen = "password" /\ Connects(p, drawn.rows[1]) /\ entering
      BY <2>1 DEF TapConnect, Connects
    <3>2. snapshot.stage = "networks" /\ drawn.rows[1] = asked
      BY <1>1, <3>1 DEF EnteringOK
    <3>3. QED
      BY <3>1, <3>2, ConnectsKeeps
  <2>2. CASE Enter(p)
    <3>1. Screen = "password" /\ Connects(p, asked)
      BY <2>2 DEF Enter
    <3>2. snapshot.stage = "networks"
      BY <3>1 DEF Screen, ScreenFor
    <3>3. QED
      BY <3>1, <3>2, ConnectsKeeps
  <2>3. QED
    BY <1>6, <2>1, <2>2
<1>7. CASE TapRescan
  BY <1>7, TapRescanKeeps
<1>8. CASE Back
  <2>1. CASE GoSearch
    BY <2>1, GoSearchKeeps
  <2>2. CASE entering' = FALSE /\ UNCHANGED <<vars, snapshot, awaiting, meant>>
    BY <2>2, LookingKeeps DEF EnteringOK
  <2>3. QED
    BY <1>8, <2>1, <2>2 DEF Back
<1>9. QED
  BY <1>2, <1>3, <1>4, <1>5, <1>6, <1>7, <1>8 DEF Tap
-------------------------------------------------------------------------------
(* on_session(), draw() and destroy().                                     *)

(* A report on the last command that says how it ended is told at rest.    *)
LEMMA ReportRests ==
    ASSUME FullInv, slot.sequence <= shared.command, shared.stage \in Over
    PROVE  Resting
<1>1. Before
  BY BeforeHolds
<1>2. shared \in Snapshots /\ Fits(pc, work, here) /\ shared.stage = work.stage
  BY <1>1, BeforeFacts
<1>3. pc \notin FlowPlaces
  <2>1. work.stage \in Over
    BY <1>2
  <2>2. Announced(pc, work.stage) /\ pc \in Labels
    BY <1>2 DEF Fits
  <2>3. QED
    BY <2>1, <2>2
    DEF Announced, Over, FlowPlaces, Labels, Timed, SearchPlaces, FindingPlaces, SavingPlaces,
        Commands, Requests
<1>4. /\ slot \in Slots(Int, Passphrases \cup {NoPassword}) /\ current \in Nat
      /\ current <= slot.pending /\ slot.pending <= slot.sequence
      /\ slot.command \in Requests => current < slot.pending
      /\ shared.command <= current
      /\ pc \in Requests => shared.command < current
  BY DEF FullInv, NumbersOK, FlowInv, ReportsOK
<1>5. slot.command \notin Requests /\ pc \notin Requests
  <2> DEFINE told == shared.command
             sent == slot.sequence
             pending == slot.pending
  <2>1. told \in Nat /\ sent \in Nat /\ pending \in Nat /\ current \in Nat
    BY <1>2, <1>4 DEF Snapshots, Slots
  <2>2. /\ sent <= told /\ told <= current /\ current <= pending /\ pending <= sent
        /\ slot.command \in Requests => current < pending
        /\ pc \in Requests => told < current
    BY <1>4
  <2> HIDE DEF told, sent, pending
  <2>3. ~(current < pending) /\ ~(told < current)
    BY <2>1, <2>2
  <2>4. QED
    BY <2>2, <2>3
<1>6. slot.command \in Commands /\ pc \in Labels
  BY <1>2, <1>4 DEF Slots, Fits
<1>7. pc # "none"
  BY <1>6 DEF Labels, Commands, Requests, Timed
<1>8. pc \in Restful
  BY <1>3, <1>5, <1>6, <1>7 DEF FlowPlaces, Restful, Commands
<1>9. QED
  BY <1>5, <1>6, <1>8 DEF Resting, Commands

LEMMA OnSessionKeeps ==
    ASSUME AppBefore, OnSession
    PROVE  FullInv' /\ AppInv'
<1> USE DEF AppBefore
<1>1. UNCHANGED <<vars, awaiting, chosen, drawn, meant>>
  BY DEF OnSession
<1>2. CASE UNCHANGED <<snapshot, entering, asked>>
  BY <1>1, <1>2, LookingKeeps DEF EnteringOK, AppInv
<1>3. CASE /\ ~(shared.command < awaiting) /\ snapshot' = shared
           /\ entering' = (/\ entering
                           /\ shared.stage = "networks"
                           /\ chosen \in DOMAIN shared.networks
                           /\ shared.networks[chosen] = asked)
           /\ asked' = IF shared.stage = "done" THEN NoNetwork ELSE asked
  <2>1. UNCHANGED <<slot, shared, work, here, pc>> /\ FullInv'
    BY <1>1, StepFits DEF vars
  <2>2. shared \in Snapshots
    BY BeforeHolds, BeforeFacts
  <2>3. slot.sequence <= shared.command
    <3>1. shared.command \in Nat /\ slot.sequence \in Nat /\ awaiting = slot.sequence
      BY <2>2 DEF FullInv, NumbersOK, Slots, Snapshots, AppInv
    <3>2. QED
      BY <1>3, <3>1
  <2>4. shared.stage \in Over => Resting
    BY <2>3, ReportRests
  <2>5. ScreenOK'
    BY <1>3, <2>1, <2>4 DEF ScreenOK, Resting
  <2>6. ListedOK' /\ ToldOK'
    BY <1>3, <2>1 DEF ListedOK, ToldOK, AppInv
  <2>7. EnteringOK'
    <3>1. ASSUME entering' PROVE /\ chosen' \in DOMAIN snapshot'.networks
                                 /\ snapshot'.networks[chosen'] = asked'
                                 /\ snapshot'.stage = "networks" /\ asked' = asked /\ entering
      BY <1>1, <1>3, <3>1
    <3>2. QED
      BY <1>1, <3>1 DEF EnteringOK, AppInv
  <2>8. JoinOK'
    BY <1>1, <2>1 DEF JoinOK, JoinTaken, JoinStarted, JoinsAsShown, AppInv
  <2>9. QED
    BY <1>1, <1>3, <2>1, <2>2, <2>5, <2>6, <2>7, <2>8 DEF AppInv
<1>4. QED
  BY <1>2, <1>3 DEF OnSession

(* A frame is drawn from the snapshot: its password row is the one chosen. *)
LEMMA DrawKeeps ==
    ASSUME AppBefore, Draw
    PROVE  FullInv' /\ AppInv'
<1>1. drawn' = View /\ UNCHANGED <<vars, snapshot, awaiting, entering, chosen, asked, meant>>
  BY DEF Draw
<1>2. EnteringOK'
  <2> SUFFICES ASSUME entering
               PROVE  /\ chosen \in DOMAIN snapshot.networks /\ snapshot.networks[chosen] = asked
                      /\ View.screen = "password" =>
                           snapshot.stage = "networks" /\ View.rows[1] = asked
    BY <1>1 DEF EnteringOK
  <2>1. chosen \in DOMAIN snapshot.networks /\ snapshot.networks[chosen] = asked
    BY DEF AppBefore, AppInv, EnteringOK
  <2>2. ASSUME View.screen = "password" PROVE snapshot.stage = "networks" /\ View.rows[1] = asked
    <3>1. Screen = "password"
      BY <2>2 DEF View
    <3>2. View.rows = <<snapshot.networks[chosen]>>
      BY <3>1 DEF View
    <3>3. snapshot.stage = "networks"
      BY <3>1 DEF Screen, ScreenFor
    <3>4. QED
      BY <2>1, <3>2, <3>3
  <2>3. QED
    BY <2>1, <2>2
<1>3. QED
  BY <1>1, <1>2, LookingKeeps

LEMMA CloseKeeps ==
    ASSUME AppBefore, Close
    PROVE  FullInv' /\ AppInv'
<1> USE DEF AppBefore, AppInv
<1>1. Destroy /\ ScreenAlone
  BY DEF Close, ui, ScreenAlone
<1>2. FullInv'
  BY <1>1, StepFits DEF Next, Client
<1>3. slot' = Stopped(slot) /\ UNCHANGED <<shared, work, here, pc>>
  BY <1>1 DEF Destroy, Continue, With
<1>4. slot'.command = "stop" /\ slot'.sequence = slot.sequence
  BY <1>3 DEF Stopped, FullInv, NumbersOK, Slots
<1>5. UNCHANGED <<snapshot, awaiting, meant>>
  BY <1>1 DEF ScreenAlone
<1>6. ScreenOK' /\ ListedOK' /\ ToldOK'
  BY <1>3, <1>4, <1>5 DEF ScreenOK, Resting, ListedOK, ToldOK
<1>7. JoinOK'
  BY <1>4 DEF JoinOK, JoinTaken, JoinStarted, JoinsAsShown
<1>8. QED
  BY <1>1, <1>2, <1>4, <1>5, <1>6, <1>7, EnteringStays
-------------------------------------------------------------------------------
LEMMA AppInitFits == AppInit => AppBefore
<1> SUFFICES ASSUME AppInit PROVE AppBefore
  OBVIOUS
<1>1. Init /\ snapshot = NoSnapshot /\ awaiting = 0 /\ ~entering
  BY DEF AppInit
<1>2. FullInv
  BY <1>1, InitFits
<1>3. /\ slot = EmptySlot /\ shared = NoSnapshot /\ pc = "waiting"
      /\ NoSnapshot.stage = "searching" /\ slot.command = "none" /\ slot.sequence = 0
  BY <1>1 DEF Init, EmptySlot, NoSnapshot
<1>4. ScreenOK /\ ListedOK /\ ToldOK
  BY <1>1, <1>3 DEF ScreenOK, ListedOK, ToldOK, Over
<1>5. JoinOK
  BY <1>3 DEF JoinOK, JoinTaken, JoinStarted, JoinsAsShown
<1>6. QED
  BY <1>1, <1>2, <1>3, <1>4, <1>5, Empties DEF AppBefore, AppInv, EnteringOK

LEMMA AppStepFits == AppBefore /\ [AppNext]_appVars => AppBefore'
<1> SUFFICES ASSUME AppBefore, [AppNext]_appVars PROVE FullInv' /\ AppInv'
  BY DEF AppBefore
<1>1. CASE CreateApp
  BY <1>1, GoSearchKeeps DEF CreateApp
<1>2. CASE Tap
  BY <1>2, TapKeeps
<1>3. CASE OnSession \/ Draw \/ Close
  BY <1>3, OnSessionKeeps, DrawKeeps, CloseKeeps
<1>4. CASE Works(Worker) \/ Works(Tick) \/ Works(World)
  BY <1>4, WorkKeepsApp DEF Works, ScreenAlone
<1>5. CASE UNCHANGED appVars
  BY <1>5, LookingKeeps DEF appVars, EnteringOK, AppBefore, AppInv
<1>6. QED
  BY <1>1, <1>2, <1>3, <1>4, <1>5 DEF AppNext

LEMMA AppInvariant == AppSpec => []AppBefore
<1>1. AppInit => AppBefore
  BY AppInitFits
<1>2. AppBefore /\ [AppNext]_appVars => AppBefore'
  BY AppStepFits
<1>3. QED
  BY <1>1, <1>2, PTL DEF AppSpec

(* The Chromecast is given the network that the password screen named, and *)
(* it is the Chromecast whose networks were listed: the index that a tap   *)
(* sends still means the same when the worker takes it (choose(),          *)
(* connect(), on_session() and run_join()).                                *)
THEOREM JoinsStayAsShown == AppSpec => []JoinsAsShown
<1>1. AppBefore => JoinsAsShown
  BY DEF AppBefore, AppInv, JoinOK
<1>2. QED
  BY <1>1, AppInvariant, PTL

(* A screen on which a flow is over, or the device list, hides no Wi-Fi    *)
(* request that the phone still serves: the report on an earlier command   *)
(* is never shown as the end of a later one (on_session()).                *)
THEOREM ScreensRelease == AppSpec => []ScreenReleases
<1>1. AppBefore => ScreenReleases
  <2> SUFFICES ASSUME AppBefore, snapshot.stage \in {"devices", "done", "failed"}
               PROVE  android = {}
    BY DEF ScreenReleases
  <2>1. work.stage = shared.stage /\ HeldOK
    BY BeforeHolds, BeforeFacts DEF AppBefore
  <2>2. shared.stage = snapshot.stage
    BY DEF AppBefore, AppInv, ScreenOK, Over
  <2>3. held = NothingHeld
    BY <2>1, <2>2 DEF AppBefore, FullInv, FlowInv, SettledOK, Settled
  <2>4. QED
    BY <2>1, <2>3 DEF HeldOK, NothingHeld, OnlyHotspot, OnlyTarget, NoRequest
<1>2. QED
  BY <1>1, AppInvariant, PTL
===============================================================================
